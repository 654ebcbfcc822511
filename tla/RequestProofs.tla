---------------------------- MODULE RequestProofs ----------------------------
(***************************************************************************)
(* The requests of Gateway, for every number of shares, request IDs, slots *)
(* and wire IDs: an answer reaches the call it answers, none is forgotten, *)
(* nothing outlives its source and no slot is lost.  The argument rests on *)
(*   Control   what a handler still owes the viewer at each of its steps;  *)
(*   Linked    the viewer and the tables name each other;                  *)
(*   Waiting   a call that was sent is known until it is answered;         *)
(*   Reserved  the slot counted before a focus change is still free after. *)
(* With one holder of interest at a time these also give what GatewayPromise*)
(* promises the viewer: every step is one that Aggregate allows.           *)
(***************************************************************************)
EXTENDS GatewayProofs, GatewayPromise

USE MaxAttemptsAssumption, BoundsAssumption

(* The handler has taken a request of the viewer that it has not sent on   *)
(* or answered.                                                            *)
Handling == then.op \in {"dispatch", "respond"} /\ pc # "send"

Control ==
  pc # "done" =>
    /\ pc \in {"select", "ack", "reject"} => then.op = "select"
    /\ pc \in {"dispatch", "respond", "broadcast"} => then.op = pc
    /\ pc = "send" => then.op = "dispatch"
    /\ Handling => then.id \in Consumer
    /\ \A c \in Consumer : consumer[c] = Asked <=> Handling /\ then.id = c

(* Ordinary calls are numbered in order; one that the gateway still knows  *)
(* has a source and a deadline, and the viewer waits for it.               *)
Linked ==
  /\ \A k \in WireID : requestIDs[k] # Idle =>
       /\ k \in OrdinaryID /\ k <= requestSequence /\ consumer[requestIDs[k]] = k
       /\ pending[k] # Nobody /\ deadlines[k] # Never
  /\ \A k \in OrdinaryID : k > requestSequence => pending[k] = Nobody

LinkInv == TypeInv /\ Control /\ Linked

(***************************************************************************)
(* How a step may change the tables of requests.                           *)
(***************************************************************************)
(* It leaves them alone,                                                   *)
Quiet == UNCHANGED <<requestVars, consumer>>

(* or it removes sources and expires calls.                                *)
Removes(gone, expired) ==
  /\ gone \subseteq Source /\ expired \subseteq Outstanding
  /\ \A k \in expired : pending[k] \notin gone
  /\ Settle(gone, expired) /\ UNCHANGED requestSequence

(* A failed source is one that is removed.                                 *)
Fails(s) == /\ \E kind, age : Fail(s, kind, age)
            /\ pc' = "publish" /\ UNCHANGED <<requestSequence, surfaceActive, awaited>>

LEMMA WireIDs == OrdinaryID \cap {Idle, Asked} = {} /\ OrdinaryID \subseteq WireID
                 /\ InterestID \subseteq WireID /\ OrdinaryID \cap InterestID = {}
                 /\ IsFiniteSet(WireID) /\ Idle \notin Consumer
<1>1. IsFiniteSet(OrdinaryID)
  BY FS_Interval DEF OrdinaryID
<1>2. IsFiniteSet(InterestID)
  <2>1. -MaxInternal \in Int /\ -1 \in Int
    OBVIOUS
  <2> QED
    BY <2>1, FS_Interval DEF InterestID
<1>3. IsFiniteSet(WireID)
  BY <1>1, <1>2, FS_Union DEF WireID
<1>4. /\ \A k \in OrdinaryID : k \in Int /\ k >= 1
      /\ \A k \in InterestID : k \in Int /\ k < 0
      /\ \A c \in Consumer : c >= 1 /\ c \in Int
  BY DEF OrdinaryID, InterestID, Consumer
<1> QED
  BY <1>3, <1>4 DEF WireID, Idle, Asked

LEMMA HandlerChanges ==
  ASSUME TypeInv, Handler
  PROVE  \/ Quiet
         \/ \E s \in Source : Fails(s) \/ ReleaseInterest(s) \/ ActivateInterest(s)
         \/ DispatchRefused \/ Dispatch \/ Respond
<1> USE DEF Quiet, Fails, requestVars, viewerVars, WriteFails
<1>1. ASSUME Publish \/ Emit \/ InterestWaits \/ InterestSettles \/ SkipFence \/ AnswerFence
             \/ BroadcastEnds
      PROVE  Quiet
  BY <1>1
  DEF Publish, Emit, InterestWaits, InterestSettles, SkipFence, AnswerFence, BroadcastEnds
<1>2. ASSUME NEW s \in Source, InterestFails(s) PROVE Fails(s)
  BY <1>2 DEF InterestFails
<1>3. ASSUME SendFence PROVE Quiet \/ \E s \in Source : Fails(s)
  BY <1>3 DEF SendFence, TypeInv, TypeOK, SourceOrNobody
<1>4. ASSUME SendCall PROVE Quiet \/ \E s \in Source : Fails(s)
  BY <1>4 DEF SendCall, TypeInv, TargetsLive, Live
<1>5. ASSUME Reject PROVE \E s \in Source : Fails(s)
  BY <1>5 DEF Reject, TypeInv, TargetsLive, Live
<1>6. ASSUME NEW s \in Source, BroadcastTo(s) PROVE Quiet \/ Fails(s)
  BY <1>6 DEF BroadcastTo
<1> QED
  BY <1>1, <1>2, <1>3, <1>4, <1>5, <1>6 DEF Handler

LEMMA ViewerChanges ==
  ASSUME TypeInv, ViewerEvent
  PROVE  \/ Quiet
         \/ \E s \in Source : Fails(s)
         \/ \E c \in Consumer, t \in Source, focus \in BOOLEAN : Call(c, t, focus)
         \/ \E c \in Consumer, on \in BOOLEAN : SurfaceSet(c, on)
<1> USE DEF Quiet, Fails, requestVars, viewerVars, WriteFails
<1>1. ASSUME NEW c \in Consumer, RefuseCall(c) PROVE Quiet
  BY <1>1 DEF RefuseCall, vars
<1>2. ASSUME NEW token \in 0..MaxToken, SyncFence(token) PROVE Quiet
  BY <1>2 DEF SyncFence, vars
<1>3. ASSUME Broadcast PROVE Quiet
  BY <1>3 DEF Broadcast
<1>4. ASSUME Input \/ Resize PROVE Quiet \/ \E s \in Source : Fails(s)
  BY <1>4 DEF Input, Resize, vars, TypeInv, TypeOK, SourceOrNobody
<1> QED
  BY <1>1, <1>2, <1>3, <1>4 DEF ViewerEvent

LEMMA SourceChanges ==
  ASSUME NEW s \in Source, SourceEvent(s)
  PROVE  \/ Quiet \/ Fails(s)
         \/ \E k \in WireID : Reply(s, k) \/ LateReply(s, k) \/ GarbledReply(s, k)
                              \/ Acknowledge(s, k)
<1> USE DEF Quiet, Fails, requestVars, viewerVars
<1>1. ASSUME ProtocolViolation(s) \/ \E kind \in FailureKinds : SourceError(s, kind)
      PROVE  Fails(s)
  BY <1>1 DEF ProtocolViolation, SourceError
<1>2. ASSUME Opened(s) \/ LateEvent(s) \/ \E canSet \in BOOLEAN : Welcome(s, canSet)
      PROVE  Quiet
  BY <1>2 DEF Opened, LateEvent, Welcome
<1>3. ASSUME \/ \E revision \in 1..MaxProjection : Snapshot(s, revision)
             \/ \E e \in 0..MaxEffect : Effect(s, e)
             \/ \E token \in 0..MaxToken : FenceReady(s, token)
             \/ \E k \in WireID : Chunk(s, k)
      PROVE  Quiet
  BY <1>3 DEF Snapshot, Effect, FenceReady, Chunk
<1>4. ASSUME NEW proj, NEW base, NEW rev, FullSurface(s, proj, rev) \/ SurfacePatch(s, proj, base, rev)
      PROVE  Quiet
  BY <1>4 DEF FullSurface, SurfacePatch
<1> QED
  BY <1>1, <1>2, <1>3, <1>4 DEF SourceEvent

(* The four ways together, with the two that pass over every source.       *)
LEMMA Changes ==
  ASSUME TypeInv, Next
  PROVE  \/ Quiet
         \/ \E s \in Source : Fails(s) \/ ReleaseInterest(s) \/ ActivateInterest(s)
         \/ DispatchRefused \/ Dispatch \/ Respond
         \/ \E c \in Consumer, t \in Source, focus \in BOOLEAN : Call(c, t, focus)
         \/ \E c \in Consumer, on \in BOOLEAN : SurfaceSet(c, on)
         \/ \E s \in Source, k \in WireID :
              Reply(s, k) \/ LateReply(s, k) \/ GarbledReply(s, k) \/ Acknowledge(s, k)
         \/ \E renamed \in BOOLEAN : Refresh(renamed)
         \/ Elapse
<1>1. CatalogEvent \/ End => Quiet
  BY DEF CatalogEvent, PublishShare, UnpublishShare, End, Quiet, requestVars, viewerVars
<1> QED
  BY <1>1, HandlerChanges, ViewerChanges, SourceChanges DEF Next, Tick

LEMMA FailRemoves ==
  ASSUME NEW s \in Source, Fails(s) PROVE Removes({s}, {})
BY DEF Fails, Fail, Removes

LEMMA RefreshRemoves ==
  ASSUME NEW renamed, Refresh(renamed) PROVE Removes(Withdrawn \cup Unresponsive, Expired)
BY DEF Refresh, Removes, Withdrawn, Unresponsive, Expired, Live, Outstanding

-----------------------------------------------------------------------------
(***************************************************************************)
(* Removal answers what it drops, and only that.                           *)
(***************************************************************************)
LEMMA RemovalAnswers ==
  ASSUME LinkInv, NEW gone, NEW expired, Removes(gone, expired)
  PROVE  /\ \A c \in Consumer : consumer'[c] = Asked <=> consumer[c] = Asked
         /\ \A k \in WireID : \/ k \in Dropped(gone, expired) /\ pending'[k] = Nobody
                                 /\ requestIDs'[k] = Idle
                              \/ k \notin Dropped(gone, expired)
                                 /\ UNCHANGED <<pending[k], requestIDs[k], deadlines[k]>>
         /\ \A c \in Consumer : \/ consumer'[c] = consumer[c]
                                \/ consumer'[c] = Idle /\ consumer[c] \in Dropped(gone, expired)
                                   /\ requestIDs[consumer[c]] = c
         /\ \A k \in Dropped(gone, expired) :
              requestIDs[k] \in Consumer => consumer'[requestIDs[k]] = Idle
<1>1. TypeOK
  BY DEF LinkInv, TypeInv
<1>2. ASSUME NEW c \in Consumer, c \in Answered(gone, expired)
      PROVE  consumer[c] \in Dropped(gone, expired) /\ consumer[c] \in OrdinaryID
             /\ requestIDs[consumer[c]] = c
  <2>1. PICK k \in Dropped(gone, expired) : requestIDs[k] = c
    BY <1>2 DEF Answered
  <2>2. k \in WireID
    BY DEF Removes, Outstanding, Dropped
  <2>3. requestIDs[k] # Idle
    BY <2>1, WireIDs
  <2> QED
    BY <2>1, <2>2, <2>3 DEF LinkInv, Linked
<1>3. \A c \in Consumer : consumer'[c] = IF c \in Answered(gone, expired) THEN Idle ELSE consumer[c]
  BY <1>1 DEF Removes, Settle
<1>4. ASSUME NEW k \in WireID
      PROVE  /\ pending'[k] = IF k \in Dropped(gone, expired) THEN Nobody ELSE pending[k]
             /\ requestIDs'[k] = IF k \in Dropped(gone, expired) THEN Idle ELSE requestIDs[k]
             /\ deadlines'[k] = IF k \in Dropped(gone, expired) THEN Never ELSE deadlines[k]
  BY <1>1 DEF Removes, Settle
<1>5. \A k \in Dropped(gone, expired) : requestIDs[k] \in Answered(gone, expired)
  BY DEF Answered
<1> QED
  BY <1>2, <1>3, <1>4, <1>5, WireIDs DEF Idle, Asked

(***************************************************************************)
(* Control: what a handler owes the viewer.                                *)
(***************************************************************************)
(* A step that leaves the viewer's requests alone.                         *)
LEMMA ControlSame ==
  ASSUME LinkInv, pc # "done", UNCHANGED consumer,
         pc' = "done" \/ /\ pc' \in {"select", "ack", "reject"} => then'.op = "select"
                         /\ pc' \in {"dispatch", "respond", "broadcast"} => then'.op = pc'
                         /\ pc' # "send"
                         /\ Handling => then'.op = then.op /\ then'.id = then.id
                         /\ ~Handling => then'.op \notin {"dispatch", "respond"}
  PROVE  Control'
BY DEF LinkInv, Control, Handling

(* A step that removes sources and publishes.                              *)
LEMMA ControlRemoves ==
  ASSUME LinkInv, pc # "done", pc' \in {"publish", "select"},
         NEW gone, NEW expired, Removes(gone, expired),
         then' = then \/ (then'.op = "select" /\ ~Handling), pc # "send" \/ then'.op = "select",
         pc' = "select" => then'.op = "select"
  PROVE  Control'
<1>1. \A c \in Consumer : consumer'[c] = Asked <=> consumer[c] = Asked
  BY RemovalAnswers
<1>2. /\ Handling => then' = then
      /\ ~Handling => then'.op \notin {"dispatch", "respond"}
  BY DEF LinkInv, Control, Handling
<1> QED
  BY <1>1, <1>2 DEF LinkInv, Control, Handling

LEMMA ControlHandler == ASSUME LinkInv, Handler PROVE Control'
<1>0. TypeInv /\ Control /\ TypeOK /\ NoThen.op = "select"
  BY DEF LinkInv, TypeInv, NoThen
<1> USE DEF requestVars, viewerVars, Handling
<1>1. CASE Publish \/ Emit \/ InterestWaits \/ InterestSettles
  BY <1>0, <1>1, ControlSame
  DEF Publish, Emit, InterestWaits, InterestSettles, Syncing, SyncReturns, Control
<1>2. CASE SkipFence \/ AnswerFence
  BY <1>0, <1>2, ControlSame DEF SkipFence, AnswerFence, TypeOK, Control
<1>3. ASSUME NEW s \in Source, ReleaseInterest(s) \/ ActivateInterest(s) PROVE Control'
  BY <1>0, <1>3, ControlSame
  DEF ReleaseInterest, ActivateInterest, SetInterest, Syncing, SyncReturns, Control
<1>4. ASSUME NEW s \in Source, InterestFails(s) PROVE Control'
  <2>1. Fails(s) /\ then' = then /\ pc \in {"sync", "ack"}
    BY <1>4 DEF InterestFails, Fails, Syncing
  <2> QED
    BY <2>1, FailRemoves, ControlRemoves DEF Fails
<1>5. CASE SendFence
  <2>1. CASE WriteFails(active)
    <3>1. Fails(active) /\ active \in Source /\ then' = then /\ pc = "fence"
      BY <1>0, <1>5, <2>1 DEF SendFence, WriteFails, Fails, TypeOK, SourceOrNobody
    <3> QED
      BY <3>1, FailRemoves, ControlRemoves DEF Fails
  <2>2. CASE ~WriteFails(active)
    BY <1>0, <1>5, <2>2, ControlSame DEF SendFence, TypeOK, Control
  <2> QED
    BY <2>1, <2>2
<1>6. CASE SendCall
  <2>1. CASE WriteFails(then.target)
    <3>1. Fails(then.target) /\ then.target \in Source /\ then' = NoThen /\ pc = "send"
      BY <1>0, <1>6, <2>1 DEF SendCall, WriteFails, Fails, TypeInv, TargetsLive, Live
    <3> QED
      BY <1>0, <3>1, FailRemoves, ControlRemoves DEF Fails
  <2>2. CASE ~WriteFails(then.target)
    BY <1>0, <1>6, <2>2, ControlSame DEF SendCall
  <2> QED
    BY <2>1, <2>2
<1>7. CASE Reject
  <2>1. Fails(then.target) /\ then.target \in Source /\ then' = NoThen /\ pc = "reject"
    BY <1>0, <1>7 DEF Reject, Fails, TypeInv, TargetsLive, Live
  <2> QED
    BY <1>0, <2>1, FailRemoves, ControlRemoves DEF Fails, Control
<1>8. ASSUME NEW s \in Source, BroadcastTo(s) PROVE Control'
  <2>1. /\ pc = "broadcast" /\ then.op = "broadcast" /\ then'.op = "broadcast"
    BY <1>0, <1>8 DEF BroadcastTo, Control, TypeOK
  <2>2. CASE WriteFails(s)
    <3>1. Fails(s) /\ \A c \in Consumer : consumer[c] # Asked
      BY <1>0, <2>1, <2>2 DEF WriteFails, Fails, Control
    <3>2. \A c \in Consumer : consumer'[c] # Asked
      BY <3>1, FailRemoves, RemovalAnswers
    <3> QED
      BY <2>1, <3>1, <3>2 DEF Control, Fails
  <2>3. CASE ~WriteFails(s)
    BY <1>8, <2>1, <2>3, ControlSame DEF BroadcastTo
  <2> QED
    BY <2>2, <2>3
<1>9. CASE BroadcastEnds
  BY <1>0, <1>9, ControlSame DEF BroadcastEnds, Control
<1>10. CASE DispatchRefused \/ Respond
  BY <1>0, <1>10 DEF DispatchRefused, Respond, Control, TypeOK, Idle, Asked
<1>11. CASE Dispatch
  <2>1. then.id \in Consumer /\ consumer' = [consumer EXCEPT ![then.id] = requestSequence + 1]
        /\ pc' = "send" /\ then' = then /\ pc = "dispatch" /\ then.op = "dispatch"
    BY <1>0, <1>11 DEF Dispatch, NextSequence, Control
  <2>2. requestSequence + 1 # Asked
    BY <1>0 DEF TypeOK, Asked
  <2> QED
    BY <1>0, <2>1, <2>2 DEF Control, TypeOK
<1> QED
  BY <1>1, <1>2, <1>3, <1>4, <1>5, <1>6, <1>7, <1>8, <1>9, <1>10, <1>11 DEF Handler

LEMMA ControlViewer == ASSUME LinkInv, ViewerEvent PROVE Control'
<1>0. TypeInv /\ Control /\ TypeOK /\ NoThen.op = "select"
  BY DEF LinkInv, TypeInv, NoThen
<1> USE DEF requestVars, viewerVars, Handling, Client
<1>1. ASSUME NEW c \in Consumer, NEW t \in Source, NEW focus \in BOOLEAN, Call(c, t, focus)
      PROVE  Control'
  <2>1. /\ consumer' = [consumer EXCEPT ![c] = Asked] /\ then'.op = "dispatch"
        /\ then'.id = c /\ pc' \in {"publish", "dispatch"} /\ pc = "select"
    BY <1>1 DEF Call
  <2> QED
    BY <1>0, <2>1 DEF Control, TypeOK
<1>2. ASSUME NEW c \in Consumer, NEW on \in BOOLEAN, SurfaceSet(c, on) PROVE Control'
  <2>1. /\ consumer' = [consumer EXCEPT ![c] = Asked] /\ then'.op = "respond"
        /\ then'.id = c /\ pc' = "publish" /\ pc = "select"
    BY <1>2 DEF SurfaceSet, NoThen
  <2> QED
    BY <1>0, <2>1 DEF Control, TypeOK
<1>3. CASE UNCHANGED vars
  BY <1>0, <1>3 DEF vars, Control
<1>4. ASSUME NEW token \in 0..MaxToken, SyncFence(token) PROVE Control'
  BY <1>0, <1>3, <1>4, ControlSame DEF SyncFence, Control
<1>5. CASE Input \/ Resize
  <2>1. CASE WriteFails(active) /\ then' = then /\ pc = "select" /\ active # Nobody
    <3>1. Fails(active) /\ active \in Source
      BY <1>0, <2>1 DEF WriteFails, Fails, TypeOK, SourceOrNobody
    <3> QED
      BY <1>0, <2>1, <3>1, FailRemoves, ControlRemoves DEF Fails
  <2>2. CASE pc = "select" /\ UNCHANGED <<loopVars, consumer>>
    BY <1>0, <2>2 DEF loopVars, Control
  <2> QED
    BY <1>3, <1>5, <2>1, <2>2 DEF Input, Resize
<1>6. CASE Broadcast
  <2>1. then'.op = "broadcast"
    BY <1>6 DEF Broadcast, NoThen
  <2> QED
    BY <1>0, <1>6, <2>1, ControlSame DEF Broadcast, Control
<1> QED
  BY <1>1, <1>2, <1>3, <1>4, <1>5, <1>6 DEF ViewerEvent, RefuseCall

LEMMA ControlSource == ASSUME LinkInv, NEW s \in Source, SourceEvent(s) PROVE Control'
<1>0. TypeInv /\ Control /\ TypeOK /\ Linked
  BY DEF LinkInv, TypeInv
<1>1. pc = "select"
  BY DEF SourceEvent, Upstream, Opened, ProtocolViolation, LateEvent, SourceError, Welcome,
         Snapshot, FullSurface, SurfacePatch, Effect, FenceReady, Chunk, Reply, LateReply,
         GarbledReply, Acknowledge
<1>2. then.op = "select" /\ \A c \in Consumer : consumer[c] # Asked
  BY <1>0, <1>1 DEF Control, Handling
<1>3. ASSUME pc' \in {"select", "publish", "ack", "reject"}, then'.op = "select",
             \A c \in Consumer : consumer'[c] # Asked
      PROVE  Control'
  BY <1>3 DEF Control, Handling
<1>4. CASE ProtocolViolation(s) \/ \E kind \in FailureKinds : SourceError(s, kind)
  <2>1. Fails(s) /\ then' = then /\ pc' = "publish"
    BY <1>4 DEF ProtocolViolation, SourceError, Fails
  <2>2. \A c \in Consumer : consumer'[c] # Asked
    BY <1>2, <2>1, FailRemoves, RemovalAnswers
  <2> QED
    BY <1>2, <1>3, <2>1, <2>2
<1>5. CASE \/ Opened(s) \/ LateEvent(s) \/ \E canSet \in BOOLEAN : Welcome(s, canSet)
           \/ \E e \in 0..MaxEffect : Effect(s, e)
           \/ \E token \in 0..MaxToken : FenceReady(s, token)
           \/ \E revision \in 1..MaxProjection : Snapshot(s, revision)
  BY <1>1, <1>2, <1>3, <1>5
  DEF Opened, LateEvent, Welcome, Effect, FenceReady, Snapshot, loopVars, viewerVars
<1>6. ASSUME NEW proj, NEW base, NEW rev, FullSurface(s, proj, rev) \/ SurfacePatch(s, proj, base, rev)
      PROVE  Control'
  BY <1>1, <1>2, <1>3, <1>6 DEF FullSurface, SurfacePatch, loopVars, viewerVars
<1>7. ASSUME NEW k \in WireID, Chunk(s, k) \/ LateReply(s, k) \/ Acknowledge(s, k)
      PROVE  Control'
  BY <1>1, <1>2, <1>3, <1>7 DEF Chunk, LateReply, Acknowledge, loopVars, viewerVars
<1>8. ASSUME NEW k \in WireID, Reply(s, k) PROVE Control'
  <2>1. \A c \in Consumer : consumer'[c] # Asked
    BY <1>0, <1>2, <1>8 DEF Reply, TypeOK, Idle, Asked
  <2> QED
    BY <1>1, <1>2, <1>3, <1>8, <2>1 DEF Reply, loopVars
<1>9. ASSUME NEW k \in WireID, GarbledReply(s, k) PROVE Control'
  BY <1>1, <1>2, <1>3, <1>9 DEF GarbledReply, NoThen, viewerVars
<1> QED
  BY <1>4, <1>5, <1>6, <1>7, <1>8, <1>9 DEF SourceEvent

LEMMA ControlStep == LinkInv /\ [Next]_vars => Control'
<1> SUFFICES ASSUME LinkInv, [Next]_vars PROVE Control'
  OBVIOUS
<1>1. ASSUME NEW renamed \in BOOLEAN, Refresh(renamed) PROVE Control'
  <2>1. pc = "select" /\ then' = then /\ then.op = "select" /\ pc' \in {"publish", "select"}
    BY <1>1 DEF Refresh, LinkInv, Control
  <2> QED
    BY <1>1, <2>1, RefreshRemoves, ControlRemoves
<1>2. CASE Elapse \/ CatalogEvent
  BY <1>2 DEF Elapse, CatalogEvent, PublishShare, UnpublishShare, viewerVars, loopVars,
     LinkInv, Control, Handling
<1>3. CASE End
  BY <1>3 DEF End, Control
<1>4. CASE UNCHANGED vars
  BY <1>4 DEF vars, LinkInv, Control, Handling
<1> QED
  BY <1>1, <1>2, <1>3, <1>4, ControlHandler, ControlViewer, ControlSource DEF Next, Tick

-----------------------------------------------------------------------------
(***************************************************************************)
(* Linked: the viewer and the tables name each other.                      *)
(***************************************************************************)
LEMMA LinkedStep == LinkInv /\ [Next]_vars => Linked'
<1> SUFFICES ASSUME LinkInv, [Next]_vars PROVE Linked'
  OBVIOUS
<1>0. TypeInv /\ TypeOK /\ Control /\ Linked
  BY DEF LinkInv, TypeInv
<1>1. CASE Quiet \/ UNCHANGED vars
  BY <1>0, <1>1 DEF Quiet, requestVars, vars, Linked
<1>2. ASSUME NEW gone, NEW expired, Removes(gone, expired) PROVE Linked'
  <2>1. UNCHANGED requestSequence
    BY <1>2 DEF Removes
  <2>2. ASSUME NEW k \in WireID, requestIDs'[k] # Idle
        PROVE  /\ requestIDs[k] # Idle /\ consumer'[requestIDs'[k]] = k
               /\ UNCHANGED <<pending[k], requestIDs[k], deadlines[k]>>
    <3>1. /\ k \notin Dropped(gone, expired)
          /\ UNCHANGED <<pending[k], requestIDs[k], deadlines[k]>>
      BY <1>2, <2>2, RemovalAnswers
    <3>2. requestIDs[k] \in Consumer /\ consumer[requestIDs[k]] = k
      BY <1>0, <2>2, <3>1 DEF Linked, TypeOK
    <3>3. consumer'[requestIDs[k]] = k
      BY <1>2, <3>1, <3>2, RemovalAnswers
    <3> QED
      BY <2>2, <3>1, <3>3
  <2>3. \A k \in WireID : pending[k] = Nobody => pending'[k] = Nobody
    BY <1>2, RemovalAnswers
  <2> QED
    BY <1>0, <2>1, <2>2, <2>3, WireIDs DEF Linked
<1>3. ASSUME NEW s \in Source, ReleaseInterest(s) \/ ActivateInterest(s) PROVE Linked'
  <2>1. PICK k \in InterestID : /\ pending' = [pending EXCEPT ![k] = s]
                                /\ deadlines' = [deadlines EXCEPT ![k] = OpTimeout]
                                /\ UNCHANGED <<requestIDs, requestSequence, consumer>>
    BY <1>3 DEF ReleaseInterest, ActivateInterest, SetInterest, viewerVars
  <2> QED
    BY <1>0, <2>1, WireIDs DEF Linked, TypeOK
<1>4. ASSUME NEW c \in Consumer, NEW v \in {Idle, Asked}, consumer[c] \in {Idle, Asked},
             consumer' = [consumer EXCEPT ![c] = v], UNCHANGED requestVars
      PROVE  Linked'
  BY <1>0, <1>4, WireIDs DEF Linked, TypeOK, requestVars
<1>5. CASE DispatchRefused \/ Respond
  <2>1. then.id \in Consumer /\ consumer[then.id] = Asked
    BY <1>0, <1>5 DEF DispatchRefused, Respond, Control, Handling
  <2> QED
    BY <1>4, <1>5, <2>1 DEF DispatchRefused, Respond
<1>6. CASE \/ \E c \in Consumer, t \in Source, focus \in BOOLEAN : Call(c, t, focus)
           \/ \E c \in Consumer, on \in BOOLEAN : SurfaceSet(c, on)
  BY <1>4, <1>6 DEF Call, SurfaceSet
<1>7. CASE Dispatch
  <2> DEFINE k == requestSequence + 1
  <2>1. /\ then.id \in Consumer /\ consumer[then.id] = Asked /\ then.target \in Source
        /\ k \in OrdinaryID /\ k \in WireID
    BY <1>0, <1>7 DEF Dispatch, Control, Handling, Live, TypeOK, OrdinaryID, WireID
  <2>2. /\ requestSequence' = k /\ pending' = [pending EXCEPT ![k] = then.target]
        /\ requestIDs' = [requestIDs EXCEPT ![k] = then.id]
        /\ deadlines' = [deadlines EXCEPT ![k] = OpTimeout]
        /\ consumer' = [consumer EXCEPT ![then.id] = k]
    BY <1>7 DEF Dispatch, NextSequence
  <2>3. ASSUME NEW j \in WireID, j # k, requestIDs'[j] # Idle
        PROVE  /\ j \in OrdinaryID /\ j <= requestSequence' /\ consumer'[requestIDs'[j]] = j
               /\ pending'[j] # Nobody /\ deadlines'[j] # Never
    <3>1. requestIDs[j] # Idle /\ requestIDs'[j] = requestIDs[j]
      BY <1>0, <2>2, <2>3 DEF TypeOK
    <3>2. j \in OrdinaryID /\ j <= requestSequence /\ consumer[requestIDs[j]] = j
          /\ pending[j] # Nobody /\ deadlines[j] # Never
      BY <1>0, <3>1 DEF Linked
    <3>3. requestIDs[j] # then.id
      BY <2>1, <3>2, WireIDs
    <3>4. consumer'[requestIDs'[j]] = j
      BY <1>0, <2>2, <3>1, <3>2, <3>3 DEF TypeOK
    <3>5. j <= requestSequence'
      BY <1>0, <2>2, <3>2 DEF TypeOK, OrdinaryID
    <3> QED
      BY <1>0, <2>2, <2>3, <3>2, <3>4, <3>5 DEF TypeOK
  <2>4. consumer'[requestIDs'[k]] = k /\ pending'[k] # Nobody /\ deadlines'[k] # Never
        /\ k <= requestSequence'
    BY <1>0, <2>1, <2>2 DEF TypeOK, Source, Nobody, Never
  <2>5. \A j \in OrdinaryID : j > requestSequence' => pending'[j] = Nobody
    BY <1>0, <2>2 DEF TypeOK, OrdinaryID, Linked
  <2> HIDE DEF k
  <2> QED
    BY <2>1, <2>3, <2>4, <2>5 DEF Linked
<1>8. ASSUME NEW s \in Source, NEW k \in WireID, LateReply(s, k) PROVE Linked'
  BY <1>0, <1>8 DEF LateReply, Linked, viewerVars
<1>9. ASSUME NEW k \in WireID, Forget(k), UNCHANGED requestSequence,
             \A c \in Consumer : c # requestIDs[k] => consumer'[c] = consumer[c]
      PROVE  Linked'
  <2>1. /\ pending' = [pending EXCEPT ![k] = Nobody]
        /\ deadlines' = [deadlines EXCEPT ![k] = Never]
        /\ requestIDs' = [requestIDs EXCEPT ![k] = Idle]
    BY <1>9 DEF Forget
  <2>2. ASSUME NEW j \in WireID, requestIDs'[j] # Idle
        PROVE  j # k /\ requestIDs[j] # Idle /\ consumer'[requestIDs[j]] = j
               /\ requestIDs'[j] = requestIDs[j]
    <3>1. j # k /\ requestIDs[j] # Idle /\ requestIDs'[j] = requestIDs[j]
      BY <1>0, <2>1, <2>2 DEF TypeOK
    <3>2. consumer[requestIDs[j]] = j /\ requestIDs[j] \in Consumer
      BY <1>0, <3>1 DEF Linked, TypeOK
    <3>3. requestIDs[j] # requestIDs[k]
      BY <1>0, <3>1, <3>2 DEF Linked
    <3> QED
      BY <1>9, <3>1, <3>2, <3>3
  <2> QED
    BY <1>0, <1>9, <2>1, <2>2 DEF Linked, TypeOK
<1>10. ASSUME NEW s \in Source, NEW k \in WireID,
              Reply(s, k) \/ GarbledReply(s, k) \/ Acknowledge(s, k)
       PROVE  Linked'
  <2>1. Forget(k) /\ UNCHANGED requestSequence
    BY <1>10 DEF Reply, GarbledReply, Acknowledge
  <2>2. consumer' = consumer \/ consumer' = [consumer EXCEPT ![requestIDs[k]] = Idle]
    BY <1>10 DEF Reply, GarbledReply, Acknowledge, viewerVars
  <2>3. \A c \in Consumer : c # requestIDs[k] => consumer'[c] = consumer[c]
    BY <1>0, <2>2 DEF TypeOK
  <2> QED
    BY <1>9, <2>1, <2>3
<1>11. CASE Elapse
  <2>1. \A k \in WireID : deadlines[k] # Never => deadlines'[k] # Never
    <3> SUFFICES ASSUME NEW k \in WireID, deadlines[k] # Never PROVE deadlines'[k] # Never
      OBVIOUS
    <3>1. deadlines[k] \in Never..OpTimeout /\ deadlines'[k] = Less(deadlines[k])
      BY <1>0, <1>11 DEF Elapse, TypeOK
    <3> QED
      BY <3>1 DEF Less, Never
  <2> QED
    BY <1>0, <1>11, <2>1 DEF Elapse, viewerVars, Linked
<1> QED
  BY <1>0, <1>1, <1>2, <1>3, <1>5, <1>6, <1>7, <1>8, <1>10, <1>11, Changes, FailRemoves,
     RefreshRemoves

LEMMA LinkInvariant == Spec => []LinkInv
<1>1. Init => LinkInv
  BY TypeInit, WireIDs
  DEF Init, LinkInv, Control, Handling, Linked, NoThen, Idle, Asked
<1>2. LinkInv /\ [Next]_vars => LinkInv'
  BY TypeStep, ControlStep, LinkedStep DEF LinkInv
<1> QED
  BY <1>1, <1>2, PTL DEF Spec

(***************************************************************************)
(* An answer reaches the call it answers: whatever expires, fails or is    *)
(* answered late, and however often the viewer uses a request ID again,    *)
(* what the gateway still maps to that ID is what the viewer waits for.    *)
(***************************************************************************)
THEOREM AnswersAlwaysReachTheirCall == Spec => []AnswersReachTheirCall
<1>1. LinkInv => AnswersReachTheirCall
  BY DEF LinkInv, Linked, AnswersReachTheirCall
<1> QED
  BY <1>1, LinkInvariant, PTL

-----------------------------------------------------------------------------
(***************************************************************************)
(* Waiting: a call that was sent is known until it is answered.  A final   *)
(* response that is garbled is the one exception, so it is left out.       *)
(***************************************************************************)
Waiting ==
  \A c \in Consumer : consumer[c] \in OrdinaryID => requestIDs[consumer[c]] = c

LEMMA WaitingStep ==
  ASSUME "garbled" \notin Inputs, LinkInv, Waiting, [Next]_vars PROVE Waiting'
<1>0. TypeInv /\ TypeOK /\ Control /\ Linked
  BY DEF LinkInv, TypeInv
<1>1. CASE Quiet \/ UNCHANGED vars
  BY <1>1 DEF Quiet, requestVars, vars, Waiting
<1>2. ASSUME NEW gone, NEW expired, Removes(gone, expired) PROVE Waiting'
  <2> SUFFICES ASSUME NEW c \in Consumer, consumer'[c] \in OrdinaryID
               PROVE  requestIDs'[consumer'[c]] = c
    BY DEF Waiting
  <2>1. consumer'[c] = consumer[c] /\ consumer[c] \in WireID
    BY <1>2, RemovalAnswers, WireIDs
  <2>2. requestIDs[consumer[c]] = c
    BY <2>1 DEF Waiting
  <2>3. consumer[c] \notin Dropped(gone, expired)
    BY <1>2, <2>1, <2>2, RemovalAnswers, WireIDs
  <2> QED
    BY <1>2, <2>1, <2>2, <2>3, RemovalAnswers
<1>3. ASSUME NEW s \in Source, ReleaseInterest(s) \/ ActivateInterest(s) PROVE Waiting'
  BY <1>3 DEF ReleaseInterest, ActivateInterest, SetInterest, viewerVars, Waiting
<1>4. ASSUME NEW c \in Consumer, NEW v \in {Idle, Asked},
             consumer' = [consumer EXCEPT ![c] = v], UNCHANGED requestVars
      PROVE  Waiting'
  BY <1>0, <1>4, WireIDs DEF Waiting, TypeOK, requestVars
<1>5. CASE DispatchRefused \/ Respond
  <2>1. then.id \in Consumer
    BY <1>0, <1>5 DEF DispatchRefused, Respond, Control, Handling
  <2> QED
    BY <1>4, <1>5, <2>1 DEF DispatchRefused, Respond
<1>6. CASE \/ \E c \in Consumer, t \in Source, focus \in BOOLEAN : Call(c, t, focus)
           \/ \E c \in Consumer, on \in BOOLEAN : SurfaceSet(c, on)
  BY <1>4, <1>6 DEF Call, SurfaceSet
<1>7. CASE Dispatch
  <2> DEFINE k == requestSequence + 1
  <2>1. then.id \in Consumer /\ k \in OrdinaryID /\ k \in WireID
    BY <1>0, <1>7 DEF Dispatch, Control, Handling, TypeOK, OrdinaryID, WireID
  <2>2. /\ requestIDs' = [requestIDs EXCEPT ![k] = then.id]
        /\ consumer' = [consumer EXCEPT ![then.id] = k]
    BY <1>7 DEF Dispatch, NextSequence
  <2>3. requestIDs[k] = Idle
    BY <1>0, <2>1 DEF Linked, TypeOK
  <2> HIDE DEF k
  <2> QED
    BY <1>0, <2>1, <2>2, <2>3, WireIDs DEF Waiting, TypeOK
<1>8. ASSUME NEW s \in Source, NEW k \in WireID, LateReply(s, k) PROVE Waiting'
  BY <1>8 DEF LateReply, Waiting, viewerVars
<1>9. ASSUME NEW s \in Source, NEW k \in WireID, Reply(s, k) PROVE Waiting'
  BY <1>0, <1>9, WireIDs DEF Reply, Forget, Waiting, TypeOK
<1>10. ASSUME NEW s \in Source, NEW k \in WireID, Acknowledge(s, k) PROVE Waiting'
  BY <1>0, <1>10, WireIDs DEF Acknowledge, Forget, Waiting, TypeOK, viewerVars
<1>11. CASE Elapse
  BY <1>11 DEF Elapse, viewerVars, Waiting
<1>12. \A s \in Source, k \in WireID : ~GarbledReply(s, k)
  BY DEF GarbledReply
<1> QED
  BY <1>0, <1>1, <1>2, <1>3, <1>5, <1>6, <1>7, <1>8, <1>9, <1>10, <1>11, <1>12, Changes,
     FailRemoves, RefreshRemoves

-----------------------------------------------------------------------------
(***************************************************************************)
(* Slots.                                                                  *)
(***************************************************************************)
(* A call that waits for the publish of its focus change has a slot left.  *)
Reserved == pc \notin {"done", "send"} /\ then.op = "dispatch" => ~AtCapacity

Load == Cardinality(Outstanding) + Cardinality(Retired)

LEMMA Finite ==
  /\ IsFiniteSet(Outstanding) /\ IsFiniteSet(Retired) /\ IsFiniteSet(Internal)
  /\ Cardinality(Outstanding) \in Nat /\ Cardinality(Retired) \in Nat
  /\ Cardinality(Internal) \in Nat
BY WireIDs, FS_Subset, FS_CardinalityType DEF Outstanding, Retired, Internal

LEMMA FinitePrime ==
  /\ IsFiniteSet(Outstanding') /\ IsFiniteSet(Retired') /\ IsFiniteSet(Internal')
  /\ Cardinality(Outstanding') \in Nat /\ Cardinality(Retired') \in Nat
  /\ Cardinality(Internal') \in Nat
BY WireIDs, FS_Subset, FS_CardinalityType DEF Outstanding, Retired, Internal

(* Calls that expire stay in the load, and it grows by nothing else.       *)
LEMMA LoadShrinks ==
  ASSUME NEW moved \in SUBSET Outstanding, Outstanding' \subseteq Outstanding \ moved,
         Retired' \subseteq Retired \cup moved
  PROVE  Load' <= Load /\ Load \in Nat /\ Load' \in Nat
<1>1. IsFiniteSet(moved) /\ Cardinality(moved) \in Nat
  BY Finite, FS_Subset, FS_CardinalityType
<1>2. Cardinality(Outstanding') <= Cardinality(Outstanding \ moved)
  BY Finite, FS_Difference, FS_Subset
<1>3. Cardinality(Outstanding \ moved) = Cardinality(Outstanding) - Cardinality(moved)
  <2>1. Outstanding \cap moved = moved
    OBVIOUS
  <2> QED
    BY <2>1, Finite, FS_Difference
<1>4. Cardinality(Retired') <= Cardinality(Retired \cup moved)
  BY <1>1, Finite, FS_Union, FS_Subset
<1>5. Cardinality(Retired \cup moved) <= Cardinality(Retired) + Cardinality(moved)
  <2>1. /\ Cardinality(Retired \cup moved)
             = Cardinality(Retired) + Cardinality(moved) - Cardinality(Retired \cap moved)
    BY <1>1, Finite, FS_Union
  <2>2. IsFiniteSet(Retired \cap moved) /\ Cardinality(Retired \cap moved) \in Nat
    BY <1>1, FS_Subset, FS_CardinalityType
  <2> QED
    BY <1>1, <2>1, <2>2, Finite
<1>6. IsFiniteSet(Outstanding \ moved) /\ IsFiniteSet(Retired \cup moved)
  BY <1>1, Finite, FS_Difference, FS_Union
<1>7. Cardinality(Outstanding \ moved) \in Nat /\ Cardinality(Retired \cup moved) \in Nat
  BY <1>6, FS_CardinalityType
<1> QED
  BY <1>1, <1>2, <1>3, <1>4, <1>5, <1>7, Finite, FinitePrime DEF Load

LEMMA LoadStep ==
  ASSUME LinkInv, Next, ~Dispatch PROVE Load' <= Load /\ Load \in Nat /\ Load' \in Nat
<1>0. TypeInv /\ TypeOK
  BY DEF LinkInv, TypeInv
<1>1. ASSUME UNCHANGED requestIDs, UNCHANGED retired
      PROVE  Load' <= Load /\ Load \in Nat /\ Load' \in Nat
  BY <1>1, LoadShrinks DEF Outstanding, Retired
<1>2. ASSUME NEW gone, NEW expired, Removes(gone, expired)
      PROVE  Load' <= Load /\ Load \in Nat /\ Load' \in Nat
  <2>1. Outstanding' \subseteq Outstanding \ expired
    BY <1>0, <1>2 DEF Removes, Settle, Dropped, Outstanding, TypeOK
  <2>2. Retired' \subseteq Retired \cup expired
    BY <1>0, <1>2 DEF Removes, Settle, RetiredAfter, Retired, TypeOK
  <2> QED
    BY <1>2, <2>1, <2>2, LoadShrinks DEF Removes
<1>3. ASSUME NEW s \in Source, NEW k \in WireID, LateReply(s, k)
      PROVE  Load' <= Load /\ Load \in Nat /\ Load' \in Nat
  <2>1. Outstanding' = Outstanding /\ Retired' \subseteq Retired
    BY <1>0, <1>3 DEF LateReply, Outstanding, Retired, TypeOK
  <2> QED
    BY <2>1, LoadShrinks
<1>4. ASSUME NEW k \in WireID, Forget(k), UNCHANGED retired
      PROVE  Load' <= Load /\ Load \in Nat /\ Load' \in Nat
  <2>1. Outstanding' \subseteq Outstanding /\ Retired' = Retired
    BY <1>0, <1>4 DEF Forget, Outstanding, Retired, TypeOK
  <2> QED
    BY <2>1, LoadShrinks
<1>5. Quiet \/ Elapse \/ DispatchRefused \/ Respond => UNCHANGED requestIDs /\ UNCHANGED retired
  BY DEF Quiet, Elapse, DispatchRefused, Respond, requestVars
<1>6. \A s \in Source : ReleaseInterest(s) \/ ActivateInterest(s) =>
        UNCHANGED requestIDs /\ UNCHANGED retired
  BY DEF ReleaseInterest, ActivateInterest, SetInterest
<1>7. \A c \in Consumer, t \in Source, x \in BOOLEAN :
        Call(c, t, x) \/ SurfaceSet(c, x) => UNCHANGED requestIDs /\ UNCHANGED retired
  BY DEF Call, SurfaceSet, requestVars
<1>8. \A s \in Source, k \in WireID : Reply(s, k) \/ GarbledReply(s, k) \/ Acknowledge(s, k) =>
        Forget(k) /\ UNCHANGED retired
  BY DEF Reply, GarbledReply, Acknowledge
<1>9. 1 \in Source
  BY DEF Source
<1> QED
  BY <1>0, <1>1, <1>2, <1>3, <1>4, <1>5, <1>6, <1>7, <1>8, <1>9, Changes, FailRemoves,
     RefreshRemoves

(* A handler that has a call to send on has had it all along.              *)
LEMMA StillHandled ==
  ASSUME LinkInv, Next, then'.op = "dispatch", pc' \notin {"done", "send"}
  PROVE  \/ then.op = "dispatch" /\ pc \notin {"done", "send"} /\ ~Dispatch
         \/ \E c \in Consumer, t \in Source, focus \in BOOLEAN : Call(c, t, focus)
<1>0. Control /\ TypeOK
  BY DEF LinkInv, TypeInv
<1>1. CASE Handler
  <2>1. /\ pc \notin {"done", "send"}
        /\ then' = then \/ then' = NoThen \/ then'.op = then.op
    BY <1>0, <1>1, NoThen.op = "select"
    DEF Handler, Publish, Emit, InterestWaits, InterestSettles, ReleaseInterest,
        ActivateInterest, SetInterest, InterestFails, SkipFence, AnswerFence, SendFence,
        DispatchRefused, Dispatch, SendCall, Respond, Reject, BroadcastTo, BroadcastEnds,
        Syncing, NoThen, TypeOK
  <2>2. ~Dispatch
    BY DEF Dispatch
  <2> QED
    BY <2>1, <2>2 DEF NoThen
<1>2. CASE ViewerEvent
  <2>1. pc = "select" /\ then.op = "select"
    BY <1>0, <1>2
    DEF ViewerEvent, Call, RefuseCall, SurfaceSet, SyncFence, Input, Resize, Broadcast, Client,
        Control
  <2> QED
    BY <1>2, <2>1
    DEF ViewerEvent, RefuseCall, SurfaceSet, SyncFence, Input, Resize, Broadcast, NoThen, vars,
        loopVars
<1>3. ASSUME NEW s \in Source, SourceEvent(s) PROVE FALSE
  <2>1. pc = "select" /\ then.op = "select"
    BY <1>0, <1>3
    DEF SourceEvent, Upstream, Opened, ProtocolViolation, LateEvent, SourceError, Welcome,
        Snapshot, FullSurface, SurfacePatch, Effect, FenceReady, Chunk, Reply, LateReply,
        GarbledReply, Acknowledge, Control
  <2> QED
    BY <1>3, <2>1
    DEF SourceEvent, Upstream, Opened, ProtocolViolation, LateEvent, SourceError, Welcome,
        Snapshot, FullSurface, SurfacePatch, Effect, FenceReady, Chunk, Reply, LateReply,
        GarbledReply, Acknowledge, NoThen, loopVars
<1>4. CASE Tick \/ Elapse \/ CatalogEvent \/ End
  BY <1>0, <1>4
  DEF Tick, Refresh, Elapse, CatalogEvent, PublishShare, UnpublishShare, End, Control, loopVars
<1> QED
  BY <1>1, <1>2, <1>3, <1>4 DEF Next

LEMMA SlotsStep ==
  ASSUME LinkInv, SlotsBounded, Reserved, [Next]_vars PROVE SlotsBounded' /\ Reserved'
<1>0. TypeInv /\ TypeOK /\ Control /\ Linked
  BY DEF LinkInv, TypeInv
<1>1. ASSUME Next PROVE Load' <= MaxRequests
  <2>1. CASE Dispatch
    <3> DEFINE k == requestSequence + 1
    <3>1. Load < MaxRequests
      BY <1>0, <2>1, Finite DEF Dispatch, Control, Reserved, AtCapacity, Load
    <3>2. Outstanding' \subseteq Outstanding \cup {k} /\ Retired' = Retired
      BY <1>0, <2>1 DEF Dispatch, NextSequence, Outstanding, Retired, TypeOK
    <3> HIDE DEF k
    <3>3. Cardinality(Outstanding') <= Cardinality(Outstanding) + 1
      <4>1. IsFiniteSet(Outstanding \cup {k})
            /\ Cardinality(Outstanding \cup {k}) <= Cardinality(Outstanding) + 1
        <5>1. IsFiniteSet(Outstanding) /\ Cardinality(Outstanding) \in Nat
          BY Finite
        <5>2. /\ IsFiniteSet(Outstanding \cup {k})
              /\ \/ Cardinality(Outstanding \cup {k}) = Cardinality(Outstanding)
                 \/ Cardinality(Outstanding \cup {k}) = Cardinality(Outstanding) + 1
          BY ONLY <5>1, FS_AddElement
        <5> QED
          BY ONLY <5>1, <5>2
      <4>2. Cardinality(Outstanding') <= Cardinality(Outstanding \cup {k})
        BY ONLY <3>2, <4>1, FS_Subset
      <4>3. Cardinality(Outstanding \cup {k}) \in Nat
        BY <4>1, FS_CardinalityType
      <4> QED
        BY <4>1, <4>2, <4>3, Finite, FinitePrime
    <3> QED
      BY <3>1, <3>2, <3>3, Finite, FinitePrime DEF Load
  <2>2. CASE ~Dispatch
    BY <1>1, <2>2, LoadStep DEF SlotsBounded, Load
  <2> QED
    BY <2>1, <2>2
<1>2. ASSUME Next PROVE Cardinality(Internal') <= MaxInternal
  <2>1. ASSUME NEW s \in Source, ReleaseInterest(s) \/ ActivateInterest(s)
        PROVE  Cardinality(Internal') <= MaxInternal
    <3>1. PICK k \in InterestID : /\ pending' = [pending EXCEPT ![k] = s]
                                  /\ UNCHANGED requestIDs
      BY <2>1 DEF ReleaseInterest, ActivateInterest, SetInterest
    <3>2. Cardinality(Internal) < MaxInternal
      BY <2>1 DEF ReleaseInterest, ActivateInterest, SetInterest, SlotFree
    <3> DEFINE T == Internal \cup {k}
    <3>3. Internal' \subseteq T
      BY <1>0, <3>1 DEF Internal, TypeOK
    <3>4. IsFiniteSet(T) /\ Cardinality(T) \in {Cardinality(Internal), Cardinality(Internal) + 1}
      BY Finite, FS_AddElement, Zenon
    <3> HIDE DEF T
    <3>5. Cardinality(Internal') <= Cardinality(T)
      BY <3>3, <3>4, FS_Subset
    <3>6. Cardinality(T) \in Nat
      BY <3>4, FS_CardinalityType
    <3> QED
      BY <3>2, <3>4, <3>5, <3>6, Finite, FinitePrime
  <2>2. ASSUME Internal' \subseteq Internal PROVE Cardinality(Internal') <= MaxInternal
    <3>1. Cardinality(Internal') <= Cardinality(Internal)
      BY <2>2, Finite, FS_Subset
    <3> QED
      BY <3>1, Finite, FinitePrime DEF SlotsBounded
  <2>3. ASSUME NEW gone, NEW expired, Removes(gone, expired) PROVE Internal' \subseteq Internal
    BY <1>0, <2>3, WireIDs
    DEF Removes, Settle, Dropped, Internal, Outstanding, TypeOK, SourceOrNobody, Source, Nobody
  <2>4. CASE Dispatch
    <3>1. then.id \in Consumer
      BY <1>0, <2>4 DEF Dispatch, Control, Handling
    <3> QED
      BY <1>0, <2>2, <2>4, <3>1, WireIDs DEF Dispatch, NextSequence, Internal, TypeOK
  <2>5. ASSUME NEW s \in Source, NEW k \in WireID,
               Reply(s, k) \/ LateReply(s, k) \/ GarbledReply(s, k) \/ Acknowledge(s, k)
        PROVE  Internal' \subseteq Internal
    BY <1>0, <2>5 DEF Reply, LateReply, GarbledReply, Acknowledge, Forget, Internal, TypeOK
  <2>6. ASSUME UNCHANGED <<pending, requestIDs>> PROVE Internal' \subseteq Internal
    BY <2>6 DEF Internal
  <2>7. Quiet \/ Elapse \/ DispatchRefused \/ Respond => UNCHANGED <<pending, requestIDs>>
    BY DEF Quiet, Elapse, DispatchRefused, Respond, requestVars
  <2>8. \A c \in Consumer, t \in Source, x \in BOOLEAN :
          Call(c, t, x) \/ SurfaceSet(c, x) => UNCHANGED <<pending, requestIDs>>
    BY DEF Call, SurfaceSet, requestVars
  <2>9. 1 \in Source
    BY DEF Source
  <2> QED
    BY <1>0, <1>2, <2>1, <2>2, <2>3, <2>4, <2>5, <2>6, <2>7, <2>8, <2>9, Changes, FailRemoves,
       RefreshRemoves
<1>3. ASSUME Next PROVE Reserved'
  <2> SUFFICES ASSUME then'.op = "dispatch", pc' \notin {"done", "send"}
               PROVE  Load' < MaxRequests
    BY Finite, FinitePrime DEF Reserved, AtCapacity, Load
  <2>1. CASE then.op = "dispatch" /\ pc \notin {"done", "send"} /\ ~Dispatch
    BY <1>3, <2>1, LoadStep DEF Reserved, AtCapacity, Load
  <2>2. ASSUME NEW c \in Consumer, NEW t \in Source, NEW focus \in BOOLEAN, Call(c, t, focus)
        PROVE  Load' < MaxRequests
    BY <2>2, Finite DEF Call, AtCapacity, Load, requestVars, Outstanding, Retired
  <2> QED
    BY <1>3, <2>1, <2>2, StillHandled
<1>4. CASE UNCHANGED vars
  BY <1>4 DEF vars, SlotsBounded, Reserved, AtCapacity, Outstanding, Retired, Internal
<1> QED
  BY <1>1, <1>2, <1>3, <1>4 DEF SlotsBounded, Load

-----------------------------------------------------------------------------
(***************************************************************************)
(* Nothing outlives its source.                                            *)
(***************************************************************************)
(* A backend stays, and so do the tables and the fence, or they name a     *)
(* live backend.                                                           *)
LEMMA OwnersKeep ==
  ASSUME LinkInv, NothingOutlivesItsSource, pc # "done", UNCHANGED <<pending, retired>>,
         fence'.source = fence.source \/ fence'.source = Nobody \/ fence'.source \in Live,
         \A t \in Source : /\ sources[t].live => sources'[t].live
                           /\ sources'[t].chunks \subseteq sources[t].chunks
  PROVE  NothingOutlivesItsSource'
BY DEF NothingOutlivesItsSource, Live

(* One backend may also gain chunks of its own pending requests.           *)
LEMMA OwnersUpdate ==
  ASSUME LinkInv, NothingOutlivesItsSource, pc # "done", NEW s \in Source, NEW b,
         sources' = [sources EXCEPT ![s] = b], b.live = sources[s].live,
         UNCHANGED fence,
         \A t \in WireID : /\ pending'[t] \in {pending[t], Nobody}
                           /\ retired'[t] \in {retired[t], Nobody}
                           /\ pending'[t] # pending[t] => pending[t] = s /\ t \notin b.chunks,
         \A k \in b.chunks : k \in WireID /\ pending[k] = s
  PROVE  NothingOutlivesItsSource'
<1>0. TypeOK
  BY DEF LinkInv, TypeInv
<1>1. \A t \in Source : t # s => sources'[t] = sources[t]
  BY <1>0 DEF TypeOK
<1>2. sources'[s] = b
  BY <1>0 DEF TypeOK
<1>3. Live' = Live
  BY <1>1, <1>2 DEF Live
<1>4. \A t \in Source : \A k \in sources'[t].chunks : k \in WireID /\ pending[k] = t
  <2> SUFFICES ASSUME NEW t \in Source, NEW k \in sources'[t].chunks
               PROVE  k \in WireID /\ pending[k] = t
    OBVIOUS
  <2>1. CASE t = s
    BY <1>2, <2>1
  <2>2. CASE t # s
    <3>1. sources[t].chunks \subseteq WireID
      BY <1>0 DEF TypeOK, Backend
    <3> QED
      BY <1>1, <2>2, <3>1 DEF NothingOutlivesItsSource
  <2> QED
    BY <2>1, <2>2
<1>5. \A t \in Source : \A k \in sources'[t].chunks : pending'[k] = t
  <2> SUFFICES ASSUME NEW t \in Source, NEW k \in sources'[t].chunks
               PROVE  pending'[k] = t
    OBVIOUS
  <2>1. k \in WireID /\ pending[k] = t
    BY <1>4
  <2>2. CASE pending'[k] # pending[k]
    <3>1. t = s /\ k \notin b.chunks
      BY <2>1, <2>2
    <3> QED
      BY <1>2, <3>1
  <2> QED
    BY <2>1, <2>2
<1>6. \A k \in WireID : /\ pending'[k] # Nobody => pending'[k] \in Live'
                        /\ retired'[k] # Nobody => retired'[k] \in Live'
  BY <1>3 DEF NothingOutlivesItsSource
<1>7. fence'.source # Nobody => fence'.source \in Live'
  BY <1>3 DEF NothingOutlivesItsSource
<1> QED
  BY <1>5, <1>6, <1>7 DEF NothingOutlivesItsSource

(* What a removal leaves belongs to the backends that stay.                *)
LEMMA OwnersRemoves ==
  ASSUME LinkInv, NothingOutlivesItsSource, pc # "done", NEW gone, NEW expired,
         Removes(gone, expired),
         \A t \in Source : IF t \in gone
           THEN sources'[t].chunks = {}
           ELSE /\ sources[t].live => sources'[t].live
                /\ sources'[t].chunks \subseteq sources[t].chunks \ expired
  PROVE  NothingOutlivesItsSource'
<1>0. TypeOK
  BY DEF LinkInv, TypeInv
<1>1. \A t \in Live \ gone : t \in Live'
  BY DEF Live
<1>2. ASSUME NEW k \in WireID, pending'[k] # Nobody PROVE pending'[k] \in Live'
  <2>1. pending'[k] = pending[k] /\ k \notin Dropped(gone, expired)
    BY <1>2, RemovalAnswers
  <2>2. pending[k] \in Live \ gone
    BY <1>2, <2>1 DEF NothingOutlivesItsSource, Dropped
  <2> QED
    BY <1>1, <2>1, <2>2
<1>3. ASSUME NEW k \in WireID, retired'[k] # Nobody PROVE retired'[k] \in Live'
  <2>1. retired' = RetiredAfter(gone, expired)
    BY DEF Removes, Settle
  <2>2. CASE k \in expired
    <3>1. retired'[k] = pending[k]
      BY <2>1, <2>2 DEF RetiredAfter
    <3>2. pending[k] \in Live
      BY <1>3, <3>1 DEF NothingOutlivesItsSource
    <3>3. pending[k] \notin gone
      BY <2>2 DEF Removes
    <3> QED
      BY <1>1, <3>1, <3>2, <3>3
  <2>3. CASE k \notin expired
    <3>1. retired'[k] = retired[k] /\ retired[k] \notin gone
      BY <1>3, <2>1, <2>3 DEF RetiredAfter
    <3> QED
      BY <1>1, <1>3, <3>1 DEF NothingOutlivesItsSource
  <2> QED
    BY <2>2, <2>3
<1>4. ASSUME fence'.source # Nobody PROVE fence'.source \in Live'
  <2>1. fence' = FenceAfter(gone) /\ fence \in FenceType
    BY <1>0 DEF Removes, Settle, TypeOK
  <2>2. fence'.source = fence.source /\ fence.source \notin gone
    BY <1>4, <2>1 DEF FenceAfter, FenceType
  <2> QED
    BY <1>1, <1>4, <2>2 DEF NothingOutlivesItsSource
<1>5. ASSUME NEW t \in Source, NEW k \in sources'[t].chunks PROVE pending'[k] = t
  <2>1. t \notin gone /\ k \in sources[t].chunks /\ k \notin expired
    BY <1>5
  <2>2. pending[k] = t /\ k \in WireID
    BY <1>0, <2>1 DEF NothingOutlivesItsSource, TypeOK, Backend
  <2>3. k \notin Dropped(gone, expired)
    BY <2>1, <2>2 DEF Dropped
  <2> QED
    BY <2>2, <2>3, RemovalAnswers
<1> QED
  BY <1>2, <1>3, <1>4, <1>5 DEF NothingOutlivesItsSource

LEMMA OwnersFails ==
  ASSUME LinkInv, NothingOutlivesItsSource, pc # "done", NEW s \in Source, Fails(s)
  PROVE  NothingOutlivesItsSource'
<1>1. sources' = [sources EXCEPT ![s] = NoBackend] /\ TypeOK
  BY DEF Fails, Fail, LinkInv, TypeInv
<1>2. \A t \in Source : IF t = s THEN sources'[t] = NoBackend ELSE sources'[t] = sources[t]
  BY <1>1 DEF TypeOK
<1>3. Removes({s}, {}) /\ NoBackend.chunks = {}
  BY FailRemoves DEF NoBackend
<1> QED
  BY <1>2, <1>3, OwnersRemoves

(* A request is made of a live backend, under an ID that was free.         *)
LEMMA OwnersGain ==
  ASSUME LinkInv, NothingOutlivesItsSource, pc # "done", NEW k \in WireID, NEW s \in Source,
         sources[s].live, pending[k] = Nobody, pending' = [pending EXCEPT ![k] = s],
         UNCHANGED <<retired, fence>>,
         \A t \in Source : /\ sources'[t].live = sources[t].live
                           /\ sources'[t].chunks = sources[t].chunks
  PROVE  NothingOutlivesItsSource'
<1>0. TypeOK /\ \A t \in Source : t # Nobody
  BY DEF LinkInv, TypeInv, Source, Nobody
<1>1. \A j \in WireID : j # k => pending'[j] = pending[j]
  BY <1>0 DEF TypeOK
<1>2. Live' = Live /\ s \in Live
  BY DEF Live
<1>3. pending'[k] = s
  BY <1>0 DEF TypeOK
<1>4. ASSUME NEW t \in Source, NEW j \in sources'[t].chunks PROVE pending'[j] = t
  <2>1. pending[j] = t /\ j \in WireID
    BY <1>0, <1>4 DEF NothingOutlivesItsSource, TypeOK, Backend
  <2> QED
    BY <1>0, <1>1, <2>1
<1>5. \A j \in WireID : /\ pending'[j] # Nobody => pending'[j] \in Live'
                        /\ retired'[j] # Nobody => retired'[j] \in Live'
  BY <1>1, <1>2, <1>3 DEF NothingOutlivesItsSource
<1> QED
  BY <1>2, <1>4, <1>5 DEF NothingOutlivesItsSource

LEMMA OwnersHandler ==
  ASSUME LinkInv, NothingOutlivesItsSource, Handler PROVE NothingOutlivesItsSource'
<1>0. TypeInv /\ TypeOK /\ Control /\ Linked
  BY DEF LinkInv, TypeInv
<1>1. ASSUME UNCHANGED <<pending, retired, sources>>, pc # "done",
             \/ fence'.source = fence.source \/ fence'.source = Nobody
             \/ fence'.source \in Live
      PROVE  NothingOutlivesItsSource'
  BY <1>1, OwnersKeep
<1> USE DEF requestVars, viewerVars
<1>2. CASE \/ Publish \/ Emit \/ InterestWaits \/ InterestSettles \/ SkipFence
           \/ DispatchRefused \/ Respond \/ BroadcastEnds
  BY <1>1, <1>2
  DEF Publish, Emit, InterestWaits, InterestSettles, SkipFence, DispatchRefused, Respond,
      BroadcastEnds, Syncing
<1>3. CASE AnswerFence
  BY <1>1, <1>3 DEF AnswerFence, NoFence
<1>4. ASSUME NEW s \in Source, Fails(s), pc # "done" PROVE NothingOutlivesItsSource'
  BY <1>4, OwnersFails
<1>5. ASSUME NEW s \in Source, InterestFails(s) PROVE NothingOutlivesItsSource'
  <2>1. Fails(s) /\ pc # "done"
    BY <1>5 DEF InterestFails, Fails, Syncing
  <2> QED
    BY <1>4, <2>1
<1>6. ASSUME NEW s \in Source, WriteFails(s), pc # "done" PROVE NothingOutlivesItsSource'
  <2>1. Fails(s)
    BY <1>6 DEF WriteFails, Fails
  <2> QED
    BY <1>4, <1>6, <2>1
<1>7. CASE SendFence
  <2>1. active \in Source /\ active \in Live /\ pc # "done"
    BY <1>0, <1>7 DEF SendFence, TypeInv, TargetsLive, Live
  <2>2. CASE WriteFails(active)
    BY <1>6, <2>1, <2>2
  <2>3. CASE ~WriteFails(active)
    <3>1. fence'.source = active /\ UNCHANGED <<pending, retired, sources>>
      BY <1>0, <1>7, <2>3 DEF SendFence, TypeOK, FenceType
    <3> QED
      BY <1>1, <2>1, <3>1
  <2> QED
    BY <2>2, <2>3
<1>8. CASE SendCall
  BY <1>0, <1>1, <1>6, <1>8 DEF SendCall, TypeInv, TargetsLive, Live
<1>9. CASE Reject
  <2>1. Fails(then.target) /\ then.target \in Source /\ pc # "done"
    BY <1>0, <1>9 DEF Reject, Fails, TypeInv, TargetsLive, Live
  <2> QED
    BY <1>4, <2>1
<1>10. ASSUME NEW s \in Source, BroadcastTo(s) PROVE NothingOutlivesItsSource'
  BY <1>1, <1>6, <1>10 DEF BroadcastTo
<1>11. CASE Dispatch
  <2> DEFINE k == requestSequence + 1
  <2>1. /\ k \in OrdinaryID /\ k > requestSequence /\ pc # "done"
        /\ then.target \in Source /\ sources[then.target].live
    BY <1>0, <1>11 DEF Dispatch, TypeOK, OrdinaryID, Live
  <2>2. /\ pending' = [pending EXCEPT ![k] = then.target]
        /\ UNCHANGED <<retired, fence, sources>>
    BY <1>11 DEF Dispatch, NextSequence
  <2>3. pending[k] = Nobody /\ k \in WireID
    BY <1>0, <2>1, WireIDs DEF Linked
  <2> HIDE DEF k
  <2> QED
    BY <2>1, <2>2, <2>3, OwnersGain
<1>12. ASSUME NEW s \in Source, ReleaseInterest(s) \/ ActivateInterest(s)
       PROVE  NothingOutlivesItsSource'
  <2>1. PICK on \in BOOLEAN : SetInterest(s, on)
    BY <1>12 DEF ReleaseInterest, ActivateInterest
  <2>2. sources[s].live /\ pc # "done" /\ UNCHANGED <<retired, fence>>
    BY <1>12, <2>1
    DEF ReleaseInterest, ActivateInterest, SetInterest, ToRelease, ToActivate, Syncing, Live
  <2>3. PICK k \in InterestID : pending[k] = Nobody /\ pending' = [pending EXCEPT ![k] = s]
    BY <2>1 DEF SetInterest
  <2>4. \A t \in Source : /\ sources'[t].live = sources[t].live
                          /\ sources'[t].chunks = sources[t].chunks
    BY <1>0, <2>1 DEF SetInterest, TypeOK, Backend
  <2>5. k \in WireID
    BY WireIDs
  <2> QED
    BY <2>2, <2>3, <2>4, <2>5, OwnersGain
<1> QED
  BY <1>2, <1>3, <1>5, <1>7, <1>8, <1>9, <1>10, <1>11, <1>12 DEF Handler

LEMMA OwnersViewer ==
  ASSUME LinkInv, NothingOutlivesItsSource, ViewerEvent PROVE NothingOutlivesItsSource'
<1>1. ASSUME UNCHANGED <<pending, retired, sources>>, pc # "done",
             fence'.source = fence.source \/ fence'.source = Nobody
      PROVE  NothingOutlivesItsSource'
  BY <1>1, OwnersKeep
<1>2. pc = "select"
  BY DEF ViewerEvent, Call, RefuseCall, SurfaceSet, SyncFence, Input, Resize, Broadcast, Client
<1>3. ASSUME NEW s \in Source, WriteFails(s) PROVE NothingOutlivesItsSource'
  <2>1. Fails(s)
    BY <1>3 DEF WriteFails, Fails
  <2> QED
    BY <1>2, <2>1, OwnersFails
<1>4. CASE \/ \E c \in Consumer, t \in Source, focus \in BOOLEAN : Call(c, t, focus)
           \/ \E c \in Consumer : RefuseCall(c)
           \/ \E c \in Consumer, on \in BOOLEAN : SurfaceSet(c, on)
           \/ Broadcast
  BY <1>1, <1>2, <1>4 DEF Call, RefuseCall, SurfaceSet, Broadcast, requestVars, vars
<1>5. ASSUME NEW token \in 0..MaxToken, SyncFence(token) PROVE NothingOutlivesItsSource'
  BY <1>1, <1>2, <1>5 DEF SyncFence, requestVars, vars
<1>6. CASE Input
  BY <1>1, <1>2, <1>3, <1>6 DEF Input, vars, LinkInv, TypeInv, TypeOK, SourceOrNobody
<1>7. CASE Resize
  BY <1>1, <1>2, <1>3, <1>7 DEF Resize, requestVars, LinkInv, TypeInv, TypeOK, SourceOrNobody
<1> QED
  BY <1>4, <1>5, <1>6, <1>7 DEF ViewerEvent

LEMMA OwnersSource ==
  ASSUME LinkInv, NothingOutlivesItsSource, NEW s \in Source, SourceEvent(s)
  PROVE  NothingOutlivesItsSource'
<1>0. TypeInv /\ TypeOK /\ Linked /\ sources[s] \in Backend /\ NoBackend.chunks = {}
  BY DEF LinkInv, TypeInv, TypeOK, NoBackend
<1>1. pc = "select"
  BY DEF SourceEvent, Upstream, Opened, ProtocolViolation, LateEvent, SourceError, Welcome,
         Snapshot, FullSurface, SurfacePatch, Effect, FenceReady, Chunk, Reply, LateReply,
         GarbledReply, Acknowledge
<1>2. \A k \in sources[s].chunks : k \in WireID /\ pending[k] = s
  BY <1>0, <1>1 DEF NothingOutlivesItsSource, Backend
<1> USE DEF requestVars
<1>3. CASE ProtocolViolation(s) \/ \E kind \in FailureKinds : SourceError(s, kind)
  <2>1. Fails(s)
    BY <1>3 DEF ProtocolViolation, SourceError, Fails
  <2> QED
    BY <1>1, <2>1, OwnersFails
<1>4. ASSUME NEW b, sources' = [sources EXCEPT ![s] = b], b.live = sources[s].live,
             b.chunks = sources[s].chunks, UNCHANGED <<fence, pending, retired>>
      PROVE  NothingOutlivesItsSource'
  BY <1>1, <1>2, <1>4, OwnersUpdate
<1>5. CASE Opened(s)
  <2> DEFINE b == [sources[s] EXCEPT !.stream = TRUE]
  <2>1. b.live = sources[s].live /\ b.chunks = sources[s].chunks
    BY <1>0 DEF Backend
  <2>2. sources' = [sources EXCEPT ![s] = b] /\ UNCHANGED <<fence, pending, retired>>
    BY <1>5 DEF Opened
  <2> HIDE DEF b
  <2> QED
    BY <1>4, <2>1, <2>2
<1>6. ASSUME NEW canSet \in BOOLEAN, Welcome(s, canSet) PROVE NothingOutlivesItsSource'
  <2> DEFINE b == [sources[s] EXCEPT !.welcomed = TRUE, !.canSet = canSet]
  <2>1. b.live = sources[s].live /\ b.chunks = sources[s].chunks
    BY <1>0 DEF Backend
  <2>2. sources' = [sources EXCEPT ![s] = b] /\ UNCHANGED <<fence, pending, retired>>
    BY <1>6 DEF Welcome
  <2> HIDE DEF b
  <2> QED
    BY <1>4, <2>1, <2>2
<1>7. ASSUME NEW revision \in 1..MaxProjection, Snapshot(s, revision)
      PROVE  NothingOutlivesItsSource'
  <2> DEFINE b == [sources[s] EXCEPT !.snapshot = revision, !.initLeft = Never]
  <2>1. b.live = sources[s].live /\ b.chunks = sources[s].chunks
    BY <1>0 DEF Backend
  <2>2. sources' = [sources EXCEPT ![s] = b] /\ UNCHANGED <<fence, pending, retired>>
    BY <1>7 DEF Snapshot
  <2> HIDE DEF b
  <2> QED
    BY <1>4, <2>1, <2>2
<1>8. ASSUME NEW e \in 0..MaxEffect, Effect(s, e) PROVE NothingOutlivesItsSource'
  <2> DEFINE b == [sources[s] EXCEPT !.effect = e]
  <2>1. b.live = sources[s].live /\ b.chunks = sources[s].chunks
    BY <1>0 DEF Backend
  <2>2. sources' = [sources EXCEPT ![s] = b] /\ UNCHANGED <<fence, pending, retired>>
    BY <1>8 DEF Effect
  <2> HIDE DEF b
  <2> QED
    BY <1>4, <2>1, <2>2
<1>9. ASSUME NEW frame, sources' = [sources EXCEPT ![s] = Rendered(s, frame)],
             UNCHANGED <<fence, pending, retired>>
      PROVE  NothingOutlivesItsSource'
  <2>1. /\ Rendered(s, frame).live = sources[s].live
        /\ Rendered(s, frame).chunks = sources[s].chunks
    BY <1>0 DEF Rendered, RenderProgress, Backend
  <2> QED
    BY <1>4, <1>9, <2>1
<1>10. CASE \/ \E proj \in 1..MaxProjection, rev \in 1..MaxSurface : FullSurface(s, proj, rev)
            \/ \E proj \in 1..MaxProjection, base, rev \in 1..MaxSurface :
                 SurfacePatch(s, proj, base, rev)
  BY <1>9, <1>10 DEF FullSurface, SurfacePatch
<1>11. CASE LateEvent(s) \/ \E token \in 0..MaxToken : FenceReady(s, token)
  BY <1>1, <1>11, OwnersKeep DEF LateEvent, FenceReady, NoFence
<1>12. ASSUME NEW k \in WireID, Chunk(s, k) PROVE NothingOutlivesItsSource'
  <2> DEFINE b == [sources[s] EXCEPT !.chunks = @ \cup {k}]
  <2>1. b.live = sources[s].live /\ b.chunks = sources[s].chunks \cup {k}
    BY <1>0 DEF Backend
  <2>2. /\ sources' = [sources EXCEPT ![s] = b] /\ UNCHANGED <<fence, pending, retired>>
        /\ pending[k] = s
    BY <1>12 DEF Chunk
  <2> HIDE DEF b
  <2>3. UNCHANGED fence /\ pc # "done"
        /\ \A t \in WireID : /\ pending'[t] \in {pending[t], Nobody}
                             /\ retired'[t] \in {retired[t], Nobody}
                             /\ pending'[t] # pending[t] => pending[t] = s /\ t \notin b.chunks
    BY <1>1, <2>2
  <2>4. \A j \in b.chunks : j \in WireID /\ pending[j] = s
    BY <1>2, <2>1, <2>2
  <2>5. sources' = [sources EXCEPT ![s] = b] /\ b.live = sources[s].live
    BY <2>1, <2>2
  <2> QED
    BY ONLY LinkInv, NothingOutlivesItsSource, s \in Source, <2>3, <2>4, <2>5, OwnersUpdate
<1>13. ASSUME NEW k \in WireID, LateReply(s, k) PROVE NothingOutlivesItsSource'
  BY <1>0, <1>1, <1>13 DEF LateReply, NothingOutlivesItsSource, Live, TypeOK
<1>14. ASSUME NEW k \in WireID, NEW b, Forget(k), pending[k] = s, UNCHANGED <<fence, retired>>,
              sources' = [sources EXCEPT ![s] = b], b.live = sources[s].live,
              b.chunks = sources[s].chunks \ {k}
       PROVE  NothingOutlivesItsSource'
  <2>1. \A t \in WireID : /\ pending'[t] \in {pending[t], Nobody}
                          /\ pending'[t] # pending[t] => pending[t] = s /\ t \notin b.chunks
    BY <1>0, <1>14 DEF Forget, TypeOK
  <2> QED
    BY <1>1, <1>2, <1>14, <2>1, OwnersUpdate
<1>15. ASSUME NEW k \in WireID, Reply(s, k) \/ GarbledReply(s, k)
       PROVE  NothingOutlivesItsSource'
  <2> DEFINE b == [sources[s] EXCEPT !.chunks = @ \ {k}]
  <2>1. b.live = sources[s].live /\ b.chunks = sources[s].chunks \ {k}
    BY <1>0 DEF Backend
  <2>2. /\ sources' = [sources EXCEPT ![s] = b] /\ UNCHANGED <<fence, retired>>
        /\ pending[k] = s /\ Forget(k)
    BY <1>15 DEF Reply, GarbledReply
  <2> HIDE DEF b
  <2> QED
    BY <1>14, <2>1, <2>2
<1>16. ASSUME NEW k \in WireID, Acknowledge(s, k) PROVE NothingOutlivesItsSource'
  <2> DEFINE d == [sources[s] EXCEPT !.chunks = @ \ {k}]
             b == RenderProgress(d, InternalOf(s) \ {k})
  <2>1. d \in Backend /\ d.live = sources[s].live /\ d.chunks = sources[s].chunks \ {k}
    BY <1>0 DEF Backend
  <2>2. /\ sources' = [sources EXCEPT ![s] = b] /\ UNCHANGED <<fence, retired>>
        /\ pending[k] = s /\ Forget(k)
    BY <1>16 DEF Acknowledge
  <2> HIDE DEF d
  <2>3. b.live = sources[s].live /\ b.chunks = sources[s].chunks \ {k}
    BY <2>1 DEF RenderProgress, Backend
  <2> HIDE DEF b
  <2> QED
    BY <1>14, <2>2, <2>3
<1> QED
  BY <1>3, <1>5, <1>6, <1>7, <1>8, <1>10, <1>11, <1>12, <1>13, <1>15, <1>16 DEF SourceEvent

LEMMA OwnersStep ==
  ASSUME LinkInv, NothingOutlivesItsSource, [Next]_vars PROVE NothingOutlivesItsSource'
<1>0. TypeOK
  BY DEF LinkInv, TypeInv
<1>1. ASSUME NEW renamed \in BOOLEAN, Refresh(renamed) PROVE NothingOutlivesItsSource'
  <2> DEFINE gone == Withdrawn \cup Unresponsive
  <2>1. Removes(gone, Expired) /\ pc # "done"
    BY <1>1, RefreshRemoves DEF Refresh
  <2>2. \A t \in Source : t \in ToOpen => t \notin Live \/ t \in gone
    BY DEF ToOpen
  <2>3. ASSUME NEW t \in Source
        PROVE  IF t \in gone
                 THEN sources'[t].chunks = {}
                 ELSE /\ sources[t].live => sources'[t].live
                      /\ sources'[t].chunks \subseteq sources[t].chunks \ Expired
    <3>1. CASE t \in ToOpen
      <4>1. sources'[t] = Opening(gen[t])
        BY <1>1, <3>1 DEF Refresh
      <4>2. Opening(gen[t]).chunks = {} /\ Opening(gen[t]).live
        BY DEF Opening, NoBackend
      <4> QED
        BY <4>1, <4>2
    <3>2. CASE t \notin ToOpen /\ t \in gone
      <4>1. sources'[t] = NoBackend
        BY <1>1, <3>2 DEF Refresh
      <4> QED
        BY <3>2, <4>1 DEF NoBackend
    <3>3. CASE t \notin ToOpen /\ t \notin gone
      <4>1. sources'[t] = [sources[t] EXCEPT !.chunks = @ \ Expired]
        BY <1>1, <3>3 DEF Refresh
      <4>2. sources'[t].live = sources[t].live /\ sources'[t].chunks = sources[t].chunks \ Expired
        BY <1>0, <4>1 DEF TypeOK, Backend
      <4> QED
        BY <3>3, <4>2
    <3> QED
      BY <3>1, <3>2, <3>3
  <2> HIDE DEF gone
  <2> QED
    BY <2>1, <2>3, OwnersRemoves
<1>2. CASE Elapse
  <2>1. ASSUME NEW t \in Source
        PROVE  sources'[t].live = sources[t].live /\ sources'[t].chunks = sources[t].chunks
    <3>1. PICK i, a : sources'[t] = [sources[t] EXCEPT !.initLeft = i, !.stable = a]
      BY <1>2 DEF Elapse
    <3> QED
      BY <1>0, <3>1 DEF TypeOK, Backend
  <2>2. fence'.source = fence.source /\ pc # "done" /\ UNCHANGED <<pending, retired>>
    BY <1>0, <1>2 DEF Elapse, TypeOK, FenceType
  <2> QED
    BY <2>1, <2>2, OwnersKeep
<1>3. CASE CatalogEvent
  BY <1>3, OwnersKeep DEF CatalogEvent, PublishShare, UnpublishShare, requestVars
<1>4. CASE End
  BY <1>4 DEF End, NothingOutlivesItsSource
<1>5. CASE UNCHANGED vars
  BY <1>5 DEF vars, NothingOutlivesItsSource, Live
<1> QED
  BY <1>1, <1>2, <1>3, <1>4, <1>5, OwnersHandler, OwnersViewer, OwnersSource DEF Next, Tick

-----------------------------------------------------------------------------
(***************************************************************************)
(* The tables of requests agree with each other, with the viewer and with  *)
(* the backends: no call is forgotten, nothing outlives its source, and no *)
(* slot is lost, whichever of removal, timeout, answer and failed write    *)
(* comes first.  Left out is the final response that is garbled, which     *)
(* server() forgets before it rejects: that call is never answered.        *)
(***************************************************************************)
THEOREM TablesAlwaysAgree ==
  ASSUME "garbled" \notin Inputs PROVE Spec => []TablesAgree
<1> DEFINE Tables == /\ LinkInv /\ Waiting /\ SlotsBounded /\ Reserved
                     /\ NothingOutlivesItsSource
<1>1. Init => Tables
  <2> SUFFICES ASSUME Init PROVE Tables
    OBVIOUS
  <2>1. LinkInv
    BY TypeInit, WireIDs
    DEF Init, LinkInv, Control, Handling, Linked, NoThen, Idle, Asked
  <2>2. Waiting /\ Reserved
    BY WireIDs DEF Init, Waiting, Reserved, NoThen
  <2>3. Outstanding = {} /\ Retired = {} /\ Internal = {}
    BY DEF Init, Outstanding, Retired, Internal
  <2>4. SlotsBounded
    BY <2>3, FS_EmptySet DEF SlotsBounded
  <2>5. NothingOutlivesItsSource
    BY DEF Init, NothingOutlivesItsSource, NoBackend, NoFence
  <2> QED
    BY <2>1, <2>2, <2>4, <2>5
<1>2. Tables /\ [Next]_vars => Tables'
  BY TypeStep, ControlStep, LinkedStep, WaitingStep, SlotsStep, OwnersStep DEF LinkInv
<1>3. Tables => TablesAgree
  <2> SUFFICES ASSUME Tables PROVE TablesAgree
    OBVIOUS
  <2>1. NoCallForgotten
    <3> SUFFICES ASSUME AtRest, NEW c \in Consumer, consumer[c] # Idle
                 PROVE  /\ consumer[c] \in OrdinaryID
                        /\ requestIDs[consumer[c]] = c /\ deadlines[consumer[c]] # Never
      BY DEF NoCallForgotten
    <3>1. consumer[c] # Asked
      BY DEF LinkInv, Control, Handling, AtRest
    <3>2. consumer[c] \in OrdinaryID
      BY <3>1 DEF LinkInv, TypeInv, TypeOK
    <3>3. requestIDs[consumer[c]] = c
      BY <3>2 DEF Waiting
    <3> QED
      BY <3>2, <3>3, WireIDs DEF LinkInv, Linked
  <2> QED
    BY <2>1 DEF TablesAgree
<1> QED
  BY <1>1, <1>2, <1>3, PTL DEF Spec

(***************************************************************************)
(* Operations are never replayed: whatever is removed, expires or is tried *)
(* again, a wire ID that was once given to a call is never pending at      *)
(* another source, nor again at the same one.                              *)
(***************************************************************************)
THEOREM OperationsNeverReplayed == Spec => NeverReplayed
<1>1. ASSUME LinkInv, Next
      PROVE  \A k \in OrdinaryID :
               k <= requestSequence => pending'[k] \in {pending[k], Nobody}
  <2>0. TypeInv /\ TypeOK
    BY <1>1 DEF LinkInv, TypeInv
  <2>1. ASSUME NEW gone, NEW expired, Removes(gone, expired), NEW k \in OrdinaryID
        PROVE  pending'[k] \in {pending[k], Nobody}
    BY <1>1, <2>1, RemovalAnswers, WireIDs
  <2>2. ASSUME UNCHANGED pending, NEW k \in OrdinaryID
        PROVE  pending'[k] \in {pending[k], Nobody}
    BY <2>2
  <2>3. Quiet \/ Elapse \/ DispatchRefused \/ Respond => UNCHANGED pending
    BY DEF Quiet, Elapse, DispatchRefused, Respond, requestVars
  <2>4. \A c \in Consumer, t \in Source, x \in BOOLEAN :
          Call(c, t, x) \/ SurfaceSet(c, x) => UNCHANGED pending
    BY DEF Call, SurfaceSet, requestVars
  <2>5. ASSUME NEW s \in Source, ReleaseInterest(s) \/ ActivateInterest(s), NEW k \in OrdinaryID
        PROVE  pending'[k] \in {pending[k], Nobody}
    <3>1. PICK j \in InterestID : pending' = [pending EXCEPT ![j] = s]
      BY <2>5 DEF ReleaseInterest, ActivateInterest, SetInterest
    <3> QED
      BY <2>0, <3>1, WireIDs DEF TypeOK
  <2>6. ASSUME NEW s \in Source, NEW j \in WireID, NEW k \in OrdinaryID,
               Reply(s, j) \/ LateReply(s, j) \/ GarbledReply(s, j) \/ Acknowledge(s, j)
        PROVE  pending'[k] \in {pending[k], Nobody}
    BY <2>0, <2>6, WireIDs DEF Reply, LateReply, GarbledReply, Acknowledge, Forget, TypeOK
  <2>7. ASSUME Dispatch, NEW k \in OrdinaryID, k <= requestSequence
        PROVE  pending'[k] \in {pending[k], Nobody}
    <3>1. k # requestSequence + 1 /\ pending' = [pending EXCEPT ![requestSequence + 1] = then.target]
      BY <2>0, <2>7 DEF Dispatch, NextSequence, TypeOK, OrdinaryID
    <3> QED
      BY <2>0, <3>1, WireIDs DEF TypeOK
  <2>8. 1 \in Source
    BY DEF Source
  <2> QED
    BY <1>1, <2>0, <2>1, <2>2, <2>3, <2>4, <2>5, <2>6, <2>7, <2>8, Changes, FailRemoves,
       RefreshRemoves
<1>2. LinkInv /\ [Next]_vars =>
        [\A k \in OrdinaryID :
           k <= requestSequence => pending'[k] \in {pending[k], Nobody}]_vars
  BY <1>1
<1> QED
  BY <1>2, LinkInvariant, PTL DEF Spec, NeverReplayed

-----------------------------------------------------------------------------
(***************************************************************************)
(* The promise.  With at most one holder and every call that was sent      *)
(* known to the tables, the mapping of GatewayPromise names the holder and *)
(* the source of each call; a step then takes them where Aggregate allows. *)
(***************************************************************************)
PromiseInv == LinkInv /\ Waiting /\ HolderInv

Calls == [c \in Consumer |-> CallAt(c)]

LEMMA HolderIs ==
  ASSUME OneHolder
  PROVE  /\ \A s \in Source : sources[s].interest => Holder = s
         /\ (\A s \in Source : ~sources[s].interest) => Holder = Nobody
         /\ Holder \in SourceOrNobody
         /\ Holder \in Source => sources[Holder].interest
<1>1. CASE \E s \in Source : sources[s].interest
  <2>1. PICK s \in Source : sources[s].interest
    BY <1>1
  <2>2. Holder \in Source /\ sources[Holder].interest
    BY <1>1 DEF Holder
  <2> QED
    BY <2>1, <2>2 DEF OneHolder, SourceOrNobody
<1>2. CASE ~\E s \in Source : sources[s].interest
  <2>1. Holder = Nobody /\ Nobody \notin Source
    BY <1>2 DEF Holder, Nobody, Source
  <2> QED
    BY <1>2, <2>1 DEF SourceOrNobody
<1> QED
  BY <1>1, <1>2

(* A call that was sent is with a source.                                  *)
LEMMA CallIs ==
  ASSUME PromiseInv, NEW c \in Consumer
  PROVE  /\ consumer[c] \in {Idle, Asked} => CallAt(c) = consumer[c]
         /\ consumer[c] \notin {Idle, Asked} =>
              /\ consumer[c] \in OrdinaryID /\ consumer[c] \in WireID
              /\ requestIDs[consumer[c]] = c
              /\ CallAt(c) = pending[consumer[c]] /\ CallAt(c) \in Source
<1>1. CASE consumer[c] \notin {Idle, Asked}
  <2>1. consumer[c] \in OrdinaryID /\ consumer[c] \in WireID
    BY <1>1, WireIDs DEF PromiseInv, LinkInv, TypeInv, TypeOK
  <2>2. requestIDs[consumer[c]] = c
    BY <2>1 DEF PromiseInv, Waiting
  <2>3. pending[consumer[c]] # Nobody /\ pending[consumer[c]] \in SourceOrNobody
    BY <2>1, <2>2, WireIDs DEF PromiseInv, LinkInv, Linked, TypeInv, TypeOK
  <2> QED
    BY <1>1, <2>1, <2>2, <2>3 DEF CallAt, SourceOrNobody
<1> QED
  BY <1>1 DEF CallAt

LEMMA HolderEnds ==
  ASSUME OneHolder, OneHolder', NoNewHolder
  PROVE  Holder' = Holder \/ Holder' = Nobody
<1>1. CASE \E s \in Source : sources'[s].interest
  <2>1. PICK s \in Source : sources'[s].interest
    BY <1>1
  <2>2. sources[s].interest
    BY <2>1 DEF NoNewHolder
  <2>3. Holder = s
    BY <2>2, HolderIs
  <2>4. Holder' \in Source /\ sources'[Holder'].interest
    BY <1>1 DEF Holder
  <2> QED
    BY <2>1, <2>3, <2>4 DEF OneHolder
<1>2. CASE ~\E s \in Source : sources'[s].interest
  BY <1>2 DEF Holder
<1> QED
  BY <1>1, <1>2

(* Interest that stays with every source that is kept stays with Holder.   *)
LEMMA HolderLost ==
  ASSUME OneHolder, OneHolder', NEW gone,
         \A s \in Source : sources'[s].interest <=> sources[s].interest /\ s \notin gone
  PROVE  Holder' = IF Holder \in gone THEN Nobody ELSE Holder
<1>1. CASE Holder = Nobody
  <2>1. \A s \in Source : ~sources[s].interest
    BY <1>1, HolderIs DEF Source, Nobody
  <2>2. ~\E s \in Source : sources'[s].interest
    BY <2>1
  <2> QED
    BY <1>1, <2>2 DEF Holder
<1>2. CASE Holder # Nobody
  <2>1. Holder \in Source /\ sources[Holder].interest
    BY <1>2, HolderIs DEF SourceOrNobody
  <2>2. CASE Holder \in gone
    <3>1. ~\E s \in Source : sources'[s].interest
      BY <2>2, HolderIs
    <3> QED
      BY <2>2, <3>1 DEF Holder
  <2>3. CASE Holder \notin gone
    <3>1. sources'[Holder].interest
      BY <2>1, <2>3
    <3>2. Holder' \in Source /\ sources'[Holder'].interest
      BY <2>1, <3>1 DEF Holder
    <3> QED
      BY <2>1, <2>3, <3>1, <3>2 DEF OneHolder
  <2> QED
    BY <2>2, <2>3
<1> QED
  BY <1>1, <1>2

-----------------------------------------------------------------------------
(* What the steps of the promise are, call by call.                        *)
PromisedStep == [Promise!Next]_<<Holder, Calls>>

LEMMA CallsEnd ==
  ASSUME Holder' \in {Holder, Nobody},
         \A c \in Consumer : CallAt(c)' = CallAt(c)
  PROVE  PromisedStep
<1>1. Calls' = Calls
  BY DEF Calls
<1>2. CASE Holder' = Holder
  BY <1>1, <1>2 DEF PromisedStep
<1>3. CASE Holder' = Nobody
  BY <1>1, <1>3 DEF PromisedStep, Promise!Next, Promise!Release, Promise!Nobody, Nobody, Calls
<1> QED
  BY <1>2, <1>3

LEMMA CallMoves ==
  ASSUME Holder' = Holder, NEW c \in Consumer,
         \A d \in Consumer : d # c => CallAt(d)' = CallAt(d),
         \/ CallAt(c) = Idle /\ CallAt(c)' = Asked
         \/ CallAt(c)' = Idle
         \/ CallAt(c) = Asked /\ CallAt(c)' \in Source
  PROVE  PromisedStep
<1> DEFINE v == CallAt(c)'
<1>1. Calls' = [Calls EXCEPT ![c] = v] /\ Calls[c] = CallAt(c)
  BY DEF Calls
<1>2. Calls = [d \in Consumer |-> CallAt(d)]
  BY DEF Calls
<1> HIDE DEF v
<1>3. CASE CallAt(c) = Idle /\ v = Asked
  <2>1. Promise!Ask(c)
    BY <1>1, <1>3 DEF Promise!Ask, Promise!Asked, Promise!Idle, Asked, Idle, Calls
  <2> QED
    BY <2>1 DEF PromisedStep, Promise!Next
<1>4. CASE v = Idle
  <2>1. Promise!Answer(c)
    BY <1>1, <1>4 DEF Promise!Answer, Promise!Idle, Idle, Calls
  <2> QED
    BY <2>1 DEF PromisedStep, Promise!Next
<1>5. CASE CallAt(c) = Asked /\ v \in Source
  <2>1. Promise!Route(c, v)
    BY <1>1, <1>5 DEF Promise!Route, Promise!Asked, Asked, Calls
  <2> QED
    BY <1>5, <2>1 DEF PromisedStep, Promise!Next
<1> QED
  BY <1>3, <1>4, <1>5 DEF v

LEMMA CallStays ==
  ASSUME NEW c \in Consumer, UNCHANGED consumer[c],
         consumer[c] \in OrdinaryID => UNCHANGED pending[consumer[c]],
         consumer[c] \in OrdinaryID \cup {Idle, Asked}
  PROVE  CallAt(c)' = CallAt(c)
BY DEF CallAt

(* A removal loses its sources and ends the calls that it expires.         *)
LEMMA RemovalPromised ==
  ASSUME PromiseInv, PromiseInv', NEW gone, NEW expired, Removes(gone, expired),
         \A s \in Source : sources'[s].interest <=> sources[s].interest /\ s \notin gone
  PROVE  PromisedStep
<1> DEFINE ended == {requestIDs[k] : k \in expired}
<1>0. /\ TypeOK /\ Linked /\ LinkInv /\ OneHolder /\ OneHolder' /\ gone \subseteq Source
      /\ expired \subseteq WireID /\ \A k \in expired : requestIDs[k] # Idle
  BY DEF PromiseInv, LinkInv, TypeInv, HolderInv, Removes, Outstanding
<1>1. Holder' = IF Holder \in gone THEN Nobody ELSE Holder
  BY <1>0, HolderLost
<1>2. ended \subseteq Consumer
  BY <1>0 DEF TypeOK
<1>3. ASSUME NEW c \in Consumer
      PROVE  CallAt(c)' = IF CallAt(c) \in gone \/ c \in ended THEN Idle ELSE CallAt(c)
  <2>1. c \in ended => consumer[c] \in expired
    BY <1>0 DEF Linked
  <2>2. CASE consumer[c] \in {Idle, Asked}
    <3>1. CallAt(c) = consumer[c] /\ CallAt(c) \notin Source
      BY <2>2, CallIs DEF Source, Idle, Asked
    <3>2. consumer[c] \notin WireID \/ requestIDs[consumer[c]] = Idle
      BY <1>0, <2>2, WireIDs DEF Linked
    <3>3. c \notin ended
      BY <1>0, <2>1, <3>2
    <3>4. consumer'[c] = consumer[c]
      BY <1>0, <2>2, RemovalAnswers
    <3> QED
      BY <1>0, <2>2, <3>1, <3>3, <3>4 DEF CallAt
  <2>3. CASE consumer[c] \notin {Idle, Asked}
    <3> DEFINE k == consumer[c]
    <3>1. /\ k \in OrdinaryID /\ k \in WireID /\ requestIDs[k] = c /\ CallAt(c) = pending[k]
          /\ CallAt(c) \in Source
      BY <2>3, CallIs
    <3>2. k \in Dropped(gone, expired) <=> CallAt(c) \in gone \/ c \in ended
      BY <2>1, <3>1 DEF Dropped
    <3>3. CASE k \in Dropped(gone, expired)
      <4>1. consumer'[c] = Idle
        BY <1>0, <3>1, <3>3, RemovalAnswers
      <4> QED
        BY <3>2, <3>3, <4>1 DEF CallAt
    <3>4. CASE k \notin Dropped(gone, expired)
      <4>1. UNCHANGED pending[k]
        BY <1>0, <3>1, <3>4, RemovalAnswers
      <4>2. consumer'[c] = k
        BY <1>0, <3>4, RemovalAnswers
      <4>3. CallAt(c)' = CallAt(c)
        BY <3>1, <4>1, <4>2, CallStays
      <4> QED
        BY <3>2, <3>4, <4>3
    <3> QED
      BY <3>3, <3>4
  <2> QED
    BY <2>2, <2>3
<1> HIDE DEF ended
<1>4. Promise!Lose(gone, ended)
  BY <1>1, <1>3 DEF Promise!Lose, Promise!Nobody, Promise!Idle, Nobody, Idle
<1> QED
  BY <1>0, <1>2, <1>4 DEF PromisedStep, Promise!Next

LEMMA PromiseStep ==
  ASSUME "garbled" \notin Inputs, PromiseInv, PromiseInv', [Next]_vars PROVE PromisedStep
<1>0. /\ TypeInv /\ TypeOK /\ Control /\ Linked /\ LinkInv /\ Waiting /\ HolderInv
      /\ InterestLive /\ OneHolder /\ OneHolder'
      /\ \A s \in Source : sources[s] \in Backend
  BY DEF PromiseInv, LinkInv, HolderInv, TypeInv, TypeOK
<1>1. \A c \in Consumer : consumer[c] \in OrdinaryID \cup {Idle, Asked}
  BY <1>0 DEF TypeOK
<1>2. ASSUME UNCHANGED consumer, \A k \in OrdinaryID : UNCHANGED pending[k], NoNewHolder
      PROVE  PromisedStep
  <2>1. \A c \in Consumer : CallAt(c)' = CallAt(c)
    BY <1>1, <1>2, CallStays
  <2> QED
    BY <1>0, <1>2, <2>1, HolderEnds, CallsEnd
<1>3. ASSUME UNCHANGED sources PROVE Holder' = Holder
  BY <1>3 DEF Holder
<1>4. ASSUME NEW s \in Source, Fails(s) PROVE PromisedStep
  <2>1. sources' = [sources EXCEPT ![s] = NoBackend] /\ ~NoBackend.interest
    BY <1>4 DEF Fails, Fail, NoBackend
  <2>2. \A t \in Source : sources'[t].interest <=> sources[t].interest /\ t \notin {s}
    BY <1>0, <2>1 DEF TypeOK
  <2> QED
    BY <1>4, <2>2, FailRemoves, RemovalPromised
<1>5. ASSUME NEW s \in Source, ReleaseInterest(s) \/ ActivateInterest(s) PROVE PromisedStep
  <2>1. UNCHANGED consumer /\ \A k \in OrdinaryID : UNCHANGED pending[k]
    <3>1. PICK j \in InterestID : pending' = [pending EXCEPT ![j] = s] /\ UNCHANGED consumer
      BY <1>5 DEF ReleaseInterest, ActivateInterest, SetInterest, viewerVars
    <3> QED
      BY <1>0, <3>1, WireIDs DEF TypeOK
  <2>2. CASE NoNewHolder
    BY <1>2, <2>1, <2>2
  <2>3. ASSUME NEW t \in Source, ActivateInterest(t) PROVE PromisedStep
    <3>1. /\ \A x \in Source : ~sources[x].interest
          /\ sources'[t].interest
      BY <1>0, <2>3, ActivateHolders
    <3>2. Holder = Nobody
      BY <1>0, <3>1, HolderIs
    <3>3. Holder' = t
      BY <1>0, <3>1 DEF Holder, OneHolder
    <3>4. Calls' = Calls
      BY <1>1, <2>1, CallStays DEF Calls
    <3>5. Promise!Acquire(t)
      BY <3>2, <3>3, <3>4 DEF Promise!Acquire, Promise!Nobody, Nobody, Calls
    <3> QED
      BY <3>5 DEF PromisedStep, Promise!Next
  <2> QED
    BY <1>0, <2>2, <2>3, Holders
<1>6. CASE DispatchRefused \/ Respond
  <2>1. PICK c \in Consumer : /\ consumer' = [consumer EXCEPT ![c] = Idle]
                              /\ UNCHANGED <<sources, pending>>
    BY <1>0, <1>6 DEF DispatchRefused, Respond, Control, Handling, requestVars
  <2>2. CallAt(c)' = Idle
    BY <1>0, <2>1 DEF CallAt, TypeOK
  <2>3. \A d \in Consumer : d # c => CallAt(d)' = CallAt(d)
    BY <1>0, <1>1, <2>1, CallStays DEF TypeOK
  <2> QED
    BY <1>3, <2>1, <2>2, <2>3, CallMoves
<1>7. CASE Dispatch
  <2>0. /\ then.id \in Consumer /\ consumer[then.id] = Asked /\ then.target \in Source
        /\ requestSequence + 1 \in OrdinaryID
    BY <1>0, <1>7 DEF Dispatch, Control, Handling, Live, TypeOK, OrdinaryID
  <2>1. PICK c \in Consumer, t \in Source, k \in OrdinaryID :
           /\ consumer[c] = Asked /\ k = requestSequence + 1 /\ UNCHANGED sources
           /\ consumer' = [consumer EXCEPT ![c] = k]
           /\ pending' = [pending EXCEPT ![k] = t]
    BY <1>7, <2>0 DEF Dispatch, NextSequence
  <2>2. k \in WireID /\ k \notin {Idle, Asked}
    BY WireIDs
  <2>3. \A j \in WireID : requestIDs[j] # Idle => j # k
    BY <1>0, <2>1 DEF Linked, TypeOK, OrdinaryID
  <2>4. CallAt(c) = Asked
    BY <2>1 DEF CallAt
  <2>5. CallAt(c)' \in Source
    <3>1. consumer'[c] = k /\ pending'[k] = t /\ t # Nobody
      BY <1>0, <2>1, <2>2 DEF TypeOK, Source, Nobody
    <3> QED
      BY <2>2, <3>1 DEF CallAt
  <2>6. ASSUME NEW d \in Consumer, d # c PROVE CallAt(d)' = CallAt(d)
    <3>1. consumer'[d] = consumer[d]
      BY <1>0, <2>1, <2>6 DEF TypeOK
    <3>2. ASSUME consumer[d] \in OrdinaryID PROVE consumer[d] # k
      <4>1. requestIDs[consumer[d]] = d /\ consumer[d] \in WireID /\ d # Idle
        BY <1>0, <3>2, WireIDs DEF Waiting
      <4> QED
        BY <2>2, <2>3, <4>1
    <3>3. consumer[d] \in OrdinaryID => UNCHANGED pending[consumer[d]]
      BY <1>0, <2>1, <3>2, WireIDs DEF TypeOK
    <3> QED
      BY <1>1, <3>1, <3>3, CallStays
  <2> QED
    BY <1>3, <2>1, <2>4, <2>5, <2>6, CallMoves
<1>8. ASSUME NEW c \in Consumer, NEW t \in Source, NEW x \in BOOLEAN,
             Call(c, t, x) \/ SurfaceSet(c, x)
      PROVE  PromisedStep
  <2>1. /\ consumer[c] = Idle /\ consumer' = [consumer EXCEPT ![c] = Asked]
        /\ UNCHANGED <<sources, pending>>
    BY <1>8 DEF Call, SurfaceSet, requestVars
  <2>2. CallAt(c) = Idle /\ CallAt(c)' = Asked
    BY <1>0, <2>1 DEF CallAt, TypeOK
  <2>3. \A d \in Consumer : d # c => CallAt(d)' = CallAt(d)
    BY <1>0, <1>1, <2>1, CallStays DEF TypeOK
  <2> QED
    BY <1>3, <2>1, <2>2, <2>3, CallMoves
<1>9. ASSUME NEW s \in Source, NEW k \in WireID,
             Reply(s, k) \/ LateReply(s, k) \/ GarbledReply(s, k) \/ Acknowledge(s, k)
      PROVE  PromisedStep
  <2>1. CASE Reply(s, k)
    <3> DEFINE b == [sources[s] EXCEPT !.chunks = @ \ {k}]
    <3>1. b.interest = sources[s].interest
      BY <1>0 DEF Backend
    <3>2. sources' = [sources EXCEPT ![s] = b]
      BY <2>1 DEF Reply
    <3> HIDE DEF b
    <3>3. \A t \in Source : sources'[t].interest = sources[t].interest
      BY <1>0, <3>1, <3>2 DEF TypeOK
    <3>4. Holder' = Holder
      BY <3>3 DEF Holder
    <3>5. PICK c \in Consumer : /\ requestIDs[k] = c
                                /\ pending' = [pending EXCEPT ![k] = Nobody]
                                /\ consumer' = [consumer EXCEPT ![c] = Idle]
      BY <1>0, <2>1 DEF Reply, Forget, TypeOK
    <3>6. ASSUME NEW d \in Consumer, d # c PROVE CallAt(d)' = CallAt(d)
      <4>1. consumer[d] \in OrdinaryID => consumer[d] # k
        BY <1>0, <3>5, <3>6 DEF Waiting
      <4>2. consumer'[d] = consumer[d]
            /\ (consumer[d] \in OrdinaryID => UNCHANGED pending[consumer[d]])
        BY <1>0, <3>5, <3>6, <4>1, WireIDs DEF TypeOK
      <4> QED
        BY <1>1, <4>2, CallStays
    <3>7. CallAt(c)' = Idle
      BY <1>0, <3>5 DEF CallAt, TypeOK
    <3> QED
      BY <3>4, <3>6, <3>7, CallMoves
  <2>2. CASE LateReply(s, k)
    BY <1>0, <1>2, <2>2, SameHolders DEF LateReply, viewerVars
  <2>3. CASE Acknowledge(s, k)
    <3>1. NoNewHolder
      BY <1>0, <2>3, SourceHolders DEF SourceEvent
    <3>2. UNCHANGED consumer /\ pending' = [pending EXCEPT ![k] = Nobody] /\ requestIDs[k] = Idle
      BY <2>3 DEF Acknowledge, Forget, viewerVars
    <3>3. ASSUME NEW c \in Consumer PROVE CallAt(c)' = CallAt(c)
      <4>1. consumer[c] \in OrdinaryID => consumer[c] # k
        BY <1>0, <3>2, WireIDs DEF Waiting
      <4>2. consumer[c] \in OrdinaryID => UNCHANGED pending[consumer[c]]
        BY <1>0, <3>2, <4>1, WireIDs DEF TypeOK
      <4> QED
        BY <1>1, <3>2, <4>2, CallStays
    <3> QED
      BY <1>0, <3>1, <3>3, HolderEnds, CallsEnd
  <2>4. ~GarbledReply(s, k)
    BY DEF GarbledReply
  <2> QED
    BY <1>9, <2>1, <2>2, <2>3, <2>4
<1>10. ASSUME NEW renamed \in BOOLEAN, Refresh(renamed) PROVE PromisedStep
  <2> DEFINE gone == Withdrawn \cup Unresponsive
  <2>1. Removes(gone, Expired)
    BY <1>10, RefreshRemoves
  <2>2. ASSUME NEW s \in Source
        PROVE  sources'[s].interest <=> sources[s].interest /\ s \notin gone
    <3>1. ~NoBackend.interest /\ ~Opening(gen[s]).interest
      BY DEF NoBackend, Opening
    <3>2. CASE s \in ToOpen
      <4>1. sources'[s] = Opening(gen[s])
        BY <1>10, <3>2 DEF Refresh
      <4>2. s \notin Live \/ s \in gone
        BY <3>2 DEF ToOpen
      <4> QED
        BY <1>0, <3>1, <4>1, <4>2 DEF InterestLive, Live
    <3>3. CASE s \notin ToOpen /\ s \in gone
      <4>1. sources'[s] = NoBackend
        BY <1>10, <3>3 DEF Refresh
      <4> QED
        BY <3>1, <3>3, <4>1
    <3>4. CASE s \notin ToOpen /\ s \notin gone
      <4>1. sources'[s] = [sources[s] EXCEPT !.chunks = @ \ Expired]
        BY <1>10, <3>4 DEF Refresh
      <4>2. sources'[s].interest <=> sources[s].interest
        BY <1>0, <4>1 DEF Backend
      <4> QED
        BY <3>4, <4>2
    <3> QED
      BY <3>2, <3>3, <3>4
  <2> HIDE DEF gone
  <2> QED
    BY <2>1, <2>2, RemovalPromised
<1>11. CASE Elapse
  <2>1. NoNewHolder
    BY <1>0, <1>11, OtherHolders
  <2> QED
    BY <1>2, <1>11, <2>1 DEF Elapse, viewerVars
<1>12. CASE Quiet \/ UNCHANGED vars
  <2>1. UNCHANGED consumer /\ UNCHANGED pending
    BY <1>12 DEF Quiet, requestVars, vars
  <2>2. ~\E s \in Source : ActivateInterest(s)
    <3> SUFFICES ASSUME NEW s \in Source, ActivateInterest(s) PROVE FALSE
      OBVIOUS
    <3>1. PICK j \in InterestID : pending[j] = Nobody /\ pending' = [pending EXCEPT ![j] = s]
      BY DEF ActivateInterest, SetInterest
    <3>2. pending'[j] = s
      BY <1>0, <3>1, WireIDs DEF TypeOK
    <3> QED
      BY <2>1, <3>1, <3>2 DEF Source, Nobody
  <2>3. NoNewHolder
    BY <1>0, <2>2, Holders
  <2> QED
    BY <1>2, <2>1, <2>3
<1> QED
  BY <1>0, <1>4, <1>5, <1>6, <1>7, <1>8, <1>9, <1>10, <1>11, <1>12, Changes DEF Source

(***************************************************************************)
(* The gateway implements Aggregate: its tables, timers and transitions,   *)
(* and the publish that a failed write starts in the middle of a handler,  *)
(* only ever show the viewer one source at a time, send each call to one   *)
(* source and end it once.  A final response that is garbled is left out,  *)
(* since the call it belongs to then never ends.                           *)
(***************************************************************************)
THEOREM PromiseAlwaysKept == ASSUME "garbled" \notin Inputs PROVE Spec => KeepsPromise
<1>1. Init => PromiseInv
  <2> SUFFICES ASSUME Init PROVE PromiseInv
    OBVIOUS
  <2>1. LinkInv
    BY TypeInit, WireIDs
    DEF Init, LinkInv, Control, Handling, Linked, NoThen, Idle, Asked
  <2>2. Waiting
    BY WireIDs DEF Init, Waiting
  <2> QED
    BY <2>1, <2>2, HolderInit DEF PromiseInv
<1>2. PromiseInv /\ [Next]_vars => PromiseInv'
  BY TypeStep, ControlStep, LinkedStep, WaitingStep, HolderStep DEF PromiseInv, LinkInv
<1>3. Init => Promise!Init
  <2> SUFFICES ASSUME Init PROVE Promise!Init
    OBVIOUS
  <2>1. Holder = Nobody
    BY DEF Init, Holder, NoBackend
  <2>2. \A c \in Consumer : CallAt(c) = Idle
    BY DEF Init, CallAt
  <2> QED
    BY <2>1, <2>2 DEF Promise!Init, Promise!Nobody, Promise!Idle, Nobody, Idle
<1>4. PromiseInv /\ PromiseInv' /\ [Next]_vars =>
        [Promise!Next]_<<Holder, [c \in Consumer |-> CallAt(c)]>>
  BY PromiseStep DEF PromisedStep, Calls
<1> QED
  BY <1>1, <1>2, <1>3, <1>4, PTL DEF Spec, KeepsPromise, Promise!Spec

=============================================================================
