------------------------------- MODULE Gateway -------------------------------
(***************************************************************************)
(* One viewer's aggregate endpoint: the event loop of                      *)
(* hive/internal/gateway (Serve, refresh, server, client in gateway.go;    *)
(* syncInterest and setInterest in interest.go; fail and renderProgress in *)
(* recovery.go).  It presents the shares of a Hive as one Herdr endpoint,  *)
(* opening one backend per visible share.                                  *)
(*                                                                         *)
(* All state belongs to one goroutine, which handles one event at a time.  *)
(* A handler that writes upstream may see the write fail, remove the       *)
(* source and publish again before it goes on, so a handler is a sequence  *)
(* of steps: pc says where it stands ("select" between handlers) and then  *)
(* what is left to do once publish() has returned.  No other event is      *)
(* handled while pc # "select".                                            *)
(*                                                                         *)
(* When publish() is entered again from a failed write, what the outer     *)
(* call has left to do repeats what the inner one has just done: interest  *)
(* is settled or waits for a slot, and the scene and the fence are sent.   *)
(* So the inner call replaces the outer one here.                          *)
(***************************************************************************)
EXTENDS Surface, Recovery, FiniteSets

CONSTANTS
  NumSources,      \* shares the Hive may list, in sort order of their IDs
  MaxVisible,      \* MaxSources: how many of them a viewer opens (8)
  MaxGeneration,   \* bound on the generations a share is published under
  NumConsumers,    \* request IDs the viewer uses
  MaxSequence,     \* the last request sequence number (2^64 - 1)
  MaxRequests,     \* maxRequests: ordinary calls pending or expired (64)
  MaxInternal,     \* maxInternalRequests: surface transitions pending (16)
  InitTimeout,     \* initializationTimeout (10 s)
  OpTimeout,       \* operationTimeout (30 s)
  FenceTimeout,    \* the fence's deadline (10 s)
  StableInterval,  \* recoveryStableInterval (10 s)
  MaxProjection,   \* bound on a source's snapshot revisions
  MaxSurface,      \* bound on a source's surface revisions
  MaxEffect,       \* bound on the terminal modes a source asks for
  MaxToken,        \* bound on the viewer's fence tokens
  WriteFailures,   \* the kinds of failure an upstream write may meet
  Inputs           \* the kinds of outside event a run explores

ASSUME BoundsAssumption ==
  /\ NumSources \in Nat \ {0} /\ MaxVisible \in Nat \ {0}
  /\ MaxGeneration \in Nat \ {0} /\ NumConsumers \in Nat \ {0}
  /\ MaxSequence \in Nat /\ MaxRequests \in Nat \ {0}
  /\ MaxInternal \in Nat \ {0} /\ InitTimeout \in Nat \ {0}
  /\ OpTimeout \in Nat \ {0} /\ FenceTimeout \in Nat \ {0}
  /\ StableInterval \in Nat \ {0}
  /\ MaxProjection \in Nat \ {0} /\ MaxSurface \in Nat \ {0}
  /\ MaxEffect \in Nat /\ MaxToken \in Nat
  /\ WriteFailures \subseteq FailureKinds

Source == 1..NumSources
Generation == 1..MaxGeneration
Consumer == 1..NumConsumers

(***************************************************************************)
(* Wire IDs: k stands for "hive:request:k" and -k for "hive:surface:k".    *)
(* The interest sequence has no bound in the code; since an interest ID is *)
(* known to the gateway only while it is pending, the model takes the      *)
(* first one that is free.                                                 *)
(***************************************************************************)
OrdinaryID == 1..MaxSequence
InterestID == (-MaxInternal)..(-1)
WireID == OrdinaryID \cup InterestID

Never == -1      \* the zero time.Time
NoToken == -1    \* the viewer awaits no fence (an empty token is 0)
Idle == 0        \* the viewer awaits no answer under a request ID
Asked == -1      \* the gateway is handling the request

VARIABLES
  gen, listed,             \* the catalog: last generation, listed or not
  sources,                 \* g.sources and the backends in it
  recovery,                \* g.recovery
  active, surfaceActive,   \* g.active, g.surfaceActive
  pending, requestIDs,     \* g.pending, g.requestIDs
  deadlines, retired,      \* g.deadlines (time left), g.retired
  requestSequence,         \* g.requestSequence
  fence,                   \* g.fencePending, g.fence, g.fenceSource, g.fenceUntil
  view,                    \* the rendered* fields and the viewer's screen
  pc, then, tick,          \* the event loop
  consumer, awaited,       \* what the viewer waits for: calls, fence token
  guilty,                  \* the <<share, generation>>s that failed for good
  late                     \* removed backends whose reader still has an event

catalogVars == <<gen, listed>>
requestVars == <<pending, requestIDs, deadlines, retired, requestSequence>>
viewerVars == <<consumer, awaited>>
historyVars == <<recovery, guilty, late>>
loopVars == <<pc, then, tick>>
vars == <<gen, listed, sources, recovery, active, surfaceActive, pending,
          requestIDs, deadlines, retired, requestSequence, fence, view,
          pc, then, tick, consumer, awaited, guilty, late>>

-----------------------------------------------------------------------------
(* backend.  A share without an entry in g.sources is not live.            *)
NoBackend ==
  [live |-> FALSE, gen |-> 0, stream |-> FALSE, welcomed |-> FALSE,
   canSet |-> FALSE, snapshot |-> 0, initLeft |-> Never, interest |-> FALSE,
   ready |-> FALSE, stable |-> Never, frame |-> NoFrame,
   effect |-> NoEffect, chunks |-> {}]

Opening(g) ==
  [NoBackend EXCEPT !.live = TRUE, !.gen = g, !.initLeft = InitTimeout]

Live == {s \in Source : sources[s].live}
SnapshotIDs == {s \in Source : sources[s].live /\ sources[s].snapshot # 0}

(* refresh looks at the first MaxSources listed shares only.               *)
Visible ==
  {s \in Source : listed[s] /\ Cardinality({t \in 1..(s - 1) : listed[t]}) < MaxVisible}

(* len(g.pending) - len(g.requestIDs): the pending surface transitions.    *)
Internal == {k \in WireID : pending[k] # Nobody /\ requestIDs[k] = Idle}
SlotFree == Cardinality(Internal) < MaxInternal

Outstanding == {k \in WireID : requestIDs[k] # Idle}
Retired == {k \in WireID : retired[k] # Nobody}

AtCapacity == Cardinality(Outstanding) + Cardinality(Retired) >= MaxRequests

NoFence == [pending |-> FALSE, token |-> 0, source |-> Nobody, left |-> 0]

NoThen == [op |-> "select", id |-> 0, target |-> Nobody, rest |-> {}]

-----------------------------------------------------------------------------
(***************************************************************************)
(* remove, for every backend in gone, and the expiry of the calls in       *)
(* expired: a call that is dropped either way is answered with a failure;  *)
(* an expired one keeps its wire ID in g.retired.                          *)
(***************************************************************************)
Dropped(gone, expired) == {k \in WireID : pending[k] \in gone} \cup expired

(* Faulty: a removal that does not answer the calls it drops.              *)
AnsweredByTimeout(gone, expired) == {requestIDs[k] : k \in expired}

Answered(gone, expired) == {requestIDs[k] : k \in Dropped(gone, expired)}

(* Faulty: the expired calls of a removed source are kept.                 *)
RetiredForever(gone, expired) ==
  [k \in WireID |-> IF k \in expired THEN pending[k] ELSE retired[k]]

RetiredAfter(gone, expired) ==
  [k \in WireID |-> IF k \in expired THEN pending[k]
                    ELSE IF retired[k] \in gone THEN Nobody ELSE retired[k]]

(* Faulty: the fence is dropped with the source that had it.               *)
FenceDropped(gone) == IF fence.source \in gone THEN NoFence ELSE fence

FenceAfter(gone) ==
  IF fence.source \in gone THEN [fence EXCEPT !.source = Nobody, !.left = 0] ELSE fence

ActiveAfter(gone) == IF active \in gone THEN Nobody ELSE active

Settle(gone, expired) ==
  LET dropped == Dropped(gone, expired)
      answered == Answered(gone, expired)
  IN  /\ pending' = [k \in WireID |-> IF k \in dropped THEN Nobody ELSE pending[k]]
      /\ requestIDs' = [k \in WireID |-> IF k \in dropped THEN Idle ELSE requestIDs[k]]
      /\ deadlines' = [k \in WireID |-> IF k \in dropped THEN Never ELSE deadlines[k]]
      /\ retired' = RetiredAfter(gone, expired)
      /\ consumer' = [c \in Consumer |-> IF c \in answered THEN Idle ELSE consumer[c]]
      /\ fence' = FenceAfter(gone)
      /\ active' = ActiveAfter(gone)
      /\ view' = ForgetSources(view, gone)
      /\ late' = [s \in Source |->
                    IF s \in gone /\ "late" \in Inputs THEN sources[s].gen ELSE late[s]]

(* resetRecovery: the history of s after age of stable rendering.          *)
ResetRecovery(s, age) == IF age >= StableInterval THEN NoRecord ELSE recovery[s]

(* fail: record the cause, then remove the source.                         *)
Fail(s, kind, age) ==
  /\ recovery' = [recovery EXCEPT
                    ![s] = Penalise(ResetRecovery(s, age), sources[s].gen, kind)]
  /\ sources' = [sources EXCEPT ![s] = NoBackend]
  /\ Settle({s}, {})

(* The publisher of s is the cause of a failure that will not go away.     *)
Blame(s, kind) ==
  guilty' = IF kind = Persistent THEN guilty \cup {<<s, sources[s].gen>>} ELSE guilty

(***************************************************************************)
(* A write to s failed: fail it and publish.                               *)
(***************************************************************************)
WriteFails(s) ==
  /\ \E kind \in WriteFailures : Fail(s, kind, sources[s].stable) /\ Blame(s, kind)
  /\ pc' = "publish"
  /\ UNCHANGED <<catalogVars, surfaceActive, requestSequence, tick, awaited>>

-----------------------------------------------------------------------------
(***************************************************************************)
(* publish.                                                                *)
(***************************************************************************)
(* A view without a source adopts the first share that has a snapshot.     *)
Publish ==
  /\ pc = "publish"
  /\ \/ /\ active = Nobody
        /\ \E s \in SnapshotIDs :
             /\ \A t \in SnapshotIDs : s <= t
             /\ active' = s
             /\ view' = ReplayEffects(view, surfaceActive, sources[s].effect)
     \/ /\ active # Nobody \/ SnapshotIDs = {}
        /\ UNCHANGED <<active, view>>
  /\ pc' = "sync"
  /\ UNCHANGED <<catalogVars, sources, surfaceActive, requestVars, fence, then,
                 tick, viewerVars, historyVars>>

(* Faulty: the snapshot goes out without the scene.                        *)
EmitSnapshotOnly ==
  /\ pc = "emit"
  /\ view' = MoveProjection(view)
  /\ pc' = "fence"
  /\ UNCHANGED <<catalogVars, sources, active, surfaceActive, requestVars, fence,
                 then, tick, viewerVars, historyVars>>

(* The rest of publish: merge the snapshots, send them and the scene.      *)
Emit ==
  /\ pc = "emit"
  /\ view' = SendSurface(MoveProjection(view), surfaceActive, active,
                         IF active = Nobody THEN NoFrame ELSE sources[active].frame,
                         IF active = Nobody THEN 0 ELSE sources[active].snapshot)
  /\ pc' = "fence"
  /\ UNCHANGED <<catalogVars, sources, active, surfaceActive, requestVars, fence,
                 then, tick, viewerVars, historyVars>>

-----------------------------------------------------------------------------
(***************************************************************************)
(* syncInterest, called by publish (pc = "sync") and on the                *)
(* acknowledgement of a transition (pc = "ack").                           *)
(***************************************************************************)
Syncing == pc \in {"sync", "ack"}
SyncReturns == pc' = IF pc = "sync" THEN "emit" ELSE "fence"

(* Faulty: a hidden viewer's active source keeps its interest.             *)
ToReleaseInactive == {s \in Live : sources[s].interest /\ s # active}

(* Sources that hold surface interest and should not.                      *)
ToRelease ==
  {s \in Live : sources[s].interest /\ (s # active \/ ~surfaceActive)}

(* The source that should hold surface interest and does not.              *)
ToActivate ==
  {s \in Live : s = active /\ surfaceActive /\ ~sources[s].interest
                /\ sources[s].snapshot # 0 /\ sources[s].stream}

(* setInterest, once there is a slot and the write succeeds.               *)
SetInterest(s, on) ==
  /\ SlotFree
  /\ \E k \in InterestID :
       /\ pending[k] = Nobody /\ \A j \in InterestID : j > k => pending[j] # Nobody
       /\ pending' = [pending EXCEPT ![k] = s]
       /\ deadlines' = [deadlines EXCEPT ![k] = OpTimeout]
  /\ sources' = [sources EXCEPT
                   ![s] = [@ EXCEPT !.interest = on, !.ready = FALSE, !.stable = Never]]
  /\ UNCHANGED <<catalogVars, active, surfaceActive, requestIDs, retired,
                 requestSequence, fence, view, then, tick, viewerVars, historyVars>>

(* The loop goes on to the next source after a release that was sent.      *)
ReleaseInterest(s) ==
  /\ Syncing /\ s \in ToRelease
  /\ SetInterest(s, FALSE)
  /\ pc' = pc

(* Faulty: the next source is activated before the last one is released.   *)
ActivateEarly(s) ==
  /\ Syncing /\ s \in ToActivate
  /\ sources[s].canSet
  /\ SetInterest(s, TRUE)
  /\ SyncReturns

ActivateInterest(s) ==
  /\ Syncing /\ ToRelease = {} /\ s \in ToActivate
  /\ sources[s].canSet
  /\ SetInterest(s, TRUE)
  /\ SyncReturns

(* No slot: the transition stays unsent, and so does any activation.       *)
InterestWaits ==
  /\ Syncing /\ ~SlotFree
  /\ ToRelease # {} \/ \E s \in ToActivate : sources[s].canSet
  /\ SyncReturns
  /\ UNCHANGED <<catalogVars, sources, active, surfaceActive, requestVars, fence,
                 view, then, tick, viewerVars, historyVars>>

InterestSettles ==
  /\ Syncing /\ ToRelease = {} /\ ToActivate = {}
  /\ SyncReturns
  /\ UNCHANGED <<catalogVars, sources, active, surfaceActive, requestVars, fence,
                 view, then, tick, viewerVars, historyVars>>

(***************************************************************************)
(* The source cannot be told, or the write fails: stableSince is cleared   *)
(* before a release is sent, so the failure does not reset the history.    *)
(***************************************************************************)
InterestFails(s) ==
  /\ Syncing
  /\ \/ /\ s \in ToActivate /\ ToRelease = {} /\ ~sources[s].canSet
        /\ Fail(s, Persistent, sources[s].stable) /\ Blame(s, Persistent)
     \/ /\ s \in ToRelease \/ (ToRelease = {} /\ s \in ToActivate /\ sources[s].canSet)
        /\ SlotFree
        /\ \E kind \in WriteFailures : Fail(s, kind, Never) /\ Blame(s, kind)
  /\ pc' = "publish"
  /\ UNCHANGED <<catalogVars, surfaceActive, requestSequence, then, tick, awaited>>

-----------------------------------------------------------------------------
(***************************************************************************)
(* resumeFence, after which the handler goes on with what publish left.    *)
(***************************************************************************)
FenceIdle ==
  \/ ~fence.pending \/ fence.source # Nobody
  \/ active # Nobody /\ surfaceActive /\ ~sources[active].interest

SkipFence ==
  /\ pc = "fence" /\ FenceIdle
  /\ pc' = then.op
  /\ UNCHANGED <<catalogVars, sources, active, surfaceActive, requestVars, fence,
                 view, then, tick, viewerVars, historyVars>>

AnswerFence ==
  /\ pc = "fence" /\ ~FenceIdle /\ active = Nobody
  /\ fence' = NoFence
  /\ awaited' = IF awaited = fence.token THEN NoToken ELSE awaited
  /\ pc' = then.op
  /\ UNCHANGED <<catalogVars, sources, active, surfaceActive, requestVars, view,
                 then, tick, consumer, historyVars>>

SendFence ==
  /\ pc = "fence" /\ ~FenceIdle /\ active # Nobody
  /\ \/ /\ fence' = [fence EXCEPT !.source = active, !.left = FenceTimeout]
        /\ pc' = then.op
        /\ UNCHANGED <<catalogVars, sources, active, surfaceActive, requestVars,
                       view, tick, viewerVars, historyVars>>
     \/ WriteFails(active)
  /\ UNCHANGED then

-----------------------------------------------------------------------------
(***************************************************************************)
(* client, tag 15: an operation of the viewer.                             *)
(***************************************************************************)
Client == pc = "select"

IDOutstanding(c) == \E k \in WireID : requestIDs[k] = c

(* The call is sent on to t, which is first made active by a focus method. *)
Call(c, t, focus) ==
  /\ Client /\ "call" \in Inputs /\ consumer[c] = Idle /\ ~IDOutstanding(c)
  /\ t \in SnapshotIDs /\ ~AtCapacity
  /\ focus => "focus" \in Inputs
  /\ consumer' = [consumer EXCEPT ![c] = Asked]
  /\ then' = [op |-> "dispatch", id |-> c, target |-> t, rest |-> {}]
  /\ IF focus /\ t # active
       THEN /\ active' = t
            /\ view' = ReplayEffects(view, surfaceActive, sources[t].effect)
            /\ pc' = "publish"
       ELSE /\ pc' = "dispatch"
            /\ UNCHANGED <<active, view>>
  /\ UNCHANGED <<catalogVars, sources, surfaceActive, requestVars, fence, tick,
                 awaited, historyVars>>

(***************************************************************************)
(* Answered with a failure at once: a stale boot identity, a method the    *)
(* gateway or the source does not have, unknown or mixed targets, no       *)
(* target, or no slot.                                                     *)
(***************************************************************************)
RefuseCall(c) ==
  /\ Client /\ "call" \in Inputs /\ consumer[c] = Idle /\ ~IDOutstanding(c)
  /\ UNCHANGED vars

(* The rest of the handler: the target may be gone, or the IDs used up.    *)
DispatchRefused ==
  /\ pc = "dispatch"
  /\ then.target \notin Live \/ requestSequence = MaxSequence
  /\ consumer' = [consumer EXCEPT ![then.id] = Idle]
  /\ pc' = "select"
  /\ then' = NoThen
  /\ UNCHANGED <<catalogVars, sources, active, surfaceActive, requestVars, fence,
                 view, tick, awaited, historyVars>>

(* Faulty: the first wire ID that is not in use.                           *)
FirstFreeID ==
  CHOOSE k \in OrdinaryID :
    LET Free(j) == pending[j] = Nobody /\ retired[j] = Nobody
    IN  Free(k) /\ \A j \in 1..(k - 1) : ~Free(j)

(* Every call has a fresh wire ID.                                         *)
NextSequence == requestSequence + 1

Dispatch ==
  LET k == NextSequence IN
  /\ pc = "dispatch"
  /\ then.target \in Live /\ requestSequence < MaxSequence
  /\ requestSequence' = k
  /\ pending' = [pending EXCEPT ![k] = then.target]
  /\ requestIDs' = [requestIDs EXCEPT ![k] = then.id]
  /\ deadlines' = [deadlines EXCEPT ![k] = OpTimeout]
  /\ consumer' = [consumer EXCEPT ![then.id] = k]
  /\ pc' = "send"
  /\ UNCHANGED <<catalogVars, sources, active, surfaceActive, retired, fence,
                 view, then, tick, awaited, historyVars>>

SendCall ==
  /\ pc = "send"
  /\ then' = NoThen
  /\ \/ /\ pc' = "select"
        /\ UNCHANGED <<catalogVars, sources, active, surfaceActive, requestVars,
                       fence, view, tick, viewerVars, historyVars>>
     \/ WriteFails(then.target)

(***************************************************************************)
(* client_shell.surface.set, which the gateway answers itself.             *)
(***************************************************************************)
SurfaceSet(c, on) ==
  /\ Client /\ "surfaceSet" \in Inputs /\ consumer[c] = Idle /\ ~IDOutstanding(c)
  /\ surfaceActive' = on
  /\ view' = ReplayEffects(view, on, IF active = Nobody THEN NoEffect
                                                       ELSE sources[active].effect)
  /\ consumer' = [consumer EXCEPT ![c] = Asked]
  /\ then' = [NoThen EXCEPT !.op = "respond", !.id = c]
  /\ pc' = "publish"
  /\ UNCHANGED <<catalogVars, sources, active, requestVars, fence, tick, awaited,
                 historyVars>>

Respond ==
  /\ pc = "respond"
  /\ consumer' = [consumer EXCEPT ![then.id] = Idle]
  /\ then' = NoThen
  /\ pc' = "select"
  /\ UNCHANGED <<catalogVars, sources, active, surfaceActive, requestVars, fence,
                 view, tick, awaited, historyVars>>

-----------------------------------------------------------------------------
(***************************************************************************)
(* client, the other messages.                                             *)
(***************************************************************************)
(* endpoint.presentation.sync.v1.                                          *)
SyncFence(token) ==
  /\ Client /\ "fence" \in Inputs /\ awaited = NoToken
  /\ IF active = Nobody
       THEN UNCHANGED vars              \* ready is written at once
       ELSE /\ ~fence.pending
            /\ fence' = [pending |-> TRUE, token |-> token, source |-> Nobody, left |-> 0]
            /\ awaited' = token
            /\ pc' = "fence"
            /\ UNCHANGED <<catalogVars, sources, active, surfaceActive, requestVars,
                           view, then, tick, consumer, historyVars>>

(* Terminal input (tags 2, 13 and 14) goes to its source if that is active *)
(* and shown, tag 18 to the active source whether it is shown or not.      *)
Input ==
  /\ Client /\ "input" \in Inputs /\ active # Nobody
  /\ WriteFails(active) \/ UNCHANGED vars
  /\ UNCHANGED then

(* Resize: sent to the source that is shown, or answered with a blank.     *)
Resize ==
  /\ Client /\ "resize" \in Inputs
  /\ \/ /\ active # Nobody /\ surfaceActive
        /\ WriteFails(active)
        /\ UNCHANGED then
     \/ /\ active = Nobody \/ ~surfaceActive
        /\ view' = BlankSurface(view)
        /\ UNCHANGED <<catalogVars, sources, active, surfaceActive, requestVars,
                       fence, loopVars, viewerVars, historyVars>>

(* Colours and theme (tags 17 and 19) go to every source with a stream.    *)
Broadcast ==
  /\ Client /\ "broadcast" \in Inputs
  /\ then' = [NoThen EXCEPT !.op = "broadcast",
                            !.rest = {s \in Live : sources[s].stream}]
  /\ pc' = "broadcast"
  /\ UNCHANGED <<catalogVars, sources, active, surfaceActive, requestVars, fence,
                 view, tick, viewerVars, historyVars>>

(* The loop skips the sources that a failed write has removed meanwhile.   *)
BroadcastTo(s) ==
  /\ pc = "broadcast" /\ s \in then.rest \cap Live
  /\ then' = [then EXCEPT !.rest = @ \ {s}]
  /\ \/ WriteFails(s)
     \/ UNCHANGED <<catalogVars, sources, active, surfaceActive, requestVars,
                    fence, view, pc, tick, viewerVars, historyVars>>

BroadcastEnds ==
  /\ pc = "broadcast" /\ then.rest \cap Live = {}
  /\ view' = IF active = Nobody THEN BlankSurface(view) ELSE view
  /\ then' = NoThen
  /\ pc' = "select"
  /\ UNCHANGED <<catalogVars, sources, active, surfaceActive, requestVars, fence,
                 tick, viewerVars, historyVars>>

(***************************************************************************)
(* The session ends: the viewer leaves or cannot be written to, repeats an *)
(* outstanding request ID, or asks for a second fence.  Serve's deferred   *)
(* cleanup cancels every backend.                                          *)
(***************************************************************************)
End ==
  /\ pc # "done"
  /\ \/ "leave" \in Inputs
     \/ /\ Client /\ "misuse" \in Inputs
        /\ (\E c \in Consumer : IDOutstanding(c)) \/ (fence.pending /\ active # Nobody)
  /\ pc' = "done"
  /\ sources' = [s \in Source |-> NoBackend]
  /\ UNCHANGED <<catalogVars, active, surfaceActive, requestVars, fence, view,
                 then, tick, viewerVars, historyVars>>

-----------------------------------------------------------------------------
(***************************************************************************)
(* Events of a backend.  The loop ignores those of a removed one.          *)
(***************************************************************************)
Upstream(s) == pc = "select" /\ s \in Live /\ sources[s].stream

(* The goroutine has opened the stream and written hello.                  *)
Opened(s) ==
  /\ pc = "select" /\ s \in Live /\ ~sources[s].stream
  /\ sources' = [sources EXCEPT ![s].stream = TRUE]
  /\ UNCHANGED <<catalogVars, active, surfaceActive, requestVars, fence, view,
                 loopVars, viewerVars, historyVars>>

(* Open, hello or read failed, the native server quit (tag 3), or it       *)
(* refused a surface transition.                                           *)
SourceError(s, kind) ==
  /\ pc = "select" /\ s \in Live /\ "error" \in Inputs
  /\ Fail(s, kind, sources[s].stable) /\ Blame(s, kind)
  /\ pc' = "publish"
  /\ UNCHANGED <<catalogVars, surfaceActive, requestSequence, then, tick, awaited>>

(***************************************************************************)
(* server() returns protocolFailure: a codec it does not know, another     *)
(* boot identity, a second welcome, a snapshot before welcome, a surface   *)
(* before the snapshot, a patch that does not fit, or a response that is   *)
(* not its own, was never asked for or is too large.                       *)
(***************************************************************************)
ProtocolViolation(s) ==
  /\ Upstream(s) /\ "violation" \in Inputs
  /\ Fail(s, Persistent, sources[s].stable) /\ Blame(s, Persistent)
  /\ pc' = "publish"
  /\ UNCHANGED <<catalogVars, surfaceActive, requestSequence, then, tick, awaited>>

(* Faulty: the failure of a removed backend is charged to its successor.   *)
LateEventCharged(s) ==
  /\ pc = "select" /\ late[s] # 0 /\ s \in Live
  /\ Fail(s, Persistent, sources[s].stable)
  /\ guilty' = guilty \cup {<<s, late[s]>>}
  /\ pc' = "publish"
  /\ UNCHANGED <<catalogVars, surfaceActive, requestSequence, then, tick, awaited>>

(* An event of a backend that has been removed: g.sources has another.     *)
LateEvent(s) ==
  /\ pc = "select" /\ late[s] # 0
  /\ late' = [late EXCEPT ![s] = 0]
  /\ UNCHANGED <<catalogVars, sources, recovery, active, surfaceActive,
                 requestVars, fence, view, loopVars, viewerVars, guilty>>

Welcome(s, canSet) ==
  /\ Upstream(s) /\ ~sources[s].welcomed
  /\ canSet \/ "violation" \in Inputs
  /\ sources' = [sources EXCEPT ![s] = [@ EXCEPT !.welcomed = TRUE, !.canSet = canSet]]
  /\ UNCHANGED <<catalogVars, active, surfaceActive, requestVars, fence, view,
                 loopVars, viewerVars, historyVars>>

Snapshot(s, revision) ==
  /\ Upstream(s) /\ sources[s].welcomed
  /\ sources' = [sources EXCEPT
                   ![s] = [@ EXCEPT !.snapshot = revision, !.initLeft = Never]]
  /\ pc' = "publish"
  /\ UNCHANGED <<catalogVars, active, surfaceActive, requestVars, fence, view,
                 then, tick, viewerVars, historyVars>>

(* renderProgress: b counts as stable once it renders while it holds       *)
(* interest and no transition of its own is waiting in internal.           *)
RenderProgress(b, internal) ==
  IF b.interest /\ b.ready /\ b.snapshot # 0 /\ internal = {} /\ b.stable = Never
    THEN [b EXCEPT !.stable = 0] ELSE b

InternalOf(s) == {k \in Internal : pending[k] = s}

(* The backend of s with frame as its retained scene.                      *)
Rendered(s, frame) ==
  LET b == [sources[s] EXCEPT !.frame = frame] IN
  IF b.interest /\ frame.proj = b.snapshot
    THEN RenderProgress([b EXCEPT !.ready = TRUE], InternalOf(s)) ELSE b

FullSurface(s, proj, rev) ==
  /\ Upstream(s) /\ "surface" \in Inputs /\ sources[s].snapshot # 0
  /\ sources' = [sources EXCEPT ![s] = Rendered(s, FullFrame(proj, rev))]
  /\ view' = CASE s = active ->
                    SendSurface(view, surfaceActive, s, FullFrame(proj, rev),
                                sources[s].snapshot)
               [] active = Nobody -> BlankSurface(view)
               [] OTHER -> view
  /\ UNCHANGED <<catalogVars, active, surfaceActive, requestVars, fence, loopVars,
                 viewerVars, historyVars>>

SurfacePatch(s, proj, base, rev) ==
  /\ Upstream(s) /\ "surface" \in Inputs /\ sources[s].snapshot # 0
  /\ PatchFits(sources[s].frame, proj, base, rev)
  /\ sources' = [sources EXCEPT ![s] = Rendered(s, Patched(sources[s].frame, rev))]
  /\ view' = CASE s = active ->
                    SendPatch(view, surfaceActive, s, FullFrame(proj, rev), base,
                              sources[s].snapshot)
               [] active = Nobody -> BlankSurface(view)
               [] OTHER -> view
  /\ UNCHANGED <<catalogVars, active, surfaceActive, requestVars, fence, loopVars,
                 viewerVars, historyVars>>

(* Tags 6, 8 and 17: terminal modes, kept for the time s becomes active.   *)
Effect(s, e) ==
  /\ Upstream(s) /\ "effect" \in Inputs
  /\ sources' = [sources EXCEPT ![s].effect = e]
  /\ view' = IF s = active /\ surfaceActive THEN [view EXCEPT !.effect = e] ELSE view
  /\ UNCHANGED <<catalogVars, active, surfaceActive, requestVars, fence, loopVars,
                 viewerVars, historyVars>>

(* endpoint.presentation.ready.v1, ignored unless it answers the fence.    *)
FenceReady(s, token) ==
  /\ Upstream(s) /\ "fence" \in Inputs
  /\ s = fence.source /\ token = fence.token
  /\ fence' = NoFence
  /\ awaited' = IF awaited = token THEN NoToken ELSE awaited
  /\ UNCHANGED <<catalogVars, sources, active, surfaceActive, requestVars, view,
                 loopVars, consumer, historyVars>>

-----------------------------------------------------------------------------
(***************************************************************************)
(* server, tag 18: the response to a wire ID.                              *)
(***************************************************************************)
(* Faulty: the viewer's request ID stays mapped.                           *)
ForgetSource(k) ==
  /\ pending' = [pending EXCEPT ![k] = Nobody]
  /\ deadlines' = [deadlines EXCEPT ![k] = Never]
  /\ UNCHANGED requestIDs

Forget(k) ==
  /\ pending' = [pending EXCEPT ![k] = Nobody]
  /\ deadlines' = [deadlines EXCEPT ![k] = Never]
  /\ requestIDs' = [requestIDs EXCEPT ![k] = Idle]

Chunk(s, k) ==
  /\ Upstream(s) /\ "chunk" \in Inputs /\ pending[k] = s
  /\ sources' = [sources EXCEPT ![s].chunks = @ \cup {k}]
  /\ UNCHANGED <<catalogVars, active, surfaceActive, requestVars, fence, view,
                 loopVars, viewerVars, historyVars>>

Reply(s, k) ==
  /\ Upstream(s) /\ pending[k] = s /\ requestIDs[k] # Idle
  /\ Forget(k)
  /\ sources' = [sources EXCEPT ![s].chunks = @ \ {k}]
  /\ consumer' = [consumer EXCEPT ![requestIDs[k]] = Idle]
  /\ UNCHANGED <<catalogVars, active, surfaceActive, retired, requestSequence,
                 fence, view, loopVars, awaited, historyVars>>

(* The final chunk of a call that has expired.                             *)
LateReply(s, k) ==
  /\ Upstream(s) /\ retired[k] = s
  /\ retired' = [retired EXCEPT ![k] = Nobody]
  /\ UNCHANGED <<catalogVars, sources, active, surfaceActive, pending, requestIDs,
                 deadlines, requestSequence, fence, view, loopVars, viewerVars,
                 historyVars>>

(* A final response that is not a JSON object: the call is already         *)
(* forgotten when server() returns the failure.                            *)
GarbledReply(s, k) ==
  /\ Upstream(s) /\ "garbled" \in Inputs /\ pending[k] = s /\ requestIDs[k] # Idle
  /\ Forget(k)
  /\ sources' = [sources EXCEPT ![s].chunks = @ \ {k}]
  /\ then' = [NoThen EXCEPT !.target = s]
  /\ pc' = "reject"
  /\ UNCHANGED <<catalogVars, active, surfaceActive, retired, requestSequence,
                 fence, view, tick, viewerVars, historyVars>>

Reject ==
  /\ pc = "reject"
  /\ Fail(then.target, Persistent, sources[then.target].stable)
  /\ Blame(then.target, Persistent)
  /\ then' = NoThen
  /\ pc' = "publish"
  /\ UNCHANGED <<catalogVars, surfaceActive, requestSequence, tick, awaited>>

(* A surface transition is acknowledged: its slot may carry the next one.  *)
Acknowledge(s, k) ==
  /\ Upstream(s) /\ pending[k] = s /\ requestIDs[k] = Idle
  /\ Forget(k)
  /\ sources' = [sources EXCEPT
                   ![s] = RenderProgress([sources[s] EXCEPT !.chunks = @ \ {k}],
                                         InternalOf(s) \ {k})]
  /\ pc' = "ack"
  /\ UNCHANGED <<catalogVars, active, surfaceActive, retired, requestSequence,
                 fence, view, then, tick, viewerVars, historyVars>>

-----------------------------------------------------------------------------
(***************************************************************************)
(* refresh, on the one-second tick.                                        *)
(***************************************************************************)
(* No longer visible, or published anew.                                   *)
Withdrawn == {s \in Live : s \notin Visible \/ sources[s].gen # gen[s]}

(* Faulty: the fence's deadline is not looked at.                          *)
UnresponsiveButFence ==
  {s \in Live \ Withdrawn :
     sources[s].initLeft = 0 \/ \E k \in InternalOf(s) : deadlines[k] = 0}

(* A deadline has passed: initialization, the fence, an acknowledgement.   *)
Unresponsive ==
  {s \in Live \ Withdrawn :
     \/ sources[s].initLeft = 0
     \/ fence.source = s /\ fence.left = 0
     \/ \E k \in InternalOf(s) : deadlines[k] = 0}

(* Faulty: calls have no timeout.                                          *)
NoneExpired == {}

Expired ==
  {k \in Outstanding : deadlines[k] = 0 /\ pending[k] \notin Withdrawn \cup Unresponsive}

(* Faulty: a source that reaches its first snapshot has recovered.         *)
KeptUntilSnapshot(s) ==
  IF s \in Visible /\ recovery[s].gen = gen[s] /\ sources[s].snapshot = 0
    THEN recovery[s] ELSE NoRecord

(* The record of s once invisible, outdated and outgrown history is gone.  *)
KeptRecord(s) ==
  IF s \in Visible /\ recovery[s].gen = gen[s]
    THEN ResetRecovery(s, sources[s].stable) ELSE NoRecord

RefreshedRecord(s) ==
  IF s \in Unresponsive THEN Penalise(KeptRecord(s), sources[s].gen, Transient)
                        ELSE KeptRecord(s)

ToOpen ==
  {s \in Visible : (s \notin Live \/ s \in Withdrawn) /\ MayOpen(RefreshedRecord(s))}

(* renamed: a share was given another name or label in the catalog.        *)
Refresh(renamed) ==
  /\ pc = "select" /\ tick
  /\ renamed => "rename" \in Inputs
  /\ tick' = FALSE
  /\ Settle(Withdrawn \cup Unresponsive, Expired)
  /\ recovery' = [s \in Source |-> RefreshedRecord(s)]
  /\ sources' = [s \in Source |->
                   CASE s \in ToOpen -> Opening(gen[s])
                     [] s \notin ToOpen /\ s \in Withdrawn \cup Unresponsive -> NoBackend
                     [] OTHER -> [sources[s] EXCEPT !.chunks = @ \ Expired]]
  /\ pc' = IF renamed \/ Withdrawn \cup Unresponsive # {} THEN "publish" ELSE "select"
  /\ UNCHANGED <<catalogVars, surfaceActive, requestSequence, then, awaited, guilty>>

-----------------------------------------------------------------------------
(***************************************************************************)
(* The environment: the Hive's catalog and the clock.  Only refresh looks  *)
(* at the catalog and at deadlines, so they move between handlers only.    *)
(***************************************************************************)
PublishShare(s) ==
  /\ pc = "select" /\ gen[s] < MaxGeneration
  /\ gen' = [gen EXCEPT ![s] = @ + 1]
  /\ listed' = [listed EXCEPT ![s] = TRUE]
  /\ UNCHANGED <<sources, active, surfaceActive, requestVars, fence, view,
                 loopVars, viewerVars, historyVars>>

UnpublishShare(s) ==
  /\ pc = "select" /\ listed[s] /\ "unpublish" \in Inputs
  /\ listed' = [listed EXCEPT ![s] = FALSE]
  /\ UNCHANGED <<gen, sources, active, surfaceActive, requestVars, fence, view,
                 loopVars, viewerVars, historyVars>>

(* Without "time" a run keeps to the ticks before the first deadline.       *)
Less(t) == IF t > 0 /\ "time" \in Inputs THEN t - 1 ELSE t
More(t) ==
  IF t # Never /\ t < StableInterval /\ "time" \in Inputs THEN t + 1 ELSE t

(* A second passes; a tick that is still waiting absorbs the next.          *)
Elapse ==
  /\ pc = "select"
  /\ sources' = [s \in Source |->
                   [sources[s] EXCEPT !.initLeft = Less(@), !.stable = More(@)]]
  /\ recovery' = [s \in Source |-> [recovery[s] EXCEPT !.wait = Less(@)]]
  /\ deadlines' = [k \in WireID |-> Less(deadlines[k])]
  /\ fence' = [fence EXCEPT !.left = Less(@)]
  /\ tick' = TRUE
  /\ UNCHANGED <<catalogVars, active, surfaceActive, pending, requestIDs, retired,
                 requestSequence, view, pc, then, viewerVars, guilty, late>>

-----------------------------------------------------------------------------
(***************************************************************************)
(* Serve has welcomed the viewer: it publishes an empty snapshot, and the  *)
(* first refresh follows.                                                  *)
(***************************************************************************)
(* The viewer's hello: what Hive cannot speak is refused before the loop   *)
(* begins; the viewer says whether it shows its surface.                   *)
NegotiateHello == surfaceActive \in BOOLEAN

Init ==
  /\ gen = [s \in Source |-> 0] /\ listed = [s \in Source |-> FALSE]
  /\ sources = [s \in Source |-> NoBackend]
  /\ recovery = [s \in Source |-> NoRecord]
  /\ NegotiateHello /\ active = Nobody
  /\ pending = [k \in WireID |-> Nobody]
  /\ requestIDs = [k \in WireID |-> Idle]
  /\ deadlines = [k \in WireID |-> Never]
  /\ retired = [k \in WireID |-> Nobody]
  /\ requestSequence = 0
  /\ fence = NoFence
  /\ view = FirstView
  /\ pc = "publish" /\ then = NoThen /\ tick = TRUE
  /\ consumer = [c \in Consumer |-> Idle] /\ awaited = NoToken
  /\ guilty = {}
  /\ late = [s \in Source |-> 0]

(* The steps of a handler that has begun.                                  *)
Handler ==
  \/ Publish \/ Emit \/ InterestWaits \/ InterestSettles
  \/ \E s \in Source : ReleaseInterest(s) \/ ActivateInterest(s) \/ InterestFails(s)
  \/ SkipFence \/ AnswerFence \/ SendFence
  \/ DispatchRefused \/ Dispatch \/ SendCall \/ Respond \/ Reject
  \/ (\E s \in Source : BroadcastTo(s)) \/ BroadcastEnds

(* An event the loop takes from the viewer.                                *)
ViewerEvent ==
  \/ \E c \in Consumer, t \in Source, focus \in BOOLEAN : Call(c, t, focus)
  \/ \E c \in Consumer : RefuseCall(c)
  \/ \E c \in Consumer, on \in BOOLEAN : SurfaceSet(c, on)
  \/ \E token \in 0..MaxToken : SyncFence(token)
  \/ Input \/ Resize \/ Broadcast

(* An event the loop takes from a backend.                                 *)
SourceEvent(s) ==
  \/ Opened(s) \/ ProtocolViolation(s) \/ LateEvent(s)
  \/ \E kind \in FailureKinds : SourceError(s, kind)
  \/ \E canSet \in BOOLEAN : Welcome(s, canSet)
  \/ \E revision \in 1..MaxProjection : Snapshot(s, revision)
  \/ \E proj \in 1..MaxProjection, rev \in 1..MaxSurface : FullSurface(s, proj, rev)
  \/ \E proj \in 1..MaxProjection, base, rev \in 1..MaxSurface :
       SurfacePatch(s, proj, base, rev)
  \/ \E e \in 0..MaxEffect : Effect(s, e)
  \/ \E token \in 0..MaxToken : FenceReady(s, token)
  \/ \E k \in WireID : \/ Chunk(s, k) \/ Reply(s, k) \/ LateReply(s, k)
                       \/ GarbledReply(s, k) \/ Acknowledge(s, k)

Tick == \E renamed \in BOOLEAN : Refresh(renamed)

CatalogEvent == \E s \in Source : PublishShare(s) \/ UnpublishShare(s)

Next ==
  \/ Handler \/ ViewerEvent \/ Tick \/ Elapse \/ CatalogEvent \/ End
  \/ \E s \in Source : SourceEvent(s)

Spec == Init /\ [][Next]_vars

(***************************************************************************)
(* A handler that has begun goes on, time passes, and Go's select does not *)
(* pass over a tick forever.                                               *)
(***************************************************************************)
FairSpec == Spec /\ WF_vars(Handler) /\ SF_vars(Elapse) /\ SF_vars(Tick)

-----------------------------------------------------------------------------
(***************************************************************************)
(* Properties.                                                             *)
(***************************************************************************)
AtRest == pc = "select"

Backend ==
  [live : BOOLEAN, gen : 0..MaxGeneration, stream : BOOLEAN, welcomed : BOOLEAN,
   canSet : BOOLEAN, snapshot : 0..MaxProjection, initLeft : Never..InitTimeout,
   interest : BOOLEAN, ready : BOOLEAN, stable : Never..StableInterval,
   frame : [proj : 0..MaxProjection, rev : 0..MaxSurface],
   effect : 0..MaxEffect, chunks : SUBSET WireID]

Record ==
  [gen : 0..MaxGeneration, attempts : 0..MaxAttempts, wait : 0..16, blocked : BOOLEAN]

SourceOrNobody == Source \cup {Nobody}

SceneType ==
  [src : SourceOrNobody \cup {-1}, proj : 0..MaxProjection, rev : 0..MaxSurface,
   current : BOOLEAN]

ViewType ==
  [src : SourceOrNobody, proj : 0..MaxProjection, rev : 0..MaxSurface,
   current : BOOLEAN, screen : SceneType, effect : 0..MaxEffect]

FenceType ==
  [pending : BOOLEAN, token : 0..MaxToken, source : SourceOrNobody,
   left : 0..FenceTimeout]

Labels == {"select", "publish", "sync", "ack", "emit", "fence", "dispatch", "send",
           "respond", "broadcast", "reject", "done"}

(* The shape of the session struct's fields in gateway.go.                 *)
TypeOK ==
  /\ gen \in [Source -> 0..MaxGeneration] /\ listed \in [Source -> BOOLEAN]
  /\ sources \in [Source -> Backend]
  /\ recovery \in [Source -> Record]
  /\ active \in SourceOrNobody /\ surfaceActive \in BOOLEAN
  /\ pending \in [WireID -> SourceOrNobody]
  /\ requestIDs \in [WireID -> Consumer \cup {Idle}]
  /\ deadlines \in [WireID -> Never..OpTimeout]
  /\ retired \in [WireID -> SourceOrNobody]
  /\ requestSequence \in 0..MaxSequence
  /\ fence \in FenceType
  /\ view \in ViewType
  /\ pc \in Labels /\ tick \in BOOLEAN
  /\ then \in [op : {"select", "respond", "dispatch", "broadcast"},
               id : Consumer \cup {0}, target : SourceOrNobody, rest : SUBSET Source]
  /\ consumer \in [Consumer -> OrdinaryID \cup {Idle, Asked}]
  /\ awaited \in 0..MaxToken \cup {NoToken}
  /\ guilty \subseteq Source \X Generation
  /\ late \in [Source -> 0..MaxGeneration]

(***************************************************************************)
(* syncInterest relinquishes the previous source before it activates the   *)
(* next: whatever writes fail on the way, the gateway has never told two   *)
(* sources that they are shown.                                            *)
(***************************************************************************)
OneHolder ==
  \A s, t \in Source : sources[s].interest /\ sources[t].interest => s = t

(***************************************************************************)
(* Between handlers interest is where the viewer wants it, unless every    *)
(* transition slot is taken, whose acknowledgement will resume the change: *)
(* no path through publish, fail and Acknowledge leaves a transition       *)
(* unsent with nothing to resume it.                                       *)
(***************************************************************************)
InterestSettled ==
  AtRest /\ SlotFree =>
    \A s \in Source : sources[s].interest <=> (s = active /\ surfaceActive)

(***************************************************************************)
(* The active source has a snapshot, and between handlers the view has no  *)
(* active source only when no source has one: every removal of the active  *)
(* source is followed by the publish that adopts another.                  *)
(***************************************************************************)
ActiveSettled ==
  pc # "done" =>
    /\ active # Nobody => active \in SnapshotIDs
    /\ AtRest /\ active = Nobody => SnapshotIDs = {}

(***************************************************************************)
(* An answer reaches the call it answers: the viewer is still waiting for  *)
(* the wire request that g.requestIDs maps to its request ID, so neither a *)
(* late nor a repeated answer can have taken a reused ID's place.          *)
(***************************************************************************)
AnswersReachTheirCall ==
  \A k \in WireID : requestIDs[k] # Idle => consumer[requestIDs[k]] = k

(***************************************************************************)
(* Between handlers, every call the viewer waits for is still known to the *)
(* gateway and has a deadline: none was dropped without an answer by a     *)
(* removed source, a timeout or an early return.                           *)
(***************************************************************************)
NoCallForgotten ==
  AtRest => \A c \in Consumer : consumer[c] # Idle =>
    /\ consumer[c] \in OrdinaryID
    /\ requestIDs[consumer[c]] = c /\ deadlines[consumer[c]] # Never

(***************************************************************************)
(* Nothing outlives its source: pending and expired requests, the fence    *)
(* and response chunks belong to a live backend, and chunks are retained   *)
(* only for a request that is still pending there (an expired call's are   *)
(* dropped with it).                                                       *)
(***************************************************************************)
NothingOutlivesItsSource ==
  pc # "done" =>
    /\ \A k \in WireID : /\ pending[k] # Nobody => pending[k] \in Live
                         /\ retired[k] # Nobody => retired[k] \in Live
    /\ fence.source # Nobody => fence.source \in Live
    /\ \A s \in Source : \A k \in sources[s].chunks : pending[k] = s

(***************************************************************************)
(* Pending plus expired calls never exceed their slots, and neither do     *)
(* surface transitions, although a call is counted before the publish of   *)
(* its focus change and added after it.                                    *)
(***************************************************************************)
SlotsBounded ==
  /\ Cardinality(Outstanding) + Cardinality(Retired) <= MaxRequests
  /\ Cardinality(Internal) <= MaxInternal

(***************************************************************************)
(* The tables of requests agree with each other, with the viewer and with  *)
(* the backends, whichever of removal, timeout, answer and failed write    *)
(* comes first.                                                            *)
(***************************************************************************)
TablesAgree == NoCallForgotten /\ NothingOutlivesItsSource /\ SlotsBounded

(***************************************************************************)
(* The fence the viewer waits for is the one the gateway has pending; and  *)
(* between handlers it is with a source, or waits for the activation of    *)
(* one that has no transition slot yet.  It is never stranded by the       *)
(* removal of the source that had it.                                      *)
(***************************************************************************)
FenceKept ==
  pc # "done" =>
    /\ awaited = IF fence.pending THEN fence.token ELSE NoToken
    /\ AtRest /\ fence.pending /\ fence.source = Nobody =>
         active # Nobody /\ surfaceActive /\ ~sources[active].interest /\ ~SlotFree

(***************************************************************************)
(* A patch is only ever applied to the scene it was made for.              *)
(***************************************************************************)
NoTornScreen == view.screen # TornScene

(***************************************************************************)
(* Between handlers a viewer that is shown the aggregate has the latest    *)
(* scene of the active source on screen as soon as that source has drawn   *)
(* one for its current snapshot: no switch, removal, visibility change or  *)
(* incremental patch leaves an older scene, or another source's, behind.   *)
(***************************************************************************)
ScreenIsCurrent ==
  AtRest /\ surfaceActive /\ active # Nobody =>
    LET f == sources[active].frame IN
    f # NoFrame /\ f.proj = sources[active].snapshot =>
      view.screen = Scene(active, f.proj, f.rev, TRUE)

(***************************************************************************)
(* Between handlers a viewer that is shown a source has that source's      *)
(* terminal modes, not those of the source shown before it.                *)
(***************************************************************************)
EffectsAreActives ==
  AtRest /\ surfaceActive /\ active # Nobody => view.effect = sources[active].effect

(***************************************************************************)
(* Between handlers, what publish decides in several steps, any of which a *)
(* failed write may restart, is decided in full: the active source, its    *)
(* interest, and its terminal modes.                                       *)
(***************************************************************************)
ViewSettled == InterestSettled /\ ActiveSettled /\ EffectsAreActives

(***************************************************************************)
(* A generation that failed for good is not opened again for this viewer   *)
(* (protocol/v1.md: "Failure history survives source teardown and catalog  *)
(* refresh").  It is stated for shares that stay visible: refresh drops    *)
(* the record of one that others push out of the first MaxVisible, so the  *)
(* runs that check it have no more shares than that.                       *)
(***************************************************************************)
QuarantineHolds ==
  \A s \in Source : sources[s].live => <<s, sources[s].gen>> \notin guilty

(***************************************************************************)
(* Only a generation that itself failed for good is quarantined: an event  *)
(* that arrives late from a removed backend never condemns its successor.  *)
(***************************************************************************)
QuarantineIsDeserved ==
  \A s \in Source : recovery[s].blocked => <<s, recovery[s].gen>> \in guilty

(***************************************************************************)
(* Quarantine is exact: the generations that failed for good, no others.   *)
(***************************************************************************)
QuarantineExact == QuarantineHolds /\ QuarantineIsDeserved

(***************************************************************************)
(* While a publication stays visible its failure history is only ever      *)
(* forgotten after a stable interval of active rendering.                  *)
(***************************************************************************)
HistoryKept ==
  [][\A s \in Source :
       Recorded(recovery[s]) /\ ~Recorded(recovery'[s]) =>
         \/ s \notin Visible \/ recovery[s].gen # gen[s]
         \/ sources[s].stable >= StableInterval]_vars

(***************************************************************************)
(* Operations are never replayed: a wire request stays with the source it  *)
(* was sent to, and once settled or expired it is never pending again.     *)
(***************************************************************************)
NeverReplayed ==
  [][\A k \in OrdinaryID :
       k <= requestSequence => pending'[k] \in {pending[k], Nobody}]_vars

(***************************************************************************)
(* Every call is answered, by its source, by a failure or by its timeout,  *)
(* whatever the sources do (hive/README.md: "Ordinary calls return a       *)
(* timeout after 30 seconds").                                             *)
(***************************************************************************)
EveryCallAnswered ==
  \A c \in Consumer : consumer[c] # Idle ~> (consumer[c] = Idle \/ pc = "done")

(* The backend of s outlives the step.                                     *)
Survives(s) == sources'[s].live /\ sources'[s].gen = sources[s].gen

(* The source that is shown and the one that has the fence are not lost    *)
(* again and again; any other may fail, and come back, without end.        *)
HoldersStay ==
  <>[][\A s \in {active, fence.source} \ {Nobody} : Survives(s)]_vars

(***************************************************************************)
(* A fence is held up only by sources that are lost again and again while  *)
(* they have it or are to get it: a silent one loses it after its ten      *)
(* seconds, and neither a full table of transitions nor the failures of    *)
(* other sources keep it.  The ten seconds of hive/README.md ("presentation *)
(* fences have 10-second hard limits") begin anew with every source that   *)
(* resumeFence sends the fence to, and nothing limits how many there are:  *)
(* silent sources that come back before the last one is given up, or whose *)
(* history is reset because they draw, may keep a fence for ever.          *)
(***************************************************************************)
EveryFenceAnswered ==
  HoldersStay => (awaited # NoToken ~> (awaited = NoToken \/ pc = "done"))

=============================================================================
