---------------------------- MODULE GatewayProofs ----------------------------
(***************************************************************************)
(* Proofs about Gateway, for every number of shares, request IDs and slots *)
(* and every timeout.                                                      *)
(***************************************************************************)
EXTENDS Gateway, FiniteSetTheorems, TLAPS

USE MaxAttemptsAssumption, BoundsAssumption

FrameType == [proj : 0..MaxProjection, rev : 0..MaxSurface]

-----------------------------------------------------------------------------
(* What the operators on records, scenes and backends return.               *)

(* Zero, absence and the timeouts are in the ranges of the fields they start. *)
LEMMA Ranges ==
  /\ 0 \in 0..MaxGeneration /\ 0 \in 0..MaxAttempts /\ 0 \in 0..16
  /\ 0 \in 0..MaxProjection /\ 0 \in 0..MaxSurface /\ 0 \in 0..MaxEffect
  /\ 0 \in 0..MaxToken /\ 0 \in 0..FenceTimeout /\ 0 \in 0..MaxSequence
  /\ FenceTimeout \in 0..FenceTimeout
  /\ Never \in Never..InitTimeout /\ InitTimeout \in Never..InitTimeout
  /\ Never \in Never..StableInterval /\ 0 \in Never..StableInterval
  /\ Never \in Never..OpTimeout /\ OpTimeout \in Never..OpTimeout
  BY DEF Never

(* The backoff table has an entry for every attempt count.                  *)
LEMMA BackoffType ==
  ASSUME NEW n \in 1..MaxAttempts
  PROVE  Backoffs[n] \in 0..16
  BY DEF Backoffs

(* fail() leaves a well-formed record.                                      *)
LEMMA PenaliseType ==
  ASSUME NEW r \in Record, NEW g \in 0..MaxGeneration, NEW kind
  PROVE  Penalise(r, g, kind) \in Record
<1> DEFINE old == RecordOf(r, g)
           n == NextAttempt(old)
<1>0. NoRecord \in Record
  BY Ranges DEF NoRecord, Record
<1>1. old \in Record
  BY <1>0 DEF RecordOf, Record
<1>2. n \in 1..MaxAttempts
  BY <1>1 DEF NextAttempt, Record
<1>3. Backoffs[n] \in 0..16
  BY <1>2, BackoffType
<1>4. Penalise(r, g, kind) = IF kind = Persistent THEN [old EXCEPT !.blocked = TRUE]
        ELSE [old EXCEPT !.blocked = FALSE, !.attempts = n, !.wait = Backoffs[n]]
  BY DEF Penalise
<1> HIDE DEF old, n
<1>5. n \in 0..MaxAttempts
  BY <1>2
<1>6. [old EXCEPT !.blocked = TRUE] \in Record
  BY <1>1 DEF Record
<1>7. [old EXCEPT !.blocked = FALSE, !.attempts = n, !.wait = Backoffs[n]] \in Record
  BY <1>1, <1>3, <1>5 DEF Record
<1> QED
  BY <1>4, <1>6, <1>7

(* NoRecord and NoBackend are well formed.                                  *)
LEMMA DefaultTypes ==
  /\ NoRecord \in Record /\ NoBackend \in Backend /\ NoFence \in FenceType
  /\ FirstView \in ViewType /\ BlankScene \in SceneType /\ TornScene \in SceneType
  /\ \A g \in 0..MaxGeneration : Opening(g) \in Backend
<1>1. NoRecord \in Record
  BY Ranges DEF NoRecord, Record
<1>2. NoBackend \in Backend
  BY Ranges DEF NoBackend, Backend, NoFrame, NoEffect
<1>3. NoFence \in FenceType
  BY Ranges DEF NoFence, FenceType, SourceOrNobody
<1>4. BlankScene \in SceneType /\ TornScene \in SceneType
  BY Ranges DEF BlankScene, TornScene, Scene, SceneType, SourceOrNobody, Nobody
<1>5. FirstView \in ViewType
  BY Ranges, <1>4 DEF FirstView, ViewType, SourceOrNobody, NoEffect
<1>6. ASSUME NEW g \in 0..MaxGeneration PROVE Opening(g) \in Backend
  BY <1>2, Ranges DEF Opening, Backend
<1> QED
  BY <1>1, <1>2, <1>3, <1>4, <1>5, <1>6

(* The scene operators keep the view well formed.                           *)
LEMMA ViewTypes ==
  ASSUME NEW v \in ViewType, NEW on \in BOOLEAN, NEW a \in SourceOrNobody,
         NEW frame \in FrameType, NEW snapshot \in 0..MaxProjection,
         NEW base \in 0..MaxSurface, NEW e \in 0..MaxEffect
  PROVE  /\ MoveProjection(v) \in ViewType
         /\ BlankSurface(v) \in ViewType
         /\ SendSurface(v, on, a, frame, snapshot) \in ViewType
         /\ SendPatch(v, on, a, frame, base, snapshot) \in ViewType
         /\ ReplayEffects(v, on, e) \in ViewType
         /\ [v EXCEPT !.effect = e] \in ViewType
<1> USE Ranges, DefaultTypes DEF ViewType, SourceOrNobody
<1>1. MoveProjection(v) \in ViewType
  BY DEF MoveProjection, SceneType
<1>2. BlankSurface(v) \in ViewType
  BY DEF BlankSurface
<1>3. \A r \in 0..MaxSurface :
        a # Nobody => Scene(a, frame.proj, r, TRUE) \in SceneType
  BY DEF SceneType, Scene, FrameType
<1>4. SendSurface(v, on, a, frame, snapshot) \in ViewType
  BY <1>2, <1>3 DEF SendSurface, FrameType
<1>5. SendPatch(v, on, a, frame, base, snapshot) \in ViewType
  <2>1. Scene(a, frame.proj, frame.rev, TRUE) \in SceneType
    BY DEF SceneType, Scene, FrameType
  <2> QED
    BY <1>4, <2>1 DEF SendPatch, FrameType
<1>6. ReplayEffects(v, on, e) \in ViewType /\ [v EXCEPT !.effect = e] \in ViewType
  BY DEF ReplayEffects
<1> QED
  BY <1>1, <1>2, <1>4, <1>5, <1>6

(* Forgetting sources keeps the view well formed.                           *)
LEMMA ForgetType ==
  ASSUME NEW v \in ViewType, NEW gone
  PROVE  ForgetSources(v, gone) \in ViewType
  BY DEF ForgetSources, ViewType, SceneType, SourceOrNobody

-----------------------------------------------------------------------------
(* Removal and failure keep the state well formed.                          *)

LEMMA SettleType ==
  ASSUME TypeOK, NEW gone \in SUBSET Source, NEW expired \in SUBSET WireID,
         Settle(gone, expired)
  PROVE  /\ pending' \in [WireID -> SourceOrNobody]
         /\ requestIDs' \in [WireID -> Consumer \cup {Idle}]
         /\ deadlines' \in [WireID -> Never..OpTimeout]
         /\ retired' \in [WireID -> SourceOrNobody]
         /\ consumer' \in [Consumer -> OrdinaryID \cup {Idle, Asked}]
         /\ fence' \in FenceType
         /\ active' \in SourceOrNobody
         /\ view' \in ViewType
         /\ late' \in [Source -> 0..MaxGeneration]
<1> USE DEF TypeOK, Settle
<1>1. pending' \in [WireID -> SourceOrNobody] /\ retired' \in [WireID -> SourceOrNobody]
  BY DEF RetiredAfter, SourceOrNobody
<1>2. requestIDs' \in [WireID -> Consumer \cup {Idle}]
  OBVIOUS
<1>3. deadlines' \in [WireID -> Never..OpTimeout]
  BY Ranges
<1>4. consumer' \in [Consumer -> OrdinaryID \cup {Idle, Asked}]
  OBVIOUS
<1>5. fence' \in FenceType
  BY Ranges DEF FenceAfter, FenceType, SourceOrNobody
<1>6. active' \in SourceOrNobody
  BY DEF ActiveAfter, SourceOrNobody
<1>7. view' \in ViewType
  BY ForgetType
<1>8. late' \in [Source -> 0..MaxGeneration]
  BY DEF Backend
<1> QED
  BY <1>1, <1>2, <1>3, <1>4, <1>5, <1>6, <1>7, <1>8

(* A live backend has a generation that was published.                      *)
LiveGeneration == \A s \in Source : sources[s].live => sources[s].gen \in Generation

LEMMA FailType ==
  ASSUME TypeOK, LiveGeneration, NEW s \in Source, NEW kind, NEW age,
         Fail(s, kind, age), Blame(s, kind), sources[s].live
  PROVE  /\ sources' \in [Source -> Backend] /\ recovery' \in [Source -> Record]
         /\ guilty' \subseteq Source \X Generation
<1>1. ResetRecovery(s, age) \in Record
  BY DefaultTypes DEF ResetRecovery, TypeOK
<1>2. Penalise(ResetRecovery(s, age), sources[s].gen, kind) \in Record
  BY <1>1, PenaliseType DEF TypeOK, Backend
<1>3. recovery' \in [Source -> Record] /\ sources' \in [Source -> Backend]
  BY <1>2, DefaultTypes DEF Fail, TypeOK
<1>4. guilty' \subseteq Source \X Generation
  BY DEF Blame, TypeOK, LiveGeneration
<1> QED
  BY <1>3, <1>4

-----------------------------------------------------------------------------
(***************************************************************************)
(* TypeOK is inductive once it is known that listed shares and live        *)
(* backends have a generation, and that the backends a handler writes to   *)
(* (the active one, and the target of a call or of a rejected response)    *)
(* are live.                                                               *)
(***************************************************************************)
ListedGeneration == \A s \in Source : listed[s] => gen[s] \in Generation

TargetsLive ==
  /\ pc # "done" /\ active # Nobody => active \in Live
  /\ pc \in {"send", "reject"} => then.target \in Live

TypeInv == TypeOK /\ LiveGeneration /\ ListedGeneration /\ TargetsLive

ThenType ==
  [op : {"select", "respond", "dispatch", "broadcast"}, id : Consumer \cup {0},
   target : SourceOrNobody, rest : SUBSET Source]

LEMMA TypeInit == Init => TypeInv
<1> SUFFICES ASSUME Init PROVE TypeInv
  OBVIOUS
<1>1. TypeOK
  BY Ranges, DefaultTypes DEF Init, NegotiateHello, TypeOK, SourceOrNobody, NoThen, Labels
<1> QED
  BY <1>1 DEF TypeInv, LiveGeneration, ListedGeneration, TargetsLive, Init, NoBackend

(* Steps that fail a source and publish, whatever becomes of then.          *)
LEMMA FailureType ==
  ASSUME TypeInv, NEW s \in Live, NEW kind, NEW age,
         Fail(s, kind, age), Blame(s, kind), pc' = "publish", pc # "done",
         UNCHANGED <<catalogVars, surfaceActive, requestSequence, tick, awaited>>,
         then' \in ThenType
  PROVE  TypeInv'
<1>1. s \in Source /\ sources[s].live
  BY DEF Live
<1>2. /\ sources' \in [Source -> Backend] /\ recovery' \in [Source -> Record]
      /\ guilty' \subseteq Source \X Generation
  BY <1>1, FailType DEF TypeInv
<1>3. Settle({s}, {})
  BY DEF Fail
<1>4. TypeOK'
  BY <1>1, <1>2, <1>3, SettleType DEF TypeInv, TypeOK, catalogVars, Labels, ThenType
<1>5. LiveGeneration'
  BY <1>1 DEF LiveGeneration, Fail, NoBackend, TypeInv, TypeOK
<1>6. TargetsLive'
  BY <1>1, <1>3 DEF TargetsLive, TypeInv, TypeOK, Fail, Settle, ActiveAfter, Live
<1> QED
  BY <1>4, <1>5, <1>6 DEF TypeInv, ListedGeneration, catalogVars

LEMMA WriteFailsType ==
  ASSUME TypeInv, NEW s \in Live, WriteFails(s), pc # "done", then' \in ThenType
  PROVE  TypeInv'
<1> PICK kind \in WriteFailures : Fail(s, kind, sources[s].stable) /\ Blame(s, kind)
  BY DEF WriteFails
<1> QED
  BY FailureType DEF WriteFails

(* Steps that change no backend, no record and no request.                  *)
LEMMA QuietType ==
  ASSUME TypeInv, UNCHANGED <<catalogVars, sources, requestVars, historyVars>>,
         active' \in SourceOrNobody, surfaceActive' \in BOOLEAN, fence' \in FenceType,
         view' \in ViewType, pc' \in Labels, then' \in ThenType, tick' \in BOOLEAN,
         consumer' \in [Consumer -> OrdinaryID \cup {Idle, Asked}],
         awaited' \in 0..MaxToken \cup {NoToken}, TargetsLive'
  PROVE  TypeInv'
  BY DEF TypeInv, TypeOK, LiveGeneration, ListedGeneration, ThenType, catalogVars,
         requestVars, historyVars

-----------------------------------------------------------------------------
(* The steps of a handler.                                                  *)
LEMMA HandlerType == TypeInv /\ Handler => TypeInv'
<1> SUFFICES ASSUME TypeInv, Handler PROVE TypeInv'
  OBVIOUS
<1> USE DEF TypeInv
<1>0. then \in ThenType /\ NoThen \in ThenType
  BY DEF TypeOK, ThenType, NoThen, SourceOrNobody
<1>1. CASE Publish
  <2>1. CASE active # Nobody \/ SnapshotIDs = {}
    BY <1>1, <2>1, <1>0, QuietType DEF Publish, TypeOK, viewerVars, Labels, TargetsLive,
       Live, SnapshotIDs
  <2>2. CASE active = Nobody /\ SnapshotIDs # {}
    <3>1. PICK s \in SnapshotIDs :
            active' = s /\ view' = ReplayEffects(view, surfaceActive, sources[s].effect)
      BY <1>1, <2>2 DEF Publish
    <3>2. s \in Source /\ sources[s].live /\ sources[s].effect \in 0..MaxEffect
      BY DEF SnapshotIDs, TypeOK, Backend
    <3>3. view' \in ViewType
      BY <3>1, <3>2 DEF ReplayEffects, TypeOK, ViewType
    <3> QED
      BY <1>1, <1>0, <3>1, <3>2, <3>3, QuietType
         DEF Publish, TypeOK, viewerVars, Labels, TargetsLive, Live, SourceOrNobody
  <2> QED
    BY <2>1, <2>2
<1>2. CASE Emit
  <2> DEFINE f == IF active = Nobody THEN NoFrame ELSE sources[active].frame
             r == IF active = Nobody THEN 0 ELSE sources[active].snapshot
  <2>1. f \in FrameType /\ r \in 0..MaxProjection
    BY Ranges DEF TypeOK, Backend, SourceOrNobody, NoFrame, FrameType
  <2>2. view' = SendSurface(MoveProjection(view), surfaceActive, active, f, r)
    BY <1>2 DEF Emit
  <2> HIDE DEF f, r
  <2>3. MoveProjection(view) \in ViewType
    BY DEF TypeOK, MoveProjection, ViewType, SceneType
  <2>4. view' \in ViewType
    BY <2>1, <2>2, <2>3, ViewTypes, Ranges DEF TypeOK
  <2> QED
    BY <1>2, <1>0, <2>4, QuietType DEF Emit, TypeOK, viewerVars, Labels, TargetsLive, Live
<1>3. CASE InterestWaits \/ InterestSettles
  BY <1>3, <1>0, QuietType DEF InterestWaits, InterestSettles, SyncReturns, Syncing, TypeOK,
     viewerVars, Labels, TargetsLive, Live
<1>4. ASSUME NEW s \in Source, ReleaseInterest(s) \/ ActivateInterest(s) PROVE TypeInv'
  <2>1. PICK on \in BOOLEAN : SetInterest(s, on)
    BY <1>4 DEF ReleaseInterest, ActivateInterest
  <2>2. pc' \in Labels \ {"done", "send", "reject"} /\ pc # "done"
    BY <1>4 DEF ReleaseInterest, ActivateInterest, SyncReturns, Syncing, Labels
  <2>3. sources' \in [Source -> Backend]
    <3>1. sources[s] \in Backend
      BY DEF TypeOK
    <3>2. [sources[s] EXCEPT !.interest = on, !.ready = FALSE, !.stable = Never] \in Backend
      BY <3>1, Ranges DEF Backend
    <3> QED
      BY <2>1, <3>2 DEF SetInterest, TypeOK
  <2>4. pending' \in [WireID -> SourceOrNobody] /\ deadlines' \in [WireID -> Never..OpTimeout]
    <3>1. PICK k \in InterestID : /\ pending' = [pending EXCEPT ![k] = s]
                                  /\ deadlines' = [deadlines EXCEPT ![k] = OpTimeout]
      BY <2>1 DEF SetInterest
    <3> QED
      BY <3>1, Ranges DEF TypeOK, SourceOrNobody
  <2>5. TypeOK'
    BY <2>1, <2>2, <2>3, <2>4 DEF SetInterest, TypeOK, catalogVars, viewerVars, historyVars
  <2>6. LiveGeneration' /\ TargetsLive'
    BY <2>1, <2>2 DEF SetInterest, TypeOK, LiveGeneration, TargetsLive, Live
  <2> QED
    BY <2>1, <2>5, <2>6 DEF SetInterest, ListedGeneration, catalogVars
<1>5. ASSUME NEW s \in Source, InterestFails(s) PROVE TypeInv'
  <2>1. s \in Live /\ pc # "done"
    BY <1>5 DEF InterestFails, ToActivate, ToRelease, Syncing
  <2>2. PICK kind, age : Fail(s, kind, age) /\ Blame(s, kind)
    BY <1>5 DEF InterestFails
  <2> QED
    BY <1>5, <1>0, <2>1, <2>2, FailureType DEF InterestFails
<1>6. CASE SkipFence
  BY <1>6, <1>0, QuietType DEF SkipFence, TypeOK, viewerVars, Labels, TargetsLive, Live
<1>7. CASE AnswerFence
  BY <1>7, <1>0, QuietType, DefaultTypes DEF AnswerFence, TypeOK, viewerVars, Labels,
     TargetsLive, Live
<1>8. CASE SendFence
  <2>1. CASE WriteFails(active)
    BY <1>8, <1>0, <2>1, WriteFailsType DEF SendFence, TargetsLive
  <2>2. CASE ~WriteFails(active)
    <3>1. fence' \in FenceType
      BY <1>8, <2>2, Ranges DEF SendFence, TypeOK, FenceType
    <3> QED
      BY <1>8, <1>0, <2>2, <3>1, QuietType DEF SendFence, TypeOK, viewerVars, Labels,
         TargetsLive, Live
  <2> QED
    BY <2>1, <2>2
<1>9. CASE DispatchRefused \/ Respond
  BY <1>9, <1>0, QuietType DEF DispatchRefused, Respond, TypeOK, Labels, TargetsLive, Live
<1>10. CASE Dispatch
  <2>1. requestSequence + 1 \in OrdinaryID /\ requestSequence + 1 \in 0..MaxSequence
    BY <1>10 DEF Dispatch, TypeOK, OrdinaryID
  <2>2. then.target \in SourceOrNobody /\ then.id \in Consumer \cup {Idle}
    BY DEF TypeOK, Idle
  <2>3. TypeOK'
    BY <1>10, <2>1, <2>2, Ranges DEF Dispatch, TypeOK, NextSequence, catalogVars,
       historyVars, Labels
  <2>4. LiveGeneration' /\ TargetsLive'
    BY <1>10 DEF Dispatch, historyVars, LiveGeneration, TargetsLive, Live
  <2> QED
    BY <1>10, <2>3, <2>4 DEF Dispatch, ListedGeneration, catalogVars
<1>11. CASE SendCall
  <2>1. CASE WriteFails(then.target)
    BY <1>11, <1>0, <2>1, WriteFailsType DEF SendCall, TargetsLive
  <2>2. CASE ~WriteFails(then.target)
    BY <1>11, <1>0, <2>2, QuietType DEF SendCall, TypeOK, viewerVars, Labels, TargetsLive,
       Live
  <2> QED
    BY <2>1, <2>2
<1>12. CASE Reject
  <2>1. then.target \in Live
    BY <1>12 DEF Reject, TargetsLive
  <2> QED
    BY <1>12, <1>0, <2>1, FailureType DEF Reject
<1>13. ASSUME NEW s \in Source, BroadcastTo(s) PROVE TypeInv'
  <2>1. then' \in ThenType
    BY <1>13, <1>0 DEF BroadcastTo, ThenType
  <2>2. CASE WriteFails(s)
    BY <1>13, <2>1, <2>2, WriteFailsType DEF BroadcastTo
  <2>3. CASE ~WriteFails(s)
    BY <1>13, <2>1, <2>3, QuietType DEF BroadcastTo, TypeOK, viewerVars, TargetsLive, Live
  <2> QED
    BY <2>2, <2>3
<1>14. CASE BroadcastEnds
  <2>1. view' \in ViewType
    BY <1>14, DefaultTypes DEF BroadcastEnds, BlankSurface, TypeOK, ViewType, SourceOrNobody
  <2> QED
    BY <1>14, <1>0, <2>1, QuietType DEF BroadcastEnds, TypeOK, viewerVars, Labels,
       TargetsLive, Live
<1> QED
  BY <1>1, <1>2, <1>3, <1>4, <1>5, <1>6, <1>7, <1>8, <1>9, <1>10, <1>11, <1>12, <1>13,
     <1>14 DEF Handler

(* The viewer's events.                                                     *)
LEMMA ViewerType == TypeInv /\ ViewerEvent => TypeInv'
<1> SUFFICES ASSUME TypeInv, ViewerEvent PROVE TypeInv'
  OBVIOUS
<1> USE DEF TypeInv
<1>0. then \in ThenType /\ NoThen \in ThenType
  BY DEF TypeOK, ThenType, NoThen, SourceOrNobody
<1>a. ASSUME UNCHANGED vars PROVE TypeInv'
  BY <1>a DEF vars, TypeOK, LiveGeneration, ListedGeneration, TargetsLive, Live
<1>1. ASSUME NEW c \in Consumer, NEW t \in Source, NEW focus \in BOOLEAN, Call(c, t, focus)
      PROVE  TypeInv'
  <2>1. t \in Live /\ sources[t].effect \in 0..MaxEffect
    BY <1>1 DEF Call, SnapshotIDs, Live, TypeOK, Backend
  <2>2. then' \in ThenType
    BY <1>1 DEF Call, ThenType, SourceOrNobody
  <2>3. view' \in ViewType
    BY <1>1, <2>1 DEF Call, ReplayEffects, TypeOK, ViewType
  <2>4. consumer' \in [Consumer -> OrdinaryID \cup {Idle, Asked}]
    BY <1>1 DEF Call, TypeOK
  <2>5. active' \in SourceOrNobody /\ TargetsLive' /\ pc' \in Labels
    BY <1>1, <2>1 DEF Call, TypeOK, TargetsLive, Live, SourceOrNobody, Labels, Client
  <2> QED
    BY <1>1, <2>2, <2>3, <2>4, <2>5, QuietType DEF Call, TypeOK
<1>2. ASSUME NEW c \in Consumer, RefuseCall(c) PROVE TypeInv'
  BY <1>2, <1>a DEF RefuseCall
<1>3. ASSUME NEW c \in Consumer, NEW on \in BOOLEAN, SurfaceSet(c, on) PROVE TypeInv'
  <2>1. view' \in ViewType
    BY <1>3, Ranges DEF SurfaceSet, ReplayEffects, TypeOK, ViewType, Backend,
       SourceOrNobody, NoEffect
  <2>2. then' \in ThenType
    BY <1>3 DEF SurfaceSet, NoThen, ThenType, SourceOrNobody
  <2> QED
    BY <1>3, <2>1, <2>2, QuietType DEF SurfaceSet, TypeOK, Labels, TargetsLive, Live, Client
<1>4. ASSUME NEW token \in 0..MaxToken, SyncFence(token) PROVE TypeInv'
  <2>1. CASE active = Nobody
    BY <1>4, <2>1, <1>a DEF SyncFence
  <2>2. CASE active # Nobody
    <3>1. fence' = [pending |-> TRUE, token |-> token, source |-> Nobody, left |-> 0]
      BY <1>4, <2>2 DEF SyncFence
    <3>2. fence' \in FenceType
      BY <3>1, Ranges DEF FenceType, SourceOrNobody
    <3> QED
      BY <1>4, <1>0, <2>2, <3>2, QuietType DEF SyncFence, TypeOK, Labels, TargetsLive,
         Live, Client
  <2> QED
    BY <2>1, <2>2
<1>5. CASE Input
  BY <1>5, <1>0, <1>a, WriteFailsType DEF Input, TargetsLive, Client
<1>6. CASE Resize
  <2>1. CASE WriteFails(active) /\ active # Nobody
    <3>1. active \in Live /\ pc # "done"
      BY <1>6, <2>1 DEF Resize, TargetsLive, Client
    <3>2. then' \in ThenType
      BY <1>6, <1>0 DEF Resize, loopVars
    <3> QED
      BY <2>1, <3>1, <3>2, WriteFailsType
  <2>2. CASE ~(WriteFails(active) /\ active # Nobody)
    <3>1. view' \in ViewType
      BY <1>6, <2>2, DefaultTypes DEF Resize, BlankSurface, TypeOK, ViewType, SourceOrNobody
    <3> QED
      BY <1>6, <1>0, <2>2, <3>1, QuietType DEF Resize, TypeOK, viewerVars, loopVars,
         TargetsLive, Live
  <2> QED
    BY <2>1, <2>2
<1>7. CASE Broadcast
  <2>1. then' \in ThenType
    BY <1>7 DEF Broadcast, NoThen, ThenType, SourceOrNobody, Live
  <2> QED
    BY <1>7, <2>1, QuietType DEF Broadcast, TypeOK, viewerVars, Labels, TargetsLive, Live,
       Client
<1> QED
  BY <1>1, <1>2, <1>3, <1>4, <1>5, <1>6, <1>7 DEF ViewerEvent

(* The backends' events that neither fail one nor answer a request.         *)
LEMMA BackendUpdateType ==
  ASSUME TypeInv, NEW s \in Live, pc # "done", NEW b \in Backend,
         b.live = sources[s].live, b.gen = sources[s].gen,
         sources' = [sources EXCEPT ![s] = b],
         UNCHANGED <<catalogVars, active, surfaceActive, historyVars, tick>>,
         pending' \in [WireID -> SourceOrNobody],
         requestIDs' \in [WireID -> Consumer \cup {Idle}],
         deadlines' \in [WireID -> Never..OpTimeout],
         retired' \in [WireID -> SourceOrNobody],
         UNCHANGED requestSequence,
         fence' \in FenceType, view' \in ViewType, pc' \in Labels \ {"done", "send"},
         then' \in ThenType, pc' = "reject" => then'.target = s,
         consumer' \in [Consumer -> OrdinaryID \cup {Idle, Asked}],
         awaited' \in 0..MaxToken \cup {NoToken}
  PROVE  TypeInv'
<1>1. TypeOK'
  BY DEF TypeInv, TypeOK, catalogVars, historyVars, ThenType, Live
<1>2. LiveGeneration' /\ ListedGeneration'
  BY DEF TypeInv, LiveGeneration, ListedGeneration, TypeOK, catalogVars, Live
<1>3. TargetsLive'
  BY DEF TypeInv, TargetsLive, TypeOK, Live
<1> QED
  BY <1>1, <1>2, <1>3 DEF TypeInv

(* Rendering keeps a backend well formed, live and of its generation.       *)
LEMMA RenderProgressType ==
  ASSUME NEW b \in Backend, NEW internal
  PROVE  /\ RenderProgress(b, internal) \in Backend
         /\ RenderProgress(b, internal).live = b.live
         /\ RenderProgress(b, internal).gen = b.gen
  BY Ranges DEF RenderProgress, Backend

LEMMA RenderedType ==
  ASSUME TypeInv, NEW s \in Source, NEW frame \in FrameType
  PROVE  /\ Rendered(s, frame) \in Backend
         /\ Rendered(s, frame).live = sources[s].live
         /\ Rendered(s, frame).gen = sources[s].gen
<1> DEFINE b == [sources[s] EXCEPT !.frame = frame]
           d == [b EXCEPT !.ready = TRUE]
<1>1. sources[s] \in Backend
  BY DEF TypeInv, TypeOK
<1>2. b \in Backend /\ b.live = sources[s].live /\ b.gen = sources[s].gen
  BY <1>1 DEF Backend, FrameType
<1>3. Rendered(s, frame) = IF b.interest /\ frame.proj = b.snapshot
                             THEN RenderProgress(d, InternalOf(s)) ELSE b
  BY DEF Rendered
<1> HIDE DEF b
<1>4. d \in Backend /\ d.live = b.live /\ d.gen = b.gen
  BY <1>2 DEF Backend
<1> HIDE DEF d
<1> QED
  BY <1>2, <1>3, <1>4, RenderProgressType

LEMMA ForgottenType ==
  ASSUME TypeOK, NEW k \in WireID, Forget(k)
  PROVE  /\ pending' \in [WireID -> SourceOrNobody]
         /\ requestIDs' \in [WireID -> Consumer \cup {Idle}]
         /\ deadlines' \in [WireID -> Never..OpTimeout]
  BY Ranges DEF TypeOK, Forget, SourceOrNobody

(* The backends' events.                                                    *)
LEMMA SourceType == ASSUME TypeInv, NEW s \in Source, SourceEvent(s) PROVE TypeInv'
<1> USE DEF TypeInv, Upstream
<1>0. then \in ThenType /\ NoThen \in ThenType /\ sources[s] \in Backend
  BY DEF TypeOK, ThenType, NoThen, SourceOrNobody
<1>1. CASE Opened(s)
  <2>1. [sources[s] EXCEPT !.stream = TRUE] \in Backend
    BY <1>0 DEF Backend
  <2> QED
    BY <1>1, <1>0, <2>1, BackendUpdateType DEF Opened, TypeOK, requestVars, loopVars,
       viewerVars, Labels, Backend
<1>2. ASSUME NEW kind \in FailureKinds, SourceError(s, kind) PROVE TypeInv'
  BY <1>2, <1>0, FailureType DEF SourceError
<1>3. CASE ProtocolViolation(s)
  BY <1>3, <1>0, FailureType DEF ProtocolViolation
<1>4. CASE LateEvent(s)
  BY <1>4, Ranges DEF LateEvent, TypeOK, catalogVars, requestVars, loopVars, viewerVars,
     LiveGeneration, ListedGeneration, TargetsLive, Live
<1>5. ASSUME NEW canSet \in BOOLEAN, Welcome(s, canSet) PROVE TypeInv'
  <2>1. [sources[s] EXCEPT !.welcomed = TRUE, !.canSet = canSet] \in Backend
    BY <1>0 DEF Backend
  <2> QED
    BY <1>5, <1>0, <2>1, BackendUpdateType DEF Welcome, TypeOK, requestVars, loopVars,
       viewerVars, Labels, Backend
<1>6. ASSUME NEW revision \in 1..MaxProjection, Snapshot(s, revision) PROVE TypeInv'
  <2>1. [sources[s] EXCEPT !.snapshot = revision, !.initLeft = Never] \in Backend
    <3>1. revision \in 0..MaxProjection
      OBVIOUS
    <3> QED
      BY <1>0, <3>1, Ranges DEF Backend
  <2> QED
    BY <1>6, <1>0, <2>1, BackendUpdateType DEF Snapshot, TypeOK, requestVars, viewerVars,
       Labels, Backend
<1>7. ASSUME NEW proj \in 1..MaxProjection, NEW rev \in 1..MaxSurface,
             FullSurface(s, proj, rev)
      PROVE  TypeInv'
  <2>1. FullFrame(proj, rev) \in FrameType
    BY DEF FullFrame, FrameType
  <2>2. view' \in ViewType
    <3>1. sources[s].snapshot \in 0..MaxProjection
      BY <1>0 DEF Backend
    <3>2. SendSurface(view, surfaceActive, s, FullFrame(proj, rev), sources[s].snapshot)
            \in ViewType /\ BlankSurface(view) \in ViewType
      BY <2>1, <3>1, ViewTypes, Ranges DEF TypeOK, SourceOrNobody
    <3> QED
      BY <1>7, <3>2 DEF FullSurface, TypeOK
  <2>3. s \in Live /\ pc # "done"
    BY <1>7 DEF FullSurface
  <2> QED
    BY <1>7, <1>0, <2>1, <2>2, <2>3, RenderedType, BackendUpdateType
       DEF FullSurface, TypeOK, requestVars, loopVars, viewerVars, Labels
<1>8. ASSUME NEW proj \in 1..MaxProjection, NEW base \in 1..MaxSurface,
             NEW rev \in 1..MaxSurface, SurfacePatch(s, proj, base, rev)
      PROVE  TypeInv'
  <2>1. FullFrame(proj, rev) \in FrameType /\ Patched(sources[s].frame, rev) \in FrameType
    BY <1>0 DEF FullFrame, FrameType, Patched, Backend
  <2>2. view' \in ViewType
    <3>1. sources[s].snapshot \in 0..MaxProjection /\ base \in 0..MaxSurface
      BY <1>0 DEF Backend
    <3>2. SendPatch(view, surfaceActive, s, FullFrame(proj, rev), base, sources[s].snapshot)
            \in ViewType /\ BlankSurface(view) \in ViewType
      BY <2>1, <3>1, ViewTypes, Ranges DEF TypeOK, SourceOrNobody
    <3> QED
      BY <1>8, <3>2 DEF SurfacePatch, TypeOK
  <2>3. s \in Live /\ pc # "done"
    BY <1>8 DEF SurfacePatch
  <2> QED
    BY <1>8, <1>0, <2>1, <2>2, <2>3, RenderedType, BackendUpdateType
       DEF SurfacePatch, TypeOK, requestVars, loopVars, viewerVars, Labels
<1>9. ASSUME NEW e \in 0..MaxEffect, Effect(s, e) PROVE TypeInv'
  <2>1. [sources[s] EXCEPT !.effect = e] \in Backend
    BY <1>0 DEF Backend
  <2>2. view' \in ViewType
    BY <1>9 DEF Effect, TypeOK, ViewType
  <2> QED
    BY <1>9, <1>0, <2>1, <2>2, BackendUpdateType DEF Effect, TypeOK, requestVars, loopVars,
       viewerVars, Labels, Backend
<1>10. ASSUME NEW token \in 0..MaxToken, FenceReady(s, token) PROVE TypeInv'
  BY <1>10, <1>0, QuietType, DefaultTypes DEF FenceReady, TypeOK, loopVars, viewerVars,
     TargetsLive, Live
<1>11. ASSUME NEW k \in WireID, Chunk(s, k) PROVE TypeInv'
  <2>1. [sources[s] EXCEPT !.chunks = @ \cup {k}] \in Backend
    BY <1>0 DEF Backend
  <2> QED
    BY <1>11, <1>0, <2>1, BackendUpdateType DEF Chunk, TypeOK, requestVars, loopVars,
       viewerVars, Labels, Backend
<1> DEFINE b(k) == [sources[s] EXCEPT !.chunks = @ \ {k}]
<1>12. ASSUME NEW k \in WireID
       PROVE  b(k) \in Backend /\ b(k).live = sources[s].live /\ b(k).gen = sources[s].gen
  BY <1>0 DEF Backend
<1>13. ASSUME NEW k \in WireID, Reply(s, k) PROVE TypeInv'
  <2>1. consumer' \in [Consumer -> OrdinaryID \cup {Idle, Asked}]
    BY <1>13 DEF Reply, TypeOK
  <2>2. Forget(k) /\ s \in Live /\ pc # "done"
    BY <1>13 DEF Reply
  <2>3. sources' = [sources EXCEPT ![s] = b(k)]
    BY <1>13 DEF Reply
  <2>4. b(k) \in Backend /\ b(k).live = sources[s].live /\ b(k).gen = sources[s].gen
    BY <1>12
  <2>5. /\ pending' \in [WireID -> SourceOrNobody]
        /\ requestIDs' \in [WireID -> Consumer \cup {Idle}]
        /\ deadlines' \in [WireID -> Never..OpTimeout]
    BY <2>2, ForgottenType
  <2>6. /\ UNCHANGED <<catalogVars, active, surfaceActive, historyVars, tick>>
        /\ retired' \in [WireID -> SourceOrNobody] /\ UNCHANGED requestSequence
        /\ fence' \in FenceType /\ view' \in ViewType
    BY <1>13 DEF Reply, TypeOK, loopVars
  <2>7. /\ pc' \in Labels \ {"done", "send"} /\ pc' # "reject" /\ then' \in ThenType
        /\ awaited' \in 0..MaxToken \cup {NoToken}
    BY <1>13, <1>0 DEF Reply, TypeOK, loopVars, Labels
  <2> HIDE DEF b, TypeInv
  <2> QED
    BY <2>1, <2>2, <2>3, <2>4, <2>5, <2>6, <2>7, BackendUpdateType
<1>14. ASSUME NEW k \in WireID, LateReply(s, k) PROVE TypeInv'
  BY <1>14 DEF LateReply, TypeOK, catalogVars, loopVars, viewerVars, historyVars,
     SourceOrNobody, LiveGeneration, ListedGeneration, TargetsLive, Live
<1>15. ASSUME NEW k \in WireID, GarbledReply(s, k) PROVE TypeInv'
  <2>1. Forget(k) /\ s \in Live /\ pc # "done"
    BY <1>15 DEF GarbledReply
  <2>2. then' \in ThenType /\ then'.target = s
    BY <1>15 DEF GarbledReply, ThenType, NoThen, SourceOrNobody
  <2>3. sources' = [sources EXCEPT ![s] = b(k)]
    BY <1>15 DEF GarbledReply
  <2>4. b(k) \in Backend /\ b(k).live = sources[s].live /\ b(k).gen = sources[s].gen
    BY <1>12
  <2>5. /\ pending' \in [WireID -> SourceOrNobody]
        /\ requestIDs' \in [WireID -> Consumer \cup {Idle}]
        /\ deadlines' \in [WireID -> Never..OpTimeout]
    BY <2>1, ForgottenType
  <2>6. /\ UNCHANGED <<catalogVars, active, surfaceActive, historyVars, tick>>
        /\ retired' \in [WireID -> SourceOrNobody] /\ UNCHANGED requestSequence
        /\ fence' \in FenceType /\ view' \in ViewType
    BY <1>15 DEF GarbledReply, TypeOK
  <2>7. /\ pc' \in Labels \ {"done", "send"}
        /\ consumer' \in [Consumer -> OrdinaryID \cup {Idle, Asked}]
        /\ awaited' \in 0..MaxToken \cup {NoToken}
    BY <1>15 DEF GarbledReply, TypeOK, viewerVars, Labels
  <2> HIDE DEF b, TypeInv
  <2> QED
    BY <2>1, <2>2, <2>3, <2>4, <2>5, <2>6, <2>7, BackendUpdateType
<1>16. ASSUME NEW k \in WireID, Acknowledge(s, k) PROVE TypeInv'
  <2>1. Forget(k) /\ s \in Live /\ pc # "done"
    BY <1>16 DEF Acknowledge
  <2>2. sources' = [sources EXCEPT ![s] = RenderProgress(b(k), InternalOf(s) \ {k})]
    BY <1>16 DEF Acknowledge
  <2> HIDE DEF b
  <2> DEFINE d == RenderProgress(b(k), InternalOf(s) \ {k})
  <2>3. d \in Backend /\ d.live = sources[s].live /\ d.gen = sources[s].gen
    BY <1>12, RenderProgressType
  <2>4. sources' = [sources EXCEPT ![s] = d]
    BY <2>2
  <2>5. /\ pending' \in [WireID -> SourceOrNobody]
        /\ requestIDs' \in [WireID -> Consumer \cup {Idle}]
        /\ deadlines' \in [WireID -> Never..OpTimeout]
    BY <2>1, ForgottenType
  <2>6. /\ UNCHANGED <<catalogVars, active, surfaceActive, historyVars, tick>>
        /\ retired' \in [WireID -> SourceOrNobody] /\ UNCHANGED requestSequence
        /\ fence' \in FenceType /\ view' \in ViewType
    BY <1>16 DEF Acknowledge, TypeOK
  <2>7. /\ pc' \in Labels \ {"done", "send"} /\ pc' # "reject" /\ then' \in ThenType
        /\ consumer' \in [Consumer -> OrdinaryID \cup {Idle, Asked}]
        /\ awaited' \in 0..MaxToken \cup {NoToken}
    BY <1>16, <1>0 DEF Acknowledge, TypeOK, viewerVars, Labels
  <2> HIDE DEF d, TypeInv
  <2> QED
    BY <2>1, <2>3, <2>4, <2>5, <2>6, <2>7, BackendUpdateType
<1> QED
  BY <1>1, <1>2, <1>3, <1>4, <1>5, <1>6, <1>7, <1>8, <1>9, <1>10, <1>11, <1>13, <1>14,
     <1>15, <1>16 DEF SourceEvent

(* The refresh, the catalog, the clock and the end of the session.          *)
LEMMA OtherType ==
  ASSUME TypeInv, Tick \/ Elapse \/ CatalogEvent \/ End PROVE TypeInv'
<1> USE DEF TypeInv
<1>1. ASSUME NEW renamed \in BOOLEAN, Refresh(renamed) PROVE TypeInv'
  <2> DEFINE gone == Withdrawn \cup Unresponsive
  <2>1. gone \in SUBSET Source /\ Expired \in SUBSET WireID /\ Settle(gone, Expired)
    BY <1>1 DEF Refresh, Withdrawn, Unresponsive, Expired, Outstanding, Live
  <2>2. \A s \in Source : KeptRecord(s) \in Record
    BY DefaultTypes DEF KeptRecord, ResetRecovery, TypeOK
  <2>3. \A s \in Source : RefreshedRecord(s) \in Record
    BY <2>2, PenaliseType DEF RefreshedRecord, TypeOK, Backend
  <2>4. \A s \in Source :
          /\ [sources[s] EXCEPT !.chunks = @ \ Expired] \in Backend
          /\ [sources[s] EXCEPT !.chunks = @ \ Expired].live = sources[s].live
          /\ [sources[s] EXCEPT !.chunks = @ \ Expired].gen = sources[s].gen
    <3> SUFFICES ASSUME NEW s \in Source, sources[s] \in Backend
                 PROVE  LET b == [sources[s] EXCEPT !.chunks = @ \ Expired]
                        IN  b \in Backend /\ b.live = sources[s].live /\ b.gen = sources[s].gen
      BY DEF TypeOK
    <3> QED
      BY DEF Backend
  <2>5. \A s \in ToOpen : gen[s] \in Generation /\ s \in Source
    BY DEF ToOpen, Visible, ListedGeneration
  <2>6. sources' \in [Source -> Backend]
    BY <1>1, <2>4, <2>5, DefaultTypes DEF Refresh, TypeOK
  <2>7. TypeOK'
    BY <1>1, <2>1, <2>3, <2>6, SettleType DEF Refresh, TypeOK, catalogVars, Labels
  <2>8. LiveGeneration'
    BY <1>1, <2>4, <2>5 DEF Refresh, LiveGeneration, NoBackend, Opening
  <2>9. TargetsLive'
    <3>1. \A s \in Live \ gone : sources'[s].live
      BY <1>1, <2>4 DEF Refresh, Live, ToOpen, Opening, NoBackend
    <3>2. active' # Nobody => active \in Live \ gone /\ active' = active
      BY <1>1, <2>1 DEF Refresh, Settle, ActiveAfter, TargetsLive
    <3> QED
      BY <1>1, <3>1, <3>2 DEF Refresh, TargetsLive, Live
  <2> QED
    BY <1>1, <2>7, <2>8, <2>9 DEF Refresh, ListedGeneration, catalogVars
<1>2. CASE Elapse
  <2>1. /\ \A t \in Never..InitTimeout : Less(t) \in Never..InitTimeout
        /\ \A t \in Never..OpTimeout : Less(t) \in Never..OpTimeout
        /\ \A t \in 0..FenceTimeout : Less(t) \in 0..FenceTimeout
        /\ \A t \in 0..16 : Less(t) \in 0..16
        /\ \A t \in Never..StableInterval : More(t) \in Never..StableInterval
    BY DEF Less, More, Never
  <2> DEFINE aged(s) == [sources[s] EXCEPT !.initLeft = Less(@), !.stable = More(@)]
  <2>2. ASSUME NEW s \in Source
        PROVE  aged(s) \in Backend /\ aged(s).live = sources[s].live
               /\ aged(s).gen = sources[s].gen
    <3>1. sources[s] \in Backend
      BY DEF TypeOK
    <3>2. /\ Less(sources[s].initLeft) \in Never..InitTimeout
          /\ More(sources[s].stable) \in Never..StableInterval
      BY <3>1, <2>1 DEF Backend
    <3> QED
      BY <3>1, <3>2 DEF Backend
  <2>3. sources' \in [Source -> Backend] /\ LiveGeneration' /\ TargetsLive'
    BY <1>2, <2>2 DEF Elapse, TypeOK, LiveGeneration, TargetsLive, Live
  <2>4. \A s \in Source : [recovery[s] EXCEPT !.wait = Less(@)] \in Record
    BY <2>1 DEF TypeOK, Record
  <2>5. fence' \in FenceType
    BY <1>2, <2>1 DEF Elapse, TypeOK, FenceType
  <2>6. TypeOK'
    BY <1>2, <2>1, <2>3, <2>4, <2>5 DEF Elapse, TypeOK, catalogVars, viewerVars
  <2> QED
    BY <1>2, <2>3, <2>6 DEF Elapse, ListedGeneration, catalogVars
<1>3. ASSUME NEW s \in Source, PublishShare(s) \/ UnpublishShare(s) PROVE TypeInv'
  <2>1. /\ UNCHANGED <<sources, active, surfaceActive, requestVars, fence, view, loopVars,
                       viewerVars, historyVars>>
        /\ gen' \in [Source -> 0..MaxGeneration] /\ listed' \in [Source -> BOOLEAN]
    <3>1. gen[s] < MaxGeneration => gen[s] + 1 \in 0..MaxGeneration
      BY DEF TypeOK
    <3>2. CASE PublishShare(s)
      BY <3>1, <3>2 DEF PublishShare, TypeOK
    <3>3. CASE UnpublishShare(s)
      BY <3>3 DEF UnpublishShare, TypeOK
    <3> QED
      BY <1>3, <3>2, <3>3
  <2>2. ListedGeneration'
    BY <1>3 DEF PublishShare, UnpublishShare, TypeOK, Generation, ListedGeneration
  <2>3. TypeOK'
    BY <2>1 DEF TypeOK, requestVars, loopVars, viewerVars, historyVars
  <2> QED
    BY <2>1, <2>2, <2>3 DEF loopVars, LiveGeneration, TargetsLive, Live
<1>4. CASE End
  <2>1. TypeOK'
    BY <1>4, DefaultTypes DEF End, TypeOK, catalogVars, requestVars, viewerVars,
       historyVars, Labels
  <2> QED
    BY <1>4, <2>1 DEF End, LiveGeneration, ListedGeneration, TargetsLive, NoBackend,
       catalogVars
<1> QED
  BY <1>1, <1>2, <1>3, <1>4 DEF Tick, CatalogEvent

(***************************************************************************)
(* The session's fields always have their shape: in particular no deadline *)
(* or sequence number leaves its range, and every table names only shares  *)
(* and request IDs that exist.                                             *)
(***************************************************************************)
LEMMA TypeStep == TypeInv /\ [Next]_vars => TypeInv'
<1>1. ASSUME TypeInv, UNCHANGED vars PROVE TypeInv'
  BY <1>1 DEF TypeInv, vars, TypeOK, LiveGeneration, ListedGeneration, TargetsLive, Live
<1> QED
  BY <1>1, HandlerType, ViewerType, SourceType, OtherType DEF Next

LEMMA TypeInvariant == Spec => []TypeInv
  BY TypeInit, TypeStep, PTL DEF Spec

THEOREM TypeCorrect == Spec => []TypeOK
  BY TypeInvariant, PTL DEF TypeInv

-----------------------------------------------------------------------------
(***************************************************************************)
(* OneHolder.  Only setInterest gives a source interest, and syncInterest  *)
(* calls it to activate only when no live source is left to relinquish.    *)
(* That suffices once it is known that a source that is not live holds no  *)
(* interest: remove forgets the interest together with the backend.        *)
(***************************************************************************)
InterestLive == \A s \in Source : sources[s].interest => sources[s].live

HolderInv == TypeInv /\ InterestLive /\ OneHolder

(* A step that gives no source interest it did not have.                    *)
NoNewHolder ==
  \A s \in Source : sources'[s].interest => sources[s].interest /\ sources'[s].live

LEMMA NoNewHolderKeeps ==
  ASSUME InterestLive, OneHolder, NoNewHolder PROVE InterestLive' /\ OneHolder'
  BY DEF InterestLive, OneHolder, NoNewHolder

LEMMA SameHolders ==
  ASSUME InterestLive, UNCHANGED sources PROVE NoNewHolder
  BY DEF InterestLive, NoNewHolder

(* A failed source is removed, and nothing else changes hands.              *)
LEMMA FailHolders ==
  ASSUME TypeOK, InterestLive, NEW s, NEW kind, NEW age, Fail(s, kind, age)
  PROVE  NoNewHolder
  BY DEF TypeOK, InterestLive, NoNewHolder, Fail, NoBackend

LEMMA WriteFailsHolders ==
  ASSUME TypeOK, InterestLive, NEW s, WriteFails(s) PROVE NoNewHolder
<1> PICK kind \in WriteFailures : Fail(s, kind, sources[s].stable)
  BY DEF WriteFails
<1> QED
  BY FailHolders

(* A backend that is replaced by one that agrees on interest and liveness.  *)
LEMMA UpdateHolders ==
  ASSUME TypeOK, InterestLive, NEW s \in Source, NEW b,
         sources' = [sources EXCEPT ![s] = b],
         b.interest => sources[s].interest, b.live = sources[s].live
  PROVE  NoNewHolder
  BY DEF TypeOK, InterestLive, NoNewHolder

(* The one step that gives interest finds nobody who has it.               *)
LEMMA ActivateHolders ==
  ASSUME HolderInv, NEW s \in Source, ActivateInterest(s)
  PROVE  /\ \A t \in Source : ~sources[t].interest
         /\ \A t \in Source \ {s} : ~sources'[t].interest
         /\ sources'[s].interest /\ sources'[s].live
<1> USE DEF HolderInv, TypeInv
<1>1. s = active /\ sources[s].live /\ ~sources[s].interest
  BY DEF ActivateInterest, ToActivate, Live
<1>2. \A t \in Source : ~sources[t].interest
  BY <1>1 DEF ActivateInterest, ToRelease, InterestLive, Live
<1> DEFINE b == [sources[s] EXCEPT !.interest = TRUE, !.ready = FALSE, !.stable = Never]
<1>3. sources[s] \in Backend
  BY DEF TypeOK
<1>4. b.interest /\ b.live
  BY <1>1, <1>3 DEF Backend
<1>5. sources' = [sources EXCEPT ![s] = b]
  BY DEF ActivateInterest, SetInterest
<1> HIDE DEF b
<1> QED
  BY <1>2, <1>4, <1>5 DEF TypeOK

LEMMA HandlerHolders ==
  ASSUME HolderInv, Handler
  PROVE  NoNewHolder \/ \E s \in Source : ActivateInterest(s)
<1> USE DEF HolderInv, TypeInv
<1>1. CASE \/ Publish \/ Emit \/ InterestWaits \/ InterestSettles \/ SkipFence
           \/ AnswerFence \/ DispatchRefused \/ Dispatch \/ Respond \/ BroadcastEnds
  BY <1>1, SameHolders DEF Publish, Emit, InterestWaits, InterestSettles, SkipFence,
     AnswerFence, DispatchRefused, Dispatch, Respond, BroadcastEnds
<1>2. ASSUME NEW s \in Source, ReleaseInterest(s) PROVE NoNewHolder
  <2>1. sources[s] \in Backend
    BY DEF TypeOK
  <2> DEFINE b == [sources[s] EXCEPT !.interest = FALSE, !.ready = FALSE, !.stable = Never]
  <2>2. sources' = [sources EXCEPT ![s] = b]
    BY <1>2 DEF ReleaseInterest, SetInterest
  <2>3. ~b.interest /\ b.live = sources[s].live
    BY <2>1 DEF Backend
  <2> HIDE DEF b
  <2> QED
    BY <2>2, <2>3, UpdateHolders
<1>3. ASSUME NEW s \in Source, InterestFails(s) PROVE NoNewHolder
  <2>1. PICK kind, age : Fail(s, kind, age)
    BY <1>3 DEF InterestFails
  <2> QED
    BY <2>1, FailHolders
<1>4. CASE SendFence
  BY <1>4, WriteFailsHolders, SameHolders DEF SendFence
<1>5. CASE SendCall
  BY <1>5, WriteFailsHolders, SameHolders DEF SendCall
<1>6. CASE Reject
  BY <1>6, FailHolders DEF Reject
<1>7. ASSUME NEW s \in Source, BroadcastTo(s) PROVE NoNewHolder
  BY <1>7, WriteFailsHolders, SameHolders DEF BroadcastTo
<1> QED
  BY <1>1, <1>2, <1>3, <1>4, <1>5, <1>6, <1>7 DEF Handler

LEMMA ViewerHolders ==
  ASSUME HolderInv, ViewerEvent PROVE NoNewHolder
<1> USE SameHolders, WriteFailsHolders DEF HolderInv, TypeInv
<1>1. ASSUME NEW c \in Consumer, NEW t \in Source, NEW focus \in BOOLEAN, Call(c, t, focus)
      PROVE  NoNewHolder
  BY <1>1 DEF Call
<1>2. ASSUME NEW c \in Consumer, NEW on \in BOOLEAN, RefuseCall(c) \/ SurfaceSet(c, on)
      PROVE  NoNewHolder
  BY <1>2 DEF RefuseCall, SurfaceSet, vars
<1>3. ASSUME NEW token \in 0..MaxToken, SyncFence(token) PROVE NoNewHolder
  BY <1>3 DEF SyncFence, vars
<1>4. CASE Input \/ Resize \/ Broadcast
  BY <1>4 DEF Input, Resize, Broadcast, vars
<1> QED
  BY <1>1, <1>2, <1>3, <1>4 DEF ViewerEvent

LEMMA SourceHolders ==
  ASSUME HolderInv, NEW s \in Source, SourceEvent(s) PROVE NoNewHolder
<1> USE DEF HolderInv, TypeInv
<1>0. sources[s] \in Backend
  BY DEF TypeOK
<1>1. CASE LateEvent(s) \/ \E token \in 0..MaxToken : FenceReady(s, token)
  BY <1>1, SameHolders DEF LateEvent, FenceReady
<1>2. CASE ProtocolViolation(s) \/ \E kind \in FailureKinds : SourceError(s, kind)
  BY <1>2, FailHolders DEF ProtocolViolation, SourceError
<1>3. CASE \/ Opened(s) \/ \E canSet \in BOOLEAN : Welcome(s, canSet)
           \/ \E revision \in 1..MaxProjection : Snapshot(s, revision)
           \/ \E e \in 0..MaxEffect : Effect(s, e)
  <2> DEFINE Later(x) == {[sources[s] EXCEPT !.stream = TRUE],
                         [sources[s] EXCEPT !.welcomed = TRUE, !.canSet = x],
                         [sources[s] EXCEPT !.snapshot = x, !.initLeft = Never],
                         [sources[s] EXCEPT !.effect = x]}
  <2>1. ASSUME NEW x
        PROVE  \A b \in Later(x) :
                 b.interest = sources[s].interest /\ b.live = sources[s].live
    BY <1>0 DEF Backend
  <2>2. \E x : \E b \in Later(x) : sources' = [sources EXCEPT ![s] = b]
    BY <1>3 DEF Opened, Welcome, Snapshot, Effect
  <2> HIDE DEF Later
  <2>3. PICK b : /\ sources' = [sources EXCEPT ![s] = b]
                 /\ b.interest = sources[s].interest /\ b.live = sources[s].live
    BY <2>1, <2>2
  <2> QED
    BY <2>3, UpdateHolders
<1>4. ASSUME NEW frame, sources' = [sources EXCEPT ![s] = Rendered(s, frame)]
      PROVE  NoNewHolder
  <2>1. /\ Rendered(s, frame).interest = sources[s].interest
        /\ Rendered(s, frame).live = sources[s].live
    BY <1>0 DEF Rendered, RenderProgress, Backend
  <2> QED
    BY <1>4, <2>1, UpdateHolders
<1>5. CASE \/ \E proj \in 1..MaxProjection, rev \in 1..MaxSurface : FullSurface(s, proj, rev)
           \/ \E proj \in 1..MaxProjection, base, rev \in 1..MaxSurface :
                SurfacePatch(s, proj, base, rev)
  BY <1>5, <1>4 DEF FullSurface, SurfacePatch
<1>6. ASSUME NEW k \in WireID, Chunk(s, k) \/ Reply(s, k) \/ LateReply(s, k)
                               \/ GarbledReply(s, k)
      PROVE  NoNewHolder
  <2>1. CASE LateReply(s, k)
    BY <2>1, SameHolders DEF LateReply
  <2>2. CASE Chunk(s, k) \/ Reply(s, k) \/ GarbledReply(s, k)
    <3>1. PICK c : sources' = [sources EXCEPT ![s] = [@ EXCEPT !.chunks = c]]
      BY <2>2 DEF Chunk, Reply, GarbledReply
    <3>2. LET b == [sources[s] EXCEPT !.chunks = c]
          IN  b.interest = sources[s].interest /\ b.live = sources[s].live
      BY <1>0 DEF Backend
    <3> QED
      BY <3>1, <3>2, UpdateHolders
  <2> QED
    BY <1>6, <2>1, <2>2
<1>7. ASSUME NEW k \in WireID, Acknowledge(s, k) PROVE NoNewHolder
  <2> DEFINE b == [sources[s] EXCEPT !.chunks = @ \ {k}]
             d == RenderProgress(b, InternalOf(s) \ {k})
  <2>1. d.interest = sources[s].interest /\ d.live = sources[s].live
    BY <1>0 DEF RenderProgress, Backend
  <2>2. sources' = [sources EXCEPT ![s] = d]
    BY <1>7 DEF Acknowledge
  <2> HIDE DEF d
  <2> QED
    BY <2>1, <2>2, UpdateHolders
<1> QED
  BY <1>1, <1>2, <1>3, <1>5, <1>6, <1>7 DEF SourceEvent

LEMMA OtherHolders ==
  ASSUME HolderInv, Tick \/ Elapse \/ CatalogEvent \/ End PROVE NoNewHolder
<1> USE DEF HolderInv, TypeInv
<1>0. \A s \in Source : sources[s] \in Backend
  BY DEF TypeOK
<1>1. ASSUME NEW renamed \in BOOLEAN, Refresh(renamed) PROVE NoNewHolder
  <2> SUFFICES ASSUME NEW s \in Source, sources'[s].interest
               PROVE  sources[s].interest /\ sources'[s].live
    BY DEF NoNewHolder
  <2>1. ~NoBackend.interest /\ ~Opening(gen[s]).interest
    BY DEF NoBackend, Opening
  <2>2. sources'[s] = [sources[s] EXCEPT !.chunks = @ \ Expired]
    BY <1>1, <2>1 DEF Refresh
  <2> QED
    BY <1>0, <2>2 DEF Backend, InterestLive
<1>2. CASE Elapse
  <2> SUFFICES ASSUME NEW s \in Source, sources'[s].interest
               PROVE  sources[s].interest /\ sources'[s].live
    BY DEF NoNewHolder
  <2>1. PICK i, t : sources'[s] = [sources[s] EXCEPT !.initLeft = i, !.stable = t]
    BY <1>2 DEF Elapse
  <2> QED
    BY <1>0, <2>1 DEF Backend, InterestLive
<1>3. CASE CatalogEvent
  BY <1>3, SameHolders DEF CatalogEvent, PublishShare, UnpublishShare
<1>4. CASE End
  BY <1>4 DEF End, NoNewHolder, NoBackend
<1> QED
  BY <1>1, <1>2, <1>3, <1>4 DEF Tick

(* Interest changes hands only by activation.                              *)
LEMMA Holders ==
  ASSUME HolderInv, [Next]_vars PROVE NoNewHolder \/ \E s \in Source : ActivateInterest(s)
<1>1. CASE UNCHANGED vars
  BY <1>1, SameHolders DEF HolderInv, vars
<1>2. CASE Next
  BY <1>2, HandlerHolders, ViewerHolders, SourceHolders, OtherHolders DEF Next
<1> QED
  BY <1>1, <1>2

LEMMA HolderStep == HolderInv /\ [Next]_vars => HolderInv'
<1> SUFFICES ASSUME HolderInv, [Next]_vars PROVE HolderInv'
  OBVIOUS
<1>1. TypeInv'
  BY TypeStep DEF HolderInv
<1>2. CASE NoNewHolder
  BY <1>1, <1>2, NoNewHolderKeeps DEF HolderInv
<1>3. ASSUME NEW s \in Source, ActivateInterest(s) PROVE InterestLive' /\ OneHolder'
  BY <1>3, ActivateHolders DEF InterestLive, OneHolder
<1> QED
  BY <1>1, <1>2, <1>3, Holders DEF HolderInv

LEMMA HolderInit == Init => HolderInv
  BY TypeInit DEF Init, HolderInv, InterestLive, OneHolder, NoBackend

(***************************************************************************)
(* Whatever writes fail while syncInterest hands the view over, the        *)
(* gateway never has two sources told that they are shown, for any number  *)
(* of shares and slots.                                                    *)
(***************************************************************************)
THEOREM OneHolderAlways == Spec => []OneHolder
<1>1. HolderInv => OneHolder
  BY DEF HolderInv
<1> QED
  BY <1>1, HolderInit, HolderStep, PTL DEF Spec

-----------------------------------------------------------------------------
(***************************************************************************)
(* The failure history.  A step leaves every backend's life alone, updates *)
(* one that stays alive, or fails one and blames its generation; refresh,  *)
(* time and the catalog are the rest.                                      *)
(***************************************************************************)
StillLife == UNCHANGED <<catalogVars, sources, recovery, guilty>>

Updated(s) ==
  /\ \E b : /\ sources' = [sources EXCEPT ![s] = b]
            /\ b.live = sources[s].live /\ b.gen = sources[s].gen
  /\ UNCHANGED <<catalogVars, recovery, guilty>>

Failed(s) ==
  /\ \E kind, age : Fail(s, kind, age) /\ Blame(s, kind)
  /\ UNCHANGED catalogVars

LEMMA WriteFailed == ASSUME NEW s, WriteFails(s) PROVE Failed(s)
  BY DEF WriteFails, Failed

LEMMA HandlerLives ==
  ASSUME TypeInv, Handler PROVE StillLife \/ \E s \in Live : Updated(s) \/ Failed(s)
<1> USE DEF StillLife, historyVars
<1>1. CASE \/ Publish \/ Emit \/ InterestWaits \/ InterestSettles \/ SkipFence
           \/ AnswerFence \/ DispatchRefused \/ Dispatch \/ Respond \/ BroadcastEnds
  BY <1>1 DEF Publish, Emit, InterestWaits, InterestSettles, SkipFence, AnswerFence,
     DispatchRefused, Dispatch, Respond, BroadcastEnds
<1>2. ASSUME NEW s \in Source, ReleaseInterest(s) \/ ActivateInterest(s)
      PROVE  s \in Live /\ Updated(s)
  <2>1. PICK on \in BOOLEAN : SetInterest(s, on)
    BY <1>2 DEF ReleaseInterest, ActivateInterest
  <2> DEFINE b == [sources[s] EXCEPT !.interest = on, !.ready = FALSE, !.stable = Never]
  <2>2. sources' = [sources EXCEPT ![s] = b] /\ UNCHANGED <<catalogVars, recovery, guilty>>
    BY <2>1 DEF SetInterest
  <2>3. b.live = sources[s].live /\ b.gen = sources[s].gen
    BY DEF TypeInv, TypeOK, Backend
  <2>4. s \in Live
    BY <1>2 DEF ReleaseInterest, ActivateInterest, ToRelease, ToActivate
  <2> HIDE DEF b
  <2> QED
    BY <2>2, <2>3, <2>4 DEF Updated
<1>3. ASSUME NEW s \in Source, InterestFails(s) PROVE s \in Live /\ Failed(s)
  BY <1>3 DEF InterestFails, ToRelease, ToActivate, Failed
<1>4. CASE SendFence
  BY <1>4, WriteFailed DEF SendFence, TypeInv, TargetsLive
<1>5. CASE SendCall
  BY <1>5, WriteFailed DEF SendCall, TypeInv, TargetsLive
<1>6. CASE Reject
  BY <1>6 DEF Reject, TypeInv, TargetsLive, Failed
<1>7. ASSUME NEW s \in Source, BroadcastTo(s) PROVE StillLife \/ (s \in Live /\ Failed(s))
  BY <1>7, WriteFailed DEF BroadcastTo
<1> QED
  BY <1>1, <1>2, <1>3, <1>4, <1>5, <1>6, <1>7 DEF Handler

LEMMA ViewerLives ==
  ASSUME TypeInv, ViewerEvent PROVE StillLife \/ \E s \in Live : Failed(s)
<1> USE DEF StillLife, historyVars, catalogVars
<1>1. CASE \/ \E c \in Consumer, t \in Source, focus \in BOOLEAN : Call(c, t, focus)
           \/ \E c \in Consumer : RefuseCall(c)
           \/ \E c \in Consumer, on \in BOOLEAN : SurfaceSet(c, on)
           \/ \E token \in 0..MaxToken : SyncFence(token)
           \/ Broadcast
  BY <1>1 DEF Call, RefuseCall, SurfaceSet, SyncFence, Broadcast, vars
<1>2. CASE Input \/ Resize
  BY <1>2, WriteFailed DEF Input, Resize, vars, TypeInv, TargetsLive, Client
<1> QED
  BY <1>1, <1>2 DEF ViewerEvent

LEMMA SourceLives ==
  ASSUME TypeInv, NEW s \in Source, SourceEvent(s)
  PROVE  StillLife \/ (s \in Live /\ (Updated(s) \/ Failed(s)))
<1> USE DEF Upstream
<1>0. sources[s] \in Backend
  BY DEF TypeInv, TypeOK
<1>1. CASE LateEvent(s) \/ \E token \in 0..MaxToken : FenceReady(s, token)
           \/ \E k \in WireID : LateReply(s, k)
  BY <1>1 DEF LateEvent, FenceReady, LateReply, StillLife, historyVars
<1>2. CASE ProtocolViolation(s) \/ \E kind \in FailureKinds : SourceError(s, kind)
  BY <1>2 DEF ProtocolViolation, SourceError, Failed
<1>3. ASSUME NEW b, sources' = [sources EXCEPT ![s] = b], b.live = sources[s].live,
             b.gen = sources[s].gen, UNCHANGED <<catalogVars, recovery, guilty>>
      PROVE  Updated(s)
  BY <1>3 DEF Updated
<1>4. \A x : /\ [sources[s] EXCEPT !.stream = TRUE].live = sources[s].live
             /\ [sources[s] EXCEPT !.stream = TRUE].gen = sources[s].gen
             /\ [sources[s] EXCEPT !.effect = x].live = sources[s].live
             /\ [sources[s] EXCEPT !.effect = x].gen = sources[s].gen
             /\ [sources[s] EXCEPT !.chunks = x].live = sources[s].live
             /\ [sources[s] EXCEPT !.chunks = x].gen = sources[s].gen
             /\ [sources[s] EXCEPT !.welcomed = TRUE, !.canSet = x].live = sources[s].live
             /\ [sources[s] EXCEPT !.welcomed = TRUE, !.canSet = x].gen = sources[s].gen
             /\ [sources[s] EXCEPT !.snapshot = x, !.initLeft = Never].live = sources[s].live
             /\ [sources[s] EXCEPT !.snapshot = x, !.initLeft = Never].gen = sources[s].gen
  BY <1>0 DEF Backend
<1>5. CASE Opened(s)
  BY <1>3, <1>4, <1>5 DEF Opened, historyVars
<1>6. ASSUME NEW canSet \in BOOLEAN, Welcome(s, canSet) PROVE s \in Live /\ Updated(s)
  BY <1>3, <1>4, <1>6 DEF Welcome, historyVars
<1>7. ASSUME NEW revision \in 1..MaxProjection, Snapshot(s, revision)
      PROVE  s \in Live /\ Updated(s)
  BY <1>3, <1>4, <1>7 DEF Snapshot, historyVars
<1>8. ASSUME NEW e \in 0..MaxEffect, Effect(s, e) PROVE s \in Live /\ Updated(s)
  BY <1>3, <1>4, <1>8 DEF Effect, historyVars
<1>9. ASSUME NEW frame, sources' = [sources EXCEPT ![s] = Rendered(s, frame)],
             UNCHANGED <<catalogVars, recovery, guilty>>
      PROVE  Updated(s)
  <2>1. /\ Rendered(s, frame).live = sources[s].live
        /\ Rendered(s, frame).gen = sources[s].gen
    BY <1>0 DEF Rendered, RenderProgress, Backend
  <2> QED
    BY <1>3, <1>9, <2>1
<1>10. CASE \/ \E proj \in 1..MaxProjection, rev \in 1..MaxSurface : FullSurface(s, proj, rev)
            \/ \E proj \in 1..MaxProjection, base, rev \in 1..MaxSurface :
                 SurfacePatch(s, proj, base, rev)
  BY <1>9, <1>10 DEF FullSurface, SurfacePatch, historyVars
<1>11. ASSUME NEW k \in WireID, Chunk(s, k) \/ Reply(s, k) \/ GarbledReply(s, k)
       PROVE  s \in Live /\ Updated(s)
  <2>1. PICK c : sources' = [sources EXCEPT ![s] = [@ EXCEPT !.chunks = c]]
    BY <1>11 DEF Chunk, Reply, GarbledReply
  <2>2. s \in Live /\ UNCHANGED <<catalogVars, recovery, guilty>>
    BY <1>11 DEF Chunk, Reply, GarbledReply, historyVars
  <2> QED
    BY <1>3, <1>4, <2>1, <2>2
<1>12. ASSUME NEW k \in WireID, Acknowledge(s, k) PROVE s \in Live /\ Updated(s)
  <2> DEFINE b == [sources[s] EXCEPT !.chunks = @ \ {k}]
             d == RenderProgress(b, InternalOf(s) \ {k})
  <2>1. b \in Backend /\ b.live = sources[s].live /\ b.gen = sources[s].gen
    BY <1>0 DEF Backend
  <2>2. /\ sources' = [sources EXCEPT ![s] = d] /\ s \in Live
        /\ UNCHANGED <<catalogVars, recovery, guilty>>
    BY <1>12 DEF Acknowledge, historyVars
  <2> HIDE DEF b
  <2>3. d.live = sources[s].live /\ d.gen = sources[s].gen
    BY <2>1, RenderProgressType
  <2> HIDE DEF d
  <2> QED
    BY <1>3, <2>2, <2>3
<1> QED
  BY <1>1, <1>2, <1>5, <1>6, <1>7, <1>8, <1>10, <1>11, <1>12
  DEF SourceEvent, Opened

LEMMA Lives ==
  ASSUME TypeInv, [Next]_vars
  PROVE  \/ StillLife \/ (\E s \in Live : Updated(s) \/ Failed(s))
         \/ (\E renamed \in BOOLEAN : Refresh(renamed)) \/ Elapse \/ CatalogEvent \/ End
<1>1. UNCHANGED vars => StillLife
  BY DEF vars, StillLife, catalogVars
<1> QED
  BY <1>1, HandlerLives, ViewerLives, SourceLives DEF Next, Tick

(***************************************************************************)
(* Only a generation that itself failed for good is quarantined.           *)
(***************************************************************************)
LEMMA PenaliseEffect ==
  ASSUME NEW r \in Record, NEW g \in 0..MaxGeneration, NEW kind
  PROVE  /\ Penalise(r, g, kind).gen = g
         /\ Penalise(r, g, kind).blocked <=> kind = Persistent
<1> DEFINE old == RecordOf(r, g)
           n == NextAttempt(old)
           b == Backoffs[n]
<1>0. NoRecord \in Record
  BY DefaultTypes
<1>1. old \in Record /\ old.gen = g
  BY <1>0 DEF RecordOf, Record
<1>2. Penalise(r, g, kind) = IF kind = Persistent THEN [old EXCEPT !.blocked = TRUE]
        ELSE [old EXCEPT !.blocked = FALSE, !.attempts = n, !.wait = b]
  BY DEF Penalise
<1> HIDE DEF old, n, b
<1> QED
  BY <1>1, <1>2 DEF Record

LEMMA FailRecords ==
  ASSUME TypeInv, NEW s \in Source, NEW kind, NEW age, Fail(s, kind, age)
  PROVE  /\ recovery'[s].gen = sources[s].gen
         /\ recovery'[s].blocked <=> kind = Persistent
         /\ sources'[s] = NoBackend
         /\ \A t \in Source : t # s => recovery'[t] = recovery[t] /\ sources'[t] = sources[t]
<1>0. TypeOK /\ sources[s].gen \in 0..MaxGeneration /\ NoRecord \in Record
  BY DefaultTypes DEF TypeInv, TypeOK, Backend
<1>1. ResetRecovery(s, age) \in Record
  BY <1>0 DEF ResetRecovery, TypeOK
<1>2. /\ recovery' = [recovery EXCEPT
                        ![s] = Penalise(ResetRecovery(s, age), sources[s].gen, kind)]
      /\ sources' = [sources EXCEPT ![s] = NoBackend]
  BY DEF Fail
<1> DEFINE r == ResetRecovery(s, age)
           p == Penalise(r, sources[s].gen, kind)
<1>3. p.gen = sources[s].gen /\ (p.blocked <=> kind = Persistent)
  BY <1>0, <1>1, PenaliseEffect
<1>4. recovery' = [recovery EXCEPT ![s] = p]
  BY <1>2
<1> HIDE DEF r, p
<1> QED
  BY <1>0, <1>2, <1>3, <1>4 DEF TypeOK

LEMMA RefreshRecords ==
  ASSUME TypeInv, NEW renamed, Refresh(renamed), NEW s \in Source
  PROVE  /\ KeptRecord(s) \in {recovery[s], NoRecord}
         /\ s \notin Unresponsive => recovery'[s] = KeptRecord(s)
         /\ s \in Unresponsive => recovery'[s].gen = sources[s].gen /\ ~recovery'[s].blocked
<1>0. TypeOK /\ sources[s].gen \in 0..MaxGeneration /\ NoRecord \in Record
      /\ Transient # Persistent
  BY DefaultTypes DEF TypeInv, TypeOK, Backend, Transient, Persistent
<1>1. recovery'[s] = RefreshedRecord(s)
  BY DEF Refresh
<1>2. KeptRecord(s) \in {recovery[s], NoRecord}
  BY DEF KeptRecord, ResetRecovery
<1>3. KeptRecord(s) \in Record
  BY <1>0, <1>2 DEF TypeOK
<1>4. /\ Penalise(KeptRecord(s), sources[s].gen, Transient).gen = sources[s].gen
      /\ ~Penalise(KeptRecord(s), sources[s].gen, Transient).blocked
  BY <1>0, <1>3, PenaliseEffect
<1> QED
  BY <1>1, <1>2, <1>4 DEF RefreshedRecord

LEMMA ElapseRecords ==
  ASSUME TypeInv, Elapse, NEW s \in Source
  PROVE  /\ recovery'[s].gen = recovery[s].gen
         /\ recovery'[s].blocked <=> recovery[s].blocked
<1>1. PICK w : recovery'[s] = [recovery[s] EXCEPT !.wait = w]
  BY DEF Elapse
<1> QED
  BY <1>1 DEF TypeInv, TypeOK, Record

LEMMA DeservedStep ==
  TypeInv /\ QuarantineIsDeserved /\ [Next]_vars => QuarantineIsDeserved'
<1> SUFFICES ASSUME TypeInv, QuarantineIsDeserved, [Next]_vars PROVE QuarantineIsDeserved'
  OBVIOUS
<1>1. CASE StillLife \/ CatalogEvent \/ End
  BY <1>1 DEF StillLife, CatalogEvent, PublishShare, UnpublishShare, End, historyVars,
     QuarantineIsDeserved
<1>2. ASSUME NEW s \in Live, Updated(s) PROVE QuarantineIsDeserved'
  BY <1>2 DEF Updated, QuarantineIsDeserved
<1>3. ASSUME NEW s \in Live, Failed(s) PROVE QuarantineIsDeserved'
  <2>1. PICK kind, age : Fail(s, kind, age) /\ Blame(s, kind)
    BY <1>3 DEF Failed
  <2>2. s \in Source
    BY DEF Live
  <2>3. guilty \subseteq guilty'
    BY <2>1 DEF Blame
  <2>4. kind = Persistent => <<s, sources[s].gen>> \in guilty'
    BY <2>1 DEF Blame
  <2>5. recovery'[s].blocked => <<s, recovery'[s].gen>> \in guilty'
    BY <2>1, <2>2, <2>4, FailRecords
  <2>6. \A t \in Source : t # s => recovery'[t] = recovery[t]
    BY <2>1, <2>2, FailRecords
  <2> QED
    BY <2>3, <2>5, <2>6 DEF QuarantineIsDeserved
<1>4. ASSUME NEW renamed \in BOOLEAN, Refresh(renamed) PROVE QuarantineIsDeserved'
  <2> SUFFICES ASSUME NEW s \in Source, recovery'[s].blocked
               PROVE  <<s, recovery'[s].gen>> \in guilty'
    BY DEF QuarantineIsDeserved
  <2>1. recovery'[s] = recovery[s]
    BY <1>4, RefreshRecords DEF NoRecord
  <2> QED
    BY <1>4, <2>1 DEF Refresh, QuarantineIsDeserved
<1>5. CASE Elapse
  <2> SUFFICES ASSUME NEW s \in Source, recovery'[s].blocked
               PROVE  <<s, recovery'[s].gen>> \in guilty'
    BY DEF QuarantineIsDeserved
  <2>1. recovery[s].blocked /\ recovery'[s].gen = recovery[s].gen
    BY <1>5, ElapseRecords
  <2>2. UNCHANGED guilty
    BY <1>5 DEF Elapse
  <2> QED
    BY <2>1, <2>2 DEF QuarantineIsDeserved
<1> QED
  BY <1>1, <1>2, <1>3, <1>4, <1>5, Lives

(***************************************************************************)
(* Only a generation that itself failed for good is quarantined: an event  *)
(* that a removed backend left behind never condemns its successor.        *)
(***************************************************************************)
THEOREM QuarantineAlwaysDeserved == Spec => []QuarantineIsDeserved
<1>1. Init => QuarantineIsDeserved
  BY DEF Init, QuarantineIsDeserved, NoRecord
<1> QED
  BY <1>1, TypeInvariant, DeservedStep, PTL DEF Spec

(***************************************************************************)
(* While a publication stays visible its failure history is forgotten only *)
(* after a stable interval of active rendering: no removal, refresh or     *)
(* other failure drops it.                                                 *)
(***************************************************************************)
THEOREM HistoryAlwaysKept == Spec => HistoryKept
<1>1. ASSUME TypeInv, Next, NEW s \in Source, Recorded(recovery[s]), ~Recorded(recovery'[s])
      PROVE  \/ s \notin Visible \/ recovery[s].gen # gen[s]
             \/ sources[s].stable >= StableInterval
  <2>1. ASSUME NEW t \in Live, Failed(t) PROVE FALSE
    <3>1. PICK kind, age : Fail(t, kind, age)
      BY <2>1 DEF Failed
    <3>2. t \in Source /\ sources[t].gen # 0
      BY <1>1 DEF Live, TypeInv, LiveGeneration, Generation
    <3>3. recovery'[t].gen = sources[t].gen
          /\ \A u \in Source : u # t => recovery'[u] = recovery[u]
      BY <1>1, <3>1, <3>2, FailRecords
    <3> QED
      BY <1>1, <3>2, <3>3 DEF Recorded
  <2>2. ASSUME NEW renamed \in BOOLEAN, Refresh(renamed)
        PROVE  \/ s \notin Visible \/ recovery[s].gen # gen[s]
               \/ sources[s].stable >= StableInterval
    <3>1. CASE s \in Unresponsive
      <4>1. sources[s].gen # 0
        BY <1>1, <3>1 DEF Unresponsive, Live, TypeInv, LiveGeneration, Generation
      <4> QED
        BY <1>1, <2>2, <3>1, <4>1, RefreshRecords DEF Recorded
    <3>2. CASE s \notin Unresponsive
      <4>1. KeptRecord(s) # recovery[s]
        BY <1>1, <2>2, <3>2, RefreshRecords DEF Recorded
      <4> QED
        BY <4>1 DEF KeptRecord, ResetRecovery
    <3> QED
      BY <3>1, <3>2
  <2>3. CASE StillLife \/ CatalogEvent \/ End \/ (\E t \in Live : Updated(t)) \/ Elapse
    BY <1>1, <2>3, ElapseRecords DEF StillLife, CatalogEvent, PublishShare, UnpublishShare,
       End, historyVars, Updated, Recorded
  <2> QED
    BY <1>1, <2>1, <2>2, <2>3, Lives
<1>2. TypeInv /\ [Next]_vars =>
        [\A s \in Source :
           Recorded(recovery[s]) /\ ~Recorded(recovery'[s]) =>
             \/ s \notin Visible \/ recovery[s].gen # gen[s]
             \/ sources[s].stable >= StableInterval]_vars
  BY <1>1
<1> QED
  BY <1>2, TypeInvariant, PTL DEF Spec, HistoryKept

(***************************************************************************)
(* Quarantine is exact.  A generation that failed for good is not opened   *)
(* again, because it is never that of a live backend, the catalog moves on *)
(* to later generations only, and while it is the current one its record   *)
(* is kept: a share that is not live has not rendered, and it stays among  *)
(* the visible ones as long as there are no more than MaxVisible of them.  *)
(***************************************************************************)
Outdated ==
  \A s \in Source :
    /\ sources[s].live => sources[s].gen <= gen[s]
    /\ \A g \in Generation : <<s, g>> \in guilty => g <= gen[s]

(* A removed backend leaves nothing.                                       *)
Removed == \A s \in Source : ~sources[s].live => sources[s] = NoBackend

Condemned ==
  \A s \in Source : <<s, gen[s]>> \in guilty =>
    /\ ~sources[s].live
    /\ listed[s] => recovery[s].gen = gen[s] /\ recovery[s].blocked

QuarantineInv == /\ TypeInv /\ QuarantineIsDeserved /\ QuarantineHolds /\ Outdated
                 /\ Removed /\ Condemned

LEMMA AllVisible ==
  ASSUME NumSources <= MaxVisible, NEW s \in Source, listed[s] PROVE s \in Visible
<1> DEFINE before == {t \in 1..(s - 1) : listed[t]}
<1>1. s \in Int /\ 1 <= s /\ s <= NumSources
  BY DEF Source
<1>2. IsFiniteSet(1..(s - 1)) /\ Cardinality(1..(s - 1)) <= s - 1
  <2>1. s - 1 \in Int /\ 1 \in Int
    BY <1>1
  <2>2. /\ IsFiniteSet(1..(s - 1))
        /\ Cardinality(1..(s - 1)) = IF 1 > s - 1 THEN 0 ELSE s - 1 - 1 + 1
    BY ONLY <2>1, FS_Interval
  <2> QED
    BY <1>1, <2>2
<1>3. before \subseteq 1..(s - 1)
  OBVIOUS
<1> HIDE DEF before
<1>4. IsFiniteSet(before) /\ Cardinality(before) <= Cardinality(1..(s - 1))
  BY <1>2, <1>3, FS_Subset
<1>5. Cardinality(before) \in Nat /\ Cardinality(1..(s - 1)) \in Nat
  BY <1>2, <1>4, FS_CardinalityType
<1>6. Cardinality(before) < MaxVisible
  BY <1>1, <1>2, <1>4, <1>5
<1> QED
  BY <1>6 DEF Visible, before

(* Neither time nor an expired call changes what is not there.             *)
LEMMA NoBackendStays ==
  ASSUME NEW expired
  PROVE  /\ [NoBackend EXCEPT !.chunks = @ \ expired] = NoBackend
         /\ [NoBackend EXCEPT !.initLeft = Less(@), !.stable = More(@)] = NoBackend
<1> DEFINE b == NoBackend
           i == Less(b.initLeft)
           t == More(b.stable)
<1>1. b \in Backend
  BY DefaultTypes
<1>2. i = b.initLeft /\ t = b.stable /\ b.chunks = {}
  BY DEF NoBackend, Less, More, Never
<1> HIDE DEF b, i, t
<1>3. [b EXCEPT !.chunks = {}] = b
  BY <1>1, <1>2 DEF Backend
<1>4. [b EXCEPT !.initLeft = i, !.stable = t] = b
  BY <1>1, <1>2 DEF Backend
<1> QED
  BY <1>2, <1>3, <1>4 DEF b, i, t

LEMMA RefreshLives ==
  ASSUME TypeInv, Removed, NEW renamed, Refresh(renamed), NEW s \in Source
  PROVE  \/ s \in ToOpen /\ sources'[s] = Opening(gen[s])
         \/ s \notin ToOpen /\ sources'[s] = NoBackend
         \/ /\ s \notin ToOpen \cup Withdrawn \cup Unresponsive /\ sources[s].live
            /\ sources'[s] = [sources[s] EXCEPT !.chunks = @ \ Expired]
<1>1. CASE s \in ToOpen
  BY <1>1 DEF Refresh
<1>2. CASE s \notin ToOpen /\ s \in Withdrawn \cup Unresponsive
  BY <1>2 DEF Refresh
<1>3. CASE s \notin ToOpen /\ s \notin Withdrawn \cup Unresponsive
  <2>1. sources'[s] = [sources[s] EXCEPT !.chunks = @ \ Expired]
    BY <1>3 DEF Refresh
  <2>2. ~sources[s].live => sources[s] = NoBackend
    BY DEF Removed
  <2>3. [NoBackend EXCEPT !.chunks = @ \ Expired] = NoBackend
    BY NoBackendStays
  <2> QED
    BY <1>3, <2>1, <2>2, <2>3
<1> QED
  BY <1>1, <1>2, <1>3

LEMMA ElapseLives ==
  ASSUME TypeInv, Removed, Elapse, NEW s \in Source
  PROVE  /\ sources'[s].live = sources[s].live /\ sources'[s].gen = sources[s].gen
         /\ ~sources[s].live => sources'[s] = sources[s]
<1>1. sources'[s] = [sources[s] EXCEPT !.initLeft = Less(@), !.stable = More(@)]
  BY DEF Elapse
<1>2. sources'[s].live = sources[s].live /\ sources'[s].gen = sources[s].gen
  BY <1>1 DEF TypeInv, TypeOK, Backend
<1>3. ASSUME ~sources[s].live PROVE sources'[s] = sources[s]
  <2>1. sources[s] = NoBackend
    BY <1>3 DEF Removed
  <2> QED
    BY <1>1, <2>1, NoBackendStays
<1> QED
  BY <1>2, <1>3

LEMMA RemovedStep == TypeInv /\ Removed /\ [Next]_vars => Removed'
<1> SUFFICES ASSUME TypeInv, Removed, [Next]_vars PROVE Removed'
  OBVIOUS
<1>1. CASE StillLife \/ CatalogEvent
  BY <1>1 DEF StillLife, CatalogEvent, PublishShare, UnpublishShare, Removed
<1>2. ASSUME NEW s \in Live, Updated(s) PROVE Removed'
  BY <1>2 DEF Updated, Live, Removed, TypeInv, TypeOK
<1>3. ASSUME NEW s \in Live, Failed(s) PROVE Removed'
  BY <1>3 DEF Failed, Fail, Removed, TypeInv, TypeOK
<1>4. ASSUME NEW renamed \in BOOLEAN, Refresh(renamed) PROVE Removed'
  <2> SUFFICES ASSUME NEW s \in Source, ~sources'[s].live PROVE sources'[s] = NoBackend
    BY DEF Removed
  <2>1. Opening(gen[s]).live
    BY DEF Opening, NoBackend
  <2>2. sources[s].live => [sources[s] EXCEPT !.chunks = @ \ Expired].live
    BY DEF TypeInv, TypeOK, Backend
  <2> QED
    BY <1>4, <2>1, <2>2, RefreshLives
<1>5. CASE Elapse
  BY <1>5, ElapseLives DEF Removed
<1>6. CASE End
  BY <1>6 DEF End, Removed
<1> QED
  BY <1>1, <1>2, <1>3, <1>4, <1>5, <1>6, Lives

LEMMA QuarantineStep ==
  ASSUME NumSources <= MaxVisible, QuarantineInv, [Next]_vars
  PROVE  QuarantineHolds' /\ Outdated' /\ Condemned'
<1> DEFINE Goal == QuarantineHolds' /\ Outdated' /\ Condemned'
<1>0. /\ TypeInv /\ TypeOK /\ QuarantineHolds /\ Outdated /\ Removed /\ Condemned
      /\ ~NoBackend.live
  BY DEF QuarantineInv, TypeInv, NoBackend
<1>1. CASE StillLife
  BY <1>0, <1>1 DEF StillLife, catalogVars, QuarantineHolds, Outdated, Condemned
<1>2. ASSUME NEW s \in Live, Updated(s) PROVE Goal
  <2>1. PICK b : /\ sources' = [sources EXCEPT ![s] = b] /\ b.live /\ b.gen = sources[s].gen
    BY <1>2 DEF Updated, Live
  <2>2. \A t \in Source : /\ sources'[t].live <=> sources[t].live
                          /\ sources'[t].gen = sources[t].gen
                          /\ ~sources[t].live => sources'[t] = sources[t]
    BY <1>0, <2>1 DEF TypeOK, Live
  <2>3. UNCHANGED <<gen, listed, recovery, guilty>>
    BY <1>2 DEF Updated, catalogVars
  <2> QED
    BY <1>0, <2>2, <2>3 DEF QuarantineHolds, Outdated, Condemned
<1>3. ASSUME NEW s \in Live, Failed(s) PROVE Goal
  <2>1. PICK kind, age : Fail(s, kind, age) /\ Blame(s, kind)
    BY <1>3 DEF Failed
  <2>2. s \in Source /\ sources[s].live /\ UNCHANGED <<gen, listed>>
    BY <1>3 DEF Live, Failed, catalogVars
  <2>3. /\ recovery'[s].gen = sources[s].gen
        /\ recovery'[s].blocked <=> kind = Persistent
        /\ sources'[s] = NoBackend
        /\ \A t \in Source : t # s => recovery'[t] = recovery[t] /\ sources'[t] = sources[t]
    BY <1>0, <2>1, <2>2, FailRecords
  <2>4. \/ guilty' = guilty
        \/ kind = Persistent /\ guilty' = guilty \cup {<<s, sources[s].gen>>}
    BY <2>1 DEF Blame
  <2>5. \A t \in Source : \A g : <<t, g>> \in guilty' =>
          <<t, g>> \in guilty \/ (t = s /\ g = sources[s].gen /\ kind = Persistent)
    BY <2>4
  <2>6. QuarantineHolds'
    BY <1>0, <2>3, <2>5 DEF QuarantineHolds
  <2>7. Outdated'
    BY <1>0, <2>2, <2>3, <2>5 DEF Outdated
  <2>8. Condemned'
    <3> SUFFICES ASSUME NEW t \in Source, <<t, gen[t]>> \in guilty'
                 PROVE  /\ ~sources'[t].live
                        /\ listed[t] => recovery'[t].gen = gen[t] /\ recovery'[t].blocked
      BY <2>2 DEF Condemned
    <3>1. CASE t = s
      <4>1. <<t, gen[t]>> \notin guilty
        BY <1>0, <2>2, <3>1 DEF Condemned
      <4>2. gen[t] = sources[s].gen /\ kind = Persistent
        BY <2>5, <4>1
      <4> QED
        BY <1>0, <2>3, <3>1, <4>2
    <3>2. CASE t # s
      BY <1>0, <2>3, <2>5, <3>2 DEF Condemned
    <3> QED
      BY <3>1, <3>2
  <2> QED
    BY <2>6, <2>7, <2>8
<1>4. ASSUME NEW renamed \in BOOLEAN, Refresh(renamed) PROVE Goal
  <2>1. UNCHANGED <<gen, listed, guilty>>
    BY <1>4 DEF Refresh, catalogVars
  <2>2. ASSUME NEW s \in Source, s \in ToOpen
        PROVE  <<s, gen[s]>> \notin guilty
    <3> SUFFICES ASSUME <<s, gen[s]>> \in guilty PROVE FALSE
      OBVIOUS
    <3>1. ~sources[s].live /\ listed[s] /\ s \in Visible
      BY <1>0, <2>2 DEF Condemned, ToOpen, Visible
    <3>2. recovery[s].gen = gen[s] /\ recovery[s].blocked
      BY <1>0, <3>1 DEF Condemned
    <3>3. sources[s].stable = -1
      BY <1>0, <3>1 DEF Removed, NoBackend, Never
    <3>4. KeptRecord(s) = recovery[s]
      BY <3>1, <3>2, <3>3 DEF KeptRecord, ResetRecovery
    <3>5. RefreshedRecord(s) = recovery[s]
      BY <3>1, <3>4 DEF RefreshedRecord, Unresponsive, Live
    <3>6. MayOpen(recovery[s])
      BY <2>2, <3>5 DEF ToOpen
    <3>7. recovery[s].gen # 0
      BY <1>0, <3>1, <3>2 DEF TypeInv, ListedGeneration, Generation
    <3> QED
      BY <3>2, <3>6, <3>7 DEF MayOpen, Recorded
  <2>3. ASSUME NEW s \in Source
        PROVE  \/ sources'[s] = NoBackend
               \/ /\ sources'[s].live /\ sources'[s].gen = gen[s]
                  /\ <<s, gen[s]>> \notin guilty
               \/ /\ sources[s].live /\ sources'[s].live /\ sources'[s].gen = sources[s].gen
    <3>1. Opening(gen[s]).live /\ Opening(gen[s]).gen = gen[s]
      BY DEF Opening, NoBackend
    <3>2. /\ [sources[s] EXCEPT !.chunks = @ \ Expired].live = sources[s].live
          /\ [sources[s] EXCEPT !.chunks = @ \ Expired].gen = sources[s].gen
      BY <1>0 DEF TypeOK, Backend
    <3> QED
      BY <1>0, <1>4, <2>2, <3>1, <3>2, RefreshLives
  <2>4. QuarantineHolds'
    BY <1>0, <2>1, <2>3 DEF QuarantineHolds
  <2>5. Outdated'
    <3>1. \A s \in Source : gen[s] <= gen[s]
      BY <1>0 DEF TypeOK
    <3>2. ASSUME NEW s \in Source, sources'[s].live PROVE sources'[s].gen <= gen[s]
      BY <1>0, <2>3, <3>1, <3>2 DEF Outdated
    <3> QED
      BY <1>0, <2>1, <3>2 DEF Outdated
  <2>6. Condemned'
    <3> SUFFICES ASSUME NEW s \in Source, <<s, gen[s]>> \in guilty
                 PROVE  /\ ~sources'[s].live
                        /\ listed[s] => recovery'[s].gen = gen[s] /\ recovery'[s].blocked
      BY <2>1 DEF Condemned
    <3>1. ~sources[s].live /\ (listed[s] => recovery[s].gen = gen[s] /\ recovery[s].blocked)
      BY <1>0 DEF Condemned
    <3>2. ~sources'[s].live
      BY <1>0, <2>3, <3>1
    <3>3. ASSUME listed[s] PROVE recovery'[s].gen = gen[s] /\ recovery'[s].blocked
      <4>1. s \in Visible
        BY <3>3, AllVisible
      <4>2. sources[s].stable = -1
        BY <1>0, <3>1 DEF Removed, NoBackend, Never
      <4>3. KeptRecord(s) = recovery[s]
        BY <3>1, <3>3, <4>1, <4>2 DEF KeptRecord, ResetRecovery
      <4>4. s \notin Unresponsive
        BY <3>1 DEF Unresponsive, Live
      <4>5. recovery'[s] = recovery[s]
        BY <1>0, <1>4, <4>3, <4>4, RefreshRecords
      <4> QED
        BY <3>1, <3>3, <4>5
    <3> QED
      BY <3>2, <3>3
  <2> QED
    BY <2>4, <2>5, <2>6
<1>5. CASE Elapse
  <2>1. UNCHANGED <<gen, listed, guilty>>
    BY <1>5 DEF Elapse, catalogVars
  <2>2. \A s \in Source : /\ sources'[s].live = sources[s].live
                          /\ sources'[s].gen = sources[s].gen
    BY <1>0, <1>5, ElapseLives
  <2>3. QuarantineHolds' /\ Outdated'
    BY <1>0, <2>1, <2>2 DEF QuarantineHolds, Outdated
  <2>4. Condemned'
    BY <1>0, <1>5, <2>1, <2>2, ElapseRecords DEF Condemned
  <2> QED
    BY <2>3, <2>4
<1>6. ASSUME NEW s \in Source, UnpublishShare(s) PROVE Goal
  <2>1. /\ UNCHANGED <<gen, sources, recovery, guilty>>
        /\ \A t \in Source : listed'[t] => listed[t]
    BY <1>0, <1>6 DEF UnpublishShare, TypeOK, historyVars
  <2> QED
    BY <1>0, <2>1 DEF QuarantineHolds, Outdated, Condemned
<1>7. ASSUME NEW s \in Source, PublishShare(s) PROVE Goal
  <2>1. /\ UNCHANGED <<sources, recovery, guilty>> /\ gen[s] \in Nat
        /\ gen' = [gen EXCEPT ![s] = @ + 1] /\ listed' = [listed EXCEPT ![s] = TRUE]
    BY <1>0, <1>7 DEF PublishShare, TypeOK, historyVars
  <2>2. \A t \in Source : /\ t # s => gen'[t] = gen[t] /\ listed'[t] = listed[t]
                          /\ gen'[s] = gen[s] + 1
    BY <1>0, <2>1 DEF TypeOK
  <2>3. QuarantineHolds'
    BY <1>0, <2>1 DEF QuarantineHolds
  <2>4. Outdated'
    BY <1>0, <2>1, <2>2 DEF Outdated, TypeOK, Backend, Generation
  <2>5. <<s, gen'[s]>> \notin guilty
    <3>1. gen[s] + 1 \in Generation
      BY <1>0, <1>7, <2>1 DEF PublishShare, Generation, TypeOK
    <3>2. ~(gen[s] + 1 <= gen[s]) /\ gen'[s] = gen[s] + 1
      BY <1>0, <2>1 DEF TypeOK
    <3>3. <<s, gen[s] + 1>> \notin guilty
      BY <1>0, <3>1, <3>2 DEF Outdated
    <3> QED
      BY <3>2, <3>3
  <2>6. Condemned'
    BY <1>0, <2>1, <2>2, <2>5 DEF Condemned
  <2> QED
    BY <2>3, <2>4, <2>6
<1>8. CASE End
  <2>1. UNCHANGED <<gen, listed, recovery, guilty>> /\ \A s \in Source : sources'[s] = NoBackend
    BY <1>8 DEF End, catalogVars, historyVars
  <2> QED
    BY <1>0, <2>1 DEF QuarantineHolds, Outdated, Condemned
<1> QED
  BY <1>0, <1>1, <1>2, <1>3, <1>4, <1>5, <1>6, <1>7, <1>8, Lives DEF CatalogEvent

(***************************************************************************)
(* Quarantine is exact: a viewer never opens a generation again that       *)
(* failed for good, whatever is removed, refreshed or published meanwhile, *)
(* and it quarantines no other.  It holds as long as no share is pushed    *)
(* out of the visible ones, with which refresh drops its record.           *)
(***************************************************************************)
THEOREM QuarantineAlwaysExact ==
  ASSUME NumSources <= MaxVisible PROVE Spec => []QuarantineExact
<1>1. Init => QuarantineInv
  <2> SUFFICES ASSUME Init PROVE QuarantineInv
    OBVIOUS
  <2>1. ~NoBackend.live /\ ~NoRecord.blocked
    BY DEF NoBackend, NoRecord
  <2> QED
    BY <2>1, TypeInit DEF Init, QuarantineInv, QuarantineIsDeserved, QuarantineHolds,
       Outdated, Removed, Condemned
<1>2. QuarantineInv /\ [Next]_vars => QuarantineInv'
  BY TypeStep, DeservedStep, RemovedStep, QuarantineStep DEF QuarantineInv
<1>3. QuarantineInv => QuarantineExact
  BY DEF QuarantineInv, QuarantineExact
<1> QED
  BY <1>1, <1>2, <1>3, PTL DEF Spec

=============================================================================
