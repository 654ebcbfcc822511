------------------------------ MODULE ViewProofs -----------------------------
(***************************************************************************)
(* The view of Gateway: which source is shown, what the viewer has on its  *)
(* screen, and the fence it waits for.  What publish decides, it decides   *)
(* in steps, and a failed write may start it again at any of them; so each *)
(* part of the invariant says from which step on it holds again:           *)
(*   Adopted     the active source has a snapshot (after "publish");       *)
(*   Interests   interest is where the view is (after "sync" or "ack"),    *)
(*               unless every transition slot is taken;                    *)
(*   Scenes      the screen shows the active source (after "emit");        *)
(*   Fences      the fence is with a source or waits for one (after        *)
(*               "fence"), and it is the one the viewer waits for;         *)
(*   Remembered  the gateway knows what is on the screen (always);         *)
(*   Effects     the terminal modes are the active source's (always).      *)
(***************************************************************************)
EXTENDS RequestProofs

USE MaxAttemptsAssumption, BoundsAssumption

(* The steps at which publish has nothing left to do.                      *)
After == {"select", "dispatch", "send", "respond", "broadcast", "reject"}

(* The scene of source a for the revisions that f holds.                   *)
FullScene(a, f) == Scene(a, f.proj, f.rev, TRUE)

(* A source sends a snapshot once its stream is open.                      *)
Streamed == \A s \in Source : sources[s].snapshot # 0 => sources[s].stream

Adopted ==
  /\ pc # "done" /\ active # Nobody => active \in SnapshotIDs
  /\ pc \notin {"publish", "done"} /\ active = Nobody => SnapshotIDs = {}

Interests ==
  pc \in After \cup {"emit", "fence"} /\ SlotFree =>
    \A s \in Source : sources[s].interest <=> (s = active /\ surfaceActive)

Effects ==
  pc # "done" /\ surfaceActive /\ active # Nobody => view.effect = sources[active].effect

Scenes ==
  pc \in After \cup {"ack", "fence"} /\ surfaceActive /\ active # Nobody =>
    LET f == sources[active].frame IN
    f # NoFrame /\ f.proj = sources[active].snapshot =>
      view.screen = FullScene(active, f)

Remembered ==
  /\ view.screen.src # -1
  /\ view.src # Nobody /\ view.current =>
       view.screen = FullScene(view.src, view)

(* The fence has been sent, or its source waits for a transition slot.     *)
FenceWaits ==
  pc \in After /\ fence.pending /\ fence.source = Nobody =>
    active # Nobody /\ surfaceActive /\ ~sources[active].interest /\ ~SlotFree

Fences ==
  pc # "done" =>
    /\ awaited = IF fence.pending THEN fence.token ELSE NoToken
    /\ ~fence.pending => fence.source = Nobody
    /\ FenceWaits

ViewState ==
  Streamed /\ Adopted /\ Interests /\ Effects /\ Scenes /\ Remembered /\ Fences

ViewInv == LinkInv /\ Removed /\ ViewState

-----------------------------------------------------------------------------
(* Scenes.                                                                 *)
LEMMA ForgetScene ==
  ASSUME NEW v \in ViewType, NEW gone, NEW w, w = ForgetSources(v, gone)
  PROVE  /\ w.src = IF v.src \in gone THEN Nobody ELSE v.src
         /\ w.proj = v.proj /\ w.rev = v.rev /\ w.current = v.current /\ w.effect = v.effect
         /\ w.screen.src = IF v.screen.src \in gone THEN Nobody ELSE v.screen.src
         /\ v.screen.src \notin gone => w.screen = v.screen
<1> DEFINE a == IF v.src \in gone THEN Nobody ELSE v.src
           b == IF v.screen.src \in gone THEN Nobody ELSE v.screen.src
           c == [v.screen EXCEPT !.src = b]
           x == [v EXCEPT !.src = a, !.screen = c]
<1>1. v.screen \in SceneType
  BY DEF ViewType
<1>2. c.src = b /\ (b = v.screen.src => c = v.screen)
  BY <1>1 DEF SceneType
<1>3. w = x
  BY DEF ForgetSources, ViewType
<1> HIDE DEF a, b, c
<1>4. /\ x.src = a /\ x.proj = v.proj /\ x.rev = v.rev /\ x.current = v.current
      /\ x.effect = v.effect /\ x.screen = c
  BY DEF ViewType
<1> HIDE DEF x
<1> QED
  BY <1>2, <1>3, <1>4 DEF a, b

LEMMA MoveScene ==
  ASSUME NEW v \in ViewType, NEW w, w = MoveProjection(v)
  PROVE  /\ w.src = v.src /\ w.effect = v.effect /\ ~w.current
         /\ w.screen.src = v.screen.src
<1> DEFINE c == [v.screen EXCEPT !.current = FALSE]
           x == [v EXCEPT !.current = FALSE, !.screen = c]
<1>1. c.src = v.screen.src
  BY DEF ViewType, SceneType
<1>2. w = x
  BY DEF MoveProjection, ViewType
<1> HIDE DEF c
<1>3. x.src = v.src /\ x.effect = v.effect /\ ~x.current /\ x.screen = c
  BY DEF ViewType
<1> HIDE DEF x
<1> QED
  BY <1>1, <1>2, <1>3

(* What the viewer has after a full scene was sent, or was not.            *)
LEMMA SentScene ==
  ASSUME NEW v \in ViewType, NEW on \in BOOLEAN, NEW a \in SourceOrNobody,
         NEW frame \in FrameType, NEW snapshot \in 0..MaxProjection,
         NEW w, w = SendSurface(v, on, a, frame, snapshot)
  PROVE  /\ w.effect = v.effect
         /\ \/ w = v
            \/ w.src = Nobody /\ w.screen = BlankScene
            \/ /\ w.src = a /\ w.proj = frame.proj /\ w.rev = frame.rev
               /\ w.screen = FullScene(a, frame)
         /\ on /\ a # Nobody /\ frame # NoFrame /\ frame.proj = snapshot =>
              w.screen = FullScene(a, frame)
<1> DEFINE blank == BlankSurface(v)
           scene == FullScene(a, frame)
           full == [v EXCEPT !.src = a, !.proj = frame.proj, !.rev = frame.rev,
                             !.current = TRUE, !.screen = scene]
           fits == frame # NoFrame /\ frame.proj = snapshot
<1>1. blank.src = Nobody /\ blank.screen = BlankScene /\ blank.effect = v.effect
  BY DEF BlankSurface, ViewType
<1>2. SendSurface(v, on, a, frame, snapshot) =
        CASE ~on -> v [] on /\ a = Nobody -> blank [] on /\ a # Nobody /\ fits -> full
          [] OTHER -> v
  BY DEF SendSurface, FullScene
<1> HIDE DEF blank, scene
<1>3. /\ full.src = a /\ full.proj = frame.proj /\ full.rev = frame.rev
      /\ full.screen = scene /\ full.effect = v.effect
  BY DEF ViewType
<1> HIDE DEF full
<1>4. \/ ~on /\ SendSurface(v, on, a, frame, snapshot) = v
      \/ on /\ a = Nobody /\ SendSurface(v, on, a, frame, snapshot) = blank
      \/ on /\ a # Nobody /\ fits /\ SendSurface(v, on, a, frame, snapshot) = full
      \/ on /\ a # Nobody /\ ~fits /\ SendSurface(v, on, a, frame, snapshot) = v
  BY <1>2
<1> QED
  BY <1>1, <1>3, <1>4 DEF scene

(* The gateway knows what is on the screen when it sends a patch.          *)
LEMMA PatchedScene ==
  ASSUME NEW v \in ViewType, NEW on \in BOOLEAN, NEW b \in Source,
         NEW frame \in FrameType, NEW base \in 0..MaxSurface, NEW snapshot \in 0..MaxProjection,
         NEW w, w = SendPatch(v, on, b, frame, base, snapshot),
         v.src # Nobody /\ v.current => v.screen = FullScene(v.src, v),
         frame # NoFrame
  PROVE  /\ w.effect = v.effect
         /\ \/ w = v
            \/ w.src = Nobody /\ w.screen = BlankScene
            \/ /\ w.src = b /\ w.proj = frame.proj /\ w.rev = frame.rev
               /\ w.screen = FullScene(b, frame)
         /\ on /\ frame.proj = snapshot => w.screen = FullScene(b, frame)
<1>0. b # Nobody /\ b \in SourceOrNobody
  BY DEF Source, Nobody, SourceOrNobody
<1>1. CASE on /\ v.src = b /\ v.current /\ v.proj = frame.proj /\ v.rev = base
  <2> DEFINE scene == FullScene(b, frame)
             x == [v EXCEPT !.rev = frame.rev, !.screen = scene]
  <2>1. v.screen = Scene(b, frame.proj, base, TRUE)
    BY <1>0, <1>1 DEF FullScene
  <2>2. SendPatch(v, on, b, frame, base, snapshot) = x
    BY <1>1, <2>1 DEF SendPatch, FullScene
  <2> HIDE DEF scene
  <2>3. /\ x.src = v.src /\ x.proj = v.proj /\ x.rev = frame.rev /\ x.screen = scene
        /\ x.effect = v.effect
    BY DEF ViewType
  <2> HIDE DEF x
  <2> QED
    BY <1>1, <2>2, <2>3 DEF scene
<1>2. CASE ~(on /\ v.src = b /\ v.current /\ v.proj = frame.proj /\ v.rev = base)
  <2>1. SendPatch(v, on, b, frame, base, snapshot) = SendSurface(v, on, b, frame, snapshot)
    BY <1>2 DEF SendPatch
  <2>2. w = SendSurface(v, on, b, frame, snapshot)
    BY <2>1
  <2>3. /\ w.effect = v.effect
        /\ \/ w = v
           \/ w.src = Nobody /\ w.screen = BlankScene
           \/ /\ w.src = b /\ w.proj = frame.proj /\ w.rev = frame.rev
              /\ w.screen = FullScene(b, frame)
        /\ on /\ b # Nobody /\ frame # NoFrame /\ frame.proj = snapshot =>
             w.screen = FullScene(b, frame)
    BY <1>0, <2>2, SentScene
  <2> QED
    BY <1>0, <2>3
<1> QED
  BY <1>1, <1>2

(* A scene that is sent, and one that is blanked, are remembered.          *)
LEMMA SceneRemembered ==
  ASSUME NEW v, NEW w, NEW a \in Source,
         v.screen.src # -1,
         v.src # Nobody /\ v.current => v.screen = FullScene(v.src, v),
         \/ w = v
         \/ w.src = Nobody /\ w.screen = BlankScene
         \/ /\ w.src = a /\ w.screen = FullScene(a, w)
  PROVE  /\ w.screen.src # -1
         /\ w.src # Nobody /\ w.current => w.screen = FullScene(w.src, w)
<1>1. BlankScene.src = 0 /\ FullScene(a, w).src = a
  BY DEF BlankScene, FullScene, Scene, Nobody
<1>2. a # -1 /\ a # Nobody /\ 0 # -1
  BY DEF Source, Nobody
<1> QED
  BY <1>1, <1>2

LEMMA EffectScene ==
  ASSUME NEW v \in ViewType, NEW on \in BOOLEAN, NEW e, NEW w, w = ReplayEffects(v, on, e)
  PROVE  /\ w.src = v.src /\ w.proj = v.proj /\ w.rev = v.rev /\ w.current = v.current
         /\ w.screen = v.screen /\ (on => w.effect = e)
BY DEF ReplayEffects, ViewType

-----------------------------------------------------------------------------
(***************************************************************************)
(* Steps that concern the view no further, and steps that publish again.   *)
(***************************************************************************)
SameBackend(s) ==
  /\ sources'[s].interest <=> sources[s].interest
  /\ sources[s].stream => sources'[s].stream
  /\ sources'[s].snapshot = sources[s].snapshot
  /\ sources'[s].effect = sources[s].effect
  /\ sources'[s].frame = sources[s].frame

SameView ==
  /\ view'.src = view.src /\ view'.proj = view.proj /\ view'.rev = view.rev
  /\ view'.current = view.current /\ view'.screen = view.screen
  /\ view'.effect = view.effect

SameFence ==
  /\ fence'.pending <=> fence.pending
  /\ fence'.token = fence.token /\ fence'.source = fence.source
  /\ UNCHANGED awaited

LEMMA SlotKept ==
  ASSUME \A k \in Internal : k \in Internal' PROVE SlotFree' => SlotFree
<1>1. Internal \subseteq Internal'
  OBVIOUS
<1>2. Cardinality(Internal) <= Cardinality(Internal')
  BY <1>1, FinitePrime, FS_Subset
<1> QED
  BY <1>2, Finite, FinitePrime DEF SlotFree

LEMMA Kept ==
  ASSUME ViewInv, pc \in After, pc' \in After \cup {"ack"},
         UNCHANGED <<active, surfaceActive>>, SameView, SameFence,
         SnapshotIDs' = SnapshotIDs, \A s \in Source : SameBackend(s),
         pc' # "ack" => (SlotFree' => SlotFree)
  PROVE  ViewState'
<1>0. ViewState /\ TypeOK /\ (active # Nobody => active \in Source)
  BY DEF ViewInv, LinkInv, TypeInv, TypeOK, SourceOrNobody
<1>1. Streamed' /\ Adopted'
  BY <1>0 DEF ViewState, Streamed, Adopted, SameBackend, After
<1>2. Interests'
  BY <1>0 DEF ViewState, Interests, SameBackend, After
<1>3. Effects'
  BY <1>0 DEF ViewState, Effects, SameBackend, SameView, After
<1>4. Scenes'
  BY <1>0 DEF ViewState, Scenes, SameBackend, SameView, After
<1>5. Remembered'
  BY <1>0 DEF ViewState, Remembered, SameView, FullScene
<1>6. Fences'
  BY <1>0 DEF ViewState, Fences, FenceWaits, SameBackend, SameFence, After
<1> QED
  BY <1>1, <1>2, <1>3, <1>4, <1>5, <1>6 DEF ViewState

LEMMA Again ==
  ASSUME ViewInv, pc # "done", pc' = "publish", Streamed', Effects', Remembered', SameFence,
         active' # Nobody => active' \in SnapshotIDs'
  PROVE  ViewState'
BY DEF ViewInv, ViewState, Adopted, Interests, Scenes, Fences, FenceWaits, SameFence, After

(* A source is removed: publish will settle what it leaves.                *)
LEMMA RemovesView ==
  ASSUME ViewInv, pc # "done", pc' = "publish", NEW gone, NEW expired,
         Removes(gone, expired), UNCHANGED <<surfaceActive, awaited>>,
         \A s \in Source : \/ sources'[s].snapshot = 0
                           \/ s \notin gone /\ SameBackend(s)
                              /\ (sources[s].live => sources'[s].live),
         \A s \in Live : s \notin gone => SameBackend(s) /\ sources'[s].live
  PROVE  ViewState'
<1>0. ViewState /\ view \in ViewType /\ fence \in FenceType
  BY DEF ViewInv, LinkInv, TypeInv, TypeOK
<1>1. /\ active' = ActiveAfter(gone) /\ view' = ForgetSources(view, gone)
      /\ fence' = FenceAfter(gone)
  BY DEF Removes, Settle
<1>2. Streamed'
  BY <1>0 DEF ViewState, Streamed, SameBackend
<1>3. active' # Nobody => active' = active /\ active \notin gone /\ active \in SnapshotIDs
  BY <1>0, <1>1 DEF ViewState, Adopted, ActiveAfter
<1>4. active' # Nobody => active' \in SnapshotIDs' /\ SameBackend(active)
  BY <1>3 DEF SnapshotIDs, Live, SameBackend
<1>5. /\ view'.src = IF view.src \in gone THEN Nobody ELSE view.src
      /\ view'.proj = view.proj /\ view'.rev = view.rev /\ view'.current = view.current
      /\ view'.effect = view.effect
      /\ view'.screen.src = IF view.screen.src \in gone THEN Nobody ELSE view.screen.src
      /\ view.screen.src \notin gone => view'.screen = view.screen
  BY <1>0, <1>1, ForgetScene
<1>6. Effects'
  BY <1>0, <1>3, <1>4, <1>5 DEF ViewState, Effects, SameBackend
<1>7. Remembered'
  <2>1. view'.screen.src # -1
    BY <1>0, <1>5 DEF ViewState, Remembered, Nobody
  <2>2. ASSUME view'.src # Nobody, view'.current
        PROVE  view'.screen = FullScene(view'.src, view')
    <3>1. view'.src = view.src /\ view.src \notin gone /\ view.src # Nobody /\ view.current
      BY <1>5, <2>2
    <3>2. view.screen = FullScene(view.src, view)
      BY <1>0, <3>1 DEF ViewState, Remembered
    <3>3. view.screen.src = view.src
      BY <3>2 DEF FullScene, Scene
    <3>4. view'.screen = view.screen
      BY <1>5, <3>1, <3>3
    <3> QED
      BY <1>5, <3>1, <3>2, <3>4 DEF FullScene
  <2> QED
    BY <2>1, <2>2 DEF Remembered
<1>8. Fences'
  <2>1. /\ fence'.pending <=> fence.pending
        /\ fence'.token = fence.token
        /\ fence'.source = fence.source \/ fence'.source = Nobody
    BY <1>0, <1>1 DEF FenceAfter, FenceType
  <2> QED
    BY <1>0, <2>1 DEF ViewState, Fences, FenceWaits, After
<1> QED
  BY <1>2, <1>4, <1>6, <1>7, <1>8 DEF ViewState, Adopted, Interests, Scenes, After

LEMMA FailsView ==
  ASSUME ViewInv, pc # "done", NEW s \in Source, Fails(s) PROVE ViewState'
<1>1. sources' = [sources EXCEPT ![s] = NoBackend] /\ TypeOK
  BY DEF Fails, Fail, ViewInv, LinkInv, TypeInv
<1>2. sources'[s] = NoBackend /\ \A t \in Source : t # s => sources'[t] = sources[t]
  BY <1>1 DEF TypeOK
<1>3. NoBackend.snapshot = 0
  BY DEF NoBackend
<1>4. \A t \in Source : t # s => SameBackend(t) /\ (sources[t].live => sources'[t].live)
  BY <1>2 DEF SameBackend
<1>5. Removes({s}, {}) /\ pc' = "publish" /\ UNCHANGED <<surfaceActive, awaited>>
  BY FailRemoves DEF Fails
<1>6. \A t \in Source : \/ sources'[t].snapshot = 0
                        \/ t \notin {s} /\ SameBackend(t) /\ (sources[t].live => sources'[t].live)
  BY <1>2, <1>3, <1>4
<1>7. \A t \in Live : t \notin {s} => SameBackend(t) /\ sources'[t].live
  BY <1>4 DEF Live
<1> QED
  BY <1>5, <1>6, <1>7, RemovesView

-----------------------------------------------------------------------------
(* The steps of publish.                                                   *)
LEMMA PublishView == ASSUME ViewInv, Publish PROVE ViewState'
<1>0. /\ ViewState /\ view \in ViewType /\ surfaceActive \in BOOLEAN /\ TypeOK
      /\ pc = "publish" /\ pc' = "sync"
      /\ UNCHANGED <<sources, surfaceActive, fence, awaited>>
  BY DEF ViewInv, LinkInv, TypeInv, TypeOK, Publish, viewerVars
<1>1. CASE active = Nobody /\ \E s \in SnapshotIDs :
             active' = s /\ view' = ReplayEffects(view, surfaceActive, sources[s].effect)
  <2>1. PICK s \in SnapshotIDs :
             active' = s /\ view' = ReplayEffects(view, surfaceActive, sources[s].effect)
    BY <1>1
  <2> DEFINE e == sources[s].effect
  <2>2. view' = ReplayEffects(view, surfaceActive, e)
    BY <2>1
  <2>3. s # Nobody
    BY DEF SnapshotIDs, Source, Nobody
  <2> HIDE DEF e
  <2>4. /\ view'.src = view.src /\ view'.proj = view.proj /\ view'.rev = view.rev
        /\ view'.current = view.current /\ view'.screen = view.screen
        /\ surfaceActive => view'.effect = e
    BY <1>0, <2>2, EffectScene
  <2>5. Streamed' /\ Adopted'
    BY <1>0, <2>1, <2>3 DEF ViewState, Streamed, Adopted, SnapshotIDs
  <2>6. Effects'
    BY <1>0, <2>1, <2>4 DEF Effects, e
  <2>7. Remembered'
    BY <1>0, <2>4 DEF ViewState, Remembered, FullScene
  <2> QED
    BY <1>0, <2>5, <2>6, <2>7
    DEF ViewState, Interests, Scenes, Fences, FenceWaits, After
<1>2. CASE (active # Nobody \/ SnapshotIDs = {}) /\ UNCHANGED <<active, view>>
  <2>1. Streamed' /\ Adopted'
    BY <1>0, <1>2 DEF ViewState, Streamed, Adopted, SnapshotIDs
  <2> QED
    BY <1>0, <1>2, <2>1
    DEF ViewState, Interests, Effects, Scenes, Remembered, Fences, FenceWaits, After
<1> QED
  BY <1>1, <1>2 DEF Publish

LEMMA InterestView ==
  ASSUME ViewInv, NEW s \in Source, ReleaseInterest(s) \/ ActivateInterest(s)
  PROVE  ViewState'
<1>0. ViewState /\ TypeOK
  BY DEF ViewInv, LinkInv, TypeInv
<1>1. PICK on \in BOOLEAN : SetInterest(s, on)
  BY DEF ReleaseInterest, ActivateInterest
<1>2. /\ pc \in {"sync", "ack"} /\ UNCHANGED <<active, surfaceActive, fence, view, awaited>>
      /\ pc' \in {"sync", "ack", "emit", "fence"} /\ (pc = "ack" => pc' \in {"ack", "fence"})
      /\ (pc = "sync" => pc' \in {"sync", "emit"})
  BY <1>1 DEF ReleaseInterest, ActivateInterest, SetInterest, Syncing, SyncReturns, viewerVars
<1>3. \A t \in Source : /\ sources'[t].live = sources[t].live
                        /\ sources'[t].snapshot = sources[t].snapshot
                        /\ sources'[t].stream = sources[t].stream
                        /\ sources'[t].effect = sources[t].effect
                        /\ sources'[t].frame = sources[t].frame
  BY <1>0, <1>1 DEF SetInterest, TypeOK, Backend
<1>4. SnapshotIDs' = SnapshotIDs
  BY <1>3 DEF SnapshotIDs
<1>5. active # Nobody => active \in Source
  BY <1>0 DEF TypeOK, SourceOrNobody
<1>6. Streamed' /\ Adopted'
  BY <1>0, <1>2, <1>3, <1>4 DEF ViewState, Streamed, Adopted
<1>7. Effects'
  BY <1>0, <1>2, <1>3, <1>5 DEF ViewState, Effects
<1>8. Scenes'
  BY <1>0, <1>2, <1>3, <1>5 DEF ViewState, Scenes, After
<1>9. Remembered' /\ Fences'
  BY <1>0, <1>2 DEF ViewState, Remembered, Fences, FenceWaits, After
<1>10. Interests'
  <2>1. CASE ReleaseInterest(s)
    BY <1>2, <2>1 DEF ReleaseInterest, Interests, After
  <2>2. CASE ActivateInterest(s)
    <3>1. ToRelease = {} /\ s = active /\ surfaceActive /\ SetInterest(s, TRUE)
      BY <2>2 DEF ActivateInterest, ToActivate
    <3>2. \A t \in Source : t # s => sources'[t] = sources[t]
      BY <1>0, <3>1 DEF SetInterest, TypeOK
    <3>3. sources'[s].interest
      BY <1>0, <3>1 DEF SetInterest, TypeOK, Backend
    <3>4. \A t \in Source : t # s => ~sources[t].interest
      BY <3>1 DEF ToRelease, Live, ViewInv, Removed, NoBackend
    <3> QED
      BY <1>2, <3>1, <3>2, <3>3, <3>4 DEF Interests
  <2> QED
    BY <2>1, <2>2
<1> QED
  BY <1>6, <1>7, <1>8, <1>9, <1>10 DEF ViewState

(* When syncInterest has nothing to do, interest is where the view is: the *)
(* active source has a snapshot, so it could be told that it is shown.     *)
LEMMA SettledView ==
  ASSUME ViewInv, InterestWaits \/ InterestSettles PROVE ViewState'
<1>0. ViewState /\ TypeOK
  BY DEF ViewInv, LinkInv, TypeInv
<1>1. /\ pc \in {"sync", "ack"}
      /\ UNCHANGED <<active, surfaceActive, fence, view, awaited, sources, requestVars>>
      /\ (pc = "ack" => pc' = "fence") /\ (pc = "sync" => pc' = "emit")
  BY DEF InterestWaits, InterestSettles, Syncing, SyncReturns, viewerVars
<1>2. SnapshotIDs' = SnapshotIDs /\ Streamed' /\ Adopted' /\ Effects' /\ Remembered'
  BY <1>0, <1>1
  DEF ViewState, SnapshotIDs, Streamed, Adopted, Effects, Remembered
<1>3. Scenes' /\ Fences'
  BY <1>0, <1>1 DEF ViewState, Scenes, Fences, FenceWaits, After
<1>4. SlotFree' => SlotFree
  BY <1>1 DEF SlotFree, Internal, requestVars
<1>5. Interests'
  <2>1. CASE InterestWaits
    BY <1>4, <2>1 DEF InterestWaits, Interests
  <2>2. CASE InterestSettles
    <3>1. ToRelease = {} /\ ToActivate = {}
      BY <2>2 DEF InterestSettles
    <3>2. \A s \in Source : sources[s].interest => s = active /\ surfaceActive
      BY <3>1 DEF ToRelease, Live, ViewInv, Removed, NoBackend
    <3>3. ASSUME active \in Source, surfaceActive PROVE sources[active].interest
      <4>1. active # Nobody /\ pc # "done"
        BY <1>1, <3>3 DEF Source, Nobody
      <4>2. sources[active].live /\ sources[active].snapshot # 0
        BY <1>0, <4>1 DEF ViewState, Adopted, SnapshotIDs
      <4>3. sources[active].stream
        BY <1>0, <3>3, <4>2 DEF ViewState, Streamed
      <4> QED
        BY <3>1, <3>3, <4>2, <4>3 DEF ToActivate, Live
    <3> QED
      BY <1>1, <3>2, <3>3 DEF Interests
  <2> QED
    BY <2>1, <2>2
<1> QED
  BY <1>2, <1>3, <1>5 DEF ViewState

LEMMA EmitView == ASSUME ViewInv, Emit PROVE ViewState'
<1>0. ViewState /\ TypeOK /\ view \in ViewType /\ surfaceActive \in BOOLEAN /\ TypeInv
  BY DEF ViewInv, LinkInv, TypeInv, TypeOK
<1>1. /\ pc = "emit" /\ pc' = "fence"
      /\ UNCHANGED <<active, surfaceActive, fence, awaited, sources, requestVars>>
  BY DEF Emit, viewerVars
<1> DEFINE m == MoveProjection(view)
           f == IF active = Nobody THEN NoFrame ELSE sources[active].frame
           n == IF active = Nobody THEN 0 ELSE sources[active].snapshot
<1>2. view' = SendSurface(m, surfaceActive, active, f, n)
  BY DEF Emit
<1>3. /\ active \in SourceOrNobody /\ f \in FrameType /\ n \in 0..MaxProjection
      /\ active # Nobody => f = sources[active].frame /\ n = sources[active].snapshot
  BY <1>0, Ranges DEF TypeOK, SourceOrNobody, Backend, FrameType, NoFrame
<1>4. m = MoveProjection(view) /\ m \in ViewType
  <2>1. NoFrame \in FrameType
    BY Ranges DEF NoFrame, FrameType
  <2> QED
    BY <1>0, <2>1, Ranges, ViewTypes DEF TypeOK
<1> HIDE DEF m, f, n
<1>5. /\ m.src = view.src /\ m.effect = view.effect /\ ~m.current
      /\ m.screen.src = view.screen.src
  BY <1>0, <1>4, MoveScene
<1>6. /\ view'.effect = m.effect
      /\ \/ view' = m
         \/ view'.src = Nobody /\ view'.screen = BlankScene
         \/ /\ view'.src = active /\ view'.proj = f.proj /\ view'.rev = f.rev
            /\ view'.screen = FullScene(active, f)
      /\ surfaceActive /\ active # Nobody /\ f # NoFrame /\ f.proj = n =>
           view'.screen = FullScene(active, f)
  BY <1>0, <1>2, <1>3, <1>4, SentScene
<1>7. Effects'
  BY <1>0, <1>1, <1>5, <1>6 DEF ViewState, Effects
<1>8. Remembered'
  <2>1. m.screen.src # -1
    BY <1>0, <1>5 DEF ViewState, Remembered
  <2>2. CASE view' = m
    BY <1>5, <2>1, <2>2 DEF Remembered
  <2>3. CASE view'.src = Nobody /\ view'.screen = BlankScene
    BY <2>3 DEF Remembered, BlankScene, Scene, Nobody
  <2>4. CASE /\ view'.src = active /\ view'.proj = f.proj /\ view'.rev = f.rev
             /\ view'.screen = FullScene(active, f)
    <3>1. view'.screen = FullScene(view'.src, view')
      BY <2>4 DEF FullScene
    <3>2. view'.screen.src # -1
      BY <1>3, <2>4 DEF FullScene, Scene, SourceOrNobody, Source, Nobody
    <3> QED
      BY <3>1, <3>2 DEF Remembered
  <2> QED
    BY <1>6, <2>2, <2>3, <2>4
<1>9. Scenes'
  BY <1>1, <1>3, <1>6 DEF Scenes
<1>10. Interests'
  BY <1>0, <1>1 DEF ViewState, Interests, SlotFree, Internal, requestVars
<1> QED
  BY <1>0, <1>1, <1>7, <1>8, <1>9, <1>10
  DEF ViewState, Streamed, Adopted, SnapshotIDs, Fences, FenceWaits, After

LEMMA FenceView ==
  ASSUME ViewInv, SkipFence \/ AnswerFence \/ SendFence PROVE ViewState'
<1>0. ViewState /\ TypeOK /\ TypeInv
  BY DEF ViewInv, LinkInv, TypeInv
<1>1. CASE SendFence /\ WriteFails(active)
  <2>1. active \in Source /\ Fails(active) /\ pc # "done"
    BY <1>0, <1>1 DEF SendFence, WriteFails, Fails, TypeOK, SourceOrNobody
  <2> QED
    BY <2>1, FailsView
<1>2. CASE ~(SendFence /\ WriteFails(active))
  <2>1. /\ pc = "fence" /\ pc' = then.op /\ pc' \in After
        /\ UNCHANGED <<active, surfaceActive, view, sources, requestVars>>
    BY <1>0, <1>2 DEF SkipFence, AnswerFence, SendFence, After, TypeOK
  <2>2. Streamed' /\ Adopted' /\ Effects' /\ Remembered'
    BY <1>0, <2>1 DEF ViewState, SnapshotIDs, Streamed, Adopted, Effects, Remembered
  <2>3. SlotFree' = SlotFree
    BY <2>1 DEF SlotFree, Internal, requestVars
  <2>4. Interests' /\ Scenes'
    BY <1>0, <2>1, <2>3 DEF ViewState, Interests, Scenes
  <2>5. Fences'
    <3>1. CASE SkipFence
      <4>1. FenceIdle /\ UNCHANGED <<fence, awaited>>
        BY <3>1 DEF SkipFence, viewerVars
      <4>2. ASSUME active # Nobody, surfaceActive, ~sources[active].interest PROVE ~SlotFree
        <5>1. active \in Source
          BY <1>0, <4>2 DEF TypeOK, SourceOrNobody
        <5> QED
          BY <1>0, <2>1, <4>2, <5>1 DEF ViewState, Interests
      <4> QED
        BY <1>0, <2>1, <2>3, <4>1, <4>2 DEF FenceIdle, ViewState, Fences, FenceWaits
    <3>2. CASE AnswerFence
      <4>1. fence.pending /\ fence' = NoFence /\ awaited' = NoToken
        BY <1>0, <2>1, <3>2 DEF AnswerFence, FenceIdle, ViewState, Fences
      <4> QED
        BY <4>1 DEF NoFence, Fences, FenceWaits
    <3>3. CASE SendFence
      <4>1. /\ fence' = [fence EXCEPT !.source = active, !.left = FenceTimeout]
            /\ fence.pending /\ active # Nobody /\ UNCHANGED awaited
        BY <1>2, <3>3 DEF SendFence, FenceIdle, viewerVars
      <4>2. fence'.pending /\ fence'.token = fence.token /\ fence'.source = active
        BY <1>0, <4>1 DEF TypeOK, FenceType
      <4> QED
        BY <1>0, <2>1, <4>1, <4>2 DEF ViewState, Fences, FenceWaits
    <3> QED
      BY <3>1, <3>2, <3>3
  <2> QED
    BY <2>2, <2>4, <2>5 DEF ViewState
<1> QED
  BY <1>1, <1>2

-----------------------------------------------------------------------------
(* What is drawn between handlers.                                         *)
LEMMA Drawn ==
  ASSUME ViewInv, pc \in After, pc' \in After,
         UNCHANGED <<active, surfaceActive, requestVars>>, SameFence,
         SnapshotIDs' = SnapshotIDs,
         \A s \in Source : /\ sources'[s].interest <=> sources[s].interest
                           /\ sources[s].stream => sources'[s].stream
                           /\ sources'[s].snapshot = sources[s].snapshot,
         Effects', Scenes', Remembered'
  PROVE  ViewState'
<1>0. ViewState /\ TypeOK /\ (active # Nobody => active \in Source)
  BY DEF ViewInv, LinkInv, TypeInv, TypeOK, SourceOrNobody
<1>1. SlotFree' = SlotFree
  BY DEF SlotFree, Internal, requestVars
<1>2. Streamed' /\ Adopted'
  BY <1>0 DEF ViewState, Streamed, Adopted, After
<1>3. Interests'
  BY <1>0, <1>1 DEF ViewState, Interests, After
<1>4. Fences'
  BY <1>0, <1>1 DEF ViewState, Fences, FenceWaits, SameFence, After
<1> QED
  BY <1>2, <1>3, <1>4 DEF ViewState

LEMMA Still ==
  ASSUME ViewInv, pc \in After, pc' \in After,
         UNCHANGED <<active, surfaceActive, view, fence, awaited, sources>>,
         SlotFree' => SlotFree
  PROVE  ViewState'
<1>1. SnapshotIDs' = SnapshotIDs /\ \A s \in Source : SameBackend(s)
  BY DEF SnapshotIDs, SameBackend
<1>2. SameView /\ SameFence
  BY DEF SameView, SameFence
<1> QED
  BY <1>1, <1>2, Kept

(* The viewer is sent a blank scene.                                       *)
LEMMA Blanked ==
  ASSUME NEW v \in ViewType, NEW w, w = BlankSurface(v)
  PROVE  w.src = Nobody /\ w.screen = BlankScene /\ w.effect = v.effect
BY DEF BlankSurface, ViewType

LEMMA BlankView ==
  ASSUME ViewInv, pc \in After, pc' \in After, active = Nobody \/ ~surfaceActive,
         UNCHANGED <<active, surfaceActive, sources, fence, awaited, requestVars>>,
         view' = BlankSurface(view)
  PROVE  ViewState'
<1>0. ViewState /\ view \in ViewType
  BY DEF ViewInv, LinkInv, TypeInv, TypeOK
<1>1. view'.src = Nobody /\ view'.screen = BlankScene
  BY <1>0, Blanked
<1>2. Effects' /\ Scenes'
  BY DEF Effects, Scenes
<1>3. Remembered'
  BY <1>1 DEF Remembered, BlankScene, Scene, Nobody
<1>4. SnapshotIDs' = SnapshotIDs /\ SameFence
  BY DEF SnapshotIDs, SameFence
<1> QED
  BY <1>2, <1>3, <1>4, Drawn

LEMMA HandlerView == ASSUME ViewInv, Handler PROVE ViewState'
<1>0. TypeInv /\ TypeOK /\ Linked
  BY DEF ViewInv, LinkInv, TypeInv
<1>1. ASSUME UNCHANGED requestVars PROVE SlotFree' => SlotFree
  BY <1>1 DEF SlotFree, Internal, requestVars
<1>2. ASSUME NEW s \in Source, InterestFails(s) PROVE ViewState'
  <2>1. Fails(s) /\ pc # "done"
    BY <1>2 DEF InterestFails, Fails, Syncing
  <2> QED
    BY <2>1, FailsView
<1>3. CASE Reject
  <2>1. Fails(then.target) /\ then.target \in Source /\ pc # "done"
    BY <1>0, <1>3 DEF Reject, Fails, TypeInv, TargetsLive, Live
  <2> QED
    BY <2>1, FailsView
<1>4. CASE DispatchRefused \/ Respond
  BY <1>1, <1>4, Still DEF DispatchRefused, Respond, After
<1>5. CASE Dispatch
  <2> DEFINE k == requestSequence + 1
  <2>1. k \in OrdinaryID /\ k > requestSequence
    BY <1>0, <1>5 DEF Dispatch, TypeOK, OrdinaryID
  <2>2. pending[k] = Nobody
    BY <1>0, <2>1 DEF Linked
  <2>3. pending' = [pending EXCEPT ![k] = then.target] /\ requestIDs' = [requestIDs EXCEPT ![k] = then.id]
    BY <1>5 DEF Dispatch, NextSequence
  <2> HIDE DEF k
  <2>4. \A j \in Internal : j \in Internal'
    BY <1>0, <2>2, <2>3 DEF Internal, TypeOK
  <2>5. SlotFree' => SlotFree
    BY <2>4, SlotKept
  <2> QED
    BY <1>5, <2>5, Still DEF Dispatch, After
<1>6. CASE SendCall
  <2>1. CASE WriteFails(then.target)
    <3>1. Fails(then.target) /\ then.target \in Source /\ pc # "done"
      BY <1>0, <1>6, <2>1 DEF SendCall, WriteFails, Fails, TypeInv, TargetsLive, Live
    <3> QED
      BY <3>1, FailsView
  <2>2. CASE ~WriteFails(then.target)
    BY <1>1, <1>6, <2>2, Still DEF SendCall, viewerVars, After
  <2> QED
    BY <2>1, <2>2
<1>7. ASSUME NEW s \in Source, BroadcastTo(s) PROVE ViewState'
  <2>1. CASE WriteFails(s)
    <3>1. Fails(s) /\ pc # "done"
      BY <1>7, <2>1 DEF BroadcastTo, WriteFails, Fails
    <3> QED
      BY <3>1, FailsView
  <2>2. CASE ~WriteFails(s)
    BY <1>1, <1>7, <2>2, Still DEF BroadcastTo, viewerVars, After
  <2> QED
    BY <2>1, <2>2
<1>8. CASE BroadcastEnds
  <2>1. CASE active = Nobody
    BY <1>8, <2>1, BlankView DEF BroadcastEnds, viewerVars, After
  <2>2. CASE active # Nobody
    BY <1>1, <1>8, <2>2, Still DEF BroadcastEnds, viewerVars, After
  <2> QED
    BY <2>1, <2>2
<1> QED
  BY <1>2, <1>3, <1>4, <1>5, <1>6, <1>7, <1>8, PublishView, EmitView, SettledView,
     InterestView, FenceView DEF Handler

(* A request of the viewer that moves the view publishes it.               *)
LEMMA RequestView ==
  ASSUME ViewInv, NEW c \in Consumer, NEW t \in Source, NEW x \in BOOLEAN,
         Call(c, t, x) \/ SurfaceSet(c, x)
  PROVE  ViewState'
<1>0. ViewState /\ TypeOK /\ view \in ViewType /\ surfaceActive \in BOOLEAN
  BY DEF ViewInv, LinkInv, TypeInv, TypeOK
<1>1. /\ UNCHANGED <<sources, requestVars, fence, awaited>> /\ pc = "select"
  BY DEF Call, SurfaceSet, Client
<1>2. SnapshotIDs' = SnapshotIDs /\ Streamed' /\ SameFence
  BY <1>0, <1>1 DEF ViewState, Streamed, SnapshotIDs, SameFence
<1>3. SlotFree' => SlotFree
  BY <1>1 DEF SlotFree, Internal, requestVars
<1>4. ASSUME NEW on \in BOOLEAN, NEW e, view' = ReplayEffects(view, on, e),
             surfaceActive' = on, active' # Nobody => active' \in SnapshotIDs,
             active' # Nobody => e = sources[active'].effect, pc' = "publish"
      PROVE  ViewState'
  <2>1. /\ view'.src = view.src /\ view'.proj = view.proj /\ view'.rev = view.rev
        /\ view'.current = view.current /\ view'.screen = view.screen
        /\ on => view'.effect = e
    BY <1>0, <1>4, EffectScene
  <2>2. Effects'
    BY <1>1, <1>4, <2>1 DEF Effects
  <2>3. Remembered'
    BY <1>0, <2>1 DEF ViewState, Remembered, FullScene
  <2> QED
    BY <1>1, <1>2, <1>4, <2>2, <2>3, Again
<1>5. active # Nobody => active \in SnapshotIDs
  BY <1>0, <1>1 DEF ViewState, Adopted
<1>6. CASE SurfaceSet(c, x)
  <2> DEFINE e == IF active = Nobody THEN NoEffect ELSE sources[active].effect
  <2>1. view' = ReplayEffects(view, x, e) /\ surfaceActive' = x /\ UNCHANGED active
        /\ pc' = "publish"
    BY <1>6 DEF SurfaceSet
  <2>2. active # Nobody => e = sources[active].effect
    OBVIOUS
  <2> HIDE DEF e
  <2> QED
    BY <1>4, <1>5, <2>1, <2>2
<1>7. CASE Call(c, t, x) /\ x /\ t # active
  <2> DEFINE e == sources[t].effect
  <2>1. view' = ReplayEffects(view, surfaceActive, e) /\ active' = t
        /\ UNCHANGED surfaceActive /\ pc' = "publish" /\ t \in SnapshotIDs
    BY <1>7 DEF Call
  <2>2. e = sources[t].effect
    OBVIOUS
  <2> HIDE DEF e
  <2> QED
    BY <1>0, <1>4, <2>1, <2>2
<1>8. CASE Call(c, t, x) /\ ~(x /\ t # active)
  BY <1>1, <1>3, <1>8, Still DEF Call, After
<1> QED
  BY <1>6, <1>7, <1>8

LEMMA ViewerView == ASSUME ViewInv, ViewerEvent PROVE ViewState'
<1>0. ViewState /\ TypeOK
  BY DEF ViewInv, LinkInv, TypeInv
<1>1. ASSUME UNCHANGED vars PROVE ViewState'
  <2>1. SnapshotIDs' = SnapshotIDs /\ SlotFree' = SlotFree
    BY <1>1 DEF vars, SnapshotIDs, SlotFree, Internal
  <2> QED
    BY <1>0, <1>1, <2>1
    DEF vars, ViewState, Streamed, Adopted, Interests, Effects, Scenes, Remembered, Fences,
        FenceWaits
<1>2. ASSUME NEW c \in Consumer, RefuseCall(c) PROVE ViewState'
  BY <1>1, <1>2 DEF RefuseCall
<1>3. ASSUME NEW token \in 0..MaxToken, SyncFence(token) PROVE ViewState'
  <2>1. CASE active = Nobody
    BY <1>1, <1>3, <2>1 DEF SyncFence
  <2>2. CASE active # Nobody
    <3>1. /\ pc = "select" /\ pc' = "fence" /\ awaited' = token
          /\ fence' = [pending |-> TRUE, token |-> token, source |-> Nobody, left |-> 0]
          /\ UNCHANGED <<sources, active, surfaceActive, requestVars, view>>
      BY <1>3, <2>2 DEF SyncFence, Client
    <3>2. SnapshotIDs' = SnapshotIDs /\ SlotFree' = SlotFree
      BY <3>1 DEF SnapshotIDs, SlotFree, Internal, requestVars
    <3>3. Streamed' /\ Adopted' /\ Effects' /\ Remembered'
      BY <1>0, <3>1, <3>2 DEF ViewState, Streamed, Adopted, Effects, Remembered
    <3>4. Interests' /\ Scenes'
      BY <1>0, <3>1, <3>2 DEF ViewState, Interests, Scenes, After
    <3>5. Fences'
      BY <3>1 DEF Fences, FenceWaits, After
    <3> QED
      BY <3>3, <3>4, <3>5 DEF ViewState
  <2> QED
    BY <2>1, <2>2
<1>4. CASE Input
  <2>1. WriteFails(active) => Fails(active) /\ active \in Source /\ pc # "done"
    BY <1>0, <1>4 DEF Input, Client, WriteFails, Fails, TypeOK, SourceOrNobody
  <2> QED
    BY <1>1, <1>4, <2>1, FailsView DEF Input
<1>5. CASE Resize
  <2>1. CASE active # Nobody /\ surfaceActive
    <3>1. Fails(active) /\ active \in Source /\ pc # "done"
      BY <1>0, <1>5, <2>1 DEF Resize, Client, WriteFails, Fails, TypeOK, SourceOrNobody
    <3> QED
      BY <3>1, FailsView
  <2>2. CASE active = Nobody \/ ~surfaceActive
    BY <1>5, <2>2, BlankView DEF Resize, Client, viewerVars, loopVars, After
  <2> QED
    BY <1>0, <2>1, <2>2 DEF TypeOK
<1>6. CASE Broadcast
  <2>1. SlotFree' => SlotFree
    BY <1>6 DEF Broadcast, SlotFree, Internal, requestVars
  <2> QED
    BY <1>6, <2>1, Still DEF Broadcast, Client, viewerVars, After
<1>7. 1 \in Source
  BY DEF Source
<1> QED
  BY <1>2, <1>3, <1>4, <1>5, <1>6, <1>7, RequestView DEF ViewerEvent

-----------------------------------------------------------------------------
(* The events of a backend.                                                *)
LEMMA TouchedView ==
  ASSUME ViewInv, NEW s \in Source, NEW b, sources' = [sources EXCEPT ![s] = b],
         b.live <=> sources[s].live, b.interest <=> sources[s].interest,
         sources[s].stream => b.stream, b.snapshot = sources[s].snapshot,
         b.effect = sources[s].effect, b.frame = sources[s].frame,
         UNCHANGED <<active, surfaceActive, view, fence, awaited>>,
         pc \in After, pc' \in After \cup {"ack"}, pc' # "ack" => (SlotFree' => SlotFree)
  PROVE  ViewState'
<1>1. sources'[s] = b /\ \A t \in Source : t # s => sources'[t] = sources[t]
  BY DEF ViewInv, LinkInv, TypeInv, TypeOK
<1>2. \A t \in Source : SameBackend(t) /\ (sources'[t].live <=> sources[t].live)
  BY <1>1 DEF SameBackend
<1>3. SnapshotIDs' = SnapshotIDs
  BY <1>2 DEF SnapshotIDs, SameBackend
<1>4. SameView /\ SameFence
  BY DEF SameView, SameFence
<1> QED
  BY <1>2, <1>3, <1>4, Kept

LEMMA RenderProgressView ==
  ASSUME NEW b \in Backend, NEW internal, NEW d, d = RenderProgress(b, internal)
  PROVE  /\ d.live = b.live /\ d.interest = b.interest /\ d.stream = b.stream
         /\ d.snapshot = b.snapshot /\ d.effect = b.effect /\ d.frame = b.frame
BY DEF RenderProgress, Backend

LEMMA RenderedView ==
  ASSUME TypeOK, NEW s \in Source, NEW f \in FrameType, NEW d, d = Rendered(s, f)
  PROVE  /\ d.live = sources[s].live /\ d.interest = sources[s].interest
         /\ d.stream = sources[s].stream /\ d.snapshot = sources[s].snapshot
         /\ d.effect = sources[s].effect /\ d.frame = f
<1> DEFINE b == [sources[s] EXCEPT !.frame = f]
           c == [b EXCEPT !.ready = TRUE]
           i == InternalOf(s)
<1>1. /\ b \in Backend /\ b.live = sources[s].live /\ b.interest = sources[s].interest
      /\ b.stream = sources[s].stream /\ b.snapshot = sources[s].snapshot
      /\ b.effect = sources[s].effect /\ b.frame = f
  <2>1. sources[s] \in Backend
    BY DEF TypeOK
  <2> QED
    BY <2>1 DEF Backend, FrameType
<1> HIDE DEF b
<1>2. /\ c \in Backend /\ c.live = b.live /\ c.interest = b.interest
      /\ c.stream = b.stream /\ c.snapshot = b.snapshot
      /\ c.effect = b.effect /\ c.frame = b.frame
  BY <1>1 DEF Backend
<1>3. d = b \/ d = RenderProgress(c, i)
  BY DEF Rendered, b
<1> HIDE DEF c, i
<1>4. CASE d = RenderProgress(c, i)
  BY <1>1, <1>2, <1>4, RenderProgressView
<1> QED
  BY <1>1, <1>3, <1>4

(* A backend has drawn f.                                                  *)
LEMMA FrameView ==
  ASSUME ViewInv, NEW s \in Source, NEW f \in FrameType, f # NoFrame,
         sources' = [sources EXCEPT ![s] = Rendered(s, f)], pc = "select",
         UNCHANGED <<active, surfaceActive, requestVars, fence, awaited, pc>>,
         s = active =>
           /\ view'.effect = view.effect
           /\ \/ view' = view
              \/ view'.src = Nobody /\ view'.screen = BlankScene
              \/ /\ view'.src = s /\ view'.proj = f.proj /\ view'.rev = f.rev
                 /\ view'.screen = FullScene(s, f)
           /\ surfaceActive /\ f.proj = sources[s].snapshot => view'.screen = FullScene(s, f),
         s # active /\ active = Nobody => view' = BlankSurface(view),
         s # active /\ active # Nobody => view' = view
  PROVE  ViewState'
<1>0. ViewState /\ TypeOK /\ view \in ViewType
  BY DEF ViewInv, LinkInv, TypeInv, TypeOK
<1>1. sources'[s] = Rendered(s, f) /\ \A t \in Source : t # s => sources'[t] = sources[t]
  BY <1>0 DEF TypeOK
<1>2. /\ sources'[s].live = sources[s].live /\ sources'[s].interest = sources[s].interest
      /\ sources'[s].stream = sources[s].stream /\ sources'[s].snapshot = sources[s].snapshot
      /\ sources'[s].effect = sources[s].effect /\ sources'[s].frame = f
  BY <1>0, <1>1, RenderedView
<1>3. \A t \in Source : /\ sources'[t].live = sources[t].live
                        /\ sources'[t].interest = sources[t].interest
                        /\ sources'[t].stream = sources[t].stream
                        /\ sources'[t].snapshot = sources[t].snapshot
                        /\ sources'[t].effect = sources[t].effect
  BY <1>1, <1>2
<1>4. SnapshotIDs' = SnapshotIDs /\ SameFence
  BY <1>3 DEF SnapshotIDs, SameFence
<1>5. ASSUME Effects', Scenes', Remembered' PROVE ViewState'
  BY <1>3, <1>4, <1>5, Drawn DEF After
<1>6. view.screen.src # -1 /\ (view.src # Nobody /\ view.current => view.screen = FullScene(view.src, view))
  BY <1>0 DEF ViewState, Remembered
<1>7. CASE s = active
  <2>1. Effects'
    BY <1>0, <1>2, <1>7 DEF ViewState, Effects
  <2>2. Scenes'
    BY <1>2, <1>7 DEF Scenes
  <2>3. \/ view' = view
        \/ view'.src = Nobody /\ view'.screen = BlankScene
        \/ view'.src = s /\ view'.screen = FullScene(s, view')
    BY <1>7 DEF FullScene
  <2>4. Remembered'
    BY <1>6, <2>3, SceneRemembered DEF Remembered
  <2> QED
    BY <1>5, <2>1, <2>2, <2>4
<1>8. CASE s # active /\ active = Nobody
  <2>1. view'.src = Nobody /\ view'.screen = BlankScene
    BY <1>0, <1>8, Blanked
  <2>2. Remembered'
    BY <2>1 DEF Remembered, BlankScene, Scene, Nobody
  <2>3. Effects' /\ Scenes'
    BY <1>8 DEF Effects, Scenes
  <2> QED
    BY <1>5, <2>2, <2>3
<1>9. CASE s # active /\ active # Nobody
  <2>1. active \in Source /\ sources'[active] = sources[active] /\ view' = view
    BY <1>0, <1>1, <1>9 DEF TypeOK, SourceOrNobody
  <2>2. Remembered' /\ Effects' /\ Scenes'
    BY <1>0, <2>1 DEF ViewState, Remembered, Effects, Scenes
  <2> QED
    BY <1>5, <2>2
<1> QED
  BY <1>7, <1>8, <1>9

LEMMA SurfaceView ==
  ASSUME ViewInv, NEW s \in Source, NEW proj \in 1..MaxProjection, NEW base \in 1..MaxSurface,
         NEW rev \in 1..MaxSurface, FullSurface(s, proj, rev) \/ SurfacePatch(s, proj, base, rev)
  PROVE  ViewState'
<1> DEFINE f == FullFrame(proj, rev)
           n == sources[s].snapshot
<1>0. /\ ViewState /\ TypeOK /\ view \in ViewType /\ surfaceActive \in BOOLEAN
      /\ sources[s] \in Backend /\ s # Nobody /\ s \in SourceOrNobody
  <2>1. s # Nobody /\ s \in SourceOrNobody
    BY DEF Source, Nobody, SourceOrNobody
  <2> QED
    BY <2>1 DEF ViewInv, LinkInv, TypeInv, TypeOK
<1>1. f \in FrameType /\ f # NoFrame /\ n \in 0..MaxProjection /\ base \in 0..MaxSurface
      /\ n = sources[s].snapshot /\ f = FullFrame(proj, rev)
  BY <1>0 DEF FrameType, FullFrame, NoFrame, Backend
<1>2. view.src # Nobody /\ view.current => view.screen = FullScene(view.src, view)
  BY <1>0 DEF ViewState, Remembered
<1>3. /\ pc = "select"
      /\ UNCHANGED <<active, surfaceActive, requestVars, fence, awaited, pc>>
  BY DEF FullSurface, SurfacePatch, Upstream, loopVars, viewerVars
<1>4. sources' = [sources EXCEPT ![s] = Rendered(s, f)]
  <2>1. CASE FullSurface(s, proj, rev)
    BY <2>1 DEF FullSurface
  <2>2. CASE SurfacePatch(s, proj, base, rev)
    <3>1. sources[s].frame \in FrameType /\ sources[s].frame.proj = proj
      BY <1>0, <2>2 DEF SurfacePatch, PatchFits, Backend, FrameType
    <3>2. Patched(sources[s].frame, rev) = f
      BY <3>1 DEF Patched, FullFrame, FrameType
    <3> QED
      BY <2>2, <3>2 DEF SurfacePatch
  <2> QED
    BY <2>1, <2>2
<1>5. \/ view' = CASE s = active -> SendSurface(view, surfaceActive, s, f, n)
                   [] active = Nobody -> BlankSurface(view)
                   [] OTHER -> view
      \/ view' = CASE s = active -> SendPatch(view, surfaceActive, s, f, base, n)
                   [] active = Nobody -> BlankSurface(view)
                   [] OTHER -> view
  BY DEF FullSurface, SurfacePatch
<1> HIDE DEF f, n
<1>6. /\ s = active => \/ view' = SendSurface(view, surfaceActive, s, f, n)
                       \/ view' = SendPatch(view, surfaceActive, s, f, base, n)
      /\ s # active /\ active = Nobody => view' = BlankSurface(view)
      /\ s # active /\ active # Nobody => view' = view
  BY <1>0, <1>5
<1>7. s = active =>
        /\ view'.effect = view.effect
        /\ \/ view' = view
           \/ view'.src = Nobody /\ view'.screen = BlankScene
           \/ /\ view'.src = s /\ view'.proj = f.proj /\ view'.rev = f.rev
              /\ view'.screen = FullScene(s, f)
        /\ surfaceActive /\ f.proj = n => view'.screen = FullScene(s, f)
  <2>1. CASE view' = SendSurface(view, surfaceActive, s, f, n)
    BY <1>0, <1>1, <2>1, SentScene
  <2>2. CASE view' = SendPatch(view, surfaceActive, s, f, base, n)
    BY <1>0, <1>1, <1>2, <2>2, PatchedScene
  <2> QED
    BY <1>6, <2>1, <2>2
<1> QED
  BY <1>1, <1>3, <1>4, <1>6, <1>7, FrameView

LEMMA SnapshotView ==
  ASSUME ViewInv, NEW s \in Source, NEW revision \in 1..MaxProjection, Snapshot(s, revision)
  PROVE  ViewState'
<1> DEFINE b == [sources[s] EXCEPT !.snapshot = revision, !.initLeft = Never]
<1>0. ViewState /\ TypeOK /\ sources[s] \in Backend
  BY DEF ViewInv, LinkInv, TypeInv, TypeOK
<1>1. /\ b.live <=> sources[s].live
      /\ b.stream <=> sources[s].stream
      /\ b.effect = sources[s].effect /\ b.snapshot = revision
  BY <1>0 DEF Backend
<1>2. /\ sources' = [sources EXCEPT ![s] = b] /\ pc = "select" /\ pc' = "publish"
      /\ UNCHANGED <<active, surfaceActive, requestVars, fence, view, awaited>>
      /\ sources[s].live /\ sources[s].stream
  BY DEF Snapshot, Upstream, Live, viewerVars
<1> HIDE DEF b
<1>3. sources'[s] = b /\ \A t \in Source : t # s => sources'[t] = sources[t]
  BY <1>0, <1>2 DEF TypeOK
<1>4. Streamed'
  <2>1. sources'[s].stream
    BY <1>1, <1>2, <1>3
  <2> QED
    BY <1>0, <1>3, <2>1 DEF ViewState, Streamed
<1>5. \A t \in Source : t \in SnapshotIDs => t \in SnapshotIDs'
  <2>1. sources'[s].live
    BY <1>1, <1>2, <1>3
  <2>2. sources'[s].snapshot # 0
    BY <1>1, <1>3
  <2> QED
    BY <1>3, <2>1, <2>2 DEF SnapshotIDs
<1>6. active # Nobody => active \in Source /\ active \in SnapshotIDs'
  BY <1>0, <1>2, <1>5 DEF ViewState, Adopted, TypeOK, SourceOrNobody
<1>7. Effects'
  BY <1>0, <1>1, <1>2, <1>3, <1>6 DEF ViewState, Effects
<1>8. Remembered' /\ SameFence
  BY <1>0, <1>2 DEF ViewState, Remembered, SameFence
<1> QED
  BY <1>2, <1>4, <1>6, <1>7, <1>8, Again

LEMMA ModesView ==
  ASSUME ViewInv, NEW s \in Source, NEW e \in 0..MaxEffect, Effect(s, e)
  PROVE  ViewState'
<1> DEFINE b == [sources[s] EXCEPT !.effect = e]
           w == [view EXCEPT !.effect = e]
<1>0. ViewState /\ TypeOK /\ sources[s] \in Backend /\ view \in ViewType
  BY DEF ViewInv, LinkInv, TypeInv, TypeOK
<1>1. /\ b.live = sources[s].live /\ b.interest = sources[s].interest
      /\ b.stream = sources[s].stream /\ b.snapshot = sources[s].snapshot
      /\ b.frame = sources[s].frame /\ b.effect = e
  BY <1>0 DEF Backend
<1>2. /\ w.src = view.src /\ w.proj = view.proj /\ w.rev = view.rev
      /\ w.current = view.current /\ w.screen = view.screen /\ w.effect = e
  BY <1>0 DEF ViewType
<1>3. /\ sources' = [sources EXCEPT ![s] = b] /\ pc = "select"
      /\ view' = IF s = active /\ surfaceActive THEN w ELSE view
      /\ UNCHANGED <<active, surfaceActive, requestVars, fence, awaited, pc>>
  BY DEF Effect, Upstream, viewerVars, loopVars
<1> HIDE DEF b, w
<1>4. sources'[s] = b /\ \A t \in Source : t # s => sources'[t] = sources[t]
  BY <1>0, <1>3 DEF TypeOK
<1>5. \A t \in Source : /\ sources'[t].live = sources[t].live
                        /\ sources'[t].interest = sources[t].interest
                        /\ sources'[t].stream = sources[t].stream
                        /\ sources'[t].snapshot = sources[t].snapshot
                        /\ sources'[t].frame = sources[t].frame
                        /\ t # s => sources'[t].effect = sources[t].effect
  BY <1>1, <1>4
<1>6. SnapshotIDs' = SnapshotIDs /\ SameFence
  BY <1>3, <1>5 DEF SnapshotIDs, SameFence
<1>7. /\ view'.src = view.src /\ view'.proj = view.proj /\ view'.rev = view.rev
      /\ view'.current = view.current /\ view'.screen = view.screen
      /\ view'.effect = IF s = active /\ surfaceActive THEN e ELSE view.effect
  BY <1>2, <1>3
<1>8. active # Nobody => active \in Source
  BY <1>0 DEF TypeOK, SourceOrNobody
<1>9. Effects'
  BY <1>0, <1>1, <1>3, <1>4, <1>5, <1>7, <1>8 DEF ViewState, Effects
<1>10. Remembered'
  BY <1>0, <1>7 DEF ViewState, Remembered, FullScene
<1>11. Scenes'
  BY <1>0, <1>3, <1>5, <1>7, <1>8 DEF ViewState, Scenes, After
<1> QED
  BY <1>3, <1>5, <1>6, <1>9, <1>10, <1>11, Drawn DEF After

LEMMA SourceView == ASSUME ViewInv, NEW s \in Source, SourceEvent(s) PROVE ViewState'
<1>0. ViewState /\ TypeOK /\ Linked /\ sources[s] \in Backend
  BY DEF ViewInv, LinkInv, TypeInv, TypeOK
<1>1. ASSUME UNCHANGED requestVars PROVE SlotFree' => SlotFree
  BY <1>1 DEF SlotFree, Internal, requestVars
<1> USE DEF Upstream
<1>2. CASE ProtocolViolation(s) \/ \E kind \in FailureKinds : SourceError(s, kind)
  <2>1. Fails(s) /\ pc # "done"
    BY <1>2 DEF ProtocolViolation, SourceError, Fails
  <2> QED
    BY <2>1, FailsView
<1>3. CASE Opened(s)
  <2> DEFINE b == [sources[s] EXCEPT !.stream = TRUE]
  <2>1. /\ b.live = sources[s].live /\ b.interest = sources[s].interest /\ b.stream
        /\ b.snapshot = sources[s].snapshot /\ b.effect = sources[s].effect
        /\ b.frame = sources[s].frame
    BY <1>0 DEF Backend
  <2>2. sources' = [sources EXCEPT ![s] = b]
    BY <1>3 DEF Opened
  <2> HIDE DEF b
  <2>3. /\ UNCHANGED <<active, surfaceActive, view, fence, awaited>>
        /\ pc = "select" /\ pc' = "select" /\ (SlotFree' => SlotFree)
    BY <1>1, <1>3 DEF Opened, viewerVars, loopVars
  <2> QED
    <3>1. /\ pc \in After /\ pc' \in After \cup {"ack"}
          /\ (sources[s].stream => b.stream) /\ (b.live <=> sources[s].live)
          /\ (b.interest <=> sources[s].interest) /\ (pc' # "ack" => (SlotFree' => SlotFree))
      BY <2>1, <2>3 DEF After
    <3> QED
      BY ONLY ViewInv, s \in Source, <2>1, <2>2, <2>3, <3>1, TouchedView
<1>4. ASSUME NEW canSet \in BOOLEAN, Welcome(s, canSet) PROVE ViewState'
  <2> DEFINE b == [sources[s] EXCEPT !.welcomed = TRUE, !.canSet = canSet]
  <2>1. /\ b.live = sources[s].live /\ b.interest = sources[s].interest
        /\ b.stream = sources[s].stream
        /\ b.snapshot = sources[s].snapshot /\ b.effect = sources[s].effect
        /\ b.frame = sources[s].frame
    BY <1>0 DEF Backend
  <2>2. sources' = [sources EXCEPT ![s] = b]
    BY <1>4 DEF Welcome
  <2> HIDE DEF b
  <2>3. /\ UNCHANGED <<active, surfaceActive, view, fence, awaited>>
        /\ pc = "select" /\ pc' = "select" /\ (SlotFree' => SlotFree)
    BY <1>1, <1>4 DEF Welcome, viewerVars, loopVars
  <2> QED
    <3>1. /\ pc \in After /\ pc' \in After \cup {"ack"}
          /\ (sources[s].stream => b.stream) /\ (b.live <=> sources[s].live)
          /\ (b.interest <=> sources[s].interest) /\ (pc' # "ack" => (SlotFree' => SlotFree))
      BY <2>1, <2>3 DEF After
    <3> QED
      BY ONLY ViewInv, s \in Source, <2>1, <2>2, <2>3, <3>1, TouchedView
<1>5. ASSUME NEW k \in WireID, Chunk(s, k) PROVE ViewState'
  <2> DEFINE b == [sources[s] EXCEPT !.chunks = @ \cup {k}]
  <2>1. /\ b.live = sources[s].live /\ b.interest = sources[s].interest
        /\ b.stream = sources[s].stream
        /\ b.snapshot = sources[s].snapshot /\ b.effect = sources[s].effect
        /\ b.frame = sources[s].frame
    BY <1>0 DEF Backend
  <2>2. sources' = [sources EXCEPT ![s] = b]
    BY <1>5 DEF Chunk
  <2> HIDE DEF b
  <2> QED
    <3>1. /\ pc \in After /\ pc' \in After /\ UNCHANGED requestVars
          /\ UNCHANGED <<active, surfaceActive, view, fence, awaited>>
      BY <1>5 DEF Chunk, viewerVars, loopVars, After
    <3> QED
      BY <1>1, <2>1, <2>2, <3>1, TouchedView
<1>6. ASSUME NEW k \in WireID, Forget(k), requestIDs[k] # Idle PROVE SlotFree' => SlotFree
  <2>1. \A j \in Internal : j # k /\ j \in Internal'
    BY <1>0, <1>6 DEF Forget, Internal, TypeOK
  <2> QED
    BY <2>1, SlotKept
<1>7. ASSUME NEW k \in WireID, Reply(s, k) \/ GarbledReply(s, k) PROVE ViewState'
  <2> DEFINE b == [sources[s] EXCEPT !.chunks = @ \ {k}]
  <2>1. /\ b.live = sources[s].live /\ b.interest = sources[s].interest
        /\ b.stream = sources[s].stream
        /\ b.snapshot = sources[s].snapshot /\ b.effect = sources[s].effect
        /\ b.frame = sources[s].frame
    BY <1>0 DEF Backend
  <2>2. /\ sources' = [sources EXCEPT ![s] = b] /\ Forget(k) /\ requestIDs[k] # Idle
        /\ pc \in After /\ pc' \in After
        /\ UNCHANGED <<active, surfaceActive, view, fence, awaited>>
    BY <1>7 DEF Reply, GarbledReply, viewerVars, loopVars, After
  <2> HIDE DEF b
  <2> QED
    BY <1>6, <2>1, <2>2, TouchedView
<1>8. ASSUME NEW k \in WireID, LateReply(s, k) PROVE ViewState'
  <2>1. SlotFree' => SlotFree
    BY <1>8 DEF LateReply, SlotFree, Internal
  <2> QED
    BY <1>8, <2>1, Still DEF LateReply, viewerVars, loopVars, After
<1>9. CASE LateEvent(s)
  BY <1>1, <1>9, Still DEF LateEvent, viewerVars, loopVars, After
<1>10. ASSUME NEW k \in WireID, Acknowledge(s, k) PROVE ViewState'
  <2> DEFINE d == [sources[s] EXCEPT !.chunks = @ \ {k}]
             i == InternalOf(s) \ {k}
             b == RenderProgress(d, i)
  <2>1. /\ d \in Backend /\ d.live = sources[s].live /\ d.interest = sources[s].interest
        /\ d.stream = sources[s].stream
        /\ d.snapshot = sources[s].snapshot /\ d.effect = sources[s].effect
        /\ d.frame = sources[s].frame
    BY <1>0 DEF Backend
  <2>2. sources' = [sources EXCEPT ![s] = b] /\ b = RenderProgress(d, i)
    BY <1>10 DEF Acknowledge
  <2> HIDE DEF d, i, b
  <2>3. /\ b.live = d.live /\ b.interest = d.interest /\ b.stream = d.stream
        /\ b.snapshot = d.snapshot /\ b.effect = d.effect /\ b.frame = d.frame
    BY <2>1, <2>2, RenderProgressView
  <2> QED
    <3>1. /\ pc \in After /\ pc' = "ack"
          /\ UNCHANGED <<active, surfaceActive, view, fence, awaited>>
      BY <1>10 DEF Acknowledge, viewerVars, After
    <3>2. /\ b.live = sources[s].live /\ b.interest = sources[s].interest
          /\ b.stream = sources[s].stream
          /\ b.snapshot = sources[s].snapshot /\ b.effect = sources[s].effect
          /\ b.frame = sources[s].frame
      BY <2>1, <2>3
    <3> QED
      BY <2>2, <3>1, <3>2, TouchedView
<1>11. ASSUME NEW token \in 0..MaxToken, FenceReady(s, token) PROVE ViewState'
  <2>1. /\ pc = "select" /\ fence' = NoFence /\ token = fence.token /\ s = fence.source
        /\ awaited' = IF awaited = token THEN NoToken ELSE awaited
        /\ UNCHANGED <<sources, active, surfaceActive, requestVars, view, pc>>
    BY <1>11 DEF FenceReady, loopVars
  <2>2. SnapshotIDs' = SnapshotIDs /\ SlotFree' = SlotFree
    BY <2>1 DEF SnapshotIDs, SlotFree, Internal, requestVars
  <2>3. Streamed' /\ Adopted' /\ Effects' /\ Remembered'
    BY <1>0, <2>1, <2>2 DEF ViewState, Streamed, Adopted, Effects, Remembered
  <2>4. Interests' /\ Scenes'
    BY <1>0, <2>1, <2>2 DEF ViewState, Interests, Scenes
  <2>5. Fences'
    BY <1>0, <2>1 DEF ViewState, Fences, FenceWaits, NoFence, Source, Nobody
  <2> QED
    BY <2>3, <2>4, <2>5 DEF ViewState
<1>12. CASE \/ \E proj \in 1..MaxProjection, rev \in 1..MaxSurface : FullSurface(s, proj, rev)
            \/ \E proj \in 1..MaxProjection, base, rev \in 1..MaxSurface :
                 SurfacePatch(s, proj, base, rev)
  BY <1>12, SurfaceView
<1> QED
  BY <1>2, <1>3, <1>4, <1>5, <1>7, <1>8, <1>9, <1>10, <1>11, <1>12, SnapshotView, ModesView
  DEF SourceEvent

-----------------------------------------------------------------------------
(* Refresh, time, the catalog and the end.                                 *)
LEMMA RefreshView ==
  ASSUME ViewInv, NEW renamed \in BOOLEAN, Refresh(renamed) PROVE ViewState'
<1> DEFINE gone == Withdrawn \cup Unresponsive
<1>0. /\ TypeInv /\ TypeOK /\ Removed /\ LinkInv /\ view \in ViewType
      /\ \A s \in Source : sources[s] \in Backend
  BY DEF ViewInv, LinkInv, TypeInv, TypeOK
<1>1. /\ Removes(gone, Expired) /\ pc = "select" /\ UNCHANGED <<surfaceActive, awaited>>
      /\ pc' = "publish" \/ (pc' = "select" /\ gone = {})
  BY RefreshRemoves DEF Refresh
<1>2. ASSUME NEW s \in Source, sources'[s] = [sources[s] EXCEPT !.chunks = @ \ Expired]
      PROVE  SameBackend(s) /\ (sources'[s].live <=> sources[s].live)
  BY <1>0, <1>2 DEF SameBackend, Backend
<1>3. /\ NoBackend.snapshot = 0 /\ ~NoBackend.live
      /\ \A g : Opening(g).snapshot = 0
  BY DEF NoBackend, Opening
<1>4. ASSUME NEW s \in Source
      PROVE  \/ sources'[s].snapshot = 0
             \/ s \notin gone /\ SameBackend(s) /\ (sources[s].live => sources'[s].live)
  BY <1>0, <1>2, <1>3, RefreshLives
<1>5. ASSUME NEW s \in Live, s \notin gone PROVE SameBackend(s) /\ sources'[s].live
  <2>1. s \in Source /\ s \notin ToOpen /\ sources[s].live
    BY <1>5 DEF ToOpen, Live
  <2>2. sources'[s] = [sources[s] EXCEPT !.chunks = @ \ Expired]
    BY <1>5, <2>1 DEF Refresh
  <2> QED
    BY <1>2, <2>1, <2>2
<1>6. CASE pc' = "publish"
  <2> HIDE DEF gone
  <2> QED
    BY <1>1, <1>4, <1>5, <1>6, RemovesView
<1>7. CASE pc' = "select" /\ gone = {}
  <2>1. ASSUME NEW s \in Source, s \notin Live
        PROVE  SameBackend(s) /\ sources'[s].snapshot = 0 /\ sources[s].snapshot = 0
    <3>1. sources[s] = NoBackend /\ ~sources[s].live
      BY <1>0, <2>1 DEF Live, Removed
    <3>2. sources'[s] = NoBackend \/ sources'[s] = Opening(gen[s])
      BY <1>0, <3>1, RefreshLives
    <3>3. /\ NoBackend.interest = FALSE /\ NoBackend.stream = FALSE
          /\ NoBackend.snapshot = 0 /\ NoBackend.effect = NoEffect
          /\ NoBackend.frame = NoFrame
      BY DEF NoBackend
    <3>4. /\ Opening(gen[s]).interest = FALSE /\ Opening(gen[s]).stream = FALSE
          /\ Opening(gen[s]).snapshot = 0 /\ Opening(gen[s]).effect = NoEffect
          /\ Opening(gen[s]).frame = NoFrame
      BY DEF Opening, NoBackend
    <3> QED
      BY <3>1, <3>2, <3>3, <3>4 DEF SameBackend
  <2>2. \A s \in Source : SameBackend(s)
    BY <1>5, <1>7, <2>1
  <2>3. SnapshotIDs' = SnapshotIDs
    <3>1. \A s \in Live : sources'[s].live /\ sources'[s].snapshot = sources[s].snapshot
      BY <1>5, <1>7 DEF SameBackend
    <3> QED
      BY <2>1, <3>1 DEF SnapshotIDs, Live
  <2>4. /\ active' = ActiveAfter({}) /\ view' = ForgetSources(view, {})
        /\ fence' = FenceAfter({})
    BY <1>1, <1>7 DEF Removes, Settle
  <2>5. SameView
    BY <1>0, <2>4, ForgetScene DEF SameView
  <2>6. SameFence /\ UNCHANGED active
    BY <1>1, <2>4 DEF SameFence, FenceAfter, ActiveAfter
  <2>7. SlotFree' => SlotFree
    <3>1. ASSUME NEW k \in Internal PROVE k \in Internal'
      <4>1. k \in WireID /\ k \notin Dropped({}, Expired)
        BY <3>1 DEF Internal, Dropped, Expired, Outstanding
      <4>2. UNCHANGED <<pending[k], requestIDs[k]>>
        <5>1. Removes({}, Expired)
          BY <1>1, <1>7
        <5> QED
          BY <1>0, <4>1, <5>1, RemovalAnswers
      <4> QED
        BY <3>1, <4>1, <4>2 DEF Internal
    <3> QED
      BY <3>1, SlotKept
  <2> QED
    BY <1>1, <1>7, <2>2, <2>3, <2>5, <2>6, <2>7, Kept DEF After
<1> QED
  BY <1>1, <1>6, <1>7

LEMMA OtherView ==
  ASSUME ViewInv, Elapse \/ CatalogEvent \/ End \/ UNCHANGED vars PROVE ViewState'
<1>0. /\ ViewState /\ TypeOK /\ fence \in FenceType
      /\ \A s \in Source : sources[s] \in Backend
  BY DEF ViewInv, LinkInv, TypeInv, TypeOK
<1>1. CASE Elapse
  <2>1. ASSUME NEW s \in Source PROVE SameBackend(s) /\ (sources'[s].live <=> sources[s].live)
    <3>1. PICK i, a : sources'[s] = [sources[s] EXCEPT !.initLeft = i, !.stable = a]
      BY <1>1 DEF Elapse
    <3> QED
      BY <1>0, <3>1 DEF SameBackend, Backend
  <2>2. SnapshotIDs' = SnapshotIDs
    BY <2>1 DEF SnapshotIDs, SameBackend
  <2>3. SameView /\ SlotFree' = SlotFree /\ pc = "select" /\ UNCHANGED <<active, surfaceActive, pc>>
    BY <1>1 DEF Elapse, SameView, SlotFree, Internal
  <2>4. SameFence
    BY <1>0, <1>1 DEF Elapse, SameFence, FenceType, viewerVars
  <2> QED
    BY <2>1, <2>2, <2>3, <2>4, Kept DEF After
<1>2. CASE CatalogEvent
  <2>1. SlotFree' => SlotFree
    BY <1>2 DEF CatalogEvent, PublishShare, UnpublishShare, SlotFree, Internal, requestVars
  <2> QED
    BY <1>2, <2>1, Still
    DEF CatalogEvent, PublishShare, UnpublishShare, viewerVars, loopVars, After
<1>3. CASE End
  <2>1. pc' = "done" /\ view' = view /\ \A s \in Source : sources'[s] = NoBackend
    BY <1>3 DEF End
  <2>2. NoBackend.snapshot = 0
    BY DEF NoBackend
  <2> QED
    BY <1>0, <2>1, <2>2
    DEF ViewState, Streamed, Adopted, Interests, Effects, Scenes, Remembered, Fences, After
<1>4. CASE UNCHANGED vars
  <2>1. SnapshotIDs' = SnapshotIDs /\ SlotFree' = SlotFree
    BY <1>4 DEF vars, SnapshotIDs, SlotFree, Internal
  <2> QED
    BY <1>0, <1>4, <2>1
    DEF vars, ViewState, Streamed, Adopted, Interests, Effects, Scenes, Remembered, Fences,
        FenceWaits
<1> QED
  BY <1>1, <1>2, <1>3, <1>4

LEMMA ViewInvariant == Spec => []ViewInv
<1>1. Init => ViewInv
  <2> SUFFICES ASSUME Init PROVE ViewInv
    OBVIOUS
  <2>1. LinkInv
    BY TypeInit, WireIDs
    DEF Init, LinkInv, Control, Handling, Linked, NoThen, Idle, Asked
  <2>2. Removed
    BY DEF Init, Removed
  <2>3. \A s \in Source : sources[s].snapshot = 0
    BY DEF Init, NoBackend
  <2>4. view.src = Nobody /\ view.screen.src = Nobody
    BY DEF Init, FirstView, BlankScene, Scene
  <2>5. ~fence.pending /\ fence.source = Nobody
    BY DEF Init, NoFence
  <2>6. /\ pc = "publish" /\ active = Nobody /\ awaited = NoToken
    BY DEF Init
  <2>7. Remembered
    BY <2>4 DEF Remembered, Nobody
  <2>8. Streamed /\ Adopted /\ Interests /\ Effects /\ Scenes
    BY <2>3, <2>6 DEF Streamed, Adopted, Interests, Effects, Scenes, After
  <2>9. Fences
    BY <2>5, <2>6 DEF Fences, FenceWaits, After
  <2> QED
    BY <2>1, <2>2, <2>7, <2>8, <2>9 DEF ViewInv, ViewState
<1>2. ViewInv /\ [Next]_vars => ViewInv'
  <2> SUFFICES ASSUME ViewInv, [Next]_vars PROVE ViewInv'
    OBVIOUS
  <2>1. LinkInv' /\ Removed'
    BY TypeStep, ControlStep, LinkedStep, RemovedStep DEF ViewInv, LinkInv
  <2>2. ViewState'
    BY HandlerView, ViewerView, SourceView, RefreshView, OtherView DEF Next, Tick
  <2> QED
    BY <2>1, <2>2 DEF ViewInv
<1> QED
  BY <1>1, <1>2, PTL DEF Spec

-----------------------------------------------------------------------------
(***************************************************************************)
(* A patch is only ever applied to the scene it was made for: whenever     *)
(* sendPatch takes the incremental path, renderedSource, renderedProject,  *)
(* renderedSurface and renderedRevision describe what is on the screen.    *)
(***************************************************************************)
THEOREM NeverTornScreen == Spec => []NoTornScreen
<1>1. ViewInv => NoTornScreen
  BY DEF ViewInv, ViewState, Remembered, NoTornScreen, TornScene, Scene
<1> QED
  BY <1>1, ViewInvariant, PTL

(***************************************************************************)
(* Between handlers the viewer has the latest scene of the source it is    *)
(* shown: publish emits the snapshot and the scene together, the patches   *)
(* and scenes of another source leave the screen alone, and what a removed *)
(* source left there is replaced by the publish that follows.              *)
(***************************************************************************)
THEOREM ScreenAlwaysCurrent == Spec => []ScreenIsCurrent
<1>1. ViewInv => ScreenIsCurrent
  BY DEF ViewInv, ViewState, Scenes, FullScene, ScreenIsCurrent, AtRest, After
<1> QED
  BY <1>1, ViewInvariant, PTL

(***************************************************************************)
(* Between handlers what publish decides is decided in full: the active    *)
(* source has a snapshot and there is one whenever any source has, it and  *)
(* only it is told that it is shown unless every transition slot is taken, *)
(* and the viewer has its terminal modes, however many of the writes on    *)
(* the way failed and made fail() publish again.                           *)
(***************************************************************************)
THEOREM ViewAlwaysSettled == Spec => []ViewSettled
<1>1. ViewInv => ViewSettled
  <2> SUFFICES ASSUME ViewInv PROVE ViewSettled
    OBVIOUS
  <2>1. InterestSettled
    BY DEF ViewInv, ViewState, Interests, InterestSettled, AtRest, After
  <2>2. ActiveSettled
    BY DEF ViewInv, ViewState, Adopted, ActiveSettled, AtRest
  <2>3. EffectsAreActives
    BY DEF ViewInv, ViewState, Effects, EffectsAreActives, AtRest
  <2> QED
    BY <2>1, <2>2, <2>3 DEF ViewSettled
<1> QED
  BY <1>1, ViewInvariant, PTL

(***************************************************************************)
(* The fence the viewer waits for is the one the gateway has pending, and  *)
(* between handlers it is with a source or waits for a transition slot: a  *)
(* source that is removed with it gives it back to resumeFence.            *)
(***************************************************************************)
THEOREM FenceAlwaysKept == Spec => []FenceKept
<1>1. ViewInv => FenceKept
  BY DEF ViewInv, ViewState, Fences, FenceWaits, FenceKept, AtRest, After
<1> QED
  BY <1>1, ViewInvariant, PTL

=============================================================================
