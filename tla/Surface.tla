------------------------------- MODULE Surface -------------------------------
(***************************************************************************)
(* The retained scene of one source and the scene one viewer displays      *)
(* (hive/internal/gateway: completeSurface in wire.go; sendSurface,        *)
(* sendPatch, blankSurface and replayEffects in gateway.go).               *)
(*                                                                         *)
(* Cells, graphics and pane metadata are abstracted away: a scene is named *)
(* by the source that drew it, the projection revision it was drawn for    *)
(* and its surface revision.  Two scenes are the same iff those agree.     *)
(***************************************************************************)
EXTENDS Integers

(***************************************************************************)
(* A source is named by a positive number; 0 is Go's nil *backend.         *)
(***************************************************************************)
Nobody == 0

(* completeSurface: header == nil until the first full surface arrives.    *)
NoFrame == [proj |-> 0, rev |-> 0]

FullFrame(proj, rev) == [proj |-> proj, rev |-> rev]

(***************************************************************************)
(* completeSurface.update, tag 19: a patch is accepted only on the         *)
(* retained baseline, and only for the successor revision.                 *)
(***************************************************************************)
PatchFits(frame, proj, base, rev) ==
  frame # NoFrame /\ proj = frame.proj /\ base = frame.rev /\ rev = base + 1

Patched(frame, rev) == [frame EXCEPT !.rev = rev]

-----------------------------------------------------------------------------
(***************************************************************************)
(* The view.  src, proj, rev and current are what the gateway remembers of *)
(* its last full scene: renderedSource, renderedProject, renderedSurface   *)
(* and whether renderedRevision still equals g.revision.  screen is what   *)
(* the viewer really has, as it follows from the bytes written to it, and  *)
(* effect the terminal modes it was last given.                            *)
(***************************************************************************)
Scene(src, proj, rev, current) ==
  [src |-> src, proj |-> proj, rev |-> rev, current |-> current]

BlankScene == Scene(Nobody, 0, 0, TRUE)

(* A patch applied to a scene it was not made for.                         *)
TornScene == Scene(-1, 0, 0, TRUE)

NoEffect == 0

FirstView == [src |-> Nobody, proj |-> 0, rev |-> 0, current |-> FALSE,
              screen |-> BlankScene, effect |-> NoEffect]

(* g.revision++ and the new shell.snapshot: older scenes are superseded.   *)
MoveProjection(v) == [v EXCEPT !.current = FALSE, !.screen.current = FALSE]

BlankSurface(v) == [v EXCEPT !.src = Nobody, !.screen = BlankScene]

(***************************************************************************)
(* sendSurface: a is g.active, frame and snapshot are that source's; the   *)
(* cached scene goes out only when it was drawn for the current snapshot.  *)
(***************************************************************************)
SendSurface(v, on, a, frame, snapshot) ==
  CASE ~on -> v
    [] on /\ a = Nobody -> BlankSurface(v)
    [] on /\ a # Nobody /\ frame # NoFrame /\ frame.proj = snapshot ->
         [v EXCEPT !.src = a, !.proj = frame.proj, !.rev = frame.rev,
                   !.current = TRUE,
                   !.screen = Scene(a, frame.proj, frame.rev, TRUE)]
    [] OTHER -> v

(***************************************************************************)
(* sendPatch: the incremental path, taken when the gateway believes the    *)
(* viewer has the exact baseline; the viewer applies it to what it has.    *)
(***************************************************************************)
(* Faulty: the patch is sent across a change of the projection revision.   *)
SendPatchAcross(v, on, b, frame, base, snapshot) ==
  IF on /\ v.src = b /\ v.proj = frame.proj /\ v.rev = base
    THEN [v EXCEPT !.rev = frame.rev,
                   !.screen = IF @ = Scene(b, frame.proj, base, TRUE)
                                THEN Scene(b, frame.proj, frame.rev, TRUE)
                                ELSE TornScene]
    ELSE SendSurface(v, on, b, frame, snapshot)

SendPatch(v, on, b, frame, base, snapshot) ==
  IF on /\ v.src = b /\ v.current /\ v.proj = frame.proj /\ v.rev = base
    THEN [v EXCEPT !.rev = frame.rev,
                   !.screen = IF @ = Scene(b, frame.proj, base, TRUE)
                                THEN Scene(b, frame.proj, frame.rev, TRUE)
                                ELSE TornScene]
    ELSE SendSurface(v, on, b, frame, snapshot)

(* replayEffects: effect is the active source's, or the default.           *)
ReplayEffects(v, on, effect) == IF on THEN [v EXCEPT !.effect = effect] ELSE v

(***************************************************************************)
(* renderedSource is a pointer: once its backend is removed it equals no   *)
(* later backend, even one opened for the same share.  What the screen     *)
(* still shows then belongs to nobody.                                     *)
(***************************************************************************)
ForgetSources(v, gone) ==
  [v EXCEPT !.src = IF @ \in gone THEN Nobody ELSE @,
            !.screen.src = IF @ \in gone THEN Nobody ELSE @]

=============================================================================
