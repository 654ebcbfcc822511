------------------------------- MODULE SizeLocks -------------------------------
(* Shared terminal sizing of a Bee process: the helpers that pin the sizes of *)
(* panes (bee/internal/herdr/sizing.go).  Every published session has a        *)
(* Sizing, whose mutex its viewers, timers and watchers contend for; all       *)
(* sessions share the budget sizeSlots and the set idleSizes of helpers that   *)
(* nobody uses, from which one session may take the helper of another.         *)
(*                                                                             *)
(* A helper that has been deleted from s.locks has ended: whoever still refers *)
(* to it (a viewer's heldLocks, a timer, a watcher) only finds out that it is  *)
(* no longer the one in s.locks.  Such references are kept as "stale", or not  *)
(* kept at all, and a helper needs no identity besides its session and pane.   *)
(* Its epoch is kept as the set of its timers that have fired: those of the    *)
(* current epoch, and those of older ones.                                     *)
EXTENDS Integers, FiniteSets

CONSTANTS Session,      \* the published sessions
          Pane,         \* the panes a session may have
          View,         \* the streams of remote viewers
          SessionOf,    \* the session a stream is a view of
          MaxSlots,     \* cap(sizeSlots)
          Closing,      \* the sessions that are unpublished in this instance
          NoLock,       \* no helper for a pane
          Nil           \* no holder of a mutex, no catalog, no pane

ASSUME SizeConstants ==
  /\ SessionOf \in [View -> Session]
  /\ MaxSlots \in Nat \ {0}
  /\ Closing \subseteq Session
  /\ Nil \notin View \cup Pane \cup {"timer", "close"}
  /\ \A list \in SUBSET Pane : Nil # list
  /\ View \cap {"timer", "close"} = {}
  /\ IsFiniteSet(Session) /\ IsFiniteSet(Pane) /\ IsFiniteSet(View)

VARIABLES mu,        \* Sizing.mu: the viewer, "timer" or "close" that holds it
          idleMu,    \* idleSizes.Mutex: the viewer that waits for a helper with it
          idle,      \* idleSizes.locks
          slots,     \* len(sizeSlots)
          locks,     \* Sizing.locks
          stopping,  \* the pane whose helper the holder of mu waits for
          starting,  \* the helper that the holder of mu starts
          panes,     \* Sizing.panes
          life,      \* of the Sizing: "open", "cancelled" (its context), "closed"
          held,      \* sizeView.held and heldLocks
          job        \* where a viewer's reconcile or close stands

vars == <<mu, idleMu, idle, slots, locks, stopping, starting, panes, life, held, job>>

Lock == [refs : Nat, proc : {"up", "ending", "done"},
         retired : BOOLEAN, armed : BOOLEAN, fired : SUBSET {"current", "old"},
         watched : BOOLEAN]

ASSUME NoLockAssumption == NoLock \notin Lock

Phase == {"out", "purge", "check", "take", "reserve", "slot", "setup", "failed",
          "drop", "over"}

Job == [at : Phase, todo : SUBSET Pane, want : SUBSET Pane, pane : Pane \cup {Nil}]

Out == [at |-> "out", todo |-> {}, want |-> {}, pane |-> Nil]

(* Type correctness.                                                          *)
TypeOK ==
  /\ mu \in [Session -> View \cup {"timer", "close", Nil}]
  /\ idleMu \in View \cup {Nil}
  /\ idle \subseteq Session \X Pane
  /\ slots \in 0 .. MaxSlots
  /\ locks \in [Session -> [Pane -> Lock \cup {NoLock}]]
  /\ stopping \in [Session -> Pane \cup {Nil}]
  /\ starting \in [Session -> {"no", "setup", "killed", "ending", "done"}]
  /\ panes \in [Session -> (SUBSET Pane) \cup {Nil}]
  /\ life \in [Session -> {"open", "cancelled", "closed"}]
  /\ held \in [View -> [Pane -> {"no", "yes", "stale"}]]
  /\ job \in [View -> Job]

Init ==
  /\ mu = [s \in Session |-> Nil]
  /\ idleMu = Nil
  /\ idle = {}
  /\ slots = 0
  /\ locks = [s \in Session |-> [p \in Pane |-> NoLock]]
  /\ stopping = [s \in Session |-> Nil]
  /\ starting = [s \in Session |-> "no"]
  /\ panes = [s \in Session |-> Nil]
  /\ life = [s \in Session |-> "open"]
  /\ held = [v \in View |-> [p \in Pane |-> "no"]]
  /\ job = [v \in View |-> Out]

Exists(s, p) == locks[s][p] # NoLock
Views(s)     == {v \in View : SessionOf[v] = s}

-----------------------------------------------------------------------------
(* stopLocked and what it is built from.                                      *)

(* l.epoch++ and l.retire.Stop(): a timer that has fired calls expire all the *)
(* same, with an older epoch.                                                 *)
NewEpoch(l) == [l EXCEPT !.armed = FALSE,
                         !.fired = IF @ = {} THEN {} ELSE {"old"}]

(* Faulty: the helper is not told to end.                                     *)
CancelForgotten(l) == l

Cancelled(l) == [l EXCEPT !.proc = IF @ = "up" THEN "ending" ELSE @]

(* stopLocked up to its wait for the helper's end.                            *)
BeginStop(s, p) ==
  /\ idleMu = Nil
  /\ idle' = idle \ {<<s, p>>}
  /\ locks' = [locks EXCEPT ![s][p] = [Cancelled(NewEpoch(@)) EXCEPT !.retired = TRUE]]
  /\ stopping' = [stopping EXCEPT ![s] = p]

(* delete(s.locks, pane); viewers that hold the helper hold a stale one.      *)
Deleted(s, p) == [locks EXCEPT ![s][p] = NoLock]
Staled(s, p)  == [v \in View |-> IF SessionOf[v] = s /\ held[v][p] = "yes"
                                 THEN [held[v] EXCEPT ![p] = "stale"]
                                 ELSE held[v]]

(* stopLocked of a helper that has ended, for which nothing waits.            *)
StopEnded(s, p) ==
  /\ idleMu = Nil
  /\ locks[s][p].proc = "done"
  /\ idle' = idle \ {<<s, p>>}
  /\ locks' = Deleted(s, p)

(* The rest of stopLocked, when the helper has ended: expire returns, and the *)
(* other callers go on.                                                       *)
Stopped(s) ==
  /\ stopping[s] # Nil
  /\ locks[s][stopping[s]].proc = "done"
  /\ locks' = Deleted(s, stopping[s])
  /\ held' = Staled(s, stopping[s])
  /\ stopping' = [stopping EXCEPT ![s] = Nil]
  /\ mu' = [mu EXCEPT ![s] = IF @ = "timer" THEN Nil ELSE @]
  /\ UNCHANGED <<idleMu, idle, slots, starting, panes, life, job>>

-----------------------------------------------------------------------------
(* reconcile.                                                                 *)

Working(v, at) == /\ job[v].at = at
                  /\ stopping[SessionOf[v]] = Nil

(* reconcile returns an error: the stream ends, and the view will be closed.  *)
Fails(v) == /\ mu' = [mu EXCEPT ![SessionOf[v]] = Nil]
            /\ job' = [job EXCEPT ![v] = [Out EXCEPT !.at = "over"]]

(* The first loop, the second loop and the releases follow each other, and    *)
(* the lock is returned after the last; loops that have nothing to do are not *)
(* steps.                                                                     *)
Taking(j) == IF j.at = "check" /\ j.todo = {}
             THEN [j EXCEPT !.at = "take", !.todo = j.want] ELSE j
Dropping(j, h) == IF j.at = "take" /\ j.todo = {}
                  THEN [j EXCEPT !.at = "drop", !.todo = {p \in Pane \ j.want : h[p] # "no"}]
                  ELSE j

Proceeds(v, j) ==
  LET k    == Dropping(Taking(j), held'[v])
      over == k.at = "drop" /\ k.todo = {}
  IN
  /\ mu' = [mu EXCEPT ![SessionOf[v]] = IF over THEN Nil ELSE v]
  /\ job' = [job EXCEPT ![v] = IF over THEN Out ELSE k]

(* reconcile is done with pane p.                                             *)
Done(v, p) == Proceeds(v, [job[v] EXCEPT !.todo = @ \ {p}, !.pane = Nil])

Wants(w) == Cardinality(w) <= MaxSlots

Begin(v, at, todo, w) ==
  /\ UNCHANGED held
  /\ Proceeds(v, [at |-> at, todo |-> todo, want |-> w, pane |-> Nil])

(* The panes that the first snapshot of a publication may leave out.          *)
Covered(s, snapshot) == \A p \in Pane : Exists(s, p) => p \in snapshot

(* The lock is taken and snapshotLocked decides whether the catalog of panes  *)
(* must be asked for; w are the panes of the viewer's tabs.  Until the lock   *)
(* is released nobody but the helpers can disturb what reconcile has seen.    *)
EnterKnown(v, s) ==
  \E w \in SUBSET (IF panes[s] = Nil THEN Pane ELSE panes[s]) :
    /\ Wants(w)
    /\ Begin(v, "check", w, w)
    /\ UNCHANGED panes

EnterFirst(v, s) ==
  /\ panes[s] = Nil
  /\ \E snapshot \in SUBSET Pane :
       /\ Covered(s, snapshot)
       /\ panes' = [panes EXCEPT ![s] = snapshot]
       /\ \E w \in SUBSET snapshot : Wants(w) /\ Begin(v, "check", w, w)

(* refreshPanesLocked: the native API's list decides what is removed.         *)
EnterRefresh(v, s) ==
  \E snapshot \in SUBSET Pane, list \in SUBSET Pane :
    /\ snapshot # panes[s]
    /\ panes[s] = Nil => ~Covered(s, snapshot)
    /\ panes' = [panes EXCEPT ![s] = list]
    /\ \E w \in SUBSET (snapshot \cap list) :
         /\ Wants(w)
         /\ Begin(v, "purge", {p \in Pane \ list : Exists(s, p)}, w)

(* The binding is closed, the query fails, or the tabs have too many panes.   *)
EnterFails(v) == Fails(v) /\ UNCHANGED <<panes, held>>

Enter(v) ==
  LET s == SessionOf[v] IN
  /\ job[v].at = "out"
  /\ mu[s] = Nil
  /\ \/ life[s] # "closed" /\ EnterKnown(v, s)
     \/ life[s] # "closed" /\ EnterFirst(v, s)
     \/ life[s] # "closed" /\ EnterRefresh(v, s)
     \/ EnterFails(v)
  /\ UNCHANGED <<idleMu, idle, slots, locks, stopping, starting, life>>

Purge(v) ==
  LET s == SessionOf[v] IN
  /\ Working(v, "purge")
  /\ UNCHANGED held
  /\ \/ /\ \E p \in job[v].todo :
             BeginStop(s, p) /\ job' = [job EXCEPT ![v].todo = @ \ {p}]
        /\ UNCHANGED mu
     \/ /\ job[v].todo = {}
        /\ Proceeds(v, [job[v] EXCEPT !.at = "check", !.todo = job[v].want])
        /\ UNCHANGED <<idle, locks, stopping>>
  /\ UNCHANGED <<idleMu, slots, starting, panes, life>>

(* acquisitionErrorLocked: a pane that no longer exists is not wanted any     *)
(* more, and any other failure ends reconcile.                                *)
GivesUp(v, p, at) ==
  \/ Proceeds(v, [at |-> at, pane |-> Nil,
                  todo |-> job[v].todo \ {p}, want |-> job[v].want \ {p}])
  \/ Fails(v)

(* The first loop: a helper that was reclaimed is forgotten, one that has     *)
(* died fails the viewer, and the geometry of the other panes is read.        *)
CheckPane(v, s, p) ==
  \/ /\ Exists(s, p) /\ locks[s][p].refs = 0 /\ locks[s][p].retired
     /\ StopEnded(s, p)
     /\ held' = Staled(s, p)
     /\ UNCHANGED <<mu, job>>
  \/ /\ Exists(s, p) /\ ~(locks[s][p].refs = 0 /\ locks[s][p].retired)
     /\ StopEnded(s, p)
     /\ held' = Staled(s, p)
     /\ GivesUp(v, p, "check")
  \/ /\ Exists(s, p) /\ ~(locks[s][p].refs = 0 /\ locks[s][p].retired)
     /\ locks[s][p].refs = 0 => idleMu = Nil
     /\ locks[s][p].proc # "done"
     /\ UNCHANGED <<idle, locks, held>>
     /\ Done(v, p)
  \/ /\ ~Exists(s, p)
     /\ UNCHANGED <<idle, locks, held>>
     /\ Done(v, p) \/ GivesUp(v, p, "check")

Check(v) ==
  /\ Working(v, "check")
  /\ \E p \in job[v].todo : CheckPane(v, SessionOf[v], p)
  /\ UNCHANGED <<idleMu, slots, stopping, starting, panes, life>>

(* The viewer takes the helper of p into account.                             *)
Holds(v, p) == /\ held' = [held EXCEPT ![v][p] = "yes"]
               /\ Proceeds(v, [job[v] EXCEPT !.at = "take", !.pane = Nil, !.todo = @ \ {p}])

(* reuseLocked of a helper that nobody uses: idleSizes has the last word.     *)
Reuse(v, s, p) ==
  /\ locks[s][p].refs = 0
  /\ idleMu = Nil
  /\ ~locks[s][p].retired
  /\ idle' = idle \ {<<s, p>>}
  /\ locks' = [locks EXCEPT ![s][p] = [NewEpoch(@) EXCEPT !.refs = 1]]
  /\ Holds(v, p)
  /\ UNCHANGED <<slots, idleMu>>

(* The helper was reclaimed since the first loop: its geometry is read again. *)
ReuseFails(v, s, p) ==
  /\ locks[s][p].refs = 0
  /\ locks[s][p].retired
  /\ StopEnded(s, p)
  /\ held' = Staled(s, p)
  /\ UNCHANGED <<slots, idleMu>>
  /\ \/ UNCHANGED <<mu, job>>
     \/ GivesUp(v, p, "take")

Share(v, s, p) ==
  /\ locks[s][p].refs > 0
  /\ held[v][p] # "yes"
  /\ locks' = [locks EXCEPT ![s][p].refs = @ + 1]
  /\ Holds(v, p)
  /\ UNCHANGED <<idle, slots, idleMu>>

Keep(v, s, p) ==
  /\ held[v][p] = "yes"
  /\ UNCHANGED <<idle, slots, idleMu, locks, held>>
  /\ Done(v, p)

(* The loop of reserveSizeSlot, with idleSizes locked: a free slot, or the    *)
(* helper of any session that is idle, whose end is awaited with idleSizes    *)
(* still locked, or else sizing_limit.                                        *)
Reserves(v, p) ==
  \/ /\ slots < MaxSlots
     /\ slots' = slots + 1
     /\ idleMu' = Nil
     /\ job' = [job EXCEPT ![v].at = "slot", ![v].pane = p]
     /\ UNCHANGED <<mu, idle, locks>>
  \/ /\ slots = MaxSlots
     /\ \E k \in idle :
          /\ idle' = idle \ {k}
          /\ locks' = [locks EXCEPT ![k[1]][k[2]] = [Cancelled(@) EXCEPT !.retired = TRUE]]
     /\ idleMu' = v
     /\ job' = [job EXCEPT ![v].at = "reserve", ![v].pane = p]
     /\ UNCHANGED <<mu, slots>>
  \/ /\ slots = MaxSlots /\ idle = {}
     /\ idleMu' = Nil
     /\ GivesUp(v, p, "take")
     /\ UNCHANGED <<idle, slots, locks>>

reserveSizeSlot(v, p) == idleMu = Nil /\ Reserves(v, p)

(* holdSize is entered, or finds its context cancelled.                       *)
Acquire(v, p) ==
  /\ UNCHANGED held
  /\ \/ reserveSizeSlot(v, p)
     \/ GivesUp(v, p, "take") /\ UNCHANGED <<idleMu, idle, slots, locks>>

TakePane(v, s, p) ==
  \/ Exists(s, p) /\ Keep(v, s, p)
  \/ Exists(s, p) /\ Reuse(v, s, p)
  \/ Exists(s, p) /\ ReuseFails(v, s, p)
  \/ Exists(s, p) /\ Share(v, s, p)
  \/ ~Exists(s, p) /\ Acquire(v, p)

Take(v) ==
  /\ Working(v, "take")
  /\ \E p \in job[v].todo : TakePane(v, SessionOf[v], p)
  /\ UNCHANGED <<stopping, starting, panes, life>>

(* Helpers that were taken out of idleSizes for their slot.                   *)
Reclaims(s, p) == Exists(s, p) /\ locks[s][p].retired /\ stopping[s] # p

(* The reclaimed helper has ended, and reserveSizeSlot tries again before     *)
(* anyone else can look at idleSizes.  A helper that had ended by itself has  *)
(* no slot left to give back, and the next one is reclaimed.                  *)
Reclaimed(v) ==
  /\ job[v].at = "reserve"
  /\ \A s \in Session, p \in Pane : Reclaims(s, p) => locks[s][p].proc = "done"
  /\ UNCHANGED <<stopping, starting, panes, life, held>>
  /\ Reserves(v, job[v].pane)

(* holdSize with its slot: the helper starts, unless it cannot or the         *)
(* publication's context has been cancelled.                                  *)
Start(v) ==
  LET s == SessionOf[v] IN
  /\ job[v].at = "slot"
  /\ UNCHANGED held
  /\ \/ /\ life[s] = "open"
        /\ starting' = [starting EXCEPT ![s] = "setup"]
        /\ job' = [job EXCEPT ![v].at = "setup"]
        /\ UNCHANGED <<mu, slots>>
     \/ /\ slots' = slots - 1
        /\ GivesUp(v, job[v].pane, "take")
        /\ UNCHANGED starting
  /\ UNCHANGED <<idleMu, idle, locks, stopping, panes, life>>

(* The helper is ready and becomes the one of its pane; when the publication  *)
(* was cancelled meanwhile it may have been ready before.                     *)
Ready(v) ==
  LET s == SessionOf[v]
      p == job[v].pane
  IN
  /\ job[v].at = "setup"
  /\ starting[s] \in {"setup", "killed"}
  /\ locks' = [locks EXCEPT ![s][p] =
                 [refs |-> 1, proc |-> IF starting[s] = "setup" THEN "up" ELSE "ending",
                  retired |-> FALSE, armed |-> FALSE, fired |-> {}, watched |-> TRUE]]
  /\ starting' = [starting EXCEPT ![s] = "no"]
  /\ Holds(v, p)
  /\ UNCHANGED <<idleMu, idle, slots, stopping, panes, life>>

(* The setup fails, times out or is cancelled; the helper's end is awaited.   *)
SetupFails(v) ==
  LET s == SessionOf[v] IN
  /\ job[v].at = "setup"
  /\ starting' = [starting EXCEPT ![s] = IF @ = "done" THEN @ ELSE "ending"]
  /\ job' = [job EXCEPT ![v].at = "failed"]
  /\ UNCHANGED <<mu, idleMu, idle, slots, locks, stopping, panes, life, held>>

Failed(v) ==
  LET s == SessionOf[v] IN
  /\ job[v].at = "failed"
  /\ starting[s] = "done"
  /\ starting' = [starting EXCEPT ![s] = "no"]
  /\ UNCHANGED held
  /\ GivesUp(v, job[v].pane, "take")
  /\ UNCHANGED <<idleMu, idle, slots, locks, stopping, panes, life>>

(* Faulty: a stale helper is released as if it were the current one.          *)
NotThere(v, s, p) == ~Exists(s, p)

(* releaseLocked: the last viewer leaves the helper idle, for a grace period. *)
NotCurrent(v, s, p) == ~Exists(s, p) \/ held[v][p] # "yes"

releaseLocked(v, s, p) ==
  \/ /\ NotCurrent(v, s, p)
     /\ held' = [held EXCEPT ![v][p] = "no"]
     /\ UNCHANGED <<idle, locks>>
  \/ /\ ~NotCurrent(v, s, p) /\ locks[s][p].refs > 1
     /\ locks' = [locks EXCEPT ![s][p].refs = @ - 1]
     /\ held' = [held EXCEPT ![v][p] = "no"]
     /\ UNCHANGED idle
  \/ /\ ~NotCurrent(v, s, p) /\ locks[s][p].refs = 1
     /\ StopEnded(s, p)
     /\ held' = [Staled(s, p) EXCEPT ![v][p] = "no"]
  \/ /\ ~NotCurrent(v, s, p) /\ locks[s][p].refs = 1
     /\ locks[s][p].proc # "done"
     /\ idleMu = Nil
     /\ idle' = idle \cup {<<s, p>>}
     /\ locks' = [locks EXCEPT ![s][p] = [NewEpoch(@) EXCEPT !.refs = 0, !.armed = TRUE]]
     /\ held' = [held EXCEPT ![v][p] = "no"]

Drop(v) ==
  LET s == SessionOf[v] IN
  /\ Working(v, "drop")
  /\ \E p \in job[v].todo : releaseLocked(v, s, p) /\ Done(v, p)
  /\ UNCHANGED <<idleMu, slots, stopping, starting, panes, life>>

(* sizeView.close, when the stream is over; another viewer may come after it. *)
CloseView(v) ==
  LET s == SessionOf[v] IN
  /\ job[v].at \in {"out", "over"}
  /\ job[v].at = "out" => \E p \in Pane : held[v][p] # "no"
  /\ mu[s] = Nil
  /\ Begin(v, "drop", {p \in Pane : held[v][p] # "no"}, {})
  /\ UNCHANGED <<idleMu, idle, slots, locks, stopping, starting, panes, life>>

ReconcileStep(v) ==
  Purge(v) \/ Check(v) \/ Take(v) \/ Reclaimed(v) \/ Start(v) \/ Ready(v)
    \/ SetupFails(v) \/ Failed(v) \/ Drop(v)

-----------------------------------------------------------------------------
(* Timers, watchers, the helpers themselves, and the end of a publication.    *)

Fire(s, p) ==
  /\ Exists(s, p) /\ locks[s][p].armed
  /\ locks' = [locks EXCEPT ![s][p].armed = FALSE, ![s][p].fired = @ \cup {"current"}]
  /\ UNCHANGED <<mu, idleMu, idle, slots, stopping, starting, panes, life, held, job>>

(* Faulty: a timer of an earlier idle period counts.                          *)
DueAnyway(s, p, e) == locks[s][p].refs = 0

(* expire of a timer of epoch e.                                              *)
Due(s, p, e) == locks[s][p].refs = 0 /\ e = "current"

Expire(s, p) ==
  /\ Exists(s, p) /\ mu[s] = Nil
  /\ \E e \in locks[s][p].fired :
       \/ /\ Due(s, p, e)
          /\ BeginStop(s, p)
          /\ mu' = [mu EXCEPT ![s] = "timer"]
       \/ /\ ~Due(s, p, e)
          /\ locks' = [locks EXCEPT ![s][p].fired = @ \ {e}]
          /\ UNCHANGED <<mu, idle, stopping>>
  /\ UNCHANGED <<idleMu, slots, starting, panes, life, held, job>>

watch(s, p) ==
  /\ Exists(s, p) /\ locks[s][p].watched /\ locks[s][p].proc = "done"
  /\ mu[s] = Nil
  /\ \/ /\ locks[s][p].refs # 0
        /\ locks' = [locks EXCEPT ![s][p].watched = FALSE]
        /\ UNCHANGED <<idle, held>>
     \/ /\ locks[s][p].refs = 0
        /\ StopEnded(s, p)
        /\ held' = Staled(s, p)
  /\ UNCHANGED <<mu, idleMu, slots, stopping, starting, panes, life, job>>

(* A helper loses its terminal, at any time, or before it is ready.           *)
Dies(s, p) ==
  /\ Exists(s, p) /\ locks[s][p].proc = "up"
  /\ locks' = [locks EXCEPT ![s][p].proc = "ending"]
  /\ UNCHANGED <<mu, idleMu, idle, slots, stopping, starting, panes, life, held, job>>

DiesEarly(s) ==
  /\ starting[s] = "setup"
  /\ starting' = [starting EXCEPT ![s] = "ending"]
  /\ UNCHANGED <<mu, idleMu, idle, slots, locks, stopping, panes, life, held, job>>

(* The helper's goroutine gives its slot back, and then closes done.          *)
Ends(s, p) ==
  /\ Exists(s, p) /\ locks[s][p].proc = "ending"
  /\ locks' = [locks EXCEPT ![s][p].proc = "done"]
  /\ slots' = slots - 1
  /\ UNCHANGED <<mu, idleMu, idle, stopping, starting, panes, life, held, job>>

EndsEarly(s) ==
  /\ starting[s] \in {"ending", "killed"}
  /\ starting' = [starting EXCEPT ![s] = "done"]
  /\ slots' = slots - 1
  /\ UNCHANGED <<mu, idleMu, idle, locks, stopping, panes, life, held, job>>

(* Sizing.close cancels the context of all helpers before it waits for mu.    *)
Cancel(s) ==
  /\ s \in Closing /\ life[s] = "open"
  /\ life' = [life EXCEPT ![s] = "cancelled"]
  /\ locks' = [locks EXCEPT ![s] = [p \in Pane |-> IF @[p] = NoLock THEN NoLock
                                                   ELSE Cancelled(@[p])]]
  /\ starting' = [starting EXCEPT ![s] = IF @ = "setup" THEN "killed" ELSE @]
  /\ UNCHANGED <<mu, idleMu, idle, slots, stopping, panes, held, job>>

Close(s) ==
  /\ life[s] = "cancelled" /\ mu[s] = Nil
  /\ life' = [life EXCEPT ![s] = "closed"]
  /\ mu' = [mu EXCEPT ![s] = "close"]
  /\ UNCHANGED <<idleMu, idle, slots, locks, stopping, starting, panes, held, job>>

(* Faulty: helpers in use are left to their viewers.                          *)
CloseIdleOnly(s) ==
  /\ mu[s] = "close" /\ stopping[s] = Nil
  /\ \/ /\ \E p \in Pane : Exists(s, p) /\ locks[s][p].refs = 0 /\ BeginStop(s, p)
        /\ UNCHANGED mu
     \/ /\ \A p \in Pane : Exists(s, p) => locks[s][p].refs > 0
        /\ mu' = [mu EXCEPT ![s] = Nil]
        /\ UNCHANGED <<idle, locks, stopping>>
  /\ UNCHANGED <<idleMu, slots, starting, panes, life, held, job>>

CloseStep(s) ==
  /\ mu[s] = "close" /\ stopping[s] = Nil
  /\ \/ /\ \E p \in Pane : Exists(s, p) /\ BeginStop(s, p)
        /\ UNCHANGED mu
     \/ /\ \A p \in Pane : ~Exists(s, p)
        /\ mu' = [mu EXCEPT ![s] = Nil]
        /\ UNCHANGED <<idle, locks, stopping>>
  /\ UNCHANGED <<idleMu, slots, starting, panes, life, held, job>>

Next ==
  \/ \E v \in View : Enter(v) \/ CloseView(v) \/ ReconcileStep(v)
  \/ \E s \in Session : \/ Stopped(s) \/ DiesEarly(s) \/ EndsEarly(s)
                        \/ Cancel(s) \/ Close(s) \/ CloseStep(s)
  \/ \E s \in Session, p \in Pane :
       Fire(s, p) \/ Expire(s, p) \/ watch(s, p) \/ Dies(s, p) \/ Ends(s, p)

Spec == Init /\ [][Next]_vars

-----------------------------------------------------------------------------
(* A helper is counted by exactly the viewers that hold it, and one that no   *)
(* viewer holds is either in idleSizes with a timer that will retire it or on *)
(* its way out: no helper pins a pane for nobody, and none that a viewer      *)
(* relies on can be reclaimed (releaseLocked, reuseLocked, reserveSizeSlot).  *)
RefsCounted ==
  \A s \in Session, p \in Pane : Exists(s, p) =>
    LET l == locks[s][p] IN
    /\ l.refs = Cardinality({v \in Views(s) : held[v][p] = "yes"})
    /\ <<s, p>> \in idle => l.refs = 0 /\ ~l.retired
    /\ l.refs = 0 /\ l.proc = "up"
         => <<s, p>> \in idle /\ (l.armed \/ "current" \in l.fired)
    /\ l.refs = 0 /\ stopping[s] # p => l.watched \/ l.armed \/ "current" \in l.fired

Live(s) == {p \in Pane : Exists(s, p) /\ locks[s][p].proc # "done"}
Setup(s) == {v \in Views(s) : \/ job[v].at = "slot"
                              \/ job[v].at \in {"setup", "failed"} /\ starting[s] # "done"}

(* The budget counts exactly the helpers there are, in whatever order they    *)
(* are started, fail, are reclaimed by another session and end.               *)
SlotsCounted ==
  slots = Cardinality(UNION {{s} \X Live(s) : s \in Session})
            + Cardinality(UNION {Setup(s) : s \in Session})

(* Reference counts and the budget of helpers both hold what they stand for.  *)
HelpersCounted == RefsCounted /\ SlotsCounted

(* The helper of an open session is only stopped because its pane is not in   *)
(* the native list, because it ended by itself, or when no viewer uses it and *)
(* its own grace period is over or its slot is needed: never by a timer of an *)
(* earlier idle period, by a stale view or by another viewer's departure.     *)
StoppedForAReason ==
  [][\A s \in Session, p \in Pane :
       (Exists(s, p) /\ locks'[s][p] # NoLock
          /\ locks[s][p].proc = "up" /\ locks'[s][p].retired)
       => \/ panes[s] # Nil /\ p \notin panes[s]
          \/ locks[s][p].refs = 0 /\ "current" \in locks[s][p].fired
          \/ locks[s][p].refs = 0 /\ slots = MaxSlots /\ idleMu' # Nil]_vars

(* When close has returned the session has no helper, and none comes back     *)
(* with a reconcile that had begun before ("Disabling sharing or replacing    *)
(* the publication closes its controllers immediately").                      *)
ClosedIsQuiet ==
  \A s \in Session : life[s] = "closed" /\ mu[s] # "close" =>
    starting[s] = "no" /\ \A p \in Pane : ~Exists(s, p)

(* What the steps of reconcile for a pane, and the release of one, wait for.  *)
MayCheck(s, p) ==
  Exists(s, p) =>
    /\ locks[s][p].refs = 0 \/ locks[s][p].proc = "done" => idleMu = Nil
    /\ locks[s][p].refs = 0 /\ locks[s][p].retired => locks[s][p].proc = "done"

MayTake(v, s, p) ==
  \/ Exists(s, p) /\ (held[v][p] = "yes" \/ locks[s][p].refs > 0)
  \/ /\ idleMu = Nil
     /\ Exists(s, p) => /\ locks[s][p].refs = 0
                        /\ locks[s][p].retired => locks[s][p].proc = "done"

MayRelease(v, s, p) ==
  \/ NotCurrent(v, s, p)
  \/ locks[s][p].refs > 1
  \/ locks[s][p].refs = 1 /\ idleMu = Nil

(* A viewer that is not waiting for a helper that it stops has a next step.   *)
ViewerMoves(v) ==
  LET s == SessionOf[v]
      j == job[v]
  IN
  \/ j.at = "purge" /\ (j.todo = {} \/ idleMu = Nil)
  \/ j.at = "check" /\ \E p \in j.todo : MayCheck(s, p)
  \/ j.at = "take" /\ \E p \in j.todo : MayTake(v, s, p)
  \/ j.at = "reserve" /\ \A t \in Session, p \in Pane :
                           Reclaims(t, p) => locks[t][p].proc = "done"
  \/ j.at \in {"slot", "setup"}
  \/ j.at = "failed" /\ starting[s] = "done"
  \/ j.at = "drop" /\ \E p \in j.todo : MayRelease(v, s, p)

(* So does whoever holds the mutex of s.                                      *)
HolderMoves(s) ==
  IF stopping[s] # Nil THEN locks[s][stopping[s]].proc = "done"
  ELSE \/ mu[s] = "close" /\ idleMu = Nil
       \/ mu[s] \in View /\ ViewerMoves(mu[s])

(* Or it waits for a helper, which is ending and needs nobody for that.       *)
HolderAwaits(s) ==
  \/ stopping[s] # Nil /\ locks[s][stopping[s]].proc = "ending"
  \/ /\ mu[s] \in View /\ job[mu[s]].at = "reserve"
     /\ \E t \in Session, p \in Pane : Reclaims(t, p) /\ locks[t][p].proc = "ending"
  \/ /\ mu[s] \in View /\ job[mu[s]].at = "failed"
     /\ starting[s] = "ending"

GoesOn(s) == HolderMoves(s) \/ HolderAwaits(s)

(* Whoever holds the mutex of a session gets on with it, waits for a helper   *)
(* that is ending, or waits for idleSizes, whose holder gets on or waits for  *)
(* such a helper: neither the two levels of mutexes, nor a slot reclaimed     *)
(* from another session with idleSizes locked, nor the wait for a helper's    *)
(* end stops any session for good, whatever the others do.                    *)
NoDeadlock ==
  \A s \in Session : mu[s] # Nil =>
    GoesOn(s) \/ (idleMu # Nil /\ mu[SessionOf[idleMu]] = idleMu /\ GoesOn(SessionOf[idleMu]))

(* The conditions that NoDeadlock speaks of enable the steps they stand for.  *)
Work(s) == \/ \E v \in Views(s) : mu[s] = v /\ ReconcileStep(v)
           \/ Stopped(s) \/ CloseStep(s)

GuardsEnable == \A s \in Session : mu[s] # Nil /\ HolderMoves(s) => ENABLED Work(s)
=============================================================================
