----------------------------- MODULE SizeLocksProofs -----------------------------
(* The helpers of SizeLocks, for any number of sessions, panes and viewers and  *)
(* any budget: they are counted, a session that is closed has none left, none   *)
(* is stopped without a reason, and no session is stopped for good.  The        *)
(* argument rests on                                                            *)
(*   AtWork   who works has the session's mutex, and what a viewer at some step *)
(*            relies on has been true since it took it;                         *)
(*   Keys     for each pane, who counts on its helper and who will end it;      *)
(*   Counted  each slot is a live helper or one that is being set up;           *)
(*   Leaving  after the context is cancelled no helper is up any more;          *)
(*   Waits    what whoever has a mutex still has to do, and is waiting for;     *)
(*   Settled  a helper taken out of idleSizes for its slot has ended before the *)
(*            next one can be.                                                  *)
EXTENDS SizeLocks, FiniteSetTheorems, TLAPS

Holders(s, p) == {v \in Views(s) : held[v][p] = "yes"}

(* A helper is counted by its holders; one without any is idle, or on its way   *)
(* out; and whatever ends it has been started.                                  *)
KeyOK(s, p) ==
  /\ ~Exists(s, p) => <<s, p>> \notin idle /\ Holders(s, p) = {} /\ stopping[s] # p
  /\ Exists(s, p) =>
       /\ locks[s][p].refs = Cardinality(Holders(s, p))
       /\ <<s, p>> \in idle => locks[s][p].refs = 0 /\ ~locks[s][p].retired
       /\ locks[s][p].refs = 0 /\ locks[s][p].proc = "up"
            => <<s, p>> \in idle /\ (locks[s][p].armed \/ "current" \in locks[s][p].fired)
       /\ locks[s][p].refs = 0 /\ stopping[s] # p
            => locks[s][p].watched \/ locks[s][p].armed \/ "current" \in locks[s][p].fired
       /\ locks[s][p].retired =>
            locks[s][p].proc # "up" /\ (locks[s][p].refs = 0 \/ stopping[s] = p)
       /\ stopping[s] = p => locks[s][p].retired

Keys == \A s \in Session, p \in Pane : KeyOK(s, p)

(* The steps at which a viewer has a slot, or is about to get one.              *)
Acquiring == {"reserve", "slot", "setup", "failed"}

Relies(v) ==
  LET s == SessionOf[v] IN
  /\ job[v].at \in {"out", "over"} <=> mu[s] # v
  /\ job[v].at \in Acquiring => job[v].pane \in Pane /\ ~Exists(s, job[v].pane)
  /\ job[v].at = "purge" => /\ panes[s] # Nil
                            /\ \A p \in job[v].todo : /\ Exists(s, p) /\ p \notin panes[s]
                                                      /\ stopping[s] # p
  /\ job[v].at \in {"setup", "failed"} => starting[s] # "no"

Attended(s) ==
  /\ mu[s] \in View => SessionOf[mu[s]] = s
  /\ starting[s] # "no" => mu[s] \in View /\ job[mu[s]].at \in {"setup", "failed"}
  /\ stopping[s] # Nil => \/ mu[s] \in {"timer", "close"}
                          \/ mu[s] \in View /\ job[mu[s]].at = "purge"

AtWork == (\A v \in View : Relies(v)) /\ \A s \in Session : Attended(s)

LiveKeys == {k \in Session \X Pane : Exists(k[1], k[2]) /\ locks[k[1]][k[2]].proc # "done"}
Setups == {v \in View : \/ job[v].at = "slot"
                        \/ job[v].at \in {"setup", "failed"} /\ starting[SessionOf[v]] # "done"}

Counted == slots = Cardinality(LiveKeys) + Cardinality(Setups)

Leaving(s) ==
  /\ life[s] # "open" => /\ starting[s] # "setup"
                         /\ \A p \in Pane : Exists(s, p) => locks[s][p].proc # "up"
  /\ mu[s] = "close" => life[s] = "closed"
  /\ life[s] = "closed" => \A v \in Views(s) : job[v].at \in {"out", "over", "drop"}
  /\ life[s] = "closed" /\ mu[s] # "close" => \A p \in Pane : ~Exists(s, p)

LocksInv == TypeOK /\ Keys /\ AtWork /\ Counted /\ \A s \in Session : Leaving(s)


USE SizeConstants, NoLockAssumption

-----------------------------------------------------------------------------
(* The variables of the helpers, and those of the viewers' work.                *)
LockTypes ==
  /\ idle \subseteq Session \X Pane
  /\ locks \in [Session -> [Pane -> Lock \cup {NoLock}]]
  /\ stopping \in [Session -> Pane \cup {Nil}]
  /\ held \in [View -> [Pane -> {"no", "yes", "stale"}]]

WorkTypes ==
  /\ mu \in [Session -> View \cup {"timer", "close", Nil}]
  /\ starting \in [Session -> {"no", "setup", "killed", "ending", "done"}]
  /\ job \in [View -> Job]

OtherTypes ==
  /\ idleMu \in View \cup {Nil}
  /\ slots \in 0 .. MaxSlots
  /\ panes \in [Session -> (SUBSET Pane) \cup {Nil}]
  /\ life \in [Session -> {"open", "cancelled", "closed"}]

LEMMA TypeParts == TypeOK <=> LockTypes /\ WorkTypes /\ OtherTypes
BY DEF TypeOK, LockTypes, WorkTypes, OtherTypes

(* What the parts of stopLocked make of a helper.                               *)
Halted(l) == [Cancelled(NewEpoch(l)) EXCEPT !.retired = TRUE]

LEMMA LockSteps ==
  ASSUME NEW l \in Lock
  PROVE  /\ NewEpoch(l) \in Lock /\ NewEpoch(l).refs = l.refs /\ NewEpoch(l).proc = l.proc
         /\ NewEpoch(l).retired = l.retired /\ NewEpoch(l).watched = l.watched
         /\ Cancelled(l) \in Lock /\ Cancelled(l).refs = l.refs
         /\ Cancelled(l).proc = (IF l.proc = "up" THEN "ending" ELSE l.proc)
         /\ Cancelled(l).retired = l.retired /\ Cancelled(l).watched = l.watched
         /\ Cancelled(l).armed = l.armed /\ Cancelled(l).fired = l.fired
<1>1. NewEpoch(l) \in Lock
  BY DEF NewEpoch, Lock
<1>2. Cancelled(l) \in Lock
  BY DEF Cancelled, Lock
<1>3. /\ NewEpoch(l).refs = l.refs /\ NewEpoch(l).proc = l.proc
      /\ NewEpoch(l).retired = l.retired /\ NewEpoch(l).watched = l.watched
  BY DEF NewEpoch, Lock
<1>4. /\ Cancelled(l).refs = l.refs
      /\ Cancelled(l).proc = (IF l.proc = "up" THEN "ending" ELSE l.proc)
      /\ Cancelled(l).retired = l.retired /\ Cancelled(l).watched = l.watched
      /\ Cancelled(l).armed = l.armed /\ Cancelled(l).fired = l.fired
  BY DEF Cancelled, Lock
<1> QED
  BY <1>1, <1>2, <1>3, <1>4

LEMMA HaltedLock ==
  ASSUME NEW l \in Lock
  PROVE  /\ Halted(l) \in Lock /\ Halted(l).refs = l.refs /\ Halted(l).retired
         /\ Halted(l).proc = (IF l.proc = "up" THEN "ending" ELSE l.proc)
         /\ Halted(l).watched = l.watched
<1> DEFINE c == Cancelled(NewEpoch(l))
<1>1. /\ c \in Lock /\ c.refs = l.refs /\ c.watched = l.watched
      /\ c.proc = (IF l.proc = "up" THEN "ending" ELSE l.proc)
  BY LockSteps
<1>2. Halted(l) = [c EXCEPT !.retired = TRUE]
  BY DEF Halted
<1> HIDE DEF c
<1> QED
  BY <1>1, <1>2 DEF Lock

(* One helper is replaced, or deleted.                                          *)
LEMMA StaledHeld ==
  ASSUME LockTypes, NEW s \in Session, NEW p \in Pane
  PROVE  /\ Staled(s, p) \in [View -> [Pane -> {"no", "yes", "stale"}]]
         /\ \A v \in View, q \in Pane :
              Staled(s, p)[v][q] = IF SessionOf[v] = s /\ q = p /\ held[v][q] = "yes"
                                   THEN "stale" ELSE held[v][q]
<1>1. \A v \in View : /\ held[v] \in [Pane -> {"no", "yes", "stale"}]
                      /\ [held[v] EXCEPT ![p] = "stale"] \in [Pane -> {"no", "yes", "stale"}]
  BY DEF LockTypes
<1>2. \A v \in View : Staled(s, p)[v] \in [Pane -> {"no", "yes", "stale"}]
  BY <1>1 DEF Staled
<1>3. Staled(s, p) \in [View -> [Pane -> {"no", "yes", "stale"}]]
  BY <1>2 DEF Staled
<1>4. ASSUME NEW v \in View, NEW q \in Pane
      PROVE  Staled(s, p)[v][q] = IF SessionOf[v] = s /\ q = p /\ held[v][q] = "yes"
                                  THEN "stale" ELSE held[v][q]
  BY <1>1 DEF Staled
<1> QED
  BY <1>3, <1>4

LEMMA HoldersCount ==
  ASSUME NEW s, NEW p
  PROVE  /\ IsFiniteSet(Holders(s, p)) /\ Cardinality(Holders(s, p)) \in Nat
         /\ Cardinality(Holders(s, p)) <= Cardinality(View)
         /\ Cardinality(Holders(s, p)) = 0 <=> Holders(s, p) = {}
<1>1. Holders(s, p) \in SUBSET View
  BY DEF Holders, Views
<1>2. IsFiniteSet(Holders(s, p)) /\ Cardinality(Holders(s, p)) <= Cardinality(View)
  BY <1>1, FS_Subset
<1> QED
  BY <1>2, FS_CardinalityType, FS_EmptySet

-----------------------------------------------------------------------------
(* A step that changes one helper, if any.                                      *)
Elsewhere(s, p) ==
  \A t \in Session, q \in Pane : t # s \/ q # p =>
    /\ locks'[t][q] = locks[t][q]
    /\ <<t, q>> \in idle' <=> <<t, q>> \in idle
    /\ stopping'[t] = q <=> stopping[t] = q
    /\ \A v \in Views(t) : held'[v][q] = "yes" <=> held[v][q] = "yes"

LEMMA OneKey ==
  ASSUME Keys, NEW s \in Session, NEW p \in Pane, Elsewhere(s, p), KeyOK(s, p)'
  PROVE  Keys'
<1> SUFFICES ASSUME NEW t \in Session, NEW q \in Pane, t # s \/ q # p PROVE KeyOK(t, q)'
  BY DEF Keys
<1>1. /\ locks'[t][q] = locks[t][q]
      /\ <<t, q>> \in idle' <=> <<t, q>> \in idle
      /\ stopping'[t] = q <=> stopping[t] = q
      /\ \A v \in Views(t) : held'[v][q] = "yes" <=> held[v][q] = "yes"
  BY DEF Elsewhere
<1>2. Holders(t, q)' = Holders(t, q)
  BY <1>1 DEF Holders, Views
<1>3. KeyOK(t, q)
  BY DEF Keys
<1> QED
  BY <1>1, <1>2, <1>3 DEF KeyOK, Exists

(* A step that starts no helper, and ends none that lives.                      *)
NoneNew == \A t \in Session, q \in Pane : locks'[t][q] # NoLock => locks[t][q] # NoLock
Calm ==
  \A t \in Session, q \in Pane :
    locks'[t][q] # NoLock /\ locks'[t][q].proc = "up" => locks[t][q].proc = "up"
LiveSame == LiveKeys' = LiveKeys
Quiet == NoneNew /\ Calm /\ LiveSame

(* What becomes of the helper of one pane in such a step.                       *)
CarriesOn(s, p) ==
  /\ locks'[s][p] # NoLock =>
       /\ locks[s][p] # NoLock
       /\ locks'[s][p].proc = "up" => locks[s][p].proc = "up"
       /\ locks'[s][p].proc = "done" <=> locks[s][p].proc = "done"
  /\ locks'[s][p] = NoLock /\ locks[s][p] # NoLock => locks[s][p].proc = "done"

LEMMA AllGoOn ==
  ASSUME \A t \in Session, q \in Pane : locks'[t][q] = locks[t][q] \/ CarriesOn(t, q)
  PROVE  Quiet
<1>1. NoneNew /\ Calm
  BY DEF CarriesOn, NoneNew, Calm
<1>2. ASSUME NEW k \in Session \X Pane PROVE k \in LiveKeys' <=> k \in LiveKeys
  <2>1. k[1] \in Session /\ k[2] \in Pane
    OBVIOUS
  <2>2. locks'[k[1]][k[2]] = locks[k[1]][k[2]] \/ CarriesOn(k[1], k[2])
    BY <2>1
  <2> QED
    BY <2>2 DEF CarriesOn, LiveKeys, Exists
<1>3. LiveKeys' = LiveKeys
  BY <1>2 DEF LiveKeys
<1> QED
  BY <1>1, <1>3 DEF Quiet, LiveSame

LEMMA OneQuiet ==
  ASSUME NEW s \in Session, NEW p \in Pane, Elsewhere(s, p), CarriesOn(s, p)
  PROVE  Quiet
<1>1. ASSUME NEW t \in Session, NEW q \in Pane
      PROVE  locks'[t][q] = locks[t][q] \/ CarriesOn(t, q)
  BY DEF Elsewhere
<1> QED
  BY <1>1, AllGoOn

(* A step that leaves the helpers alone, and who holds them.                    *)
LEMMA NoKey ==
  ASSUME LockTypes, Keys, UNCHANGED <<idle, locks, stopping>>,
         held' \in [View -> [Pane -> {"no", "yes", "stale"}]],
         \A v \in View, q \in Pane : held'[v][q] = "yes" <=> held[v][q] = "yes"
  PROVE  LockTypes' /\ Keys' /\ Quiet
<1>1. LockTypes'
  BY DEF LockTypes
<1>2. \A s \in Session, p \in Pane : Holders(s, p)' = Holders(s, p)
  BY DEF Holders, Views
<1>3. ASSUME NEW s \in Session, NEW p \in Pane PROVE KeyOK(s, p)'
  <2>1. KeyOK(s, p) /\ Holders(s, p)' = Holders(s, p)
    BY <1>2 DEF Keys
  <2> QED
    BY <2>1 DEF KeyOK, Exists
<1> QED
  BY <1>1, <1>3, AllGoOn DEF Keys


-----------------------------------------------------------------------------
(* What each operation does to the one helper it is about.                      *)

(* stopLocked: nobody may use the helper any more, and its end is awaited.      *)
LEMMA KeyStopped ==
  ASSUME LockTypes, Keys, NEW s \in Session, NEW p \in Pane, Exists(s, p),
         stopping[s] = Nil, BeginStop(s, p), UNCHANGED held
  PROVE  LockTypes' /\ Keys' /\ Quiet /\ stopping' = [stopping EXCEPT ![s] = p]
<1> DEFINE l == locks[s][p]
<1>1. l \in Lock
  BY DEF LockTypes, Exists
<1>2. /\ locks' = [locks EXCEPT ![s][p] = Halted(l)] /\ idle' = idle \ {<<s, p>>}
      /\ stopping' = [stopping EXCEPT ![s] = p]
  BY DEF BeginStop, Halted
<1>3. /\ Halted(l) \in Lock /\ Halted(l).refs = l.refs /\ Halted(l).retired
      /\ Halted(l).proc = (IF l.proc = "up" THEN "ending" ELSE l.proc)
  BY <1>1, HaltedLock
<1>4. /\ locks' \in [Session -> [Pane -> Lock \cup {NoLock}]] /\ locks'[s][p] = Halted(l)
      /\ \A t \in Session, q \in Pane : t # s \/ q # p => locks'[t][q] = locks[t][q]
  <2> DEFINE x == Halted(l)
  <2>1. x \in Lock \cup {NoLock} /\ locks' = [locks EXCEPT ![s][p] = x]
    BY <1>2, <1>3
  <2> HIDE DEF x, l
  <2>2. /\ locks' \in [Session -> [Pane -> Lock \cup {NoLock}]] /\ locks'[s][p] = x
        /\ \A t \in Session, q \in Pane : t # s \/ q # p => locks'[t][q] = locks[t][q]
    BY ONLY <2>1, LockTypes, s \in Session, p \in Pane DEF LockTypes
  <2> QED
    BY <2>2 DEF x
<1>5. /\ stopping' \in [Session -> Pane \cup {Nil}] /\ stopping'[s] = p
      /\ \A t \in Session, q \in Pane : t # s \/ q # p => (stopping'[t] = q <=> stopping[t] = q)
  BY <1>2 DEF LockTypes
<1>6. LockTypes'
  BY <1>2, <1>4, <1>5 DEF LockTypes
<1>7. Elsewhere(s, p)
  BY <1>2, <1>4, <1>5 DEF Elsewhere
<1>8. Halted(l) # NoLock
  BY <1>3
<1>9. KeyOK(s, p) /\ Holders(s, p)' = Holders(s, p)
  BY DEF Keys, Holders, Views
<1>10. KeyOK(s, p)'
  BY <1>2, <1>3, <1>4, <1>5, <1>8, <1>9 DEF KeyOK, Exists
<1>11. CarriesOn(s, p)
  BY <1>3, <1>4, <1>8 DEF CarriesOn, Exists
<1> QED
  BY <1>2, <1>6, <1>7, <1>10, <1>11, OneKey, OneQuiet

(* delete(s.locks, pane), of a helper that has ended.                           *)
LEMMA KeyDeleted ==
  ASSUME LockTypes, Keys, NEW s \in Session, NEW p \in Pane, Exists(s, p),
         locks[s][p].proc = "done", locks' = Deleted(s, p),
         idle' = idle \ {<<s, p>>},
         stopping' \in [Session -> Pane \cup {Nil}], stopping'[s] # p,
         \A t \in Session, q \in Pane : t # s \/ q # p => (stopping'[t] = q <=> stopping[t] = q),
         held' \in [View -> [Pane -> {"no", "yes", "stale"}]],
         \A v \in View, q \in Pane : SessionOf[v] # s \/ q # p =>
           (held'[v][q] = "yes" <=> held[v][q] = "yes"),
         \A v \in Views(s) : held'[v][p] # "yes"
  PROVE  LockTypes' /\ Keys' /\ Quiet
<1>1. /\ locks' \in [Session -> [Pane -> Lock \cup {NoLock}]] /\ locks'[s][p] = NoLock
      /\ \A t \in Session, q \in Pane : t # s \/ q # p => locks'[t][q] = locks[t][q]
  <2>1. NoLock \in Lock \cup {NoLock} /\ locks' = [locks EXCEPT ![s][p] = NoLock]
    BY DEF Deleted
  <2> QED
    BY ONLY <2>1, LockTypes, s \in Session, p \in Pane DEF LockTypes
<1>2. LockTypes'
  BY <1>1 DEF LockTypes
<1>3. Elsewhere(s, p)
  <2>1. \A t \in Session, q \in Pane : t # s \/ q # p => (<<t, q>> \in idle' <=> <<t, q>> \in idle)
    OBVIOUS
  <2>2. \A t \in Session, q \in Pane : t # s \/ q # p =>
          \A v \in Views(t) : held'[v][q] = "yes" <=> held[v][q] = "yes"
    BY DEF Views
  <2> QED
    BY <1>1, <2>1, <2>2 DEF Elsewhere
<1>4. Holders(s, p)' = {} /\ <<s, p>> \notin idle'
  BY DEF Holders, Views
<1>5. KeyOK(s, p)'
  BY <1>1, <1>4 DEF KeyOK, Exists
<1>6. CarriesOn(s, p)
  BY <1>1 DEF CarriesOn
<1> QED
  BY <1>2, <1>3, <1>5, <1>6, OneKey, OneQuiet

(* It is deleted where it is found to have ended,                               *)
LEMMA KeyEnded ==
  ASSUME LockTypes, Keys, NEW s \in Session, NEW p \in Pane, Exists(s, p),
         stopping[s] = Nil, UNCHANGED stopping, StopEnded(s, p), held' = Staled(s, p)
  PROVE  LockTypes' /\ Keys' /\ Quiet
<1>1. /\ held' \in [View -> [Pane -> {"no", "yes", "stale"}]]
      /\ \A v \in View, q \in Pane :
           held'[v][q] = IF SessionOf[v] = s /\ q = p /\ held[v][q] = "yes"
                         THEN "stale" ELSE held[v][q]
  BY StaledHeld
<1>2. \A v \in Views(s) : held'[v][p] # "yes"
  BY <1>1 DEF Views
<1>3. /\ locks[s][p].proc = "done" /\ locks' = Deleted(s, p) /\ idle' = idle \ {<<s, p>>}
  BY DEF StopEnded
<1>4. /\ stopping' \in [Session -> Pane \cup {Nil}] /\ stopping'[s] # p
      /\ \A t \in Session, q \in Pane : t # s \/ q # p => (stopping'[t] = q <=> stopping[t] = q)
  BY DEF LockTypes
<1>5. \A v \in View, q \in Pane : SessionOf[v] # s \/ q # p =>
        (held'[v][q] = "yes" <=> held[v][q] = "yes")
  BY <1>1
<1> QED
  BY ONLY <1>1, <1>2, <1>3, <1>4, <1>5, KeyDeleted, LockTypes, Keys,
          s \in Session, p \in Pane, Exists(s, p)

(* by its last viewer,                                                          *)
LEMMA KeyDropped ==
  ASSUME LockTypes, Keys, NEW v \in View, NEW s \in Session, s = SessionOf[v],
         NEW p \in Pane, Exists(s, p),
         stopping[s] = Nil, UNCHANGED stopping, StopEnded(s, p),
         held' = [Staled(s, p) EXCEPT ![v][p] = "no"]
  PROVE  LockTypes' /\ Keys' /\ Quiet
<1>1. /\ Staled(s, p) \in [View -> [Pane -> {"no", "yes", "stale"}]]
      /\ \A w \in View, q \in Pane :
           Staled(s, p)[w][q] = IF SessionOf[w] = s /\ q = p /\ held[w][q] = "yes"
                                THEN "stale" ELSE held[w][q]
  BY StaledHeld
<1> DEFINE h == Staled(s, p)
<1> HIDE DEF h
<1>2. /\ held' \in [View -> [Pane -> {"no", "yes", "stale"}]]
      /\ \A w \in View, q \in Pane : held'[w][q] = IF w = v /\ q = p THEN "no" ELSE h[w][q]
  BY <1>1 DEF h
<1>3. /\ \A w \in Views(s) : held'[w][p] # "yes"
      /\ \A w \in View, q \in Pane : SessionOf[w] # s \/ q # p =>
           (held'[w][q] = "yes" <=> held[w][q] = "yes")
  BY <1>1, <1>2 DEF h, Views
<1>4. /\ locks[s][p].proc = "done" /\ locks' = Deleted(s, p) /\ idle' = idle \ {<<s, p>>}
  BY DEF StopEnded
<1>5. /\ stopping' \in [Session -> Pane \cup {Nil}] /\ stopping'[s] # p
      /\ \A t \in Session, q \in Pane : t # s \/ q # p => (stopping'[t] = q <=> stopping[t] = q)
  BY DEF LockTypes
<1> QED
  BY ONLY <1>2, <1>3, <1>4, <1>5, KeyDeleted, LockTypes, Keys,
          s \in Session, p \in Pane, Exists(s, p)

(* or by who has waited for its end.                                            *)
LEMMA KeyStoppedDone ==
  ASSUME LockTypes, Keys, NEW s \in Session, Stopped(s)
  PROVE  LockTypes' /\ Keys' /\ Quiet
<1>1. PICK p \in Pane : p = stopping[s]
  BY DEF Stopped, LockTypes
<1>2. /\ locks[s][p].proc = "done" /\ locks' = Deleted(s, p) /\ idle' = idle
      /\ held' = Staled(s, p) /\ stopping' = [stopping EXCEPT ![s] = Nil]
  BY <1>1 DEF Stopped
<1>3. KeyOK(s, p)
  BY DEF Keys
<1>4. Exists(s, p) /\ <<s, p>> \notin idle
  BY <1>1, <1>3 DEF KeyOK
<1>5. /\ held' \in [View -> [Pane -> {"no", "yes", "stale"}]]
      /\ \A v \in View, q \in Pane :
           held'[v][q] = IF SessionOf[v] = s /\ q = p /\ held[v][q] = "yes"
                         THEN "stale" ELSE held[v][q]
  BY <1>2, StaledHeld
<1>6. \A v \in Views(s) : held'[v][p] # "yes"
  BY <1>5 DEF Views
<1>7. /\ stopping' \in [Session -> Pane \cup {Nil}] /\ stopping'[s] # p
      /\ \A t \in Session, q \in Pane : t # s \/ q # p => (stopping'[t] = q <=> stopping[t] = q)
  BY <1>1, <1>2 DEF LockTypes
<1>8. idle' = idle \ {<<s, p>>}
  BY <1>2, <1>4
<1> QED
  BY <1>2, <1>4, <1>5, <1>6, <1>7, <1>8, KeyDeleted

(* Only who holds the helper of p changes, and only whether it is idle.         *)
Handed(s, p) ==
  /\ idle' \in {idle, idle \ {<<s, p>>}, idle \cup {<<s, p>>}}
  /\ held' \in [View -> [Pane -> {"no", "yes", "stale"}]]
  /\ \A v \in View, q \in Pane : SessionOf[v] # s \/ q # p =>
       (held'[v][q] = "yes" <=> held[v][q] = "yes")

(* A new state of the helper that goes with its new holders.                    *)
Fitting(s, p, x) ==
  /\ x.refs = Cardinality(Holders(s, p)')
  /\ <<s, p>> \in idle' => x.refs = 0 /\ ~x.retired
  /\ x.refs = 0 /\ x.proc = "up" => <<s, p>> \in idle' /\ (x.armed \/ "current" \in x.fired)
  /\ x.refs = 0 /\ stopping[s] # p => x.watched \/ x.armed \/ "current" \in x.fired
  /\ x.retired => x.proc # "up" /\ (x.refs = 0 \/ stopping[s] = p)
  /\ stopping[s] = p => x.retired

(* The helper gets another state, or its first one, and its holders with it.    *)
LEMMA KeyPut ==
  ASSUME LockTypes, Keys, NEW s \in Session, NEW p \in Pane, NEW x \in Lock,
         locks' = [locks EXCEPT ![s][p] = x], UNCHANGED stopping,
         Handed(s, p), Fitting(s, p, x)
  PROVE  LockTypes' /\ Keys' /\ Elsewhere(s, p) /\ locks'[s][p] = x /\ x # NoLock
<1>1. /\ locks' \in [Session -> [Pane -> Lock \cup {NoLock}]] /\ locks'[s][p] = x
      /\ \A t \in Session, q \in Pane : t # s \/ q # p => locks'[t][q] = locks[t][q]
  <2>1. x \in Lock \cup {NoLock} /\ locks' = [locks EXCEPT ![s][p] = x]
    OBVIOUS
  <2> QED
    BY ONLY <2>1, LockTypes, s \in Session, p \in Pane DEF LockTypes
<1>2. LockTypes'
  BY <1>1 DEF LockTypes, Handed
<1>3. Elsewhere(s, p)
  <2>1. \A t \in Session, q \in Pane : t # s \/ q # p => (<<t, q>> \in idle' <=> <<t, q>> \in idle)
    BY DEF Handed
  <2>2. \A t \in Session, q \in Pane : t # s \/ q # p =>
          \A v \in Views(t) : held'[v][q] = "yes" <=> held[v][q] = "yes"
    BY DEF Views, Handed
  <2> QED
    BY <1>1, <2>1, <2>2 DEF Elsewhere
<1>4. x # NoLock
  OBVIOUS
<1>5. KeyOK(s, p)'
  BY <1>1, <1>4 DEF KeyOK, Exists, Fitting
<1> QED
  BY <1>1, <1>2, <1>3, <1>4, <1>5, OneKey

(* As long as this ends nobody's helper it is a quiet step.                     *)
LEMMA QuietPut ==
  ASSUME NEW s \in Session, NEW p \in Pane, NEW x, Exists(s, p), Elsewhere(s, p),
         locks'[s][p] = x, x # NoLock,
         x.proc = "up" => locks[s][p].proc = "up",
         x.proc = "done" <=> locks[s][p].proc = "done"
  PROVE  Quiet
<1>1. CarriesOn(s, p)
  BY DEF CarriesOn, Exists
<1> QED
  BY <1>1, OneQuiet

-----------------------------------------------------------------------------
(* The viewers' operations on helpers.                                          *)

(* One viewer takes hold of a helper,                                           *)
LEMMA Taken ==
  ASSUME LockTypes, NEW v \in View, NEW s \in Session, s = SessionOf[v], NEW p \in Pane,
         idle' \in {idle, idle \ {<<s, p>>}, idle \cup {<<s, p>>}},
         held' = [held EXCEPT ![v][p] = "yes"]
  PROVE  Handed(s, p) /\ Holders(s, p)' = Holders(s, p) \cup {v}
<1>1. held' \in [View -> [Pane -> {"no", "yes", "stale"}]]
  BY DEF LockTypes
<1>2. \A w \in View, q \in Pane : held'[w][q] = IF w = v /\ q = p THEN "yes" ELSE held[w][q]
  BY DEF LockTypes
<1>3. \A w \in View, q \in Pane : SessionOf[w] # s \/ q # p =>
              (held'[w][q] = "yes" <=> held[w][q] = "yes")
  BY <1>2
<1>4. Holders(s, p)' = Holders(s, p) \cup {v}
  BY <1>2 DEF Holders, Views
<1> QED
  BY <1>1, <1>3, <1>4 DEF Handed

(* or gives it up.                                                              *)
LEMMA Left ==
  ASSUME LockTypes, NEW v \in View, NEW s \in Session, s = SessionOf[v], NEW p \in Pane,
         idle' \in {idle, idle \ {<<s, p>>}, idle \cup {<<s, p>>}},
         held' = [held EXCEPT ![v][p] = "no"]
  PROVE  Handed(s, p) /\ Holders(s, p)' = Holders(s, p) \ {v}
<1>1. held' \in [View -> [Pane -> {"no", "yes", "stale"}]]
  BY DEF LockTypes
<1>2. \A w \in View, q \in Pane : held'[w][q] = IF w = v /\ q = p THEN "no" ELSE held[w][q]
  BY DEF LockTypes
<1>3. \A w \in View, q \in Pane : SessionOf[w] # s \/ q # p =>
              (held'[w][q] = "yes" <=> held[w][q] = "yes")
  BY <1>2
<1>4. Holders(s, p)' = Holders(s, p) \ {v}
  BY <1>2 DEF Holders, Views
<1> QED
  BY <1>1, <1>3, <1>4 DEF Handed

LEMMA ReuseKeys ==
  ASSUME LockTypes, Keys, NEW v \in View, NEW s \in Session, s = SessionOf[v], NEW p \in Pane,
         stopping[s] = Nil, UNCHANGED stopping, Exists(s, p), Reuse(v, s, p)
  PROVE  LockTypes' /\ Keys' /\ Quiet
<1> DEFINE l == locks[s][p]
           x == [NewEpoch(l) EXCEPT !.refs = 1]
<1>1. l \in Lock
  BY DEF LockTypes, Exists
<1>2. /\ locks' = [locks EXCEPT ![s][p] = x] /\ idle' = idle \ {<<s, p>>}
      /\ held' = [held EXCEPT ![v][p] = "yes"] /\ l.refs = 0 /\ ~l.retired
  BY DEF Reuse, Holds
<1>3. NewEpoch(l) \in Lock /\ NewEpoch(l).proc = l.proc /\ NewEpoch(l).retired = l.retired
  BY <1>1, LockSteps
<1>4. x \in Lock /\ x.refs = 1 /\ x.proc = l.proc /\ ~x.retired
  BY <1>2, <1>3 DEF Lock
<1>5. Handed(s, p) /\ Holders(s, p)' = Holders(s, p) \cup {v}
  BY <1>2, Taken
<1>6. Holders(s, p) = {}
  BY <1>2, HoldersCount DEF Keys, KeyOK
<1>7. Cardinality({v}) = 1 /\ Holders(s, p)' = {v}
  BY <1>5, <1>6, FS_Singleton
<1>8. Cardinality(Holders(s, p)') = 1
  BY <1>7
<1>9. stopping[s] # p /\ <<s, p>> \notin idle'
  BY <1>2
<1> HIDE DEF x
<1>10. Fitting(s, p, x)
  BY <1>4, <1>8, <1>9 DEF Fitting
<1>11. LockTypes' /\ Keys' /\ Elsewhere(s, p) /\ locks'[s][p] = x /\ x # NoLock
  <2>1. UNCHANGED stopping /\ locks' = [locks EXCEPT ![s][p] = x] /\ x \in Lock
    BY <1>2, <1>4
  <2> QED
    BY ONLY <2>1, <1>5, <1>10, LockTypes, Keys, s \in Session, p \in Pane, KeyPut
<1> QED
  BY <1>4, <1>11, QuietPut

LEMMA ShareKeys ==
  ASSUME LockTypes, Keys, NEW v \in View, NEW s \in Session, s = SessionOf[v], NEW p \in Pane,
         stopping[s] = Nil, UNCHANGED stopping, Exists(s, p), Share(v, s, p)
  PROVE  LockTypes' /\ Keys' /\ Quiet
<1> DEFINE l == locks[s][p]
           x == [l EXCEPT !.refs = @ + 1]
<1>1. l \in Lock
  BY DEF LockTypes, Exists
<1>2. /\ locks' = [locks EXCEPT ![s][p] = x] /\ idle' = idle
      /\ held' = [held EXCEPT ![v][p] = "yes"] /\ l.refs > 0 /\ held[v][p] # "yes"
  <2>1. locks' = [locks EXCEPT ![s][p].refs = @ + 1]
    BY DEF Share
  <2> QED
    BY <2>1 DEF Share, Holds
<1>3. x \in Lock /\ x.refs = l.refs + 1 /\ x.proc = l.proc /\ x.retired = l.retired
  BY <1>1 DEF Lock
<1>4. Handed(s, p) /\ Holders(s, p)' = Holders(s, p) \cup {v}
  BY <1>2, Taken
<1>5. v \notin Holders(s, p) /\ IsFiniteSet(Holders(s, p))
  BY <1>2, HoldersCount DEF Holders
<1>6. Cardinality(Holders(s, p) \cup {v}) = Cardinality(Holders(s, p)) + 1
  BY <1>5, FS_AddElement
<1>7. stopping[s] # p /\ l.refs \in Nat /\ KeyOK(s, p)
  BY <1>1 DEF Lock, Keys
<1>8. ~l.retired /\ <<s, p>> \notin idle' /\ l.refs = Cardinality(Holders(s, p))
  BY <1>2, <1>7 DEF KeyOK
<1>9. x.refs = Cardinality(Holders(s, p)') /\ x.refs # 0
  BY <1>3, <1>4, <1>6, <1>7, <1>8
<1> HIDE DEF x
<1>10. Fitting(s, p, x)
  BY <1>3, <1>7, <1>8, <1>9 DEF Fitting
<1>11. LockTypes' /\ Keys' /\ Elsewhere(s, p) /\ locks'[s][p] = x /\ x # NoLock
  BY <1>2, <1>3, <1>4, <1>10, KeyPut
<1> QED
  BY <1>3, <1>11, QuietPut

(* releaseLocked, in each of its cases.                                         *)
LEMMA ReleaseKeys ==
  ASSUME LockTypes, Keys, NEW v \in View, NEW s \in Session, s = SessionOf[v], NEW p \in Pane,
         stopping[s] = Nil, UNCHANGED stopping, releaseLocked(v, s, p)
  PROVE  LockTypes' /\ Keys' /\ Quiet
<1> DEFINE l == locks[s][p]
<1>1. CASE NotCurrent(v, s, p) /\ held' = [held EXCEPT ![v][p] = "no"] /\ UNCHANGED <<idle, locks>>
  <2>1. held[v][p] # "yes"
    <3>1. CASE ~Exists(s, p)
      <4>1. KeyOK(s, p)
        BY DEF Keys
      <4>2. Holders(s, p) = {}
        BY <3>1, <4>1 DEF KeyOK
      <4> QED
        BY <4>2 DEF Holders, Views
    <3> QED
      BY <1>1, <3>1 DEF NotCurrent
  <2>2. /\ held' \in [View -> [Pane -> {"no", "yes", "stale"}]]
        /\ \A w \in View, q \in Pane : held'[w][q] = "yes" <=> held[w][q] = "yes"
    BY <1>1, <2>1 DEF LockTypes
  <2> QED
    BY <1>1, <2>2, NoKey
<1>2. ASSUME Exists(s, p), held[v][p] = "yes"
      PROVE  /\ l \in Lock /\ l.refs \in Nat /\ l.refs = Cardinality(Holders(s, p)) /\ KeyOK(s, p)
             /\ v \in Holders(s, p) /\ IsFiniteSet(Holders(s, p))
             /\ Cardinality(Holders(s, p) \ {v}) = l.refs - 1
  <2>1. l \in Lock /\ KeyOK(s, p)
    BY <1>2 DEF LockTypes, Exists, Keys
  <2>2. l.refs \in Nat /\ l.refs = Cardinality(Holders(s, p))
    BY <1>2, <2>1 DEF KeyOK, Lock
  <2>3. v \in Holders(s, p) /\ IsFiniteSet(Holders(s, p))
    BY <1>2, HoldersCount DEF Holders, Views
  <2>4. Cardinality(Holders(s, p) \ {v}) = Cardinality(Holders(s, p)) - 1
    BY <2>3, FS_RemoveElement
  <2> QED
    BY <2>1, <2>2, <2>3, <2>4
<1>3. CASE /\ ~NotCurrent(v, s, p) /\ l.refs > 1
           /\ locks' = [locks EXCEPT ![s][p].refs = @ - 1]
           /\ held' = [held EXCEPT ![v][p] = "no"]
           /\ UNCHANGED idle
  <2> DEFINE x == [l EXCEPT !.refs = @ - 1]
  <2>1. Exists(s, p) /\ held[v][p] = "yes" /\ l.refs > 1
    BY <1>3 DEF NotCurrent
  <2>2. locks' = [locks EXCEPT ![s][p] = x]
    BY <1>3
  <2>3. x \in Lock /\ x.refs = l.refs - 1 /\ x.proc = l.proc /\ x.retired = l.retired
    BY <1>2, <2>1 DEF Lock
  <2>4. Handed(s, p) /\ Holders(s, p)' = Holders(s, p) \ {v}
    BY <1>3, Left
  <2>5. x.refs = Cardinality(Holders(s, p)') /\ x.refs # 0
    BY <1>2, <2>1, <2>3, <2>4
  <2>6. ~l.retired /\ <<s, p>> \notin idle' /\ stopping[s] # p
    <3>1. KeyOK(s, p) /\ l.refs \in Nat /\ l.refs # 0 /\ stopping[s] # p
      BY <1>2, <2>1
    <3> QED
      BY <1>3, <2>1, <3>1 DEF KeyOK
  <2>7. Fitting(s, p, x)
    BY <2>3, <2>5, <2>6 DEF Fitting
  <2> HIDE DEF x
  <2>8. LockTypes' /\ Keys' /\ Elsewhere(s, p) /\ locks'[s][p] = x /\ x # NoLock
    BY <2>2, <2>3, <2>4, <2>7, KeyPut
  <2> QED
    BY <2>1, <2>3, <2>8, QuietPut
<1>4. CASE /\ ~NotCurrent(v, s, p) /\ StopEnded(s, p)
           /\ held' = [Staled(s, p) EXCEPT ![v][p] = "no"]
  <2>1. Exists(s, p)
    BY <1>4 DEF NotCurrent
  <2> QED
    BY <1>4, <2>1, KeyDropped
<1>5. CASE /\ ~NotCurrent(v, s, p) /\ l.refs = 1
           /\ idle' = idle \cup {<<s, p>>}
           /\ locks' = [locks EXCEPT ![s][p] = [NewEpoch(@) EXCEPT !.refs = 0, !.armed = TRUE]]
           /\ held' = [held EXCEPT ![v][p] = "no"]
  <2> DEFINE x == [NewEpoch(l) EXCEPT !.refs = 0, !.armed = TRUE]
  <2>1. Exists(s, p) /\ held[v][p] = "yes" /\ l.refs = 1
    BY <1>5 DEF NotCurrent
  <2>2. locks' = [locks EXCEPT ![s][p] = x]
    BY <1>5
  <2>3. NewEpoch(l) \in Lock /\ NewEpoch(l).proc = l.proc /\ NewEpoch(l).retired = l.retired
    BY <1>2, <2>1, LockSteps
  <2>4. x \in Lock /\ x.refs = 0 /\ x.proc = l.proc /\ x.retired = l.retired /\ x.armed
    BY <2>3 DEF Lock
  <2>5. Handed(s, p) /\ Holders(s, p)' = Holders(s, p) \ {v}
    BY <1>5, Left
  <2>6. x.refs = Cardinality(Holders(s, p)')
    BY <1>2, <2>1, <2>4, <2>5
  <2>7. ~l.retired /\ stopping[s] # p
    BY <1>2, <2>1 DEF KeyOK
  <2>8. Fitting(s, p, x)
    BY <1>5, <2>4, <2>6, <2>7 DEF Fitting
  <2> HIDE DEF x
  <2>9. LockTypes' /\ Keys' /\ Elsewhere(s, p) /\ locks'[s][p] = x /\ x # NoLock
    <3>1. UNCHANGED stopping
      OBVIOUS
    <3> QED
      BY ONLY <2>2, <2>4, <2>5, <2>8, <3>1, LockTypes, Keys, s \in Session, p \in Pane, KeyPut
  <2> QED
    BY <2>1, <2>4, <2>9, QuietPut
<1> QED
  BY <1>1, <1>3, <1>4, <1>5 DEF releaseLocked

(* reserveSizeSlot takes an idle helper, of whatever session.                   *)
LEMMA ReclaimKeys ==
  ASSUME LockTypes, Keys, NEW k \in idle, idle' = idle \ {k}, UNCHANGED <<stopping, held>>,
         locks' = [locks EXCEPT ![k[1]][k[2]] = [Cancelled(@) EXCEPT !.retired = TRUE]]
  PROVE  LockTypes' /\ Keys' /\ Quiet
<1>1. PICK s \in Session, p \in Pane : k = <<s, p>>
  BY DEF LockTypes
<1> DEFINE l == locks[s][p]
           x == [Cancelled(l) EXCEPT !.retired = TRUE]
<1>2. KeyOK(s, p) /\ <<s, p>> \in idle
  BY <1>1 DEF Keys
<1>3. Exists(s, p) /\ l.refs = Cardinality(Holders(s, p)) /\ l.refs = 0 /\ ~l.retired
  BY <1>2 DEF KeyOK
<1>4. l \in Lock
  BY <1>3 DEF LockTypes, Exists
<1>5. locks' = [locks EXCEPT ![s][p] = x] /\ idle' = idle \ {<<s, p>>}
  BY <1>1
<1>6. /\ Cancelled(l) \in Lock /\ Cancelled(l).refs = l.refs
      /\ Cancelled(l).proc = (IF l.proc = "up" THEN "ending" ELSE l.proc)
      /\ Cancelled(l).watched = l.watched
      /\ Cancelled(l).armed = l.armed /\ Cancelled(l).fired = l.fired
  BY <1>4, LockSteps
<1>7. /\ x \in Lock /\ x.refs = l.refs /\ x.retired
      /\ x.proc = (IF l.proc = "up" THEN "ending" ELSE l.proc)
      /\ x.watched = l.watched /\ x.armed = l.armed /\ x.fired = l.fired
  BY <1>6 DEF Lock
<1>8. Handed(s, p)
  BY <1>5 DEF Handed, LockTypes
<1>9. Holders(s, p)' = Holders(s, p)
  BY DEF Holders, Views
<1>10. Fitting(s, p, x)
  <2>1. l.watched \/ l.armed \/ "current" \in l.fired
    BY <1>2, <1>3 DEF KeyOK
  <2>2. x.proc # "up" /\ <<s, p>> \notin idle'
    BY <1>5, <1>7
  <2>3. stopping[s] # p
    BY <1>2, <1>3 DEF KeyOK
  <2> HIDE DEF x, l
  <2> QED
    BY <1>3, <1>7, <1>9, <2>1, <2>2, <2>3 DEF Fitting
<1> HIDE DEF x
<1>11. LockTypes' /\ Keys' /\ Elsewhere(s, p) /\ locks'[s][p] = x /\ x # NoLock
  BY <1>5, <1>7, <1>8, <1>10, KeyPut
<1> QED
  BY <1>3, <1>7, <1>11, QuietPut

-----------------------------------------------------------------------------
(* Timers, watchers and the helpers themselves.                                 *)

(* A change of a helper that has the same holders after it.                     *)
LEMMA KeySame ==
  ASSUME LockTypes, Keys, NEW s \in Session, NEW p \in Pane, NEW x \in Lock, Exists(s, p),
         locks' = [locks EXCEPT ![s][p] = x], UNCHANGED <<stopping, idle, held>>,
         KeyOK(s, p) /\ Holders(s, p)' = Holders(s, p) => Fitting(s, p, x)
  PROVE  LockTypes' /\ Keys' /\ Elsewhere(s, p) /\ locks'[s][p] = x /\ x # NoLock
<1>1. Handed(s, p)
  BY DEF Handed, LockTypes
<1>2. Holders(s, p)' = Holders(s, p) /\ KeyOK(s, p)
  BY DEF Holders, Views, Keys
<1> QED
  BY <1>1, <1>2, KeyPut

LEMMA FireKeys ==
  ASSUME LockTypes, Keys, NEW s \in Session, NEW p \in Pane, Fire(s, p)
  PROVE  LockTypes' /\ Keys' /\ Quiet
<1> DEFINE l == locks[s][p]
           x == [l EXCEPT !.armed = FALSE, !.fired = @ \cup {"current"}]
<1>1. Exists(s, p) /\ l \in Lock
  BY DEF Fire, LockTypes, Exists
<1>2. locks' = [locks EXCEPT ![s][p] = x] /\ UNCHANGED <<stopping, idle, held>>
  <2>1. locks' = [locks EXCEPT ![s][p].armed = FALSE, ![s][p].fired = @ \cup {"current"}]
    BY DEF Fire
  <2>2. [locks EXCEPT ![s][p].armed = FALSE, ![s][p].fired = @ \cup {"current"}]
          = [locks EXCEPT ![s][p] = x]
    BY <1>1 DEF LockTypes, Lock
  <2> QED
    BY <2>1, <2>2 DEF Fire
<1>3. /\ x \in Lock /\ x.refs = l.refs /\ x.retired = l.retired /\ x.proc = l.proc
      /\ "current" \in x.fired
  BY <1>1 DEF Lock
<1> HIDE DEF x
<1>4. KeyOK(s, p) /\ Holders(s, p)' = Holders(s, p) => Fitting(s, p, x)
  BY <1>1, <1>2, <1>3 DEF KeyOK, Fitting
<1>5. LockTypes' /\ Keys' /\ Elsewhere(s, p) /\ locks'[s][p] = x /\ x # NoLock
  BY <1>1, <1>2, <1>3, <1>4, KeySame
<1> QED
  BY <1>1, <1>3, <1>5, QuietPut

LEMMA LateKeys ==
  ASSUME LockTypes, Keys, NEW s \in Session, NEW p \in Pane, NEW e, Exists(s, p), ~Due(s, p, e),
         locks' = [locks EXCEPT ![s][p].fired = @ \ {e}], UNCHANGED <<stopping, idle, held>>
  PROVE  LockTypes' /\ Keys' /\ Quiet
<1> DEFINE l == locks[s][p]
           x == [l EXCEPT !.fired = @ \ {e}]
<1>1. l \in Lock /\ KeyOK(s, p)
  BY DEF LockTypes, Exists, Keys
<1>2. locks' = [locks EXCEPT ![s][p] = x]
  BY <1>1 DEF LockTypes
<1>3. /\ x \in Lock /\ x.refs = l.refs /\ x.retired = l.retired /\ x.proc = l.proc
      /\ x.armed = l.armed /\ x.watched = l.watched /\ x.fired = l.fired \ {e}
  BY <1>1 DEF Lock
<1>4. x.refs = 0 => ("current" \in x.fired <=> "current" \in l.fired)
  BY <1>3 DEF Due
<1> HIDE DEF x
<1>5. Handed(s, p) /\ Holders(s, p)' = Holders(s, p)
  BY DEF Handed, LockTypes, Holders, Views
<1>6. Fitting(s, p, x)
  BY <1>1, <1>3, <1>4, <1>5 DEF Fitting, KeyOK
<1>7. LockTypes' /\ Keys' /\ Elsewhere(s, p) /\ locks'[s][p] = x /\ x # NoLock
  BY <1>2, <1>3, <1>5, <1>6, KeyPut
<1> QED
  BY <1>3, <1>7, QuietPut

LEMMA WatchKeys ==
  ASSUME LockTypes, Keys, NEW s \in Session, NEW p \in Pane, stopping[s] = Nil, watch(s, p)
  PROVE  LockTypes' /\ Keys' /\ Quiet
<1> DEFINE l == locks[s][p]
<1>1. Exists(s, p) /\ l \in Lock /\ UNCHANGED stopping
  BY DEF watch, LockTypes, Exists
<1>2. CASE l.refs # 0 /\ locks' = [locks EXCEPT ![s][p].watched = FALSE] /\ UNCHANGED <<idle, held>>
  <2> DEFINE x == [l EXCEPT !.watched = FALSE]
  <2>1. locks' = [locks EXCEPT ![s][p] = x]
    BY <1>1, <1>2 DEF LockTypes
  <2>2. x \in Lock /\ x.refs = l.refs /\ x.retired = l.retired /\ x.proc = l.proc
    BY <1>1 DEF Lock
  <2> HIDE DEF x
  <2>3. KeyOK(s, p) /\ Holders(s, p)' = Holders(s, p) => Fitting(s, p, x)
    BY <1>1, <1>2, <2>1, <2>2 DEF KeyOK, Fitting
  <2>4. LockTypes' /\ Keys' /\ Elsewhere(s, p) /\ locks'[s][p] = x /\ x # NoLock
    BY <1>1, <1>2, <2>1, <2>2, <2>3, KeySame
  <2> QED
    BY <1>1, <2>2, <2>4, QuietPut
<1>3. CASE StopEnded(s, p) /\ held' = Staled(s, p)
  BY <1>1, <1>3, KeyEnded
<1> QED
  BY <1>2, <1>3 DEF watch

LEMMA DiesKeys ==
  ASSUME LockTypes, Keys, NEW s \in Session, NEW p \in Pane, Dies(s, p)
  PROVE  LockTypes' /\ Keys' /\ Quiet
<1> DEFINE l == locks[s][p]
           x == [l EXCEPT !.proc = "ending"]
<1>1. Exists(s, p) /\ l \in Lock /\ l.proc = "up"
  BY DEF Dies, LockTypes, Exists
<1>2. locks' = [locks EXCEPT ![s][p] = x] /\ UNCHANGED <<stopping, idle, held>>
  BY <1>1 DEF Dies, LockTypes
<1>3. /\ x \in Lock /\ x.refs = l.refs /\ x.retired = l.retired /\ x.proc = "ending"
      /\ x.armed = l.armed /\ x.fired = l.fired /\ x.watched = l.watched
  BY <1>1 DEF Lock
<1> HIDE DEF x
<1>4. KeyOK(s, p) /\ Holders(s, p)' = Holders(s, p) => Fitting(s, p, x)
  BY <1>1, <1>2, <1>3 DEF KeyOK, Fitting
<1>5. LockTypes' /\ Keys' /\ Elsewhere(s, p) /\ locks'[s][p] = x /\ x # NoLock
  BY <1>1, <1>2, <1>3, <1>4, KeySame
<1> QED
  BY <1>1, <1>3, <1>5, QuietPut

(* The three steps that are not about one helper that lives on: its end,        *)
LEMMA EndsKeys ==
  ASSUME LockTypes, Keys, NEW s \in Session, NEW p \in Pane, Ends(s, p)
  PROVE  /\ LockTypes' /\ Keys' /\ NoneNew /\ Calm
         /\ \A t \in Session, q \in Pane : locks'[t][q] = NoLock <=> locks[t][q] = NoLock
         /\ <<s, p>> \in LiveKeys /\ LiveKeys' = LiveKeys \ {<<s, p>>}
<1> DEFINE l == locks[s][p]
           x == [l EXCEPT !.proc = "done"]
<1>1. Exists(s, p) /\ l \in Lock /\ l.proc = "ending"
  BY DEF Ends, LockTypes, Exists
<1>2. locks' = [locks EXCEPT ![s][p] = x] /\ UNCHANGED <<stopping, idle, held>>
  BY <1>1 DEF Ends, LockTypes
<1>3. /\ x \in Lock /\ x.refs = l.refs /\ x.retired = l.retired /\ x.proc = "done"
      /\ x.armed = l.armed /\ x.fired = l.fired /\ x.watched = l.watched
  BY <1>1 DEF Lock
<1> HIDE DEF x
<1>4. KeyOK(s, p) /\ Holders(s, p)' = Holders(s, p) => Fitting(s, p, x)
  BY <1>1, <1>2, <1>3 DEF KeyOK, Fitting
<1>5. LockTypes' /\ Keys' /\ Elsewhere(s, p) /\ locks'[s][p] = x /\ x # NoLock
  BY <1>1, <1>2, <1>3, <1>4, KeySame
<1>6. \A t \in Session, q \in Pane : t # s \/ q # p => locks'[t][q] = locks[t][q]
  BY <1>5 DEF Elsewhere
<1>7. \A t \in Session, q \in Pane : locks'[t][q] = NoLock <=> locks[t][q] = NoLock
  BY <1>1, <1>5, <1>6 DEF Exists
<1>8. NoneNew /\ Calm
  BY <1>1, <1>3, <1>5, <1>6, <1>7 DEF NoneNew, Calm
<1>9. <<s, p>> \in LiveKeys
  BY <1>1 DEF LiveKeys
<1>10. ASSUME NEW t \in Session, NEW q \in Pane
       PROVE  <<t, q>> \in LiveKeys' <=> <<t, q>> \in LiveKeys /\ <<t, q>> # <<s, p>>
  <2>1. CASE t = s /\ q = p
    BY <2>1, <1>3, <1>5 DEF LiveKeys
  <2>2. CASE t # s \/ q # p
    BY <2>2, <1>6 DEF LiveKeys, Exists
  <2> QED
    BY <2>1, <2>2
<1>11. LiveKeys' = LiveKeys \ {<<s, p>>}
  <2>1. LiveKeys \subseteq Session \X Pane /\ LiveKeys' \subseteq Session \X Pane
    BY DEF LiveKeys
  <2> QED
    BY <1>10, <2>1
<1> QED
  BY <1>5, <1>7, <1>8, <1>9, <1>11

(* its beginning,                                                               *)
LEMMA ReadyKeys ==
  ASSUME LockTypes, WorkTypes, Keys, NEW v \in View, NEW s \in Session, s = SessionOf[v],
         NEW p \in Pane, p = job[v].pane, ~Exists(s, p), stopping[s] = Nil, Ready(v)
  PROVE  /\ LockTypes' /\ Keys'
         /\ \A t \in Session, q \in Pane : t # s \/ q # p => locks'[t][q] = locks[t][q]
         /\ locks'[s][p] # NoLock /\ locks'[s][p].proc = "up" => starting[s] = "setup"
         /\ <<s, p>> \notin LiveKeys /\ LiveKeys' = LiveKeys \cup {<<s, p>>}
<1> DEFINE x == [refs |-> 1, proc |-> IF starting[s] = "setup" THEN "up" ELSE "ending",
                 retired |-> FALSE, armed |-> FALSE, fired |-> {}, watched |-> TRUE]
<1>1. /\ locks' = [locks EXCEPT ![s][p] = x] /\ UNCHANGED <<stopping, idle>>
      /\ held' = [held EXCEPT ![v][p] = "yes"]
  BY DEF Ready, Holds
<1>2. x \in Lock
  BY DEF Lock
<1>3. /\ x.refs = 1 /\ ~x.retired /\ x.proc # "done"
      /\ x.proc = "up" => starting[s] = "setup"
  OBVIOUS
<1> HIDE DEF x
<1>4. Handed(s, p) /\ Holders(s, p)' = Holders(s, p) \cup {v}
  BY <1>1, Taken
<1>5. Holders(s, p) = {} /\ <<s, p>> \notin idle
  BY DEF Keys, KeyOK
<1>6. Holders(s, p)' = {v} /\ Cardinality({v}) = 1
  BY <1>4, <1>5, FS_Singleton
<1>7. x.refs = Cardinality(Holders(s, p)')
  BY <1>3, <1>6
<1>8. Fitting(s, p, x)
  BY <1>1, <1>3, <1>5, <1>7 DEF Fitting
<1>9. LockTypes' /\ Keys' /\ Elsewhere(s, p) /\ locks'[s][p] = x /\ x # NoLock
  BY ONLY <1>1, <1>2, <1>4, <1>8, LockTypes, Keys, s \in Session, p \in Pane, KeyPut
<1>10. \A t \in Session, q \in Pane : t # s \/ q # p => locks'[t][q] = locks[t][q]
  BY ONLY <1>9 DEF Elsewhere
<1>11. <<s, p>> \notin LiveKeys
  BY DEF LiveKeys
<1>12. ASSUME NEW t \in Session, NEW q \in Pane
       PROVE  <<t, q>> \in LiveKeys' <=> <<t, q>> \in LiveKeys \/ <<t, q>> = <<s, p>>
  <2>1. CASE t = s /\ q = p
    BY <2>1, <1>3, <1>9 DEF LiveKeys, Exists
  <2>2. CASE t # s \/ q # p
    BY <2>2, <1>10 DEF LiveKeys, Exists
  <2> QED
    BY <2>1, <2>2
<1>13. LiveKeys' = LiveKeys \cup {<<s, p>>}
  <2>1. LiveKeys \subseteq Session \X Pane /\ LiveKeys' \subseteq Session \X Pane
    BY DEF LiveKeys
  <2> QED
    BY <1>12, <2>1
<1> QED
  BY <1>3, <1>9, <1>10, <1>11, <1>13

(* and the cancelled context that ends all helpers of a session.                *)
LEMMA CancelKeys ==
  ASSUME LockTypes, Keys, NEW s \in Session, Cancel(s)
  PROVE  /\ LockTypes' /\ Keys' /\ Quiet
         /\ \A t \in Session, q \in Pane : locks'[t][q] = NoLock <=> locks[t][q] = NoLock
         /\ \A q \in Pane : locks'[s][q] # NoLock => locks'[s][q].proc # "up"
<1>1. UNCHANGED <<stopping, idle, held>>
  BY DEF Cancel
<1>2. /\ \A t \in Session : t # s => locks'[t] = locks[t]
      /\ locks'[s] = [q \in Pane |-> IF locks[s][q] = NoLock THEN NoLock
                                     ELSE Cancelled(locks[s][q])]
      /\ locks' = [locks EXCEPT ![s] = locks'[s]]
  BY DEF Cancel, LockTypes
<1>3. \A q \in Pane : locks'[s][q] = IF locks[s][q] = NoLock THEN NoLock
                                     ELSE Cancelled(locks[s][q])
  BY <1>2
<1>4. \A t \in Session, q \in Pane : locks[t][q] # NoLock => locks[t][q] \in Lock
  BY DEF LockTypes
<1>5. ASSUME NEW q \in Pane, locks[s][q] # NoLock
      PROVE  LET l == locks[s][q]
                 x == locks'[s][q]
             IN  /\ x \in Lock /\ x # NoLock /\ x.refs = l.refs /\ x.retired = l.retired
                 /\ x.proc = (IF l.proc = "up" THEN "ending" ELSE l.proc)
                 /\ x.armed = l.armed /\ x.fired = l.fired /\ x.watched = l.watched
  BY <1>3, <1>4, <1>5, LockSteps
<1>6. locks'[s] \in [Pane -> Lock \cup {NoLock}]
  <2>1. \A q \in Pane : (IF locks[s][q] = NoLock THEN NoLock ELSE Cancelled(locks[s][q]))
                          \in Lock \cup {NoLock}
    BY <1>3, <1>5
  <2> QED
    BY <1>2, <2>1
<1>7. LockTypes'
  BY <1>1, <1>2, <1>6 DEF LockTypes
<1>8. \A t \in Session, q \in Pane : locks'[t][q] = NoLock <=> locks[t][q] = NoLock
  BY <1>2, <1>3, <1>5
<1>9. \A q \in Pane : locks'[s][q] # NoLock => locks'[s][q].proc # "up"
  BY <1>3, <1>5
<1>10. ASSUME NEW t \in Session, NEW q \in Pane PROVE KeyOK(t, q)'
  <2>1. KeyOK(t, q) /\ Holders(t, q)' = Holders(t, q)
    BY <1>1 DEF Keys, Holders, Views
  <2>2. CASE locks'[t][q] = locks[t][q]
    BY <1>1, <2>1, <2>2 DEF KeyOK, Exists
  <2>3. CASE t = s /\ locks[s][q] # NoLock
    BY <1>1, <1>5, <2>1, <2>3 DEF KeyOK, Exists
  <2> QED
    BY <1>2, <1>3, <2>2, <2>3
<1>11. ASSUME NEW t \in Session, NEW q \in Pane
       PROVE  locks'[t][q] = locks[t][q] \/ CarriesOn(t, q)
  <2>1. CASE t = s /\ locks[s][q] # NoLock
    BY <1>5, <2>1 DEF CarriesOn
  <2> QED
    BY <1>2, <1>3, <2>1
<1> QED
  BY <1>7, <1>8, <1>9, <1>10, <1>11, AllGoOn DEF Keys

-----------------------------------------------------------------------------
(* Who is at work.                                                              *)

(* A step at session s leaves the other sessions' work alone.                   *)
Away(s) ==
  \A t \in Session : t # s =>
    /\ starting'[t] = starting[t] /\ panes'[t] = panes[t] /\ stopping'[t] = stopping[t]
    /\ \A q \in Pane : locks'[t][q] = NoLock <=> locks[t][q] = NoLock

(* What a viewer of s that goes on with job k relies on from then on.           *)
Sound(s, k) ==
  /\ k.at \in Acquiring => k.pane \in Pane /\ locks'[s][k.pane] = NoLock
  /\ k.at = "purge" => /\ panes'[s] # Nil
                       /\ \A p \in k.todo : /\ locks'[s][p] # NoLock /\ p \notin panes'[s]
                                            /\ stopping'[s] # p
  /\ k.at \in {"setup", "failed"} <=> starting'[s] # "no"
  /\ stopping'[s] # Nil => k.at = "purge"

LEMMA OthersRely ==
  ASSUME WorkTypes, AtWork, NEW s \in Session, Away(s), NEW w \in View, SessionOf[w] # s,
         job'[w] = job[w], mu'[SessionOf[w]] = mu[SessionOf[w]]
  PROVE  Relies(w)' /\ (w \in Setups' <=> w \in Setups)
<1>1. PICK t \in Session : t = SessionOf[w] /\ t # s
  OBVIOUS
<1>2. /\ starting'[t] = starting[t] /\ panes'[t] = panes[t] /\ stopping'[t] = stopping[t]
      /\ \A q \in Pane : locks'[t][q] = NoLock <=> locks[t][q] = NoLock
  BY <1>1 DEF Away
<1>3. Relies(w)
  BY DEF AtWork
<1>4. job[w].todo \subseteq Pane
  BY DEF WorkTypes, Job
<1>5. mu'[t] = mu[t]
  BY <1>1
<1>6. Relies(w)'
  BY <1>1, <1>2, <1>3, <1>4, <1>5 DEF Relies, Exists
<1>7. w \in Setups' <=> w \in Setups
  BY <1>1, <1>2 DEF Setups
<1> QED
  BY <1>6, <1>7

LEMMA OthersAttended ==
  ASSUME WorkTypes, AtWork, NEW s \in Session, Away(s), NEW t \in Session, t # s,
         mu'[t] = mu[t], \A w \in View : SessionOf[w] # s => job'[w] = job[w]
  PROVE  Attended(t)'
<1>1. starting'[t] = starting[t] /\ stopping'[t] = stopping[t] /\ Attended(t)
  BY DEF Away, AtWork
<1>2. CASE mu[t] \in View
  <2>1. PICK w \in View : w = mu[t] /\ SessionOf[w] = t
    BY <1>1, <1>2 DEF Attended
  <2>2. job'[w] = job[w]
    BY <2>1
  <2>3. /\ starting[t] # "no" => job[w].at \in {"setup", "failed"}
        /\ stopping[t] # Nil => w \in {"timer", "close"} \/ job[w].at = "purge"
    BY <1>1, <2>1 DEF Attended
  <2>4. mu'[t] = w
    BY <2>1
  <2> QED
    BY <1>1, <2>1, <2>2, <2>3, <2>4 DEF Attended
<1>3. CASE mu[t] \notin View
  BY <1>1, <1>3 DEF Attended
<1> QED
  BY <1>2, <1>3

(* A viewer goes on with the mutex that it has or that nobody has.              *)
TypesNext ==
  /\ starting' \in [Session -> {"no", "setup", "killed", "ending", "done"}]
  /\ idleMu' \in View \cup {Nil}
  /\ panes' \in [Session -> (SUBSET Pane) \cup {Nil}]
  /\ life' = life

Goes(v, s, k) ==
  /\ job' = [job EXCEPT ![v] = k]
  /\ mu' = [mu EXCEPT ![s] = IF k.at \in {"out", "over"} THEN Nil ELSE v]
  /\ mu[s] \in {v, Nil}
  /\ starting'[s] = "setup" => starting[s] = "setup" \/ life[s] = "open"
  /\ life[s] = "closed" => k.at \in {"out", "over", "drop"}

LEMMA ViewMove ==
  ASSUME WorkTypes, AtWork, NEW v \in View, NEW s \in Session, s = SessionOf[v], NEW k \in Job,
         Goes(v, s, k), TypesNext, Away(s), Sound(s, k)
  PROVE  /\ WorkTypes' /\ AtWork' /\ job'[v] = k
         /\ \A w \in View : w # v => job'[w] = job[w]
         /\ \A t \in Session : t # s => mu'[t] = mu[t]
         /\ \A w \in View : w # v => (w \in Setups' <=> w \in Setups)
         /\ v \in Setups' <=> \/ k.at = "slot"
                              \/ k.at \in {"setup", "failed"} /\ starting'[s] # "done"
<1>1. job'[v] = k /\ \A w \in View : w # v => job'[w] = job[w]
  BY DEF WorkTypes, Goes
<1>2. mu'[s] = IF k.at \in {"out", "over"} THEN Nil ELSE v
  BY DEF WorkTypes, Goes
<1>3. \A t \in Session : t # s => mu'[t] = mu[t]
  BY DEF WorkTypes, Goes
<1>4. WorkTypes'
  <2>1. mu' \in [Session -> View \cup {"timer", "close", Nil}]
    BY DEF WorkTypes, Goes
  <2> QED
    BY <2>1 DEF WorkTypes, Goes, TypesNext
<1>5. ASSUME NEW w \in View, w # v, SessionOf[w] = s
      PROVE  job[w].at \in {"out", "over"} /\ Relies(w)' /\ w \notin Setups /\ w \notin Setups'
  <2>1. mu[s] # w
    BY <1>5 DEF Goes
  <2>2. job[w].at \in {"out", "over"}
    BY <1>5, <2>1 DEF AtWork, Relies
  <2>3. job'[w].at \in {"out", "over"} /\ mu'[s] # w
    BY <1>1, <1>2, <1>5, <2>2
  <2> QED
    BY <1>5, <2>2, <2>3 DEF Relies, Acquiring, Setups
<1>6. ASSUME NEW w \in View, SessionOf[w] # s
      PROVE  Relies(w)' /\ (w \in Setups' <=> w \in Setups)
  <2>1. w # v /\ SessionOf[w] \in Session
    BY <1>6
  <2> QED
    BY <1>1, <1>3, <1>6, <2>1, OthersRely
<1>7. Relies(v)'
  <2>1. job'[v].at \in {"out", "over"} <=> mu'[s] # v
    BY <1>1, <1>2
  <2> QED
    BY <1>1, <2>1 DEF Relies, Sound, Exists
<1>8. Attended(s)'
  <2>1. mu'[s] \in View => mu'[s] = v
    BY <1>2
  <2>2. k.at \in {"setup", "failed", "purge"} => mu'[s] = v
    BY <1>2
  <2> QED
    BY <1>1, <2>1, <2>2 DEF Attended, Sound
<1>9. \A t \in Session : t # s => Attended(t)'
  <2>1. \A w \in View : SessionOf[w] # s => job'[w] = job[w]
    BY <1>1
  <2> QED
    BY <1>3, <2>1, OthersAttended
<1>10. v \in Setups' <=> \/ k.at = "slot"
                         \/ k.at \in {"setup", "failed"} /\ starting'[s] # "done"
  BY <1>1 DEF Setups
<1> QED
  BY <1>1, <1>3, <1>4, <1>5, <1>6, <1>7, <1>8, <1>9, <1>10 DEF AtWork

(* A step that is no viewer's may pass the mutex on among the others.           *)
Turns(s, m) ==
  /\ mu' = [mu EXCEPT ![s] = m]
  /\ m = mu[s] \/ (m \notin View /\ mu[s] \notin View)
  /\ mu[s] \in View => \A p \in Pane : Exists(s, p) /\ stopping[s] # p =>
                        locks'[s][p] # NoLock /\ stopping'[s] # p
  /\ stopping'[s] # Nil => \/ m \in {"timer", "close"}
                           \/ m \in View /\ job[m].at = "purge"

Runs(s) ==
  /\ starting' \in [Session -> {"no", "setup", "killed", "ending", "done"}]
  /\ starting'[s] = "no" <=> starting[s] = "no"
  /\ UNCHANGED <<job, panes>>

LEMMA SessionMove ==
  ASSUME WorkTypes, AtWork, NEW s \in Session, Away(s), NoneNew,
         NEW m \in View \cup {"timer", "close", Nil}, Turns(s, m), Runs(s)
  PROVE  /\ WorkTypes' /\ AtWork'
         /\ \A w \in View : SessionOf[w] # s => (w \in Setups' <=> w \in Setups)
         /\ (starting'[s] = "done" <=> starting[s] = "done") => Setups' = Setups
<1>1. /\ mu'[s] = m /\ \A t \in Session : t # s => mu'[t] = mu[t]
      /\ UNCHANGED <<job, panes>>
  BY DEF WorkTypes, Turns, Runs
<1>2. WorkTypes'
  <2>1. mu' \in [Session -> View \cup {"timer", "close", Nil}]
    BY DEF WorkTypes, Turns
  <2> QED
    BY <2>1 DEF WorkTypes, Runs
<1>3. ASSUME NEW w \in View, SessionOf[w] # s
      PROVE  Relies(w)' /\ (w \in Setups' <=> w \in Setups)
  <2>1. SessionOf[w] \in Session
    OBVIOUS
  <2> QED
    BY <1>1, <1>3, <2>1, OthersRely
<1>4. ASSUME NEW w \in View, SessionOf[w] = s PROVE Relies(w)'
  <2>1. mu'[s] # w <=> mu[s] # w
    BY <1>1 DEF Turns
  <2>2. Relies(w)
    BY DEF AtWork
  <2>3. CASE mu[s] # w
    <3>1. job[w].at \in {"out", "over"}
      BY <1>4, <2>2, <2>3 DEF Relies
    <3> QED
      BY <1>1, <1>4, <2>1, <2>3, <3>1 DEF Relies, Acquiring
  <2>4. CASE mu[s] = w
    <3>1. job[w].at \notin {"out", "over"} /\ job[w].todo \subseteq Pane
      BY <1>4, <2>2, <2>4 DEF Relies, WorkTypes, Job
    <3>2. \A p \in Pane : Exists(s, p) /\ stopping[s] # p =>
                             locks'[s][p] # NoLock /\ stopping'[s] # p
      BY <2>4 DEF Turns
    <3>3. job'[w].at = "purge" => /\ panes'[s] # Nil
                            /\ \A p \in job[w].todo : /\ locks'[s][p] # NoLock /\ p \notin panes'[s]
                                                      /\ stopping'[s] # p
      BY <1>1, <1>4, <2>2, <3>1, <3>2 DEF Relies
    <3>4. job'[w].at \in Acquiring => job[w].pane \in Pane /\ locks'[s][job[w].pane] = NoLock
      BY <1>1, <1>4, <2>2 DEF Relies, Exists, NoneNew
    <3>5. job'[w].at \in {"setup", "failed"} => starting'[s] # "no"
      BY <1>1, <1>4, <2>2 DEF Relies, Runs
    <3> QED
      BY <1>1, <1>4, <2>1, <2>4, <3>1, <3>3, <3>4, <3>5 DEF Relies, Exists
  <2> QED
    BY <2>3, <2>4
<1>5. Attended(s)'
  <2>1. Attended(s)
    BY DEF AtWork
  <2>2. m \in View => m = mu[s] /\ SessionOf[m] = s
    BY <2>1 DEF Attended, Turns
  <2>3. starting'[s] # "no" => m \in View /\ job[m].at \in {"setup", "failed"}
    BY <2>1 DEF Attended, Turns, Runs
  <2> QED
    BY <1>1, <2>2, <2>3 DEF Attended, Turns
<1>6. \A t \in Session : t # s => Attended(t)'
  BY <1>1, OthersAttended
<1>7. ASSUME starting'[s] = "done" <=> starting[s] = "done"
      PROVE  Setups' = Setups
  <2>1. \A w \in View : SessionOf[w] = s => (w \in Setups' <=> w \in Setups)
    BY <1>1, <1>7 DEF Setups
  <2>2. \A w \in View : w \in Setups' <=> w \in Setups
    BY <1>3, <2>1
  <2> QED
    BY <2>2 DEF Setups
<1> QED
  BY <1>2, <1>3, <1>4, <1>5, <1>6, <1>7 DEF AtWork

-----------------------------------------------------------------------------
(* How reconcile goes on when it is done with a pane: it does not purge or      *)
(* acquire, so it relies on nothing.                                            *)
Easy == {"check", "take", "drop", "out", "over"}

Moves(v, ats) ==
  \E k \in Job : /\ k.at \in ats
                 /\ k.at \in {"check", "take", "drop"} => k.todo # {} \/ k = job[v]
                 /\ job' = [job EXCEPT ![v] = k]
                 /\ mu' = [mu EXCEPT ![SessionOf[v]] = IF k.at \in {"out", "over"} THEN Nil ELSE v]

LEMMA ProceedsMoves ==
  ASSUME WorkTypes, NEW v \in View, NEW j \in Job, j.at \in {"check", "take", "drop"},
         Proceeds(v, j)
  PROVE  Moves(v, Easy) /\ (j.at = "drop" => Moves(v, {"drop", "out"}))
<1> DEFINE k1 == Taking(j)
           k2 == Dropping(k1, held'[v])
           k  == IF k2.at = "drop" /\ k2.todo = {} THEN Out ELSE k2
<1>1. /\ k1 \in Job /\ k1.at \in {"check", "take", "drop"} /\ (j.at = "drop" => k1.at = "drop")
      /\ k1.at = "check" => k1.todo # {}
  BY DEF Taking, Job, Phase
<1> HIDE DEF k1
<1>2. /\ k2 \in Job /\ k2.at \in {"check", "take", "drop"} /\ (j.at = "drop" => k2.at = "drop")
      /\ k2.at \in {"check", "take"} => k2.todo # {}
  <2> DEFINE d == {p \in Pane \ k1.want : held'[v][p] # "no"}
  <2>1. d \in SUBSET Pane
    OBVIOUS
  <2>2. k2 = IF k1.at = "take" /\ k1.todo = {} THEN [k1 EXCEPT !.at = "drop", !.todo = d] ELSE k1
    BY DEF Dropping
  <2> HIDE DEF k2, d
  <2>3. CASE k1.at = "take" /\ k1.todo = {}
    BY <1>1, <2>1, <2>2, <2>3 DEF Job, Phase
  <2>4. CASE ~(k1.at = "take" /\ k1.todo = {})
    BY <1>1, <2>2, <2>4
  <2> QED
    BY <2>3, <2>4
<1>3. /\ mu' = [mu EXCEPT ![SessionOf[v]] = IF k2.at = "drop" /\ k2.todo = {} THEN Nil ELSE v]
      /\ job' = [job EXCEPT ![v] = k]
  BY DEF Proceeds, k1
<1> HIDE DEF k2
<1>4. Out \in Job /\ Out.at = "out"
  BY DEF Out, Job, Phase
<1>5. k \in Job /\ (k.at \in {"out", "over"} <=> k2.at = "drop" /\ k2.todo = {})
  BY <1>2, <1>4
<1>6. /\ k.at \in Easy /\ (j.at = "drop" => k.at \in {"drop", "out"})
      /\ k.at \in {"check", "take", "drop"} => k.todo # {}
  BY <1>2, <1>4 DEF Easy
<1> HIDE DEF k
<1> QED
  BY <1>3, <1>5, <1>6 DEF Moves

LEMMA FailsMoves ==
  ASSUME NEW v \in View, Fails(v) PROVE Moves(v, Easy)
<1> DEFINE k == [Out EXCEPT !.at = "over"]
<1>1. k \in Job /\ k.at = "over"
  BY DEF Out, Job, Phase
<1>2. mu' = [mu EXCEPT ![SessionOf[v]] = Nil] /\ job' = [job EXCEPT ![v] = k]
  BY DEF Fails
<1> HIDE DEF k
<1> QED
  BY <1>1, <1>2 DEF Moves, Easy

LEMMA GivesUpMoves ==
  ASSUME WorkTypes, NEW v \in View, NEW p, NEW at \in {"check", "take"}, GivesUp(v, p, at)
  PROVE  Moves(v, Easy)
<1> DEFINE j == [at |-> at, pane |-> Nil, todo |-> job[v].todo \ {p}, want |-> job[v].want \ {p}]
<1>1. job[v].todo \in SUBSET Pane /\ job[v].want \in SUBSET Pane
  BY DEF WorkTypes, Job
<1>2. j \in Job /\ j.at = at
  BY <1>1 DEF Job, Phase
<1>3. Proceeds(v, j) \/ Fails(v)
  BY DEF GivesUp
<1> HIDE DEF j
<1> QED
  BY <1>2, <1>3, ProceedsMoves, FailsMoves

LEMMA DoneMoves ==
  ASSUME WorkTypes, NEW v \in View, NEW p, job[v].at \in {"check", "take", "drop"}, Done(v, p)
  PROVE  Moves(v, Easy) /\ (job[v].at = "drop" => Moves(v, {"drop", "out"}))
<1> DEFINE j == [job[v] EXCEPT !.todo = @ \ {p}, !.pane = Nil]
<1>1. j \in Job /\ j.at = job[v].at
  <2>1. job[v] \in Job /\ job[v].todo \ {p} \in SUBSET Pane
    BY DEF WorkTypes, Job
  <2> QED
    BY <2>1 DEF Job, Phase
<1>2. Proceeds(v, j)
  BY DEF Done
<1> HIDE DEF j
<1> QED
  BY <1>1, <1>2, ProceedsMoves

LEMMA HoldsMoves ==
  ASSUME WorkTypes, NEW v \in View, NEW p, Holds(v, p)
  PROVE  Moves(v, Easy)
<1> DEFINE j == [job[v] EXCEPT !.at = "take", !.pane = Nil, !.todo = @ \ {p}]
<1>1. j \in Job /\ j.at = "take"
  <2>1. job[v] \in Job /\ job[v].todo \ {p} \in SUBSET Pane
    BY DEF WorkTypes, Job
  <2> QED
    BY <2>1 DEF Job, Phase
<1>2. Proceeds(v, j)
  BY DEF Holds
<1> HIDE DEF j
<1> QED
  BY <1>1, <1>2, ProceedsMoves

(* It stays where it is, with the mutex that it has.                            *)
LEMMA StaysMoves ==
  ASSUME WorkTypes, NEW v \in View, job[v].at \in {"check", "take"}, mu[SessionOf[v]] = v,
         UNCHANGED <<mu, job>>
  PROVE  Moves(v, Easy)
<1> DEFINE k == job[v]
<1>1. k \in Job /\ job' = [job EXCEPT ![v] = k] /\ mu' = [mu EXCEPT ![SessionOf[v]] = v]
  BY DEF WorkTypes
<1> QED
  BY <1>1 DEF Moves, Easy

-----------------------------------------------------------------------------
(* The budget after a step.                                                     *)
LEMMA CountTypes ==
  /\ IsFiniteSet(LiveKeys) /\ Cardinality(LiveKeys) \in Nat
  /\ IsFiniteSet(Setups) /\ Cardinality(Setups) \in Nat
<1>1. IsFiniteSet(Session \X Pane)
  BY FS_Product
<1>2. LiveKeys \subseteq Session \X Pane /\ Setups \subseteq View
  BY DEF LiveKeys, Setups
<1>3. IsFiniteSet(LiveKeys) /\ IsFiniteSet(Setups)
  BY <1>1, <1>2, FS_Subset
<1> QED
  BY <1>3, FS_CardinalityType

(* A viewer may take a slot, or give back the one that it has.                  *)
Paid(v) ==
  /\ \A w \in View : w # v => (w \in Setups' <=> w \in Setups)
  /\ \/ slots' = slots /\ (v \in Setups' <=> v \in Setups)
     \/ slots' = slots + 1 /\ slots < MaxSlots /\ v \notin Setups /\ v \in Setups'
     \/ slots' = slots - 1 /\ v \in Setups /\ v \notin Setups'

LEMMA PaidCounts ==
  ASSUME Counted, slots \in 0 .. MaxSlots, NEW v \in View, Paid(v), LiveKeys' = LiveKeys
  PROVE  Counted' /\ slots' \in 0 .. MaxSlots
<1>1. Setups \subseteq View /\ Setups' \subseteq View
  BY DEF Setups
<1>2. /\ IsFiniteSet(Setups) /\ Cardinality(Setups) \in Nat /\ Cardinality(LiveKeys) \in Nat
      /\ slots = Cardinality(LiveKeys) + Cardinality(Setups)
  BY CountTypes DEF Counted
<1>3. CASE slots' = slots /\ (v \in Setups' <=> v \in Setups)
  <2>1. Setups' = Setups
    BY <1>1, <1>3 DEF Paid
  <2> QED
    BY <1>2, <1>3, <2>1 DEF Counted
<1>4. CASE slots' = slots + 1 /\ slots < MaxSlots /\ v \notin Setups /\ v \in Setups'
  <2>1. Setups' = Setups \cup {v}
    BY <1>1, <1>4 DEF Paid
  <2>2. Cardinality(Setups \cup {v}) = Cardinality(Setups) + 1
    BY <1>2, <1>4, FS_AddElement
  <2>3. Cardinality(Setups') = Cardinality(Setups) + 1
    BY <2>1, <2>2
  <2>4. Cardinality(LiveKeys') = Cardinality(LiveKeys)
    OBVIOUS
  <2>5. slots' \in 0 .. MaxSlots
    BY <1>4
  <2>6. slots' = Cardinality(LiveKeys)' + Cardinality(Setups)'
    BY <1>2, <1>4, <2>3, <2>4
  <2> QED
    BY <2>5, <2>6 DEF Counted
<1>5. CASE slots' = slots - 1 /\ v \in Setups /\ v \notin Setups'
  <2>1. Setups' = Setups \ {v}
    BY <1>1, <1>5 DEF Paid
  <2>2. Cardinality(Setups \ {v}) = Cardinality(Setups) - 1 /\ Cardinality(Setups \ {v}) \in Nat
    BY <1>2, <1>5, FS_RemoveElement, FS_CardinalityType
  <2>3. Cardinality(Setups') = Cardinality(Setups) - 1 /\ Cardinality(Setups') \in Nat
    BY <2>1, <2>2
  <2>4. Cardinality(LiveKeys') = Cardinality(LiveKeys)
    OBVIOUS
  <2>5. slots' = Cardinality(LiveKeys)' + Cardinality(Setups)'
    BY <1>2, <1>5, <2>3, <2>4
  <2>6. slots' \in 0 .. MaxSlots
    BY <1>2, <1>5, <2>3
  <2> QED
    BY <2>5, <2>6 DEF Counted
<1> QED
  BY <1>3, <1>4, <1>5 DEF Paid

(* No viewer of a session that is closed has anything left to do but to leave.  *)
LEMMA ViewerLeaves ==
  ASSUME \A t \in Session : Leaving(t), NEW v \in View, NEW s \in Session, s = SessionOf[v],
         UNCHANGED life, NoneNew, Calm, mu[s] \in {v, Nil}, mu'[s] \in {v, Nil},
         \A t \in Session : t # s => mu'[t] = mu[t] /\ starting'[t] = starting[t],
         \A w \in View : w # v => job'[w] = job[w],
         starting'[s] = "setup" => starting[s] = "setup" \/ life[s] = "open",
         life[s] = "closed" => job'[v].at \in {"out", "over", "drop"}
  PROVE  \A t \in Session : Leaving(t)'
<1> SUFFICES ASSUME NEW t \in Session PROVE Leaving(t)'
  OBVIOUS
<1>1. Leaving(t)
  OBVIOUS
<1>2. life'[t] # "open" => /\ starting'[t] # "setup"
                           /\ \A p \in Pane : locks'[t][p] # NoLock => locks'[t][p].proc # "up"
  <2>1. starting'[t] = "setup" => starting[t] = "setup" \/ life[t] = "open"
    OBVIOUS
  <2>2. \A p \in Pane : /\ locks'[t][p] # NoLock => locks[t][p] # NoLock
                        /\ locks'[t][p] # NoLock /\ locks'[t][p].proc = "up"
                             => locks[t][p].proc = "up"
    BY DEF NoneNew, Calm
  <2> QED
    BY <1>1, <2>1, <2>2 DEF Leaving, Exists
<1>3. mu'[t] = "close" <=> mu[t] = "close"
  OBVIOUS
<1>4. life'[t] = "closed" => \A w \in Views(t) : job'[w].at \in {"out", "over", "drop"}
  BY <1>1 DEF Leaving, Views
<1>5. life'[t] = "closed" /\ mu'[t] # "close" => \A p \in Pane : locks'[t][p] = NoLock
  BY <1>1, <1>3 DEF Leaving, Exists, NoneNew
<1> QED
  BY <1>1, <1>2, <1>3, <1>4, <1>5 DEF Leaving, Exists, Views

-----------------------------------------------------------------------------
(* A step of a viewer that starts no helper yet.                                *)
(* Whether a viewer has a slot for the helper it sets up.                       *)
HasSlot(k, state) == \/ k.at = "slot"
                     \/ k.at \in {"setup", "failed"} /\ state # "done"

Charged(v, s, k) ==
  \/ slots' = slots /\ (HasSlot(k, starting'[s]) <=> HasSlot(job[v], starting[s]))
  \/ /\ slots' = slots + 1 /\ slots < MaxSlots
     /\ ~HasSlot(job[v], starting[s]) /\ HasSlot(k, starting'[s])
  \/ slots' = slots - 1 /\ HasSlot(job[v], starting[s]) /\ ~HasSlot(k, starting'[s])

LEMMA ViewStep ==
  ASSUME LocksInv, NEW v \in View, NEW s \in Session, s = SessionOf[v], NEW k \in Job,
         Goes(v, s, k), Charged(v, s, k), TypesNext, Away(s), Sound(s, k),
         LockTypes', Keys', Quiet
  PROVE  LocksInv'
<1>1. /\ LockTypes /\ WorkTypes /\ OtherTypes /\ Keys /\ AtWork /\ Counted
      /\ \A t \in Session : Leaving(t)
  BY TypeParts DEF LocksInv
<1>2. /\ WorkTypes' /\ AtWork' /\ job'[v] = k
      /\ \A w \in View : w # v => job'[w] = job[w]
      /\ \A t \in Session : t # s => mu'[t] = mu[t]
      /\ \A w \in View : w # v => (w \in Setups' <=> w \in Setups)
      /\ v \in Setups' <=> \/ k.at = "slot"
                           \/ k.at \in {"setup", "failed"} /\ starting'[s] # "done"
  BY <1>1, ViewMove
<1>3. v \in Setups <=> HasSlot(job[v], starting[s])
  BY DEF Setups, HasSlot
<1>4. Paid(v)
  BY <1>2, <1>3 DEF Paid, Charged, HasSlot
<1>5. slots \in 0 .. MaxSlots
  BY <1>1 DEF OtherTypes
<1>6. NoneNew /\ Calm /\ LiveKeys' = LiveKeys
  BY DEF Quiet, LiveSame
<1>7. Counted' /\ slots' \in 0 .. MaxSlots
  BY <1>1, <1>4, <1>5, <1>6, PaidCounts
<1>8. OtherTypes'
  BY <1>1, <1>7 DEF OtherTypes, TypesNext
<1>9. \A t \in Session : Leaving(t)'
  <2>1. mu'[s] \in {v, Nil}
    BY <1>1 DEF Goes, WorkTypes
  <2>2. \A t \in Session : t # s => mu'[t] = mu[t] /\ starting'[t] = starting[t]
    BY <1>2 DEF Away
  <2>3. life[s] = "closed" => job'[v].at \in {"out", "over", "drop"}
    BY <1>2 DEF Goes
  <2>4. /\ UNCHANGED life /\ mu[s] \in {v, Nil}
        /\ starting'[s] = "setup" => starting[s] = "setup" \/ life[s] = "open"
    BY DEF Goes, TypesNext
  <2> QED
    BY ONLY <1>1, <1>2, <1>6, <2>1, <2>2, <2>3, <2>4, ViewerLeaves, v \in View, s \in Session,
            s = SessionOf[v]
<1>10. TypeOK'
  BY <1>2, <1>8 DEF TypeOK, LockTypes, WorkTypes, OtherTypes
<1> QED
  BY <1>2, <1>7, <1>9, <1>10 DEF LocksInv

(* A step after which it relies on nothing.                                     *)
LEMMA EasyStep ==
  ASSUME LocksInv, NEW v \in View, NEW s \in Session, s = SessionOf[v], Moves(v, Easy),
         mu[s] \in {v, Nil}, life[s] = "closed" => job'[v].at \in {"out", "over", "drop"},
         starting'[s] = "no", stopping'[s] = Nil, TypesNext, Away(s),
         \/ slots' = slots /\ ~HasSlot(job[v], starting[s])
         \/ slots' = slots - 1 /\ HasSlot(job[v], starting[s]),
         LockTypes', Keys', Quiet
  PROVE  LocksInv'
<1>1. PICK k \in Job :
        /\ k.at \in Easy /\ job' = [job EXCEPT ![v] = k]
        /\ mu' = [mu EXCEPT ![SessionOf[v]] = IF k.at \in {"out", "over"} THEN Nil ELSE v]
  BY DEF Moves
<1>2. job'[v] = k
  BY <1>1 DEF LocksInv, TypeOK
<1>3. Goes(v, s, k)
  BY <1>1, <1>2 DEF Goes
<1>4. Sound(s, k)
  BY <1>1 DEF Sound, Easy, Acquiring
<1>5. ~HasSlot(k, starting'[s])
  BY <1>1 DEF HasSlot, Easy
<1>6. Charged(v, s, k)
  BY <1>5 DEF Charged
<1> QED
  BY ONLY LocksInv, v \in View, s \in Session, s = SessionOf[v], k \in Job, <1>3, <1>4, <1>6,
          TypesNext, Away(s), LockTypes', Keys', Quiet, ViewStep

LEMMA MovesAt ==
  ASSUME WorkTypes, NEW v \in View, NEW ats, Moves(v, ats)
  PROVE  job'[v].at \in ats
BY DEF Moves, WorkTypes

(* What the invariant says of a viewer that makes a step.                       *)
LEMMA AtHand ==
  ASSUME LocksInv, NEW v \in View, NEW s \in Session, s = SessionOf[v]
  PROVE  /\ LockTypes /\ WorkTypes /\ OtherTypes /\ Keys /\ Relies(v) /\ Attended(s) /\ Leaving(s)
         /\ job[v] \in Job
         /\ job[v].at \notin {"out", "over"} => mu[s] = v
         /\ mu[s] \in {v, Nil} => (job[v].at \notin {"setup", "failed"} => starting[s] = "no")
         /\ mu[s] \in {v, Nil} => (job[v].at # "purge" => stopping[s] = Nil)
         /\ mu[s] = Nil => stopping[s] = Nil
         /\ job[v].at \notin {"out", "over", "drop"} => life[s] # "closed"
         /\ job[v].at \in Acquiring => job[v].pane \in Pane /\ ~Exists(s, job[v].pane)
<1>1. /\ LockTypes /\ WorkTypes /\ OtherTypes /\ Keys /\ Relies(v) /\ Attended(s) /\ Leaving(s)
  BY TypeParts DEF LocksInv, AtWork
<1>2. job[v] \in Job /\ mu[s] \in View \cup {"timer", "close", Nil}
  BY <1>1 DEF WorkTypes
<1>3. v \notin {"timer", "close", Nil} /\ Nil \notin View \cup {"timer", "close"}
  OBVIOUS
<1>4. /\ job[v].at \notin {"out", "over"} => mu[s] = v
      /\ job[v].at \in Acquiring => job[v].pane \in Pane /\ ~Exists(s, job[v].pane)
  BY <1>1 DEF Relies
<1>5. mu[s] \in {v, Nil} => (job[v].at \notin {"setup", "failed"} => starting[s] = "no")
  BY <1>1, <1>3 DEF Attended
<1>6. /\ mu[s] \in {v, Nil} => (job[v].at # "purge" => stopping[s] = Nil)
      /\ mu[s] = Nil => stopping[s] = Nil
  BY <1>1, <1>3 DEF Attended
<1>7. job[v].at \notin {"out", "over", "drop"} => life[s] # "closed"
  BY <1>1 DEF Leaving, Views
<1> QED
  BY <1>1, <1>2, <1>4, <1>5, <1>6, <1>7

(* Steps that leave the helpers of other sessions as they are.                  *)
LEMMA AwaySame ==
  ASSUME LockTypes, WorkTypes, OtherTypes, NEW s \in Session,
         UNCHANGED <<stopping, panes, starting>>,
         \A t \in Session, q \in Pane : t # s => locks'[t][q] = locks[t][q]
  PROVE  Away(s)
BY DEF Away

LEMMA DeletedElsewhere ==
  ASSUME LockTypes, NEW s \in Session, NEW p \in Pane, NEW x,
         locks' = [locks EXCEPT ![s][p] = x]
  PROVE  \A t \in Session, q \in Pane : t # s => locks'[t][q] = locks[t][q]
BY DEF LockTypes

-----------------------------------------------------------------------------
(* The viewers' steps, one by one.                                              *)

LEMMA CheckStep ==
  ASSUME LocksInv, NEW v \in View, Check(v) PROVE LocksInv'
<1> DEFINE s == SessionOf[v]
<1>1. s \in Session /\ job[v].at = "check" /\ stopping[s] = Nil
  BY DEF Check, Working
<1>2. PICK p \in job[v].todo : CheckPane(v, s, p)
  BY DEF Check
<1>3. /\ LockTypes /\ WorkTypes /\ OtherTypes /\ Keys /\ job[v] \in Job
      /\ mu[s] = v /\ starting[s] = "no" /\ life[s] # "closed"
  BY <1>1, AtHand
<1>4. p \in Pane
  BY <1>2, <1>3 DEF Job
<1>5. UNCHANGED <<idleMu, slots, stopping, starting, panes, life>>
  BY DEF Check
<1>6. TypesNext
  BY <1>3, <1>5 DEF TypesNext, WorkTypes, OtherTypes
<1>7. ~HasSlot(job[v], starting[s])
  BY <1>1 DEF HasSlot
<1> HIDE DEF s
<1>8. CASE Exists(s, p) /\ StopEnded(s, p) /\ held' = Staled(s, p)
           /\ (UNCHANGED <<mu, job>> \/ GivesUp(v, p, "check"))
  <2>1. LockTypes' /\ Keys' /\ Quiet
    BY <1>1, <1>3, <1>4, <1>5, <1>8, KeyEnded
  <2>2. Moves(v, Easy)
    BY <1>1, <1>3, <1>8, StaysMoves, GivesUpMoves DEF s
  <2>3. locks' = [locks EXCEPT ![s][p] = NoLock]
    BY <1>8 DEF StopEnded, Deleted
  <2>4. Away(s)
    BY <1>1, <1>3, <1>4, <1>5, <2>3, DeletedElsewhere, AwaySame
  <2> QED
    BY <1>1, <1>3, <1>5, <1>6, <1>7, <2>1, <2>2, <2>4, EasyStep DEF s
<1>9. CASE UNCHANGED <<idle, locks, held>> /\ (Done(v, p) \/ GivesUp(v, p, "check"))
  <2>1. LockTypes' /\ Keys' /\ Quiet
    BY <1>3, <1>5, <1>9, NoKey DEF LockTypes
  <2>2. Moves(v, Easy)
    BY <1>1, <1>3, <1>9, DoneMoves, GivesUpMoves
  <2>3. Away(s)
    BY <1>1, <1>3, <1>5, <1>9, AwaySame
  <2> QED
    BY <1>1, <1>3, <1>5, <1>6, <1>7, <2>1, <2>2, <2>3, EasyStep DEF s
<1> QED
  BY <1>2, <1>8, <1>9 DEF CheckPane

LEMMA TakeHeld ==
  ASSUME LocksInv, NEW v \in View, NEW s \in Session, s = SessionOf[v], job[v].at = "take",
         NEW p \in Pane, Exists(s, p), UNCHANGED <<stopping, starting, panes, life>>,
         Keep(v, s, p) \/ Reuse(v, s, p) \/ ReuseFails(v, s, p) \/ Share(v, s, p)
  PROVE  LocksInv'
<1>1. /\ LockTypes /\ WorkTypes /\ OtherTypes /\ Keys /\ job[v] \in Job
      /\ mu[s] = v /\ starting[s] = "no" /\ stopping[s] = Nil /\ life[s] # "closed"
  BY AtHand
<1>2. UNCHANGED <<slots, idleMu>>
  BY DEF Keep, Reuse, ReuseFails, Share
<1>3. TypesNext
  BY <1>1, <1>2 DEF TypesNext, WorkTypes, OtherTypes
<1>4. ~HasSlot(job[v], starting[s])
  BY DEF HasSlot
<1>5. ASSUME Moves(v, Easy), LockTypes', Keys', Quiet, NEW x,
             locks' = locks \/ locks' = [locks EXCEPT ![s][p] = x]
      PROVE  LocksInv'
  <2>1. \A t \in Session, q \in Pane : t # s => locks'[t][q] = locks[t][q]
    BY <1>1, <1>5, DeletedElsewhere
  <2>2. Away(s)
    BY <1>1, <2>1, AwaySame
  <2> QED
    BY <1>1, <1>2, <1>3, <1>4, <1>5, <2>2, EasyStep
<1>6. CASE Keep(v, s, p)
  <2>1. Moves(v, Easy)
    BY <1>1, <1>6, DoneMoves DEF Keep
  <2>2. UNCHANGED <<idle, locks, held>>
    BY <1>6 DEF Keep
  <2>3. LockTypes' /\ Keys' /\ Quiet
    BY <1>1, <2>2, NoKey DEF LockTypes
  <2> QED
    BY <1>5, <2>1, <2>2, <2>3
<1>7. CASE Reuse(v, s, p)
  <2>1. Moves(v, Easy)
    BY <1>1, <1>7, HoldsMoves DEF Reuse
  <2>2. LockTypes' /\ Keys' /\ Quiet
    BY <1>1, <1>7, ReuseKeys
  <2>3. locks' = [locks EXCEPT ![s][p] = [NewEpoch(locks[s][p]) EXCEPT !.refs = 1]]
    BY <1>7 DEF Reuse
  <2> QED
    BY <1>5, <2>1, <2>2, <2>3
<1>8. CASE ReuseFails(v, s, p)
  <2>1. Moves(v, Easy)
    BY <1>1, <1>8, StaysMoves, GivesUpMoves DEF ReuseFails
  <2>2. StopEnded(s, p) /\ held' = Staled(s, p)
    BY <1>8 DEF ReuseFails
  <2>3. LockTypes' /\ Keys' /\ Quiet
    BY <1>1, <2>2, KeyEnded
  <2>4. locks' = [locks EXCEPT ![s][p] = NoLock]
    BY <2>2 DEF StopEnded, Deleted
  <2> QED
    BY <1>5, <2>1, <2>3, <2>4
<1>9. CASE Share(v, s, p)
  <2>1. Moves(v, Easy)
    BY <1>1, <1>9, HoldsMoves DEF Share
  <2>2. LockTypes' /\ Keys' /\ Quiet
    BY <1>1, <1>9, ShareKeys
  <2>3. locks' = [locks EXCEPT ![s][p] = [locks[s][p] EXCEPT !.refs = @ + 1]]
    <3>1. locks' = [locks EXCEPT ![s][p].refs = @ + 1]
      BY <1>9 DEF Share
    <3> QED
      BY <3>1
  <2> QED
    BY <1>5, <2>1, <2>2, <2>3
<1> QED
  BY <1>6, <1>7, <1>8, <1>9

(* The loop of reserveSizeSlot, entered or entered again.                       *)
LEMMA ReservesStep ==
  ASSUME LocksInv, NEW v \in View, NEW s \in Session, s = SessionOf[v],
         job[v].at \in {"take", "reserve"}, NEW p \in Pane, ~Exists(s, p),
         UNCHANGED <<stopping, starting, panes, life, held>>, Reserves(v, p)
  PROVE  LocksInv'
<1>1. /\ LockTypes /\ WorkTypes /\ OtherTypes /\ Keys /\ job[v] \in Job
      /\ mu[s] = v /\ starting[s] = "no" /\ stopping[s] = Nil /\ life[s] # "closed"
  BY AtHand
<1>2. ~HasSlot(job[v], starting[s])
  BY DEF HasSlot
<1>3. CASE GivesUp(v, p, "take") /\ idleMu' = Nil /\ UNCHANGED <<idle, slots, locks>>
  <2>1. Moves(v, Easy)
    BY <1>1, <1>3, GivesUpMoves
  <2>2. LockTypes' /\ Keys' /\ Quiet
    BY <1>1, <1>3, NoKey DEF LockTypes
  <2>3. Away(s)
    BY <1>1, <1>3, AwaySame
  <2>4. TypesNext
    BY <1>1, <1>3 DEF TypesNext, WorkTypes, OtherTypes
  <2> QED
    BY <1>1, <1>2, <1>3, <2>1, <2>2, <2>3, <2>4, EasyStep
<1>4. CASE /\ slots < MaxSlots /\ slots' = slots + 1 /\ idleMu' = Nil
           /\ job' = [job EXCEPT ![v].at = "slot", ![v].pane = p]
           /\ UNCHANGED <<mu, idle, locks>>
  <2> DEFINE k == [job[v] EXCEPT !.at = "slot", !.pane = p]
  <2>1. k \in Job /\ k.at = "slot" /\ k.pane = p
    BY <1>1 DEF Job, Phase
  <2>2. job' = [job EXCEPT ![v] = k] /\ mu' = [mu EXCEPT ![s] = v]
    BY <1>1, <1>4 DEF WorkTypes
  <2> HIDE DEF k
  <2>3. LockTypes' /\ Keys' /\ Quiet
    BY <1>1, <1>4, NoKey DEF LockTypes
  <2>4. Away(s)
    BY <1>1, <1>4, AwaySame
  <2>5. TypesNext
    BY <1>1, <1>4 DEF TypesNext, WorkTypes, OtherTypes
  <2>6. Goes(v, s, k)
    BY <1>1, <2>1, <2>2 DEF Goes
  <2>7. HasSlot(k, starting'[s])
    BY <2>1 DEF HasSlot
  <2>8. Charged(v, s, k)
    BY <1>2, <1>4, <2>7 DEF Charged
  <2>9. Sound(s, k)
    BY <1>1, <1>4, <2>1 DEF Sound, Acquiring, Exists
  <2> QED
    BY <2>1, <2>3, <2>4, <2>5, <2>6, <2>8, <2>9, ViewStep
<1>5. CASE /\ job' = [job EXCEPT ![v].at = "reserve", ![v].pane = p]
           /\ UNCHANGED <<mu, slots>> /\ idleMu' = v
           /\ \E k \in idle : /\ idle' = idle \ {k}
                              /\ locks' = [locks EXCEPT ![k[1]][k[2]] =
                                             [Cancelled(@) EXCEPT !.retired = TRUE]]
  <2> DEFINE k == [job[v] EXCEPT !.at = "reserve", !.pane = p]
  <2>1. k \in Job /\ k.at = "reserve" /\ k.pane = p
    BY <1>1 DEF Job, Phase
  <2>2. job' = [job EXCEPT ![v] = k] /\ mu' = [mu EXCEPT ![s] = v]
    BY <1>1, <1>5 DEF WorkTypes
  <2> HIDE DEF k
  <2>3. PICK d \in idle :
          /\ idle' = idle \ {d}
          /\ locks' = [locks EXCEPT ![d[1]][d[2]] = [Cancelled(@) EXCEPT !.retired = TRUE]]
    BY <1>5
  <2>4. LockTypes' /\ Keys' /\ Quiet
    BY <1>1, <2>3, ReclaimKeys
  <2>5. \A t \in Session, q \in Pane : locks'[t][q] = NoLock <=> locks[t][q] = NoLock
    <3>1. PICK t \in Session, q \in Pane : d = <<t, q>>
      BY <1>1 DEF LockTypes
    <3>2. Exists(t, q) /\ locks[t][q] \in Lock
      BY <1>1, <3>1 DEF Keys, KeyOK, LockTypes, Exists
    <3> DEFINE x == [Cancelled(locks[t][q]) EXCEPT !.retired = TRUE]
    <3>3. Cancelled(locks[t][q]) \in Lock
      BY <3>2, LockSteps
    <3>4. x \in Lock
      BY <3>3 DEF Lock
    <3>5. locks' = [locks EXCEPT ![t][q] = x] /\ x # NoLock
      BY <2>3, <3>1, <3>4
    <3> HIDE DEF x
    <3> QED
      BY <1>1, <3>2, <3>5 DEF LockTypes, Exists
  <2>6. Away(s)
    BY <2>5 DEF Away
  <2>7. TypesNext
    BY <1>1, <1>5 DEF TypesNext, WorkTypes, OtherTypes
  <2>8. Goes(v, s, k)
    BY <1>1, <2>1, <2>2 DEF Goes
  <2>9. ~HasSlot(k, starting'[s])
    BY <2>1 DEF HasSlot
  <2>10. Charged(v, s, k)
    BY <1>2, <1>5, <2>9 DEF Charged
  <2>11. Sound(s, k)
    BY <1>1, <2>1, <2>5 DEF Sound, Acquiring, Exists
  <2> QED
    BY <2>1, <2>4, <2>6, <2>7, <2>8, <2>10, <2>11, ViewStep
<1> QED
  BY <1>3, <1>4, <1>5 DEF Reserves

LEMMA TakeNew ==
  ASSUME LocksInv, NEW v \in View, NEW s \in Session, s = SessionOf[v], job[v].at = "take",
         NEW p \in Pane, ~Exists(s, p), UNCHANGED <<stopping, starting, panes, life>>,
         Acquire(v, p)
  PROVE  LocksInv'
<1>1. /\ LockTypes /\ WorkTypes /\ OtherTypes /\ Keys
      /\ mu[s] = v /\ starting[s] = "no" /\ stopping[s] = Nil /\ life[s] # "closed"
  BY AtHand
<1>2. UNCHANGED held
  BY DEF Acquire
<1>3. CASE Reserves(v, p)
  BY <1>2, <1>3, ReservesStep
<1>4. CASE GivesUp(v, p, "take") /\ UNCHANGED <<idleMu, idle, slots, locks>>
  <2>1. Moves(v, Easy)
    BY <1>1, <1>4, GivesUpMoves
  <2>2. LockTypes' /\ Keys' /\ Quiet
    BY <1>1, <1>2, <1>4, NoKey DEF LockTypes
  <2>3. Away(s)
    BY <1>1, <1>4, AwaySame
  <2>4. TypesNext
    BY <1>1, <1>4 DEF TypesNext, WorkTypes, OtherTypes
  <2>5. ~HasSlot(job[v], starting[s])
    BY DEF HasSlot
  <2> QED
    BY <1>1, <1>4, <2>1, <2>2, <2>3, <2>4, <2>5, EasyStep
<1> QED
  BY <1>3, <1>4 DEF Acquire, reserveSizeSlot

LEMMA TakeStep ==
  ASSUME LocksInv, NEW v \in View, Take(v) PROVE LocksInv'
<1>1. PICK p \in job[v].todo : TakePane(v, SessionOf[v], p)
  BY DEF Take
<1>2. p \in Pane /\ SessionOf[v] \in Session
  BY <1>1 DEF LocksInv, TypeOK, Job
<1>3. job[v].at = "take" /\ UNCHANGED <<stopping, starting, panes, life>>
  BY DEF Take, Working
<1>4. \/ /\ Exists(SessionOf[v], p)
         /\ \/ Keep(v, SessionOf[v], p) \/ Reuse(v, SessionOf[v], p)
            \/ ReuseFails(v, SessionOf[v], p) \/ Share(v, SessionOf[v], p)
      \/ ~Exists(SessionOf[v], p) /\ Acquire(v, p)
  BY <1>1 DEF TakePane
<1> QED
  BY <1>2, <1>3, <1>4, TakeHeld, TakeNew

(* Beginning to purge, check or drop.                                           *)
LEMMA BeginMoves ==
  ASSUME WorkTypes, NEW v \in View, NEW at \in {"check", "drop"}, NEW todo \in SUBSET Pane,
         NEW w \in SUBSET Pane, Begin(v, at, todo, w)
  PROVE  Moves(v, Easy) /\ (at = "drop" => Moves(v, {"drop", "out"}))
<1> DEFINE j == [at |-> at, todo |-> todo, want |-> w, pane |-> Nil]
<1>1. j \in Job /\ j.at = at
  BY DEF Job, Phase
<1>2. Proceeds(v, j)
  BY DEF Begin
<1> HIDE DEF j
<1> QED
  BY <1>1, <1>2, ProceedsMoves

LEMMA PurgeBegins ==
  ASSUME NEW v \in View, NEW todo \in SUBSET Pane, NEW w \in SUBSET Pane,
         Begin(v, "purge", todo, w)
  PROVE  \E k \in Job : /\ k.at = "purge" /\ k.todo = todo
                        /\ job' = [job EXCEPT ![v] = k]
                        /\ mu' = [mu EXCEPT ![SessionOf[v]] = v]
<1> DEFINE j == [at |-> "purge", todo |-> todo, want |-> w, pane |-> Nil]
<1>1. j \in Job /\ j.at = "purge" /\ j.todo = todo
  BY DEF Job, Phase
<1>2. Proceeds(v, j)
  BY DEF Begin
<1> HIDE DEF j
<1>3. Dropping(Taking(j), held'[v]) = j
  BY <1>1 DEF Dropping, Taking
<1>4. job' = [job EXCEPT ![v] = j] /\ mu' = [mu EXCEPT ![SessionOf[v]] = v]
  BY <1>1, <1>2, <1>3 DEF Proceeds
<1> QED
  BY <1>1, <1>4

LEMMA EnterStep ==
  ASSUME LocksInv, NEW v \in View, Enter(v) PROVE LocksInv'
<1> DEFINE s == SessionOf[v]
<1>1. s \in Session /\ job[v].at = "out" /\ mu[s] = Nil
      /\ UNCHANGED <<idleMu, idle, slots, locks, stopping, starting, life>>
  BY DEF Enter
<1>2. /\ LockTypes /\ WorkTypes /\ OtherTypes /\ Keys /\ job[v] \in Job
      /\ starting[s] = "no" /\ stopping[s] = Nil
  BY <1>1, AtHand
<1>3. ~HasSlot(job[v], starting[s])
  BY <1>1 DEF HasSlot
<1> HIDE DEF s
<1>4. UNCHANGED held
  BY DEF Enter, EnterKnown, EnterFirst, EnterRefresh, EnterFails, Begin
<1>5. LockTypes' /\ Keys' /\ Quiet
  BY <1>1, <1>2, <1>4, NoKey DEF LockTypes
<1>6. ASSUME NEW list \in (SUBSET Pane) \cup {Nil},
             panes' = [panes EXCEPT ![s] = list] \/ UNCHANGED panes
      PROVE  Away(s) /\ TypesNext
  <2>1. /\ panes' \in [Session -> (SUBSET Pane) \cup {Nil}]
        /\ \A t \in Session : t # s => panes'[t] = panes[t]
    BY <1>1, <1>2, <1>6 DEF OtherTypes
  <2> QED
    BY <1>1, <1>2, <2>1 DEF Away, TypesNext, WorkTypes, OtherTypes
<1>7. ASSUME Moves(v, Easy), Away(s), TypesNext,
             life[s] = "closed" => job'[v].at \in {"out", "over", "drop"}
      PROVE  LocksInv'
  BY <1>1, <1>2, <1>3, <1>5, <1>7, EasyStep DEF s
<1>8. CASE life[s] # "closed" /\ EnterKnown(v, s)
  <2>1. PICK w \in SUBSET Pane : Begin(v, "check", w, w) /\ UNCHANGED panes
    <3> DEFINE known == IF panes[s] = Nil THEN Pane ELSE panes[s]
    <3>1. panes[s] \in (SUBSET Pane) \cup {Nil}
      BY <1>1, <1>2 DEF OtherTypes
    <3>2. known \in SUBSET Pane
      BY <3>1
    <3>3. \E w \in SUBSET known : Begin(v, "check", w, w) /\ UNCHANGED panes
      BY <1>8 DEF EnterKnown
    <3> HIDE DEF known
    <3> QED
      BY <3>2, <3>3
  <2>2. Moves(v, Easy)
    BY <1>2, <2>1, BeginMoves
  <2> QED
    BY <1>6, <1>7, <1>8, <2>1, <2>2
<1>9. CASE life[s] # "closed" /\ EnterFirst(v, s)
  <2>1. PICK snapshot \in SUBSET Pane :
          /\ panes' = [panes EXCEPT ![s] = snapshot]
          /\ \E w \in SUBSET snapshot : Wants(w) /\ Begin(v, "check", w, w)
    BY <1>9 DEF EnterFirst
  <2>2. PICK w \in SUBSET snapshot : Begin(v, "check", w, w)
    BY <2>1
  <2>3. Moves(v, Easy)
    BY <1>2, <2>2, BeginMoves
  <2> QED
    BY <1>6, <1>7, <1>9, <2>1, <2>3
<1>10. CASE EnterFails(v)
  <2>1. Fails(v) /\ UNCHANGED panes
    BY <1>10 DEF EnterFails
  <2>2. Moves(v, Easy)
    BY <2>1, FailsMoves
  <2>3. job'[v].at = "over"
    BY <1>2, <2>1 DEF Fails, Out, WorkTypes
  <2> QED
    BY <1>6, <1>7, <2>1, <2>2, <2>3
<1>11. CASE life[s] # "closed" /\ EnterRefresh(v, s)
  <2>1. PICK list \in SUBSET Pane, w \in SUBSET Pane :
          /\ panes' = [panes EXCEPT ![s] = list]
          /\ Begin(v, "purge", {p \in Pane \ list : Exists(s, p)}, w)
    BY <1>11 DEF EnterRefresh
  <2> DEFINE todo == {p \in Pane \ list : Exists(s, p)}
  <2>2. todo \in SUBSET Pane
    OBVIOUS
  <2>3. PICK k \in Job : /\ k.at = "purge" /\ k.todo = todo
                         /\ job' = [job EXCEPT ![v] = k] /\ mu' = [mu EXCEPT ![s] = v]
    BY <2>1, <2>2, PurgeBegins DEF s
  <2>4. Away(s) /\ TypesNext
    BY <1>6, <2>1
  <2>5. Goes(v, s, k)
    BY <1>1, <1>11, <2>3, <1>2 DEF Goes
  <2>6. Charged(v, s, k)
    BY <1>1, <1>3, <2>3 DEF Charged, HasSlot
  <2>7. panes'[s] = list /\ list # Nil
    BY <1>1, <1>2, <2>1 DEF OtherTypes
  <2>8. Sound(s, k)
    BY <1>1, <1>2, <2>3, <2>7 DEF Sound, Acquiring, Exists
  <2> QED
    BY <1>1, <1>5, <2>4, <2>5, <2>6, <2>8, ViewStep DEF s
<1> QED
  BY <1>8, <1>9, <1>10, <1>11 DEF Enter, s

LEMMA CloseViewStep ==
  ASSUME LocksInv, NEW v \in View, CloseView(v) PROVE LocksInv'
<1> DEFINE s == SessionOf[v]
<1>1. /\ s \in Session /\ job[v].at \in {"out", "over"} /\ mu[s] = Nil
      /\ UNCHANGED <<idleMu, idle, slots, locks, stopping, starting, panes, life>>
  BY DEF CloseView
<1>2. /\ LockTypes /\ WorkTypes /\ OtherTypes /\ Keys
      /\ starting[s] = "no" /\ stopping[s] = Nil
  BY <1>1, AtHand
<1>3. ~HasSlot(job[v], starting[s])
  BY <1>1 DEF HasSlot
<1>4. UNCHANGED held /\ Begin(v, "drop", {p \in Pane : held[v][p] # "no"}, {})
  BY DEF CloseView, Begin
<1>5. Moves(v, Easy) /\ Moves(v, {"drop", "out"})
  <2>1. {p \in Pane : held[v][p] # "no"} \in SUBSET Pane /\ {} \in SUBSET Pane
    OBVIOUS
  <2> QED
    BY <1>2, <1>4, <2>1, BeginMoves
<1>6. job'[v].at \in {"drop", "out"}
  BY <1>2, <1>5, MovesAt
<1>7. LockTypes' /\ Keys' /\ Quiet
  BY <1>1, <1>2, <1>4, NoKey DEF LockTypes
<1>8. Away(s)
  BY <1>1, <1>2, AwaySame
<1>9. TypesNext
  BY <1>1, <1>2 DEF TypesNext, WorkTypes, OtherTypes
<1> HIDE DEF s
<1> QED
  BY <1>1, <1>2, <1>3, <1>5, <1>6, <1>7, <1>8, <1>9, EasyStep DEF s

LEMMA DropStep ==
  ASSUME LocksInv, NEW v \in View, Drop(v) PROVE LocksInv'
<1> DEFINE s == SessionOf[v]
<1>1. /\ s \in Session /\ job[v].at = "drop" /\ stopping[s] = Nil
      /\ UNCHANGED <<idleMu, slots, stopping, starting, panes, life>>
  BY DEF Drop, Working
<1>2. PICK p \in job[v].todo : releaseLocked(v, s, p) /\ Done(v, p)
  BY DEF Drop
<1>3. /\ LockTypes /\ WorkTypes /\ OtherTypes /\ Keys /\ job[v] \in Job
      /\ mu[s] = v /\ starting[s] = "no"
  BY <1>1, AtHand
<1>4. p \in Pane
  BY <1>2, <1>3 DEF Job
<1>5. ~HasSlot(job[v], starting[s])
  BY <1>1 DEF HasSlot
<1> HIDE DEF s
<1>6. Moves(v, Easy) /\ Moves(v, {"drop", "out"})
  BY <1>1, <1>2, <1>3, DoneMoves
<1>7. job'[v].at \in {"drop", "out"}
  BY <1>3, <1>6, MovesAt
<1>8. LockTypes' /\ Keys' /\ Quiet
  BY <1>1, <1>2, <1>3, <1>4, ReleaseKeys DEF s
<1>9. \A t \in Session, q \in Pane : t # s => locks'[t][q] = locks[t][q]
  <2>1. PICK x : locks' = locks \/ locks' = [locks EXCEPT ![s][p] = x]
    <3>1. \/ locks' = locks
          \/ locks' = [locks EXCEPT ![s][p] = [locks[s][p] EXCEPT !.refs = @ - 1]]
          \/ locks' = [locks EXCEPT ![s][p] = NoLock]
          \/ locks' = [locks EXCEPT ![s][p] = [NewEpoch(locks[s][p]) EXCEPT !.refs = 0, !.armed = TRUE]]
      BY <1>2 DEF releaseLocked, StopEnded, Deleted
    <3> QED
      BY <3>1
  <2>2. LockTypes /\ s \in Session /\ p \in Pane
    BY <1>1, <1>3, <1>4
  <2>3. CASE locks' = locks
    BY <2>3
  <2>4. CASE locks' = [locks EXCEPT ![s][p] = x]
    BY ONLY <2>2, <2>4, DeletedElsewhere
  <2> QED
    BY <2>1, <2>3, <2>4
<1>10. Away(s)
  BY <1>1, <1>3, <1>9, AwaySame
<1>11. TypesNext
  BY <1>1, <1>3 DEF TypesNext, WorkTypes, OtherTypes
<1> QED
  BY <1>1, <1>3, <1>5, <1>6, <1>7, <1>8, <1>10, <1>11, EasyStep DEF s

LEMMA PurgeStep ==
  ASSUME LocksInv, NEW v \in View, Purge(v) PROVE LocksInv'
<1> DEFINE s == SessionOf[v]
<1>1. /\ s \in Session /\ job[v].at = "purge" /\ stopping[s] = Nil
      /\ UNCHANGED <<idleMu, slots, starting, panes, life>> /\ UNCHANGED held
  BY DEF Purge, Working
<1>2. /\ LockTypes /\ WorkTypes /\ OtherTypes /\ Keys /\ job[v] \in Job /\ Relies(v)
      /\ mu[s] = v /\ starting[s] = "no" /\ life[s] # "closed"
  BY <1>1, AtHand
<1>3. ~HasSlot(job[v], starting[s])
  BY <1>1 DEF HasSlot
<1>4. TypesNext
  BY <1>1, <1>2 DEF TypesNext, WorkTypes, OtherTypes
<1> HIDE DEF s
<1>5. ASSUME NEW p \in job[v].todo, BeginStop(s, p), job' = [job EXCEPT ![v].todo = @ \ {p}],
             UNCHANGED mu
      PROVE  LocksInv'
  <2> DEFINE k == [job[v] EXCEPT !.todo = @ \ {p}]
  <2>1. p \in Pane /\ job[v].todo \ {p} \in SUBSET Pane
    BY <1>2, <1>5 DEF Job
  <2>2. k \in Job /\ k.at = "purge" /\ k.todo = job[v].todo \ {p}
    BY <1>1, <1>2, <2>1 DEF Job, Phase
  <2>3. job' = [job EXCEPT ![v] = k] /\ mu' = [mu EXCEPT ![s] = v]
    BY <1>1, <1>2, <1>5 DEF WorkTypes
  <2> HIDE DEF k
  <2>4. Exists(s, p) /\ panes[s] # Nil
        /\ \A q \in job[v].todo : Exists(s, q) /\ q \notin panes[s]
    BY <1>1, <1>2, <1>5 DEF Relies, s
  <2>5. LockTypes' /\ Keys' /\ Quiet /\ stopping' = [stopping EXCEPT ![s] = p]
    BY <1>1, <1>2, <1>5, <2>1, <2>4, KeyStopped
  <2>6. \A t \in Session, q \in Pane : t # s \/ q # p => locks'[t][q] = locks[t][q]
    BY <1>1, <1>2, <1>5, <2>1 DEF BeginStop, LockTypes
  <2>7. stopping'[s] = p /\ \A t \in Session : t # s => stopping'[t] = stopping[t]
    BY <1>1, <1>2, <2>5 DEF LockTypes
  <2>8. Away(s)
    BY <1>1, <2>6, <2>7 DEF Away
  <2>9. Goes(v, s, k)
    BY <1>1, <1>2, <2>2, <2>3 DEF Goes
  <2>10. Charged(v, s, k)
    BY <1>1, <1>3, <2>2 DEF Charged, HasSlot
  <2>11. Sound(s, k)
    <3>1. \A q \in k.todo : /\ locks'[s][q] # NoLock /\ q \notin panes'[s] /\ stopping'[s] # q
      BY <1>1, <1>2, <2>2, <2>4, <2>6, <2>7 DEF Exists, Job
    <3> QED
      BY <1>1, <1>2, <2>2, <2>4, <3>1 DEF Sound, Acquiring
  <2> QED
    BY <1>1, <1>4, <2>2, <2>5, <2>8, <2>9, <2>10, <2>11, ViewStep DEF s
<1>6. ASSUME Proceeds(v, [job[v] EXCEPT !.at = "check", !.todo = job[v].want]),
             UNCHANGED <<idle, locks, stopping>>
      PROVE  LocksInv'
  <2> DEFINE j == [job[v] EXCEPT !.at = "check", !.todo = job[v].want]
  <2>1. j \in Job /\ j.at = "check"
    BY <1>2 DEF Job, Phase
  <2> HIDE DEF j
  <2>2. Moves(v, Easy)
    BY <1>2, <1>6, <2>1, ProceedsMoves DEF j
  <2>3. LockTypes' /\ Keys' /\ Quiet
    BY <1>1, <1>2, <1>6, NoKey DEF LockTypes
  <2>4. Away(s)
    BY <1>1, <1>2, <1>6, AwaySame
  <2> QED
    BY <1>1, <1>2, <1>3, <1>4, <1>6, <2>2, <2>3, <2>4, EasyStep DEF s
<1> QED
  BY <1>5, <1>6 DEF Purge, s

LEMMA ReclaimedStep ==
  ASSUME LocksInv, NEW v \in View, Reclaimed(v) PROVE LocksInv'
<1>1. /\ job[v].at = "reserve" /\ Reserves(v, job[v].pane)
      /\ UNCHANGED <<stopping, starting, panes, life, held>>
  BY DEF Reclaimed
<1>2. PICK s \in Session : s = SessionOf[v]
  OBVIOUS
<1>3. job[v].pane \in Pane /\ ~Exists(s, job[v].pane)
  BY <1>1, <1>2, AtHand DEF Acquiring
<1> QED
  BY <1>1, <1>2, <1>3, ReservesStep

LEMMA StartStep ==
  ASSUME LocksInv, NEW v \in View, Start(v) PROVE LocksInv'
<1> DEFINE s == SessionOf[v]
<1>1. /\ s \in Session /\ job[v].at = "slot"
      /\ UNCHANGED <<idleMu, idle, locks, stopping, panes, life>> /\ UNCHANGED held
  BY DEF Start
<1>2. /\ LockTypes /\ WorkTypes /\ OtherTypes /\ Keys /\ job[v] \in Job
      /\ mu[s] = v /\ starting[s] = "no" /\ stopping[s] = Nil /\ life[s] # "closed"
      /\ job[v].pane \in Pane /\ ~Exists(s, job[v].pane)
  BY <1>1, AtHand DEF Acquiring
<1>3. HasSlot(job[v], starting[s])
  BY <1>1 DEF HasSlot
<1>4. LockTypes' /\ Keys' /\ Quiet
  BY <1>1, <1>2, NoKey DEF LockTypes
<1> HIDE DEF s
<1>5. ASSUME life[s] = "open", starting' = [starting EXCEPT ![s] = "setup"],
             job' = [job EXCEPT ![v].at = "setup"], UNCHANGED <<mu, slots>>
      PROVE  LocksInv'
  <2> DEFINE k == [job[v] EXCEPT !.at = "setup"]
  <2>1. k \in Job /\ k.at = "setup" /\ k.pane = job[v].pane
    BY <1>2 DEF Job, Phase
  <2>2. job' = [job EXCEPT ![v] = k] /\ mu' = [mu EXCEPT ![s] = v]
    BY <1>1, <1>2, <1>5 DEF WorkTypes
  <2> HIDE DEF k
  <2>3. starting'[s] = "setup" /\ \A t \in Session : t # s => starting'[t] = starting[t]
    BY <1>1, <1>2, <1>5 DEF WorkTypes
  <2>4. Away(s)
    BY <1>1, <2>3 DEF Away
  <2>5. TypesNext
    BY <1>1, <1>2, <1>5 DEF TypesNext, WorkTypes, OtherTypes
  <2>6. Goes(v, s, k)
    BY <1>1, <1>2, <1>5, <2>1, <2>2 DEF Goes
  <2>7. Charged(v, s, k)
    BY <1>3, <1>5, <2>1, <2>3 DEF Charged, HasSlot
  <2>8. Sound(s, k)
    BY <1>1, <1>2, <2>1, <2>3 DEF Sound, Acquiring, Exists
  <2> QED
    BY <1>1, <1>4, <2>1, <2>4, <2>5, <2>6, <2>7, <2>8, ViewStep DEF s
<1>6. ASSUME slots' = slots - 1, GivesUp(v, job[v].pane, "take"), UNCHANGED starting
      PROVE  LocksInv'
  <2>1. Moves(v, Easy)
    BY <1>2, <1>6, GivesUpMoves
  <2>2. Away(s)
    BY <1>1, <1>2, <1>6, AwaySame
  <2>3. TypesNext
    BY <1>1, <1>2, <1>6 DEF TypesNext, WorkTypes, OtherTypes
  <2> QED
    BY <1>1, <1>2, <1>3, <1>4, <1>6, <2>1, <2>2, <2>3, EasyStep DEF s
<1> QED
  BY <1>5, <1>6 DEF Start, s

LEMMA SetupFailsStep ==
  ASSUME LocksInv, NEW v \in View, SetupFails(v) PROVE LocksInv'
<1> DEFINE s == SessionOf[v]
           k == [job[v] EXCEPT !.at = "failed"]
<1>1. /\ s \in Session /\ job[v].at = "setup"
      /\ starting' = [starting EXCEPT ![s] = IF @ = "done" THEN @ ELSE "ending"]
      /\ job' = [job EXCEPT ![v].at = "failed"]
      /\ UNCHANGED <<mu, idleMu, idle, slots, locks, stopping, panes, life, held>>
  BY DEF SetupFails
<1>2. /\ LockTypes /\ WorkTypes /\ OtherTypes /\ Keys /\ job[v] \in Job
      /\ mu[s] = v /\ stopping[s] = Nil /\ life[s] # "closed"
      /\ job[v].pane \in Pane /\ ~Exists(s, job[v].pane)
  BY <1>1, AtHand DEF Acquiring
<1>3. k \in Job /\ k.at = "failed" /\ k.pane = job[v].pane
  BY <1>2 DEF Job, Phase
<1>4. job' = [job EXCEPT ![v] = k] /\ mu' = [mu EXCEPT ![s] = v]
  BY <1>1, <1>2 DEF WorkTypes
<1> HIDE DEF s, k
<1>5. /\ starting'[s] = IF starting[s] = "done" THEN "done" ELSE "ending"
      /\ \A t \in Session : t # s => starting'[t] = starting[t]
  BY <1>1, <1>2 DEF WorkTypes
<1>6. LockTypes' /\ Keys' /\ Quiet
  BY <1>1, <1>2, NoKey DEF LockTypes
<1>7. Away(s)
  BY <1>1, <1>5 DEF Away
<1>8. TypesNext
  BY <1>1, <1>2 DEF TypesNext, WorkTypes, OtherTypes
<1>9. Goes(v, s, k)
  <2>1. starting'[s] # "setup" /\ k.at \notin {"out", "over"}
    BY <1>3, <1>5
  <2> QED
    BY ONLY <1>2, <1>3, <1>4, <2>1 DEF Goes
<1>10. Charged(v, s, k)
  BY <1>1, <1>3, <1>5 DEF Charged, HasSlot
<1>11. Sound(s, k)
  BY <1>1, <1>2, <1>3, <1>5 DEF Sound, Acquiring, Exists
<1> QED
  BY <1>1, <1>3, <1>6, <1>7, <1>8, <1>9, <1>10, <1>11, ViewStep DEF s

LEMMA FailedStep ==
  ASSUME LocksInv, NEW v \in View, Failed(v) PROVE LocksInv'
<1> DEFINE s == SessionOf[v]
<1>1. /\ s \in Session /\ job[v].at = "failed" /\ starting[s] = "done"
      /\ starting' = [starting EXCEPT ![s] = "no"] /\ GivesUp(v, job[v].pane, "take")
      /\ UNCHANGED <<idleMu, idle, slots, locks, stopping, panes, life, held>>
  BY DEF Failed
<1>2. /\ LockTypes /\ WorkTypes /\ OtherTypes /\ Keys
      /\ mu[s] = v /\ stopping[s] = Nil /\ life[s] # "closed"
  BY <1>1, AtHand
<1>3. ~HasSlot(job[v], starting[s])
  BY <1>1 DEF HasSlot
<1> HIDE DEF s
<1>4. starting'[s] = "no" /\ \A t \in Session : t # s => starting'[t] = starting[t]
  BY <1>1, <1>2 DEF WorkTypes
<1>5. LockTypes' /\ Keys' /\ Quiet
  BY <1>1, <1>2, NoKey DEF LockTypes
<1>6. Away(s)
  BY <1>1, <1>4 DEF Away
<1>7. TypesNext
  BY <1>1, <1>2 DEF TypesNext, WorkTypes, OtherTypes
<1>8. Moves(v, Easy)
  BY <1>1, <1>2, GivesUpMoves
<1> QED
  BY <1>1, <1>2, <1>3, <1>4, <1>5, <1>6, <1>7, <1>8, EasyStep DEF s

(* The helper takes over the slot of the viewer that has set it up.             *)
LEMMA ReadyStep ==
  ASSUME LocksInv, NEW v \in View, Ready(v) PROVE LocksInv'
<1> DEFINE s == SessionOf[v]
<1>1. /\ s \in Session /\ job[v].at = "setup" /\ starting[s] \in {"setup", "killed"}
      /\ starting' = [starting EXCEPT ![s] = "no"] /\ Holds(v, job[v].pane)
      /\ UNCHANGED <<idleMu, idle, slots, stopping, panes, life>>
  BY DEF Ready
<1>2. /\ LockTypes /\ WorkTypes /\ OtherTypes /\ Keys /\ Leaving(s)
      /\ mu[s] = v /\ stopping[s] = Nil /\ life[s] # "closed"
      /\ job[v].pane \in Pane /\ ~Exists(s, job[v].pane)
  BY <1>1, AtHand DEF Acquiring
<1>3. PICK p \in Pane : p = job[v].pane
  BY <1>2
<1> HIDE DEF s
<1>4. /\ LockTypes' /\ Keys'
      /\ \A t \in Session, q \in Pane : t # s \/ q # p => locks'[t][q] = locks[t][q]
      /\ locks'[s][p] # NoLock /\ locks'[s][p].proc = "up" => starting[s] = "setup"
      /\ <<s, p>> \notin LiveKeys /\ LiveKeys' = LiveKeys \cup {<<s, p>>}
  BY <1>1, <1>2, <1>3, ReadyKeys DEF s
<1>5. starting'[s] = "no" /\ \A t \in Session : t # s => starting'[t] = starting[t]
  BY <1>1, <1>2 DEF WorkTypes
<1>6. Away(s)
  BY <1>1, <1>4, <1>5 DEF Away
<1>7. TypesNext
  BY <1>1, <1>2 DEF TypesNext, WorkTypes, OtherTypes
<1>8. PICK k \in Job :
        /\ k.at \in Easy /\ job' = [job EXCEPT ![v] = k]
        /\ mu' = [mu EXCEPT ![s] = IF k.at \in {"out", "over"} THEN Nil ELSE v]
  BY <1>1, <1>2, HoldsMoves DEF Moves, s
<1>9. Goes(v, s, k)
  BY <1>2, <1>5, <1>8 DEF Goes
<1>10. Sound(s, k)
  BY <1>1, <1>2, <1>5, <1>8 DEF Sound, Easy, Acquiring
<1>11. AtWork
  BY DEF LocksInv
<1>12. /\ WorkTypes' /\ AtWork' /\ job'[v] = k
       /\ \A w \in View : w # v => job'[w] = job[w]
       /\ \A t \in Session : t # s => mu'[t] = mu[t]
       /\ \A w \in View : w # v => (w \in Setups' <=> w \in Setups)
       /\ v \in Setups' <=> \/ k.at = "slot"
                            \/ k.at \in {"setup", "failed"} /\ starting'[s] # "done"
  BY ONLY <1>1, <1>2, <1>6, <1>7, <1>9, <1>10, <1>11, v \in View, k \in Job, ViewMove DEF s
<1>13. Setups' = Setups \ {v} /\ v \in Setups
  <2>1. v \in Setups
    BY <1>1 DEF Setups, s
  <2>2. v \notin Setups'
    BY <1>8, <1>12 DEF Easy
  <2>3. Setups \subseteq View /\ Setups' \subseteq View
    BY DEF Setups
  <2> QED
    BY <1>12, <2>1, <2>2, <2>3
<1>14. Counted'
  <2>1. /\ Cardinality(Setups \ {v}) = Cardinality(Setups) - 1
        /\ Cardinality(LiveKeys \cup {<<s, p>>}) = Cardinality(LiveKeys) + 1
        /\ Cardinality(Setups) \in Nat /\ Cardinality(LiveKeys) \in Nat
    BY <1>4, <1>13, CountTypes, FS_RemoveElement, FS_AddElement
  <2>2. slots = Cardinality(LiveKeys) + Cardinality(Setups)
    BY DEF LocksInv, Counted
  <2>3. /\ Cardinality(Setups)' = Cardinality(Setups) - 1
        /\ Cardinality(LiveKeys)' = Cardinality(LiveKeys) + 1
    BY <1>4, <1>13, <2>1
  <2>4. slots' = Cardinality(LiveKeys)' + Cardinality(Setups)'
    BY <1>1, <2>1, <2>2, <2>3
  <2> QED
    BY <2>4 DEF Counted
<1>15. ASSUME NEW t \in Session PROVE Leaving(t)'
  <2>1. Leaving(t)
    BY DEF LocksInv
  <2>2. CASE t = s
    <3>1. mu'[s] # "close"
      BY <1>1, <1>2, <1>8 DEF WorkTypes
    <3>2. ASSUME life[s] # "open", NEW q \in Pane, locks'[s][q] # NoLock
          PROVE  locks'[s][q].proc # "up"
      <4>1. starting[s] # "setup"
            /\ (locks[s][q] # NoLock => locks[s][q].proc # "up")
        BY <1>2, <3>2 DEF Leaving, Exists
      <4>2. CASE q = p
        BY <1>4, <3>2, <4>1, <4>2
      <4>3. CASE q # p
        <5>1. locks'[s][q] = locks[s][q]
          BY <1>1, <1>4, <4>3
        <5> QED
          BY <3>2, <4>1, <5>1
      <4> QED
        BY <4>2, <4>3
    <3> QED
      BY <1>1, <1>2, <1>5, <2>2, <3>1, <3>2 DEF Leaving, Exists
  <2>3. CASE t # s
    <3>1. mu'[t] = mu[t] /\ starting'[t] = starting[t] /\ life'[t] = life[t]
      BY <1>1, <1>5, <1>12, <2>3
    <3>2. \A q \in Pane : locks'[t][q] = locks[t][q]
      BY <1>4, <2>3
    <3>3. \A w \in Views(t) : job'[w] = job[w]
      BY <1>12, <2>3 DEF Views, s
    <3> QED
      BY <2>1, <3>1, <3>2, <3>3 DEF Leaving, Exists, Views
  <2> QED
    BY <2>2, <2>3
<1>16. OtherTypes'
  BY <1>1, <1>2 DEF OtherTypes
<1>17. TypeOK'
  BY <1>4, <1>12, <1>16 DEF TypeOK, LockTypes, WorkTypes, OtherTypes
<1> QED
  BY <1>4, <1>12, <1>14, <1>15, <1>17 DEF LocksInv

-----------------------------------------------------------------------------
(* The steps that are no viewer's.                                              *)

LEMMA OthersLeave ==
  ASSUME NEW t \in Session, Leaving(t), NoneNew, Calm, UNCHANGED job, life'[t] = life[t],
         mu'[t] = "close" => mu[t] = "close",
         mu[t] = "close" => mu'[t] = "close" \/ \A p \in Pane : ~Exists(t, p),
         starting'[t] = "setup" => starting[t] = "setup"
  PROVE  Leaving(t)'
<1>1. life'[t] # "open" => /\ starting'[t] # "setup"
                           /\ \A p \in Pane : locks'[t][p] # NoLock => locks'[t][p].proc # "up"
  <2>1. \A p \in Pane : /\ locks'[t][p] # NoLock => locks[t][p] # NoLock
                        /\ locks'[t][p] # NoLock /\ locks'[t][p].proc = "up"
                             => locks[t][p].proc = "up"
    BY DEF NoneNew, Calm
  <2> QED
    BY <2>1 DEF Leaving, Exists
<1>2. life'[t] = "closed" /\ mu'[t] # "close" => \A p \in Pane : locks'[t][p] = NoLock
  <2>1. \A p \in Pane : locks'[t][p] # NoLock => locks[t][p] # NoLock
    BY DEF NoneNew
  <2> QED
    BY <2>1 DEF Leaving, Exists
<1> QED
  BY <1>1, <1>2 DEF Leaving, Exists, Views

(* A step that keeps the number of helpers.                                     *)
Steady(s) ==
  /\ starting'[s] = "setup" => starting[s] = "setup"
  /\ starting'[s] = "done" <=> starting[s] = "done"
  /\ UNCHANGED <<idleMu, slots>>

LEMMA SteadyStep ==
  ASSUME LocksInv, NEW s \in Session, Away(s), Quiet, LockTypes', Keys',
         NEW m \in View \cup {"timer", "close", Nil}, Turns(s, m), Runs(s), Steady(s),
         life' \in [Session -> {"open", "cancelled", "closed"}],
         \A t \in Session : t # s => life'[t] = life[t], Leaving(s)'
  PROVE  LocksInv'
<1>1. /\ LockTypes /\ WorkTypes /\ OtherTypes /\ AtWork
  BY TypeParts DEF LocksInv
<1>2. NoneNew /\ Calm /\ LiveKeys' = LiveKeys
  BY DEF Quiet, LiveSame
<1>3. /\ WorkTypes' /\ AtWork'
      /\ (starting'[s] = "done" <=> starting[s] = "done") => Setups' = Setups
  BY <1>1, <1>2, SessionMove
<1>4. Counted'
  <2>1. slots' = slots /\ Setups' = Setups
    BY <1>3 DEF Steady
  <2> QED
    BY <1>2, <2>1 DEF LocksInv, Counted
<1>5. ASSUME NEW t \in Session, t # s PROVE Leaving(t)'
  <2>1. mu'[t] = mu[t]
    BY <1>1, <1>5 DEF Turns, WorkTypes
  <2>2. starting'[t] = starting[t] /\ life'[t] = life[t] /\ UNCHANGED job /\ Leaving(t)
    BY <1>5 DEF Away, Runs, LocksInv
  <2> QED
    BY <1>2, <2>1, <2>2, OthersLeave
<1>6. OtherTypes'
  BY <1>1 DEF OtherTypes, Runs, Steady
<1>7. TypeOK'
  BY <1>3, <1>6 DEF TypeOK, LockTypes, WorkTypes, OtherTypes
<1> QED
  BY <1>3, <1>4, <1>5, <1>7 DEF LocksInv

(* A change of one helper by itself.                                            *)
LEMMA HelperStep ==
  ASSUME LocksInv, NEW s \in Session, Quiet, LockTypes', Keys',
         UNCHANGED <<mu, idleMu, slots, stopping, starting, panes, life, job>>,
         \A t \in Session, q \in Pane : t # s => locks'[t][q] = locks[t][q],
         mu[s] \in View => \A q \in Pane : Exists(s, q) => locks'[s][q] # NoLock
  PROVE  LocksInv'
<1>1. /\ LockTypes /\ WorkTypes /\ OtherTypes /\ Leaving(s) /\ Attended(s)
  BY TypeParts DEF LocksInv, AtWork
<1>2. Away(s)
  BY DEF Away
<1>3. Turns(s, mu[s])
  <2>1. mu' = [mu EXCEPT ![s] = mu[s]]
    BY <1>1 DEF WorkTypes
  <2>2. stopping'[s] # Nil => \/ mu[s] \in {"timer", "close"}
                              \/ mu[s] \in View /\ job[mu[s]].at = "purge"
    BY <1>1 DEF Attended
  <2> QED
    BY <2>1, <2>2 DEF Turns
<1>4. Runs(s) /\ Steady(s)
  BY <1>1 DEF Runs, Steady, WorkTypes
<1>5. Leaving(s)'
  <2>1. NoneNew /\ Calm
    BY DEF Quiet
  <2> QED
    BY <1>1, <2>1, OthersLeave
<1>6. mu[s] \in View \cup {"timer", "close", Nil}
  BY <1>1 DEF WorkTypes
<1>7. /\ life' \in [Session -> {"open", "cancelled", "closed"}]
      /\ \A t \in Session : t # s => life'[t] = life[t]
  BY <1>1 DEF OtherTypes
<1> QED
  BY <1>2, <1>3, <1>4, <1>5, <1>6, <1>7, SteadyStep

LEMMA TimersStep ==
  ASSUME LocksInv, NEW s \in Session, NEW p \in Pane, Fire(s, p) \/ Dies(s, p) \/ watch(s, p)
  PROVE  LocksInv'
<1>1. LockTypes /\ WorkTypes /\ Keys /\ Exists(s, p)
  BY TypeParts DEF LocksInv, Fire, Dies, watch
<1>2. UNCHANGED <<mu, idleMu, slots, stopping, starting, panes, life, job>>
  BY DEF Fire, Dies, watch
<1>3. LockTypes' /\ Keys' /\ Quiet
  <2>1. CASE watch(s, p)
    <3>1. mu[s] = Nil
      BY <2>1 DEF watch
    <3>2. stopping[s] = Nil
      BY <3>1 DEF LocksInv, AtWork, Attended
    <3> QED
      BY <1>1, <2>1, <3>2, WatchKeys
  <2> QED
    BY <1>1, <2>1, FireKeys, DiesKeys
<1>4. PICK x : locks' = locks \/ locks' = [locks EXCEPT ![s][p] = x]
  <2>1. \/ locks' = [locks EXCEPT ![s][p] = [locks[s][p] EXCEPT !.armed = FALSE,
                                                    !.fired = @ \cup {"current"}]]
        \/ locks' = [locks EXCEPT ![s][p] = [locks[s][p] EXCEPT !.proc = "ending"]]
        \/ locks' = [locks EXCEPT ![s][p] = [locks[s][p] EXCEPT !.watched = FALSE]]
        \/ locks' = [locks EXCEPT ![s][p] = NoLock]
    <3>1. CASE Fire(s, p)
      <4>1. locks' = [locks EXCEPT ![s][p].armed = FALSE, ![s][p].fired = @ \cup {"current"}]
        BY <3>1 DEF Fire
      <4>2. locks[s][p] \in Lock
        BY <1>1 DEF LockTypes, Exists
      <4>3. [locks EXCEPT ![s][p].armed = FALSE, ![s][p].fired = @ \cup {"current"}]
              = [locks EXCEPT ![s][p] = [locks[s][p] EXCEPT !.armed = FALSE,
                                                            !.fired = @ \cup {"current"}]]
        BY <1>1, <4>2 DEF LockTypes, Lock
      <4> QED
        BY <4>1, <4>3
    <3>2. CASE Dies(s, p)
      BY <1>1, <3>2 DEF Dies
    <3>3. CASE watch(s, p)
      BY <1>1, <3>3 DEF watch, StopEnded, Deleted
    <3> QED
      BY <3>1, <3>2, <3>3
  <2> QED
    BY <2>1
<1>5. \A t \in Session, q \in Pane : t # s => locks'[t][q] = locks[t][q]
  BY <1>1, <1>4, DeletedElsewhere
<1>6. mu[s] \in View => \A q \in Pane : Exists(s, q) => locks'[s][q] # NoLock
  <2>1. CASE mu[s] = Nil
    BY <2>1
  <2>2. CASE Fire(s, p) \/ Dies(s, p)
    <3>1. PICK l \in Lock : locks' = [locks EXCEPT ![s][p] = l]
      <4> DEFINE a == [locks[s][p] EXCEPT !.armed = FALSE, !.fired = @ \cup {"current"}]
                 b == [locks[s][p] EXCEPT !.proc = "ending"]
      <4>1. locks[s][p] \in Lock
        BY <1>1 DEF LockTypes, Exists
      <4>2. a \in Lock /\ b \in Lock
        BY <4>1 DEF Lock
      <4>3. CASE Fire(s, p)
        <5>1. locks' = [locks EXCEPT ![s][p] = a]
          BY <1>1, <4>3 DEF Fire, LockTypes
        <5> HIDE DEF a, b
        <5> QED
          BY <4>2, <5>1
      <4>4. CASE Dies(s, p)
        <5>1. locks' = [locks EXCEPT ![s][p] = b]
          BY <1>1, <4>4 DEF Dies, LockTypes
        <5> HIDE DEF a, b
        <5> QED
          BY <4>2, <5>1
      <4> HIDE DEF a, b
      <4> QED
        BY <2>2, <4>3, <4>4
    <3>2. \A q \in Pane : locks'[s][q] = IF q = p THEN l ELSE locks[s][q]
      BY <1>1, <3>1 DEF LockTypes
    <3> QED
      BY <3>2 DEF Exists
  <2> QED
    BY <2>1, <2>2 DEF watch
<1> QED
  BY <1>2, <1>3, <1>5, <1>6, HelperStep

(* Who begins to wait for a helper, and who has waited.                         *)
LEMMA StopStep ==
  ASSUME LocksInv, NEW s \in Session, NEW p \in Pane, Exists(s, p), BeginStop(s, p),
         stopping[s] = Nil, mu[s] \notin View, NEW m \in {"timer", "close"},
         mu' = [mu EXCEPT ![s] = m], m = "close" => mu[s] = "close",
         mu[s] = "close" => m = "close",
         UNCHANGED <<idleMu, slots, starting, panes, life, held, job>>
  PROVE  LocksInv'
<1>1. /\ LockTypes /\ WorkTypes /\ OtherTypes /\ Keys /\ Leaving(s)
  BY TypeParts DEF LocksInv
<1>2. LockTypes' /\ Keys' /\ Quiet /\ stopping' = [stopping EXCEPT ![s] = p]
  BY <1>1, KeyStopped
<1>3. \A t \in Session, q \in Pane : t # s => locks'[t][q] = locks[t][q]
  BY <1>1 DEF BeginStop, LockTypes
<1>4. \A t \in Session : t # s => stopping'[t] = stopping[t]
  BY <1>1, <1>2 DEF LockTypes
<1>5. Away(s)
  BY <1>3, <1>4 DEF Away
<1>6. m \in View \cup {"timer", "close", Nil} /\ m \notin View
  OBVIOUS
<1>7. Turns(s, m)
  BY <1>6 DEF Turns
<1>8. Runs(s) /\ Steady(s)
  BY <1>1 DEF Runs, Steady, WorkTypes
<1>9. Leaving(s)'
  <2>1. mu'[s] = m
    BY <1>1 DEF WorkTypes
  <2>2. NoneNew /\ Calm
    BY <1>2 DEF Quiet
  <2> QED
    BY <1>1, <2>1, <2>2, OthersLeave
<1>10. /\ life' \in [Session -> {"open", "cancelled", "closed"}]
       /\ \A t \in Session : t # s => life'[t] = life[t]
  BY <1>1 DEF OtherTypes
<1> QED
  BY <1>2, <1>5, <1>6, <1>7, <1>8, <1>9, <1>10, SteadyStep

LEMMA ExpireStep ==
  ASSUME LocksInv, NEW s \in Session, NEW p \in Pane, Expire(s, p) PROVE LocksInv'
<1>1. /\ LockTypes /\ WorkTypes /\ Keys /\ Exists(s, p) /\ mu[s] = Nil
      /\ UNCHANGED <<idleMu, slots, starting, panes, life, held, job>>
  BY TypeParts DEF LocksInv, Expire
<1>2. stopping[s] = Nil
  BY <1>1 DEF LocksInv, AtWork, Attended
<1>3. CASE BeginStop(s, p) /\ mu' = [mu EXCEPT ![s] = "timer"]
  BY <1>1, <1>2, <1>3, StopStep
<1>4. ASSUME NEW e, ~Due(s, p, e), locks' = [locks EXCEPT ![s][p].fired = @ \ {e}],
             UNCHANGED <<mu, idle, stopping>>
      PROVE  LocksInv'
  <2>1. LockTypes' /\ Keys' /\ Quiet
    BY <1>1, <1>4, LateKeys
  <2>2. \A t \in Session, q \in Pane : t # s => locks'[t][q] = locks[t][q]
    BY <1>1, <1>4 DEF LockTypes
  <2> QED
    BY <1>1, <1>4, <2>1, <2>2, HelperStep
<1> QED
  BY <1>3, <1>4 DEF Expire

LEMMA StoppedStep ==
  ASSUME LocksInv, NEW s \in Session, Stopped(s) PROVE LocksInv'
<1>1. /\ LockTypes /\ WorkTypes /\ OtherTypes /\ Keys /\ Leaving(s) /\ Attended(s)
  BY TypeParts DEF LocksInv, AtWork
<1>2. LockTypes' /\ Keys' /\ Quiet
  BY <1>1, KeyStoppedDone
<1>3. PICK p \in Pane : p = stopping[s]
  BY <1>1 DEF Stopped, LockTypes
<1>4. /\ locks' = [locks EXCEPT ![s][p] = NoLock] /\ stopping' = [stopping EXCEPT ![s] = Nil]
      /\ mu' = [mu EXCEPT ![s] = IF @ = "timer" THEN Nil ELSE @]
      /\ UNCHANGED <<idleMu, slots, starting, panes, life, job>>
  BY <1>3 DEF Stopped, Deleted
<1> DEFINE m == IF mu[s] = "timer" THEN Nil ELSE mu[s]
<1>5. /\ m \in View \cup {"timer", "close", Nil} /\ mu' = [mu EXCEPT ![s] = m] /\ mu'[s] = m
      /\ m = mu[s] \/ (m \notin View /\ mu[s] \notin View)
      /\ m = "close" <=> mu[s] = "close"
  BY <1>1, <1>4 DEF WorkTypes
<1> HIDE DEF m
<1>6. /\ stopping'[s] = Nil /\ \A t \in Session : t # s => stopping'[t] = stopping[t]
      /\ \A t \in Session, q \in Pane : t # s \/ q # p => locks'[t][q] = locks[t][q]
  BY <1>1, <1>4 DEF LockTypes
<1>7. Away(s)
  BY <1>4, <1>6 DEF Away
<1>8. Turns(s, m)
  <2>1. \A q \in Pane : Exists(s, q) /\ stopping[s] # q => locks'[s][q] # NoLock /\ stopping'[s] # q
    BY <1>3, <1>6 DEF Exists
  <2> QED
    BY <1>5, <1>6, <2>1 DEF Turns
<1>9. Runs(s) /\ Steady(s)
  BY <1>1, <1>4 DEF Runs, Steady, WorkTypes
<1>10. Leaving(s)'
  <2>1. NoneNew /\ Calm
    BY <1>2 DEF Quiet
  <2> QED
    BY <1>1, <1>4, <1>5, <2>1, OthersLeave
<1>11. /\ life' \in [Session -> {"open", "cancelled", "closed"}]
       /\ \A t \in Session : t # s => life'[t] = life[t]
  BY <1>1, <1>4 DEF OtherTypes
<1> QED
  BY <1>2, <1>5, <1>7, <1>8, <1>9, <1>10, <1>11, SteadyStep

LEMMA ClosingStep ==
  ASSUME LocksInv, NEW s \in Session, CloseStep(s) PROVE LocksInv'
<1>1. /\ LockTypes /\ WorkTypes /\ OtherTypes /\ Keys /\ Leaving(s)
      /\ mu[s] = "close" /\ stopping[s] = Nil
      /\ UNCHANGED <<idleMu, slots, starting, panes, life, held, job>>
  BY TypeParts DEF LocksInv, CloseStep
<1>2. ASSUME NEW p \in Pane, Exists(s, p), BeginStop(s, p), UNCHANGED mu
      PROVE  LocksInv'
  <2>1. mu' = [mu EXCEPT ![s] = "close"] /\ mu[s] \notin View
    BY <1>1, <1>2 DEF WorkTypes
  <2> QED
    BY <1>1, <1>2, <2>1, StopStep
<1>3. ASSUME \A p \in Pane : ~Exists(s, p), mu' = [mu EXCEPT ![s] = Nil],
             UNCHANGED <<idle, locks, stopping>>
      PROVE  LocksInv'
  <2>1. LockTypes' /\ Keys' /\ Quiet
    BY <1>1, <1>3, NoKey DEF LockTypes
  <2>2. Away(s)
    BY <1>1, <1>3, AwaySame
  <2>3. Nil \notin View /\ mu[s] \notin View
    BY <1>1
  <2>4. Turns(s, Nil)
    BY <1>1, <1>3, <2>3 DEF Turns
  <2>5. Runs(s) /\ Steady(s)
    BY <1>1 DEF Runs, Steady, WorkTypes
  <2>6. Leaving(s)'
    <3>1. NoneNew /\ Calm
      BY <2>1 DEF Quiet
    <3>2. mu'[s] = Nil
      BY <1>1, <1>3 DEF WorkTypes
    <3> QED
      BY <1>1, <1>3, <3>1, <3>2, OthersLeave
  <2>7. /\ life' \in [Session -> {"open", "cancelled", "closed"}]
        /\ \A t \in Session : t # s => life'[t] = life[t]
    BY <1>1 DEF OtherTypes
  <2>8. Nil \in View \cup {"timer", "close", Nil}
    OBVIOUS
  <2> QED
    BY <2>1, <2>2, <2>4, <2>5, <2>6, <2>7, <2>8, SteadyStep
<1> QED
  BY <1>2, <1>3 DEF CloseStep

(* A step that is only about how a session's helpers and its close proceed.     *)
LEMMA CourseStep ==
  ASSUME LocksInv, NEW s \in Session, UNCHANGED <<idle, stopping, held, panes, job>>,
         LockTypes', Keys', Quiet,
         \A t \in Session, q \in Pane : locks'[t][q] = NoLock <=> locks[t][q] = NoLock,
         NEW m \in View \cup {"timer", "close", Nil}, mu' = [mu EXCEPT ![s] = m],
         m = mu[s] \/ (m = "close" /\ mu[s] = Nil),
         NEW x \in {"no", "setup", "killed", "ending", "done"},
         starting' = [starting EXCEPT ![s] = x],
         x = "no" <=> starting[s] = "no", Steady(s),
         NEW y \in {"open", "cancelled", "closed"}, life' = [life EXCEPT ![s] = y],
         Leaving(s)'
  PROVE  LocksInv'
<1>1. LockTypes /\ WorkTypes /\ OtherTypes /\ Attended(s)
  BY TypeParts DEF LocksInv, AtWork
<1>2. /\ starting' \in [Session -> {"no", "setup", "killed", "ending", "done"}]
      /\ starting'[s] = x /\ \A t \in Session : t # s => starting'[t] = starting[t]
  BY <1>1 DEF WorkTypes
<1>3. /\ life' \in [Session -> {"open", "cancelled", "closed"}]
      /\ \A t \in Session : t # s => life'[t] = life[t]
  BY <1>1 DEF OtherTypes
<1>4. Away(s)
  BY <1>2 DEF Away
<1>5. Turns(s, m)
  <2>1. mu[s] \in View => \A p \in Pane : Exists(s, p) /\ stopping[s] # p =>
                            locks'[s][p] # NoLock /\ stopping'[s] # p
    BY DEF Exists
  <2>2. stopping'[s] # Nil => mu[s] = m /\ \/ m \in {"timer", "close"}
                                           \/ m \in View /\ job[m].at = "purge"
    BY <1>1 DEF Attended
  <2>3. m = mu[s] \/ (m \notin View /\ mu[s] \notin View)
    OBVIOUS
  <2> QED
    BY <2>1, <2>2, <2>3 DEF Turns
<1>6. Runs(s)
  BY <1>2 DEF Runs
<1> QED
  BY <1>3, <1>4, <1>5, <1>6, SteadyStep

LEMMA DiesEarlyStep ==
  ASSUME LocksInv, NEW s \in Session, DiesEarly(s) PROVE LocksInv'
<1>1. /\ LockTypes /\ WorkTypes /\ OtherTypes /\ Keys /\ Leaving(s)
      /\ starting[s] = "setup" /\ starting' = [starting EXCEPT ![s] = "ending"]
      /\ UNCHANGED <<mu, idleMu, idle, slots, locks, stopping, panes, life, held, job>>
  BY TypeParts DEF LocksInv, DiesEarly
<1>2. LockTypes' /\ Keys' /\ Quiet
  BY <1>1, NoKey DEF LockTypes
<1>3. starting'[s] = "ending"
  BY <1>1 DEF WorkTypes
<1>4. Steady(s)
  BY <1>1, <1>3 DEF Steady
<1>5. Leaving(s)'
  <2>1. NoneNew /\ Calm
    BY <1>2 DEF Quiet
  <2> QED
    BY <1>1, <1>3, <2>1, OthersLeave
<1>6. /\ mu[s] \in View \cup {"timer", "close", Nil} /\ mu' = [mu EXCEPT ![s] = mu[s]]
      /\ life[s] \in {"open", "cancelled", "closed"} /\ life' = [life EXCEPT ![s] = life[s]]
  BY <1>1 DEF WorkTypes, OtherTypes
<1>7. /\ "ending" \in {"no", "setup", "killed", "ending", "done"}
      /\ "ending" = "no" <=> starting[s] = "no"
  BY <1>1
<1> QED
  BY <1>1, <1>2, <1>4, <1>5, <1>6, <1>7, CourseStep

LEMMA CancelStep ==
  ASSUME LocksInv, NEW s \in Session, Cancel(s) PROVE LocksInv'
<1>1. /\ LockTypes /\ WorkTypes /\ OtherTypes /\ Keys /\ Leaving(s) /\ life[s] = "open"
      /\ life' = [life EXCEPT ![s] = "cancelled"]
      /\ starting' = [starting EXCEPT ![s] = IF @ = "setup" THEN "killed" ELSE @]
      /\ UNCHANGED <<mu, idleMu, idle, slots, stopping, panes, held, job>>
  BY TypeParts DEF LocksInv, Cancel
<1>2. /\ LockTypes' /\ Keys' /\ Quiet
      /\ \A t \in Session, q \in Pane : locks'[t][q] = NoLock <=> locks[t][q] = NoLock
      /\ \A q \in Pane : locks'[s][q] # NoLock => locks'[s][q].proc # "up"
  BY <1>1, CancelKeys
<1> DEFINE x == IF starting[s] = "setup" THEN "killed" ELSE starting[s]
<1>3. /\ x \in {"no", "setup", "killed", "ending", "done"} /\ x # "setup"
      /\ starting' = [starting EXCEPT ![s] = x]
      /\ x = "no" <=> starting[s] = "no"
      /\ x = "done" <=> starting[s] = "done"
  BY <1>1 DEF WorkTypes
<1> HIDE DEF x
<1>4. starting'[s] = x /\ life'[s] = "cancelled"
  BY <1>1, <1>3 DEF WorkTypes, OtherTypes
<1>5. Steady(s)
  BY <1>1, <1>3, <1>4 DEF Steady
<1>6. Leaving(s)'
  <2>1. mu'[s] # "close"
    BY <1>1 DEF Leaving
  <2> QED
    BY <1>2, <1>3, <1>4, <2>1 DEF Leaving, Exists
<1>7. mu[s] \in View \cup {"timer", "close", Nil} /\ mu' = [mu EXCEPT ![s] = mu[s]]
  BY <1>1 DEF WorkTypes
<1>8. "cancelled" \in {"open", "cancelled", "closed"}
  OBVIOUS
<1> QED
  BY <1>1, <1>2, <1>3, <1>5, <1>6, <1>7, <1>8, CourseStep

LEMMA CloseBegins ==
  ASSUME LocksInv, NEW s \in Session, Close(s) PROVE LocksInv'
<1>1. /\ LockTypes /\ WorkTypes /\ OtherTypes /\ Keys /\ Leaving(s)
      /\ life[s] = "cancelled" /\ mu[s] = Nil
      /\ life' = [life EXCEPT ![s] = "closed"] /\ mu' = [mu EXCEPT ![s] = "close"]
      /\ UNCHANGED <<idleMu, idle, slots, locks, stopping, starting, panes, held, job>>
  BY TypeParts DEF LocksInv, Close
<1>2. LockTypes' /\ Keys' /\ Quiet
  BY <1>1, NoKey DEF LockTypes
<1>3. mu'[s] = "close" /\ life'[s] = "closed"
  BY <1>1 DEF WorkTypes, OtherTypes
<1>4. Steady(s)
  BY <1>1 DEF Steady
<1>5. Leaving(s)'
  <2>1. ASSUME NEW w \in Views(s) PROVE job[w].at \in {"out", "over"}
    <3>1. w \in View /\ SessionOf[w] = s /\ mu[s] # w
      BY <1>1 DEF Views
    <3> QED
      BY <3>1 DEF LocksInv, AtWork, Relies
  <2>2. starting[s] # "setup" /\ \A p \in Pane : locks[s][p] # NoLock => locks[s][p].proc # "up"
    BY <1>1 DEF Leaving, Exists
  <2> QED
    BY <1>1, <1>3, <2>1, <2>2 DEF Leaving, Exists, Views
<1>6. /\ starting[s] \in {"no", "setup", "killed", "ending", "done"}
      /\ starting' = [starting EXCEPT ![s] = starting[s]]
  BY <1>1 DEF WorkTypes
<1>7. "closed" \in {"open", "cancelled", "closed"} /\ "close" \in View \cup {"timer", "close", Nil}
  OBVIOUS
<1> QED
  BY <1>1, <1>2, <1>4, <1>5, <1>6, <1>7, CourseStep

(* Helpers that end give their slots back.                                      *)
LEMMA EndsEarlyStep ==
  ASSUME LocksInv, NEW s \in Session, EndsEarly(s) PROVE LocksInv'
<1>1. /\ LockTypes /\ WorkTypes /\ OtherTypes /\ Keys /\ Leaving(s) /\ AtWork /\ Attended(s)
      /\ starting[s] \in {"ending", "killed"} /\ starting' = [starting EXCEPT ![s] = "done"]
      /\ slots' = slots - 1
      /\ UNCHANGED <<mu, idleMu, idle, locks, stopping, panes, life, held, job>>
  BY TypeParts DEF LocksInv, EndsEarly, AtWork
<1>2. LockTypes' /\ Keys' /\ Quiet
  BY <1>1, NoKey DEF LockTypes
<1>3. NoneNew /\ Calm /\ LiveKeys' = LiveKeys
  BY <1>2 DEF Quiet, LiveSame
<1>4. starting'[s] = "done" /\ \A t \in Session : t # s => starting'[t] = starting[t]
  BY <1>1 DEF WorkTypes
<1>5. PICK v \in View : v = mu[s] /\ SessionOf[v] = s /\ job[v].at \in {"setup", "failed"}
  BY <1>1 DEF Attended
<1>6. Away(s)
  BY <1>1, <1>4 DEF Away
<1>7. Turns(s, v)
  <2>1. mu' = [mu EXCEPT ![s] = v]
    BY <1>1, <1>5 DEF WorkTypes
  <2>2. stopping'[s] = Nil
    BY <1>1, <1>5 DEF Attended
  <2> QED
    BY <1>1, <1>5, <2>1, <2>2 DEF Turns, Exists
<1>8. Runs(s)
  BY <1>1, <1>4 DEF Runs, WorkTypes
<1>9. /\ WorkTypes' /\ AtWork'
      /\ \A w \in View : SessionOf[w] # s => (w \in Setups' <=> w \in Setups)
  BY <1>1, <1>3, <1>6, <1>7, <1>8, SessionMove
<1>10. v \in Setups /\ v \notin Setups'
  BY <1>1, <1>4, <1>5 DEF Setups
<1>11. ASSUME NEW w \in View, w # v, SessionOf[w] = s
       PROVE  w \notin Setups /\ w \notin Setups'
  <2>1. job[w].at \in {"out", "over"}
    BY <1>1, <1>5, <1>11 DEF AtWork, Relies
  <2> QED
    BY <1>1, <2>1 DEF Setups
<1>12. Paid(v)
  BY <1>1, <1>9, <1>10, <1>11 DEF Paid
<1>13. Counted /\ slots \in 0 .. MaxSlots
  BY <1>1 DEF LocksInv, OtherTypes
<1>14. Counted' /\ slots' \in 0 .. MaxSlots
  BY <1>3, <1>12, <1>13, PaidCounts
<1>15. ASSUME NEW t \in Session PROVE Leaving(t)'
  <2>1. starting'[t] = "setup" => starting[t] = "setup"
    BY <1>4
  <2>2. Leaving(t)
    BY DEF LocksInv
  <2>3. UNCHANGED job /\ life'[t] = life[t] /\ mu'[t] = mu[t]
    BY <1>1
  <2> QED
    BY <1>3, <2>1, <2>2, <2>3, OthersLeave
<1>16. TypeOK'
  BY <1>1, <1>2, <1>9, <1>14 DEF TypeOK, LockTypes, WorkTypes, OtherTypes
<1> QED
  BY <1>2, <1>9, <1>14, <1>15, <1>16 DEF LocksInv

LEMMA EndsStep ==
  ASSUME LocksInv, NEW s \in Session, NEW p \in Pane, Ends(s, p) PROVE LocksInv'
<1>1. /\ LockTypes /\ WorkTypes /\ OtherTypes /\ Keys /\ AtWork /\ Attended(s)
      /\ slots' = slots - 1
      /\ UNCHANGED <<mu, idleMu, idle, stopping, starting, panes, life, held, job>>
  BY TypeParts DEF LocksInv, Ends, AtWork
<1>2. /\ LockTypes' /\ Keys' /\ NoneNew /\ Calm
      /\ \A t \in Session, q \in Pane : locks'[t][q] = NoLock <=> locks[t][q] = NoLock
      /\ <<s, p>> \in LiveKeys /\ LiveKeys' = LiveKeys \ {<<s, p>>}
  BY <1>1, EndsKeys
<1>3. Away(s)
  BY <1>1, <1>2 DEF Away
<1>4. mu[s] \in View \cup {"timer", "close", Nil} /\ mu' = [mu EXCEPT ![s] = mu[s]]
  BY <1>1 DEF WorkTypes
<1>5. Turns(s, mu[s])
  BY <1>1, <1>2, <1>4 DEF Turns, Attended, Exists
<1>6. Runs(s)
  BY <1>1 DEF Runs, WorkTypes
<1>7. WorkTypes' /\ AtWork' /\ Setups' = Setups
  <2>1. starting'[s] = "done" <=> starting[s] = "done"
    BY <1>1
  <2> QED
    BY <1>1, <1>2, <1>3, <1>4, <1>5, <1>6, <2>1, SessionMove
<1>8. Counted' /\ slots' \in 0 .. MaxSlots
  <2>1. /\ Cardinality(LiveKeys \ {<<s, p>>}) = Cardinality(LiveKeys) - 1
        /\ Cardinality(LiveKeys \ {<<s, p>>}) \in Nat /\ Cardinality(Setups) \in Nat
        /\ Cardinality(LiveKeys) \in Nat
    BY <1>2, CountTypes, FS_RemoveElement, FS_CardinalityType
  <2>2. slots = Cardinality(LiveKeys) + Cardinality(Setups) /\ slots \in 0 .. MaxSlots
    BY <1>1 DEF LocksInv, Counted, OtherTypes
  <2>3. Cardinality(LiveKeys)' = Cardinality(LiveKeys) - 1 /\ Cardinality(Setups)' = Cardinality(Setups)
    BY <1>2, <1>7, <2>1
  <2>4. slots' = Cardinality(LiveKeys)' + Cardinality(Setups)' /\ slots' \in 0 .. MaxSlots
    BY <1>1, <2>1, <2>2, <2>3
  <2> QED
    BY <2>4 DEF Counted
<1>9. ASSUME NEW t \in Session PROVE Leaving(t)'
  <2>1. UNCHANGED job /\ life'[t] = life[t] /\ mu'[t] = mu[t] /\ starting'[t] = starting[t]
    BY <1>1
  <2>2. Leaving(t)
    BY DEF LocksInv
  <2> QED
    BY <1>2, <2>1, <2>2, OthersLeave
<1>10. TypeOK'
  BY <1>1, <1>2, <1>7, <1>8 DEF TypeOK, LockTypes, WorkTypes, OtherTypes
<1> QED
  BY <1>2, <1>7, <1>8, <1>9, <1>10 DEF LocksInv

-----------------------------------------------------------------------------
(* The invariant.                                                               *)
LEMMA LocksInit == ASSUME Init PROVE LocksInv
<1>1. Out \in Job /\ Out.at = "out"
  BY DEF Out, Job, Phase
<1>2. TypeOK
  BY <1>1 DEF Init, TypeOK
<1>3. \A s \in Session, p \in Pane : ~Exists(s, p)
  BY DEF Init, Exists
<1>4. Keys
  <2>1. \A s \in Session, p \in Pane : Holders(s, p) = {} /\ stopping[s] # p /\ <<s, p>> \notin idle
    BY DEF Init, Holders, Views
  <2> QED
    BY <1>3, <2>1 DEF Keys, KeyOK
<1>5. AtWork
  <2>1. \A v \in View : job[v].at = "out" /\ mu[SessionOf[v]] = Nil /\ v # Nil
    BY <1>1 DEF Init
  <2>2. \A v \in View : Relies(v)
    BY <2>1 DEF Relies, Acquiring
  <2>3. \A s \in Session : Attended(s)
    BY DEF Init, Attended
  <2> QED
    BY <2>2, <2>3 DEF AtWork
<1>6. Counted
  <2>1. LiveKeys = {}
    BY <1>3 DEF LiveKeys
  <2>2. Setups = {}
    BY <1>1 DEF Setups, Init
  <2>3. slots = 0 /\ Cardinality({}) = 0
    BY FS_EmptySet DEF Init
  <2> QED
    BY <2>1, <2>2, <2>3 DEF Counted
<1>7. \A s \in Session : Leaving(s)
  BY <1>3 DEF Leaving, Init
<1> QED
  BY <1>2, <1>4, <1>5, <1>6, <1>7 DEF LocksInv

LEMMA LocksStutter == ASSUME LocksInv, UNCHANGED vars PROVE LocksInv'
<1>1. /\ LockTypes /\ WorkTypes /\ OtherTypes /\ Keys /\ AtWork /\ Counted
  BY TypeParts DEF LocksInv
<1>2. LockTypes' /\ Keys' /\ Quiet
  BY <1>1, NoKey DEF LockTypes, vars
<1>3. TypeOK'
  BY DEF LocksInv, TypeOK, vars
<1>4. AtWork'
  BY <1>1 DEF AtWork, Relies, Attended, Exists, vars
<1>5. Counted'
  BY <1>1 DEF Counted, LiveKeys, Setups, Exists, vars
<1>6. \A s \in Session : Leaving(s)'
  BY DEF LocksInv, Leaving, Exists, Views, vars
<1> QED
  BY <1>2, <1>3, <1>4, <1>5, <1>6 DEF LocksInv

LEMMA LocksNext == ASSUME LocksInv, Next PROVE LocksInv'
<1>1. CASE \E v \in View : Enter(v) \/ CloseView(v) \/ ReconcileStep(v)
  BY <1>1, EnterStep, CloseViewStep, PurgeStep, CheckStep, TakeStep, ReclaimedStep, StartStep,
     ReadyStep, SetupFailsStep, FailedStep, DropStep DEF ReconcileStep
<1>2. CASE \E s \in Session : \/ Stopped(s) \/ DiesEarly(s) \/ EndsEarly(s)
                              \/ Cancel(s) \/ Close(s) \/ CloseStep(s)
  BY <1>2, StoppedStep, DiesEarlyStep, EndsEarlyStep, CancelStep, CloseBegins, ClosingStep
<1>3. CASE \E s \in Session, p \in Pane :
             Fire(s, p) \/ Expire(s, p) \/ watch(s, p) \/ Dies(s, p) \/ Ends(s, p)
  BY <1>3, TimersStep, ExpireStep, EndsStep
<1> QED
  BY <1>1, <1>2, <1>3 DEF Next

LEMMA LocksHold == Spec => []LocksInv
<1>1. LocksInv /\ [Next]_vars => LocksInv'
  BY LocksNext, LocksStutter
<1> QED
  BY LocksInit, <1>1, PTL DEF Spec

-----------------------------------------------------------------------------
(* Nobody pins a pane for nobody, no helper that a viewer relies on can be      *)
(* reclaimed, and the budget counts the helpers there are: in whatever order    *)
(* they are started, shared, left, reclaimed by another session and end         *)
(* (releaseLocked, reuseLocked, reserveSizeSlot, holdSize).                     *)
THEOREM HelpersAlwaysCounted == Spec => []HelpersCounted
<1>1. ASSUME LocksInv PROVE HelpersCounted
  <2>1. RefsCounted
    <3>1. ASSUME NEW s \in Session, NEW p \in Pane, Exists(s, p)
          PROVE  LET l == locks[s][p] IN
                 /\ l.refs = Cardinality({v \in Views(s) : held[v][p] = "yes"})
                 /\ <<s, p>> \in idle => l.refs = 0 /\ ~l.retired
                 /\ l.refs = 0 /\ l.proc = "up"
                      => <<s, p>> \in idle /\ (l.armed \/ "current" \in l.fired)
                 /\ l.refs = 0 /\ stopping[s] # p => l.watched \/ l.armed \/ "current" \in l.fired
      <4>1. KeyOK(s, p)
        BY <1>1 DEF LocksInv, Keys
      <4> QED
        BY <3>1, <4>1 DEF KeyOK, Holders
    <3> QED
      BY <3>1 DEF RefsCounted
  <2>2. SlotsCounted
    <3>1. UNION {{s} \X Live(s) : s \in Session} = LiveKeys
      <4>1. ASSUME NEW k \in LiveKeys PROVE k \in UNION {{s} \X Live(s) : s \in Session}
        <5>1. PICK s \in Session, p \in Pane : k = <<s, p>> /\ p \in Live(s)
          BY DEF LiveKeys, Live
        <5> QED
          BY <5>1
      <4>2. ASSUME NEW s \in Session, NEW p \in Live(s) PROVE <<s, p>> \in LiveKeys
        BY DEF LiveKeys, Live
      <4> QED
        BY <4>1, <4>2
    <3>2. UNION {Setup(s) : s \in Session} = Setups
      BY DEF Setups, Setup, Views
    <3> QED
      BY <1>1, <3>1, <3>2 DEF SlotsCounted, LocksInv, Counted
  <2> QED
    BY <2>1, <2>2 DEF HelpersCounted
<1> QED
  BY LocksHold, <1>1, PTL

(* When Sizing.close has returned the session has no helper, and none comes     *)
(* back with a reconcile that had begun before.                                 *)
THEOREM ClosedAlwaysQuiet == Spec => []ClosedIsQuiet
<1>1. ASSUME LocksInv, NEW s \in Session, life[s] = "closed", mu[s] # "close"
      PROVE  starting[s] = "no" /\ \A p \in Pane : ~Exists(s, p)
  <2>1. Leaving(s) /\ Attended(s)
    BY <1>1 DEF LocksInv, AtWork
  <2>2. mu[s] \in View => mu[s] \in Views(s)
    BY <2>1 DEF Attended, Views
  <2>3. starting[s] = "no"
    BY <1>1, <2>1, <2>2 DEF Leaving, Attended
  <2> QED
    BY <1>1, <2>1, <2>3 DEF Leaving
<1>2. LocksInv => ClosedIsQuiet
  BY <1>1 DEF ClosedIsQuiet
<1> QED
  BY LocksHold, <1>2, PTL

-----------------------------------------------------------------------------
(* No helper is newly retired, and one that has ended does not come back.       *)
Unretired ==
  \A s \in Session, p \in Pane :
    locks'[s][p] # NoLock /\ locks'[s][p].retired =>
      /\ Exists(s, p) /\ locks[s][p].retired
      /\ locks[s][p].proc = "done" => locks'[s][p].proc = "done"

LEMMA PutUnretired ==
  ASSUME LockTypes, NEW s \in Session, NEW p \in Pane, NEW x,
         locks' = [locks EXCEPT ![s][p] = x],
         x # NoLock /\ x.retired => /\ Exists(s, p) /\ locks[s][p].retired
                                    /\ locks[s][p].proc = "done" => x.proc = "done"
  PROVE  Unretired
<1>1. \A t \in Session, q \in Pane :
        locks'[t][q] = IF t = s /\ q = p THEN x ELSE locks[t][q]
  BY DEF LockTypes
<1> QED
  BY <1>1 DEF Unretired, Exists

LEMMA SameUnretired == ASSUME UNCHANGED locks PROVE Unretired
BY DEF Unretired, Exists

LEMMA EndedUnretired ==
  ASSUME LockTypes, NEW s \in Session, NEW p \in Pane, StopEnded(s, p)
  PROVE  Unretired
<1>1. locks' = [locks EXCEPT ![s][p] = NoLock]
  BY DEF StopEnded, Deleted
<1> QED
  BY <1>1, PutUnretired

LEMMA ReleaseUnretired ==
  ASSUME LockTypes, NEW v \in View, NEW s \in Session, NEW p \in Pane, releaseLocked(v, s, p)
  PROVE  Unretired
<1> DEFINE l == locks[s][p]
<1>1. CASE UNCHANGED locks
  BY <1>1, SameUnretired
<1>2. CASE ~NotCurrent(v, s, p) /\ locks' = [locks EXCEPT ![s][p].refs = @ - 1]
  <2> DEFINE x == [l EXCEPT !.refs = @ - 1]
  <2>1. Exists(s, p) /\ l \in Lock
    BY <1>2 DEF NotCurrent, LockTypes, Exists
  <2>2. locks' = [locks EXCEPT ![s][p] = x] /\ x.retired = l.retired /\ x.proc = l.proc
    BY <1>2, <2>1 DEF Lock
  <2> HIDE DEF x
  <2> QED
    BY <2>1, <2>2, PutUnretired
<1>3. CASE StopEnded(s, p)
  BY <1>3, EndedUnretired
<1>4. CASE /\ ~NotCurrent(v, s, p)
           /\ locks' = [locks EXCEPT ![s][p] = [NewEpoch(@) EXCEPT !.refs = 0, !.armed = TRUE]]
  <2> DEFINE x == [NewEpoch(l) EXCEPT !.refs = 0, !.armed = TRUE]
  <2>1. Exists(s, p) /\ l \in Lock
    BY <1>4 DEF NotCurrent, LockTypes, Exists
  <2>2. NewEpoch(l) \in Lock /\ NewEpoch(l).retired = l.retired /\ NewEpoch(l).proc = l.proc
    BY <2>1, LockSteps
  <2>3. locks' = [locks EXCEPT ![s][p] = x] /\ x.retired = l.retired /\ x.proc = l.proc
    BY <1>4, <2>2 DEF Lock
  <2> HIDE DEF x
  <2> QED
    BY <2>1, <2>3, PutUnretired
<1> QED
  BY <1>1, <1>2, <1>3, <1>4 DEF releaseLocked

LEMMA HeldUnretired ==
  ASSUME LockTypes, NEW v \in View, NEW s \in Session, NEW p \in Pane, Exists(s, p),
         Keep(v, s, p) \/ Reuse(v, s, p) \/ ReuseFails(v, s, p) \/ Share(v, s, p)
  PROVE  Unretired
<1> DEFINE l == locks[s][p]
           x == [NewEpoch(l) EXCEPT !.refs = 1]
           y == [l EXCEPT !.refs = @ + 1]
<1>1. l \in Lock
  BY DEF LockTypes, Exists
<1>2. NewEpoch(l) \in Lock /\ NewEpoch(l).retired = l.retired /\ NewEpoch(l).proc = l.proc
  BY <1>1, LockSteps
<1>3. x.retired = l.retired /\ y.retired = l.retired /\ x.proc = l.proc /\ y.proc = l.proc
  BY <1>1, <1>2 DEF Lock
<1>4. \/ UNCHANGED locks \/ StopEnded(s, p)
      \/ locks' = [locks EXCEPT ![s][p] = x] \/ locks' = [locks EXCEPT ![s][p] = y]
  BY DEF Keep, Reuse, ReuseFails, Share
<1> HIDE DEF x, y
<1> QED
  BY <1>3, <1>4, SameUnretired, EndedUnretired, PutUnretired

LEMMA TimersUnretired ==
  ASSUME LockTypes, NEW s \in Session, NEW p \in Pane, Exists(s, p), NEW e,
         \/ locks' = [locks EXCEPT ![s][p].armed = FALSE, ![s][p].fired = @ \cup {"current"}]
         \/ locks' = [locks EXCEPT ![s][p].fired = @ \ {e}]
         \/ locks' = [locks EXCEPT ![s][p].watched = FALSE]
         \/ locks' = [locks EXCEPT ![s][p].proc = "ending"] /\ locks[s][p].proc = "up"
         \/ locks' = [locks EXCEPT ![s][p].proc = "done"]
  PROVE  Unretired
<1> DEFINE l == locks[s][p]
           a == [l EXCEPT !.armed = FALSE, !.fired = @ \cup {"current"}]
           b == [l EXCEPT !.fired = @ \ {e}]
           c == [l EXCEPT !.watched = FALSE]
           d == [l EXCEPT !.proc = "ending"]
           f == [l EXCEPT !.proc = "done"]
<1>1. l \in Lock
  BY DEF LockTypes, Exists
<1>2. /\ a.retired = l.retired /\ b.retired = l.retired /\ c.retired = l.retired
      /\ d.retired = l.retired /\ f.retired = l.retired
      /\ a.proc = l.proc /\ b.proc = l.proc /\ c.proc = l.proc /\ f.proc = "done"
  BY <1>1 DEF Lock
<1>3. \/ locks' = [locks EXCEPT ![s][p] = a] \/ locks' = [locks EXCEPT ![s][p] = b]
      \/ locks' = [locks EXCEPT ![s][p] = c]
      \/ locks' = [locks EXCEPT ![s][p] = d] /\ l.proc # "done"
      \/ locks' = [locks EXCEPT ![s][p] = f]
  <2>1. CASE locks' = [locks EXCEPT ![s][p].armed = FALSE, ![s][p].fired = @ \cup {"current"}]
    <3>1. locks' = [locks EXCEPT ![s][p] = a]
      BY <2>1, <1>1 DEF LockTypes
    <3> HIDE DEF a
    <3> QED
      BY <3>1
  <2>2. CASE locks' = [locks EXCEPT ![s][p].fired = @ \ {e}]
    BY <2>2
  <2>3. CASE locks' = [locks EXCEPT ![s][p].watched = FALSE]
    BY <2>3
  <2>4. CASE locks' = [locks EXCEPT ![s][p].proc = "ending"] /\ l.proc = "up"
    BY <2>4
  <2>5. CASE locks' = [locks EXCEPT ![s][p].proc = "done"]
    BY <2>5
  <2> HIDE DEF a, b, c, d, f
  <2> QED
    BY <2>1, <2>2, <2>3, <2>4, <2>5
<1> HIDE DEF a, b, c, d, f
<1> QED
  BY <1>2, <1>3, PutUnretired

LEMMA CancelUnretired ==
  ASSUME LockTypes, NEW s \in Session, Cancel(s)
  PROVE  Unretired
<1>1. ASSUME NEW t \in Session, NEW p \in Pane, locks'[t][p] # NoLock, locks'[t][p].retired
      PROVE  /\ Exists(t, p) /\ locks[t][p].retired
             /\ locks[t][p].proc = "done" => locks'[t][p].proc = "done"
  <2>1. CASE t = s
    <3>1. locks'[s][p] = IF locks[s][p] = NoLock THEN NoLock ELSE Cancelled(locks[s][p])
      BY DEF Cancel, LockTypes
    <3>2. locks[s][p] # NoLock /\ locks'[s][p] = Cancelled(locks[s][p])
      BY <1>1, <2>1, <3>1
    <3>3. locks[s][p] \in Lock
      BY <3>2 DEF LockTypes
    <3>4. /\ Cancelled(locks[s][p]).retired = locks[s][p].retired
          /\ locks[s][p].proc = "done" => Cancelled(locks[s][p]).proc = "done"
      BY <3>3, LockSteps
    <3> QED
      BY <1>1, <2>1, <3>2, <3>4 DEF Exists
  <2>2. CASE t # s
    BY <1>1, <2>2 DEF Cancel, LockTypes, Exists
  <2> QED
    BY <2>1, <2>2
<1> QED
  BY <1>1 DEF Unretired

(* Why a helper is retired: the code's three reasons.                           *)
Reason(s, p) ==
  \/ panes[s] # Nil /\ p \notin panes[s]
  \/ locks[s][p].refs = 0 /\ "current" \in locks[s][p].fired
  \/ locks[s][p].refs = 0 /\ slots = MaxSlots /\ idleMu' # Nil

Reasonable ==
  \A s \in Session, p \in Pane :
    (Exists(s, p) /\ locks'[s][p] # NoLock
       /\ locks[s][p].proc = "up" /\ locks'[s][p].retired) => Reason(s, p)

LEMMA UnretiredReasonable == ASSUME Keys, Unretired PROVE Reasonable
BY DEF Unretired, Reasonable, Keys, KeyOK

(* A step that retires the helper of one pane has a reason for that one.        *)
LEMMA OneReason ==
  ASSUME LockTypes, Keys, NEW s \in Session, NEW p \in Pane,
         \A t \in Session, q \in Pane : t # s \/ q # p => locks'[t][q] = locks[t][q],
         locks[s][p].proc = "up" => Reason(s, p)
  PROVE  Reasonable
<1>1. ASSUME NEW t \in Session, NEW q \in Pane, Exists(t, q), locks'[t][q] # NoLock,
             locks[t][q].proc = "up", locks'[t][q].retired
      PROVE  Reason(t, q)
  <2>1. ~locks[t][q].retired
    BY <1>1 DEF Keys, KeyOK
  <2>2. t = s /\ q = p
    BY <1>1, <2>1
  <2> QED
    BY <1>1, <2>2
<1> QED
  BY <1>1 DEF Reasonable

(* A viewer retires a helper when it purges its pane, or takes an idle one for  *)
(* the sake of its slot;                                                        *)
Reclaiming ==
  \E k \in idle :
    /\ slots = MaxSlots /\ idleMu' # Nil
    /\ locks' = [locks EXCEPT ![k[1]][k[2]] = [Cancelled(@) EXCEPT !.retired = TRUE]]

ViewerRetires(v) ==
  \/ Unretired
  \/ Purge(v) /\ \E p \in job[v].todo : BeginStop(SessionOf[v], p)
  \/ Reclaiming

LEMMA ReservesRetires ==
  ASSUME NEW v \in View, NEW p, Reserves(v, p) PROVE Unretired \/ Reclaiming
<1>1. CASE UNCHANGED locks
  BY <1>1, SameUnretired
<1>2. CASE /\ slots = MaxSlots /\ idleMu' = v
           /\ \E k \in idle : locks' = [locks EXCEPT ![k[1]][k[2]] =
                                           [Cancelled(@) EXCEPT !.retired = TRUE]]
  BY <1>2 DEF Reclaiming
<1> QED
  BY <1>1, <1>2 DEF Reserves

LEMMA ViewerMayRetire ==
  ASSUME LocksInv, NEW v \in View, Enter(v) \/ CloseView(v) \/ ReconcileStep(v)
  PROVE  ViewerRetires(v)
<1>1. LockTypes /\ job[v] \in Job /\ SessionOf[v] \in Session
  BY TypeParts DEF LocksInv, WorkTypes
<1>2. CASE Enter(v) \/ CloseView(v) \/ Start(v) \/ SetupFails(v) \/ Failed(v)
  <2>1. UNCHANGED locks
    BY <1>2 DEF Enter, CloseView, Start, SetupFails, Failed
  <2> QED
    BY <2>1, SameUnretired DEF ViewerRetires
<1>3. CASE Purge(v)
  <2>1. CASE UNCHANGED locks
    BY <2>1, SameUnretired DEF ViewerRetires
  <2>2. CASE \E p \in job[v].todo : BeginStop(SessionOf[v], p)
    BY <1>3, <2>2 DEF ViewerRetires
  <2> QED
    BY <1>3, <2>1, <2>2 DEF Purge
<1>4. CASE Check(v)
  <2>1. PICK p \in Pane : CheckPane(v, SessionOf[v], p)
    BY <1>1, <1>4 DEF Check, Job
  <2>2. UNCHANGED locks \/ StopEnded(SessionOf[v], p)
    BY <2>1 DEF CheckPane
  <2> QED
    BY <1>1, <2>2, SameUnretired, EndedUnretired DEF ViewerRetires
<1>5. CASE Take(v)
  <2>1. PICK p \in Pane : TakePane(v, SessionOf[v], p)
    BY <1>1, <1>5 DEF Take, Job
  <2>2. CASE Exists(SessionOf[v], p)
    BY <1>1, <2>1, <2>2, HeldUnretired DEF TakePane, ViewerRetires
  <2>3. CASE UNCHANGED locks
    BY <2>3, SameUnretired DEF ViewerRetires
  <2>4. CASE Reserves(v, p)
    BY <2>4, ReservesRetires DEF ViewerRetires
  <2> QED
    BY <2>1, <2>2, <2>3, <2>4 DEF TakePane, Acquire, reserveSizeSlot
<1>6. CASE Reclaimed(v)
  BY <1>6, ReservesRetires DEF Reclaimed, ViewerRetires
<1>7. CASE Ready(v)
  <2> DEFINE s == SessionOf[v]
             x == [refs |-> 1, proc |-> IF starting[s] = "setup" THEN "up" ELSE "ending",
                   retired |-> FALSE, armed |-> FALSE, fired |-> {}, watched |-> TRUE]
  <2>1. locks' = [locks EXCEPT ![s][job[v].pane] = x] /\ ~x.retired
    BY <1>7 DEF Ready
  <2>2. job[v].pane \in Pane
    BY <1>7 DEF Ready, LocksInv, AtWork, Relies, Acquiring
  <2> HIDE DEF x
  <2> QED
    BY <1>1, <2>1, <2>2, PutUnretired DEF ViewerRetires
<1>8. CASE Drop(v)
  <2>1. PICK p \in Pane : releaseLocked(v, SessionOf[v], p)
    BY <1>1, <1>8 DEF Drop, Job
  <2> QED
    BY <1>1, <2>1, ReleaseUnretired DEF ViewerRetires
<1> QED
  BY <1>2, <1>3, <1>4, <1>5, <1>6, <1>7, <1>8 DEF ReconcileStep

(* a session when it is closed, or a grace period is over.                      *)
OthersRetire(s) ==
  \/ Unretired
  \/ \E p \in Pane :
       /\ Exists(s, p) /\ BeginStop(s, p)
       /\ \/ CloseStep(s)
          \/ mu[s] = Nil /\ locks[s][p].refs = 0 /\ "current" \in locks[s][p].fired

LEMMA OthersMayRetire ==
  ASSUME LocksInv, NEW s \in Session,
         \/ Stopped(s) \/ DiesEarly(s) \/ EndsEarly(s) \/ Cancel(s) \/ Close(s) \/ CloseStep(s)
         \/ \E p \in Pane : Fire(s, p) \/ Expire(s, p) \/ watch(s, p) \/ Dies(s, p) \/ Ends(s, p)
  PROVE  OthersRetire(s)
<1>1. LockTypes
  BY TypeParts DEF LocksInv
<1>2. CASE DiesEarly(s) \/ EndsEarly(s) \/ Close(s)
  <2>1. UNCHANGED locks
    BY <1>2 DEF DiesEarly, EndsEarly, Close
  <2> QED
    BY <2>1, SameUnretired DEF OthersRetire
<1>3. CASE Stopped(s)
  <2>1. PICK p \in Pane : p = stopping[s]
    BY <1>1, <1>3 DEF Stopped, LockTypes
  <2>2. locks' = [locks EXCEPT ![s][p] = NoLock]
    BY <1>3, <2>1 DEF Stopped, Deleted
  <2> QED
    BY <1>1, <2>2, PutUnretired DEF OthersRetire
<1>4. CASE Cancel(s)
  BY <1>1, <1>4, CancelUnretired DEF OthersRetire
<1>5. CASE CloseStep(s)
  <2>1. CASE UNCHANGED locks
    BY <2>1, SameUnretired DEF OthersRetire
  <2>2. CASE \E p \in Pane : Exists(s, p) /\ BeginStop(s, p)
    BY <1>5, <2>2 DEF OthersRetire
  <2> QED
    BY <1>5, <2>1, <2>2 DEF CloseStep
<1>6. ASSUME NEW p \in Pane, Fire(s, p) \/ Dies(s, p) \/ Ends(s, p) PROVE OthersRetire(s)
  <2>1. Exists(s, p)
    BY <1>6 DEF Fire, Dies, Ends
  <2>2. \/ locks' = [locks EXCEPT ![s][p].armed = FALSE, ![s][p].fired = @ \cup {"current"}]
        \/ locks' = [locks EXCEPT ![s][p].proc = "ending"] /\ locks[s][p].proc = "up"
        \/ locks' = [locks EXCEPT ![s][p].proc = "done"]
    BY <1>6 DEF Fire, Dies, Ends
  <2> QED
    BY <1>1, <2>1, <2>2, TimersUnretired DEF OthersRetire
<1>7. ASSUME NEW p \in Pane, watch(s, p) PROVE OthersRetire(s)
  <2>1. /\ Exists(s, p)
        /\ locks' = [locks EXCEPT ![s][p].watched = FALSE] \/ StopEnded(s, p)
    BY <1>7 DEF watch
  <2> QED
    BY <1>1, <2>1, TimersUnretired, EndedUnretired DEF OthersRetire
<1>8. ASSUME NEW p \in Pane, Expire(s, p) PROVE OthersRetire(s)
  <2>1. PICK e \in locks[s][p].fired :
          \/ Due(s, p, e) /\ BeginStop(s, p)
          \/ locks' = [locks EXCEPT ![s][p].fired = @ \ {e}]
    BY <1>8 DEF Expire
  <2>2. Exists(s, p) /\ mu[s] = Nil
    BY <1>8 DEF Expire
  <2> QED
    BY <1>1, <2>1, <2>2, TimersUnretired DEF Due, OthersRetire
<1> QED
  BY <1>2, <1>3, <1>4, <1>5, <1>6, <1>7, <1>8

LEMMA ViewerReasonable ==
  ASSUME LocksInv, NEW v \in View, Enter(v) \/ CloseView(v) \/ ReconcileStep(v)
  PROVE  Reasonable
<1>1. LockTypes /\ Keys /\ job[v] \in Job /\ SessionOf[v] \in Session
  BY TypeParts DEF LocksInv, WorkTypes
<1>2. CASE Unretired
  BY <1>1, <1>2, UnretiredReasonable
<1>3. ASSUME Purge(v), NEW p \in job[v].todo, BeginStop(SessionOf[v], p) PROVE Reasonable
  <2>1. PICK s \in Session : s = SessionOf[v]
    BY <1>1
  <2>2. p \in Pane /\ job[v].at = "purge"
    BY <1>1, <1>3 DEF Job, Purge, Working
  <2>3. panes[s] # Nil /\ p \notin panes[s]
    BY <1>3, <2>1, <2>2 DEF LocksInv, AtWork, Relies
  <2>4. \A t \in Session, q \in Pane : t # s \/ q # p => locks'[t][q] = locks[t][q]
    BY <1>1, <1>3, <2>1, <2>2 DEF BeginStop, LockTypes
  <2>5. Reason(s, p)
    BY <2>3 DEF Reason
  <2> QED
    BY <1>1, <2>2, <2>4, <2>5, OneReason
<1>4. CASE Reclaiming
  <2>1. PICK k \in idle :
          /\ slots = MaxSlots /\ idleMu' # Nil
          /\ locks' = [locks EXCEPT ![k[1]][k[2]] = [Cancelled(@) EXCEPT !.retired = TRUE]]
    BY <1>4 DEF Reclaiming
  <2>2. PICK t \in Session, q \in Pane : k = <<t, q>>
    BY <1>1 DEF LockTypes
  <2>3. KeyOK(t, q) /\ <<t, q>> \in idle
    BY <1>1, <2>2 DEF Keys
  <2>4. locks[t][q].refs = 0
    BY <2>3 DEF KeyOK
  <2>5. \A r \in Session, o \in Pane : r # t \/ o # q => locks'[r][o] = locks[r][o]
    BY <1>1, <2>1, <2>2 DEF LockTypes
  <2>6. Reason(t, q)
    BY <2>1, <2>4 DEF Reason
  <2> QED
    BY <1>1, <2>5, <2>6, OneReason
<1> QED
  BY <1>2, <1>3, <1>4, ViewerMayRetire DEF ViewerRetires

LEMMA OthersReasonable ==
  ASSUME LocksInv, NEW s \in Session, OthersRetire(s) PROVE Reasonable
<1>1. LockTypes /\ Keys /\ Leaving(s)
  BY TypeParts DEF LocksInv
<1>2. CASE Unretired
  BY <1>1, <1>2, UnretiredReasonable
<1>3. ASSUME NEW p \in Pane, Exists(s, p), BeginStop(s, p),
             \/ CloseStep(s)
             \/ locks[s][p].refs = 0 /\ "current" \in locks[s][p].fired
      PROVE  Reasonable
  <2>1. \A t \in Session, q \in Pane : t # s \/ q # p => locks'[t][q] = locks[t][q]
    BY <1>1, <1>3 DEF BeginStop, LockTypes
  <2>2. CloseStep(s) => locks[s][p].proc # "up"
    BY <1>1, <1>3 DEF CloseStep, Leaving
  <2>3. locks[s][p].proc = "up" => Reason(s, p)
    BY <1>3, <2>2 DEF Reason
  <2> QED
    BY <1>1, <2>1, <2>3, OneReason
<1> QED
  BY <1>2, <1>3 DEF OthersRetire

(* The helper of an open session is only stopped because its pane is gone, it   *)
(* ended by itself, or nobody uses it and its grace period is over or its slot  *)
(* is needed (refreshPanesLocked, expire, reserveSizeSlot).                     *)
THEOREM StoppedAlwaysForAReason == Spec => StoppedForAReason
<1>1. ASSUME LocksInv, [Next]_vars PROVE [Reasonable]_vars
  <2>1. CASE Next
    BY <1>1, <2>1, ViewerReasonable, OthersMayRetire, OthersReasonable DEF Next
  <2> QED
    BY <1>1, <2>1
<1>2. [Reasonable]_vars =>
      [\A s \in Session, p \in Pane :
         (Exists(s, p) /\ locks'[s][p] # NoLock
            /\ locks[s][p].proc = "up" /\ locks'[s][p].retired)
         => \/ panes[s] # Nil /\ p \notin panes[s]
            \/ locks[s][p].refs = 0 /\ "current" \in locks[s][p].fired
            \/ locks[s][p].refs = 0 /\ slots = MaxSlots /\ idleMu' # Nil]_vars
  BY DEF Reasonable, Reason
<1> QED
  BY LocksHold, <1>1, <1>2, PTL DEF Spec, StoppedForAReason

-----------------------------------------------------------------------------
(* Who waits for what.                                                          *)

(* A viewer stays in a loop of reconcile only for a pane that is left.          *)
Occupied == \A v \in View : job[v].at \in {"check", "take", "drop"} => job[v].todo # {}

(* It keeps idleSizes locked exactly while a reclaimed helper ends,             *)
Refilling == \A v \in View : job[v].at = "reserve" <=> idleMu = v

(* and it waits for the end of a helper that it could not set up only when that *)
(* one has been told to end.                                                    *)
Ending == \A v \in View : job[v].at = "failed" => starting[SessionOf[v]] \in {"ending", "done"}

(* A timer keeps the mutex only to await the end of a helper.                   *)
Timed == \A s \in Session : mu[s] = "timer" => stopping[s] # Nil

Waits == Occupied /\ Refilling /\ Ending /\ Timed

(* Unless idleSizes is locked a helper that was reclaimed has ended: the one    *)
(* who reclaimed it has seen it end before anyone else could look.              *)
Settled ==
  idleMu = Nil => \A s \in Session, p \in Pane : Reclaims(s, p) => locks[s][p].proc = "done"

(* A step of a viewer that has the mutex of s, or takes it: its job becomes k,  *)
(* and the mutex m.                                                             *)
WaitStep(v, s, k, m) ==
  /\ s = SessionOf[v] /\ mu[s] \in {v, Nil} /\ m \in {v, Nil}
  /\ job' = [job EXCEPT ![v] = k]
  /\ mu' = [mu EXCEPT ![s] = m]
  /\ \A t \in Session : t # s => starting'[t] = starting[t] /\ stopping'[t] = stopping[t]
  /\ k.at \in {"check", "take", "drop"} => k.todo # {}
  /\ k.at = "reserve" <=> idleMu' = v
  /\ k.at = "failed" => starting'[s] \in {"ending", "done"}
  /\ idleMu' # idleMu => idleMu \in {v, Nil} /\ idleMu' \in {v, Nil}

LEMMA ViewWaits ==
  ASSUME LocksInv, Waits, NEW v \in View, NEW s \in Session, NEW k, NEW m,
         WaitStep(v, s, k, m)
  PROVE  Waits'
<1>0. /\ s = SessionOf[v] /\ mu[s] \in {v, Nil} /\ m \in {v, Nil}
      /\ job' = [job EXCEPT ![v] = k]
      /\ mu' = [mu EXCEPT ![s] = m]
      /\ \A t \in Session : t # s => starting'[t] = starting[t] /\ stopping'[t] = stopping[t]
      /\ k.at \in {"check", "take", "drop"} => k.todo # {}
      /\ k.at = "reserve" <=> idleMu' = v
      /\ k.at = "failed" => starting'[s] \in {"ending", "done"}
      /\ idleMu' # idleMu => idleMu \in {v, Nil} /\ idleMu' \in {v, Nil}
  BY DEF WaitStep
<1>1. /\ job \in [View -> Job] /\ mu \in [Session -> View \cup {"timer", "close", Nil}]
      /\ \A w \in View : Relies(w)
  BY DEF LocksInv, TypeOK, AtWork
<1>2. job'[v] = k /\ \A w \in View : w # v => job'[w] = job[w]
  BY <1>0, <1>1
<1>3. mu'[s] = m /\ \A t \in Session : t # s => mu'[t] = mu[t]
  BY <1>0, <1>1
<1>4. Occupied'
  BY <1>0, <1>2 DEF Waits, Occupied
<1>5. Refilling'
  <2>1. ASSUME NEW w \in View, w # v PROVE job'[w].at = "reserve" <=> idleMu' = w
    <3>1. idleMu' = w <=> idleMu = w
      BY <1>0, <2>1
    <3> QED
      BY <1>2, <2>1, <3>1 DEF Waits, Refilling
  <2> QED
    BY <1>0, <1>2, <2>1 DEF Refilling
<1>6. Ending'
  <2>1. ASSUME NEW w \in View, w # v, job'[w].at = "failed"
        PROVE  starting'[SessionOf[w]] \in {"ending", "done"}
    <3>1. job[w].at = "failed" /\ starting[SessionOf[w]] \in {"ending", "done"}
      BY <1>2, <2>1 DEF Waits, Ending
    <3>2. mu[SessionOf[w]] = w /\ SessionOf[w] \in Session
      BY <1>1, <3>1 DEF Relies
    <3>3. SessionOf[w] # s
      <4>1. CASE SessionOf[w] = s
        <5>1. mu[s] = w
          BY <3>2, <4>1
        <5> QED
          BY <1>0, <2>1, <5>1, SizeConstants
      <4> QED
        BY <4>1
    <3> QED
      BY <1>0, <3>1, <3>2, <3>3
  <2> QED
    BY <1>0, <1>2, <2>1 DEF Ending
<1>7. Timed'
  <2>1. m # "timer"
    BY <1>0, SizeConstants
  <2> QED
    BY <1>0, <1>3, <2>1 DEF Waits, Timed
<1> QED
  BY <1>4, <1>5, <1>6, <1>7 DEF Waits

(* It goes on with another pane, or is done.                                    *)
LEMMA MovesWait ==
  ASSUME LocksInv, Waits, NEW v \in View, NEW s \in Session, s = SessionOf[v],
         Moves(v, Easy), mu[s] \in {v, Nil},
         \A t \in Session : t # s => starting'[t] = starting[t] /\ stopping'[t] = stopping[t],
         idleMu' = idleMu \/ (idleMu \in {v, Nil} /\ idleMu' = Nil),
         idleMu' # v
  PROVE  Waits'
<1>1. PICK k \in Job :
        /\ k.at \in Easy /\ job' = [job EXCEPT ![v] = k]
        /\ k.at \in {"check", "take", "drop"} => k.todo # {} \/ k = job[v]
        /\ mu' = [mu EXCEPT ![s] = IF k.at \in {"out", "over"} THEN Nil ELSE v]
  BY DEF Moves
<1>2. k.at \in {"check", "take", "drop"} => k.todo # {}
  BY <1>1 DEF Waits, Occupied
<1>3. k.at # "reserve" /\ k.at # "failed"
  BY <1>1 DEF Easy
<1> DEFINE m == IF k.at \in {"out", "over"} THEN Nil ELSE v
<1>4. m \in {v, Nil} /\ mu' = [mu EXCEPT ![s] = m]
  BY <1>1
<1> HIDE DEF m
<1>5. idleMu' # idleMu => idleMu \in {v, Nil} /\ idleMu' \in {v, Nil}
  OBVIOUS
<1>6. WaitStep(v, s, k, m)
  BY <1>1, <1>2, <1>3, <1>4, <1>5 DEF WaitStep
<1> QED
  BY <1>6, ViewWaits

(* It goes to a step that no loop of reconcile takes.                           *)
LEMMA GoesWait ==
  ASSUME LocksInv, Waits, NEW v \in View, NEW s \in Session, s = SessionOf[v], mu[s] = v,
         NEW at \in {"slot", "reserve", "setup", "failed"}, NEW p,
         job' = [job EXCEPT ![v].at = at, ![v].pane = p] \/ job' = [job EXCEPT ![v].at = at],
         UNCHANGED mu,
         \A t \in Session : t # s => starting'[t] = starting[t] /\ stopping'[t] = stopping[t],
         at = "reserve" <=> idleMu' = v,
         at = "failed" => starting'[s] \in {"ending", "done"},
         idleMu' # idleMu => idleMu \in {v, Nil} /\ idleMu' \in {v, Nil}
  PROVE  Waits'
<1>1. job[v] \in Job /\ mu' = [mu EXCEPT ![s] = v]
  BY DEF LocksInv, TypeOK
<1>2. PICK k : job' = [job EXCEPT ![v] = k] /\ k.at = at
  <2> DEFINE a == [job[v] EXCEPT !.at = at, !.pane = p]
             b == [job[v] EXCEPT !.at = at]
  <2>1. a.at = at /\ b.at = at
    BY <1>1 DEF Job
  <2>2. job' = [job EXCEPT ![v] = a] \/ job' = [job EXCEPT ![v] = b]
    OBVIOUS
  <2> HIDE DEF a, b
  <2> QED
    BY <2>1, <2>2
<1>3. WaitStep(v, s, k, v)
  BY <1>1, <1>2 DEF WaitStep
<1> QED
  BY <1>3, ViewWaits

LEMMA EnterMoves ==
  ASSUME WorkTypes, OtherTypes, NEW v \in View, Enter(v)
  PROVE  \/ Moves(v, Easy)
         \/ \E k \in Job : /\ k.at = "purge" /\ job' = [job EXCEPT ![v] = k]
                           /\ mu' = [mu EXCEPT ![SessionOf[v]] = v]
<1> DEFINE s == SessionOf[v]
           known == IF panes[s] = Nil THEN Pane ELSE panes[s]
<1>1. CASE EnterKnown(v, s)
  <2>1. known \in SUBSET Pane
    BY DEF OtherTypes
  <2>2. \E w \in SUBSET known : Begin(v, "check", w, w)
    BY <1>1 DEF EnterKnown
  <2> HIDE DEF known, s
  <2>3. PICK w \in SUBSET Pane : Begin(v, "check", w, w)
    BY <2>1, <2>2
  <2> QED
    BY <2>3, BeginMoves
<1>2. CASE EnterFirst(v, s)
  <2>1. PICK w \in SUBSET Pane : Begin(v, "check", w, w)
    BY <1>2 DEF EnterFirst
  <2> QED
    BY <2>1, BeginMoves
<1>3. CASE EnterRefresh(v, s)
  <2>1. PICK list \in SUBSET Pane, w \in SUBSET Pane :
          Begin(v, "purge", {p \in Pane \ list : Exists(s, p)}, w)
    BY <1>3 DEF EnterRefresh
  <2> DEFINE todo == {p \in Pane \ list : Exists(s, p)}
  <2>2. todo \in SUBSET Pane
    OBVIOUS
  <2>3. Begin(v, "purge", todo, w)
    BY <2>1
  <2> HIDE DEF todo
  <2>4. PICK k \in Job : /\ k.at = "purge" /\ k.todo = todo
                         /\ job' = [job EXCEPT ![v] = k]
                         /\ mu' = [mu EXCEPT ![SessionOf[v]] = v]
    BY ONLY <2>2, <2>3, PurgeBegins, w \in SUBSET Pane, v \in View
  <2> QED
    BY <2>4
<1>4. CASE EnterFails(v)
  BY <1>4, FailsMoves DEF EnterFails
<1> QED
  BY <1>1, <1>2, <1>3, <1>4 DEF Enter

LEMMA PaneMoves ==
  ASSUME WorkTypes, NEW v \in View, NEW s, NEW p, mu[SessionOf[v]] = v,
         \/ job[v].at = "check" /\ CheckPane(v, s, p)
         \/ /\ job[v].at = "take"
            /\ Keep(v, s, p) \/ Reuse(v, s, p) \/ ReuseFails(v, s, p) \/ Share(v, s, p)
  PROVE  Moves(v, Easy)
<1>1. CASE job[v].at = "check" /\ CheckPane(v, s, p)
  <2>1. UNCHANGED <<mu, job>> \/ GivesUp(v, p, "check") \/ Done(v, p)
    BY <1>1 DEF CheckPane
  <2> QED
    BY <1>1, <2>1, StaysMoves, GivesUpMoves, DoneMoves
<1>2. CASE job[v].at = "take" /\ Keep(v, s, p)
  BY <1>2, DoneMoves DEF Keep
<1>3. CASE job[v].at = "take" /\ ReuseFails(v, s, p)
  <2>1. UNCHANGED <<mu, job>> \/ GivesUp(v, p, "take")
    BY <1>3 DEF ReuseFails
  <2> QED
    BY <1>3, <2>1, StaysMoves, GivesUpMoves
<1>4. CASE Reuse(v, s, p) \/ Share(v, s, p)
  BY <1>4, HoldsMoves DEF Reuse, Share
<1> QED
  BY <1>1, <1>2, <1>3, <1>4

LEMMA ReservesWait ==
  ASSUME LocksInv, Waits, NEW v \in View, job[v].at \in {"take", "reserve"}, NEW p,
         Reserves(v, p), idleMu \in {v, Nil}, UNCHANGED <<starting, stopping>>
  PROVE  Waits'
<1>1. PICK s \in Session : s = SessionOf[v]
  OBVIOUS
<1>2. WorkTypes /\ mu[s] = v /\ v # Nil
  BY <1>1, AtHand
<1>3. CASE idleMu' = Nil /\ GivesUp(v, p, "take")
  <2>1. Moves(v, Easy)
    BY <1>2, <1>3, GivesUpMoves
  <2> QED
    BY <1>1, <1>2, <1>3, <2>1, MovesWait
<1>4. CASE /\ idleMu' = Nil /\ UNCHANGED mu
           /\ job' = [job EXCEPT ![v].at = "slot", ![v].pane = p]
  BY <1>1, <1>2, <1>4, GoesWait
<1>5. CASE /\ idleMu' = v /\ UNCHANGED mu
           /\ job' = [job EXCEPT ![v].at = "reserve", ![v].pane = p]
  BY <1>1, <1>2, <1>5, GoesWait
<1> QED
  BY <1>3, <1>4, <1>5 DEF Reserves

LEMMA ViewerWaits ==
  ASSUME LocksInv, Waits, NEW v \in View, Enter(v) \/ CloseView(v) \/ ReconcileStep(v)
  PROVE  Waits'
<1>1. PICK s \in Session : s = SessionOf[v]
  OBVIOUS
<1>2. /\ WorkTypes /\ OtherTypes /\ LockTypes /\ job[v] \in Job /\ v # Nil
      /\ job[v].at \notin {"out", "over"} => mu[s] = v
      /\ job[v].at # "reserve" => idleMu # v
  BY <1>1, AtHand DEF Waits, Refilling
<1>3. ASSUME Moves(v, Easy), mu[s] \in {v, Nil}, job[v].at # "reserve", UNCHANGED idleMu,
             \A t \in Session : t # s => starting'[t] = starting[t] /\ stopping'[t] = stopping[t]
      PROVE  Waits'
  BY <1>1, <1>2, <1>3, MovesWait
<1>4. CASE Enter(v)
  <2>1. mu[s] = Nil /\ job[v].at = "out" /\ UNCHANGED <<idleMu, stopping, starting>>
    BY <1>1, <1>4 DEF Enter
  <2>2. CASE Moves(v, Easy)
    BY <1>3, <2>1, <2>2
  <2>3. ASSUME NEW k \in Job, k.at = "purge", job' = [job EXCEPT ![v] = k],
               mu' = [mu EXCEPT ![s] = v]
        PROVE  Waits'
    <3>1. WaitStep(v, s, k, v)
      BY <1>1, <1>2, <2>1, <2>3 DEF WaitStep
    <3> QED
      BY <3>1, ViewWaits
  <2> QED
    BY <1>1, <1>2, <1>4, <2>2, <2>3, EnterMoves
<1>5. CASE CloseView(v)
  <2>1. /\ mu[s] = Nil /\ job[v].at # "reserve" /\ UNCHANGED <<idleMu, stopping, starting>>
        /\ Begin(v, "drop", {p \in Pane : held[v][p] # "no"}, {})
    BY <1>1, <1>5 DEF CloseView
  <2>2. Moves(v, Easy)
    <3>1. {p \in Pane : held[v][p] # "no"} \in SUBSET Pane /\ {} \in SUBSET Pane
      OBVIOUS
    <3> QED
      BY <1>2, <2>1, <3>1, BeginMoves
  <2> QED
    BY <1>3, <2>1, <2>2
<1>6. CASE Purge(v)
  <2>1. mu[s] = v /\ job[v].at = "purge" /\ UNCHANGED <<idleMu, starting>>
    BY <1>2, <1>6 DEF Purge, Working
  <2>2. ASSUME NEW p \in Pane, stopping' = [stopping EXCEPT ![s] = p],
               job' = [job EXCEPT ![v].todo = @ \ {p}], UNCHANGED mu
        PROVE  Waits'
    <3> DEFINE k == [job[v] EXCEPT !.todo = @ \ {p}]
    <3>1. k.at = "purge" /\ job' = [job EXCEPT ![v] = k] /\ mu' = [mu EXCEPT ![s] = v]
      BY <1>2, <2>1, <2>2 DEF Job, WorkTypes
    <3>2. \A t \in Session : t # s => stopping'[t] = stopping[t]
      BY <1>2, <2>2 DEF LockTypes
    <3> HIDE DEF k
    <3>3. WaitStep(v, s, k, v)
      BY <1>1, <1>2, <2>1, <3>1, <3>2 DEF WaitStep
    <3> QED
      BY <3>3, ViewWaits
  <2>3. ASSUME Proceeds(v, [job[v] EXCEPT !.at = "check", !.todo = job[v].want]),
               UNCHANGED stopping
        PROVE  Waits'
    <3> DEFINE j == [job[v] EXCEPT !.at = "check", !.todo = job[v].want]
    <3>1. j \in Job /\ j.at = "check"
      BY <1>2 DEF Job, Phase
    <3> HIDE DEF j
    <3>2. Moves(v, Easy)
      BY <1>2, <2>3, <3>1, ProceedsMoves DEF j
    <3> QED
      BY <1>3, <2>1, <2>3, <3>2
  <2>4. job[v].todo \subseteq Pane
    BY <1>2 DEF Job
  <2> QED
    BY <1>1, <1>6, <2>2, <2>3, <2>4 DEF Purge, BeginStop
<1>7. CASE Check(v)
  <2>1. mu[s] = v /\ job[v].at = "check" /\ UNCHANGED <<idleMu, stopping, starting>>
    BY <1>2, <1>7 DEF Check, Working
  <2>2. PICK p : CheckPane(v, s, p)
    BY <1>1, <1>7 DEF Check
  <2>3. Moves(v, Easy)
    BY <1>1, <1>2, <2>1, <2>2, PaneMoves
  <2> QED
    BY <1>3, <2>1, <2>3
<1>8. CASE Take(v)
  <2>1. mu[s] = v /\ job[v].at = "take" /\ UNCHANGED <<stopping, starting>>
    BY <1>2, <1>8 DEF Take, Working
  <2>2. PICK p : TakePane(v, s, p)
    BY <1>1, <1>8 DEF Take
  <2>3. CASE Keep(v, s, p) \/ Reuse(v, s, p) \/ ReuseFails(v, s, p) \/ Share(v, s, p)
    <3>1. Moves(v, Easy)
      BY <1>1, <1>2, <2>1, <2>3, PaneMoves
    <3>2. UNCHANGED idleMu
      BY <2>3 DEF Keep, Reuse, ReuseFails, Share
    <3> QED
      BY <1>3, <2>1, <3>1, <3>2
  <2>4. CASE reserveSizeSlot(v, p)
    BY <2>1, <2>4, ReservesWait DEF reserveSizeSlot
  <2>5. CASE GivesUp(v, p, "take") /\ UNCHANGED idleMu
    <3>1. Moves(v, Easy)
      BY <1>2, <2>5, GivesUpMoves
    <3> QED
      BY <1>3, <2>1, <2>5, <3>1
  <2> QED
    BY <2>2, <2>3, <2>4, <2>5 DEF TakePane, Acquire
<1>9. CASE Reclaimed(v)
  <2>1. job[v].at = "reserve" /\ Reserves(v, job[v].pane) /\ UNCHANGED <<stopping, starting>>
    BY <1>9 DEF Reclaimed
  <2>2. idleMu = v
    BY <2>1 DEF Waits, Refilling
  <2> QED
    BY <2>1, <2>2, ReservesWait
<1>10. CASE Start(v)
  <2>1. mu[s] = v /\ job[v].at = "slot" /\ UNCHANGED <<idleMu, stopping>>
    BY <1>2, <1>10 DEF Start
  <2>2. CASE /\ starting' = [starting EXCEPT ![s] = "setup"]
             /\ job' = [job EXCEPT ![v].at = "setup"] /\ UNCHANGED mu
    <3>1. \A t \in Session : t # s => starting'[t] = starting[t]
      BY <1>2, <2>2 DEF WorkTypes
    <3> QED
      BY <1>1, <1>2, <2>1, <2>2, <3>1, GoesWait
  <2>3. CASE GivesUp(v, job[v].pane, "take") /\ UNCHANGED starting
    <3>1. Moves(v, Easy)
      BY <1>2, <2>3, GivesUpMoves
    <3> QED
      BY <1>3, <2>1, <2>3, <3>1
  <2> QED
    BY <1>1, <1>10, <2>2, <2>3 DEF Start
<1>11. CASE Ready(v)
  <2>1. /\ mu[s] = v /\ job[v].at = "setup" /\ UNCHANGED <<idleMu, stopping>>
        /\ starting' = [starting EXCEPT ![s] = "no"] /\ Holds(v, job[v].pane)
    BY <1>1, <1>2, <1>11 DEF Ready
  <2>2. Moves(v, Easy)
    BY <1>2, <2>1, HoldsMoves
  <2>3. \A t \in Session : t # s => starting'[t] = starting[t]
    BY <1>2, <2>1 DEF WorkTypes
  <2> QED
    BY <1>3, <2>1, <2>2, <2>3
<1>12. CASE SetupFails(v)
  <2>1. /\ mu[s] = v /\ job' = [job EXCEPT ![v].at = "failed"]
        /\ starting' = [starting EXCEPT ![s] = IF @ = "done" THEN @ ELSE "ending"]
        /\ job[v].at = "setup" /\ UNCHANGED <<mu, idleMu, stopping>>
    BY <1>1, <1>2, <1>12 DEF SetupFails
  <2>2. /\ \A t \in Session : t # s => starting'[t] = starting[t]
        /\ starting'[s] \in {"ending", "done"}
    BY <1>2, <2>1 DEF WorkTypes
  <2> QED
    BY <1>1, <1>2, <2>1, <2>2, GoesWait
<1>13. CASE Failed(v)
  <2>1. /\ mu[s] = v /\ job[v].at = "failed" /\ UNCHANGED <<idleMu, stopping>>
        /\ starting' = [starting EXCEPT ![s] = "no"] /\ GivesUp(v, job[v].pane, "take")
    BY <1>1, <1>2, <1>13 DEF Failed
  <2>2. Moves(v, Easy)
    BY <1>2, <2>1, GivesUpMoves
  <2>3. \A t \in Session : t # s => starting'[t] = starting[t]
    BY <1>2, <2>1 DEF WorkTypes
  <2> QED
    BY <1>3, <2>1, <2>2, <2>3
<1>14. CASE Drop(v)
  <2>1. mu[s] = v /\ job[v].at = "drop" /\ UNCHANGED <<idleMu, stopping, starting>>
    BY <1>2, <1>14 DEF Drop, Working
  <2>2. PICK p : Done(v, p)
    BY <1>14 DEF Drop
  <2>3. Moves(v, Easy)
    BY <1>2, <2>1, <2>2, DoneMoves
  <2> QED
    BY <1>3, <2>1, <2>3
<1> QED
  BY <1>4, <1>5, <1>6, <1>7, <1>8, <1>9, <1>10, <1>11, <1>12, <1>13, <1>14 DEF ReconcileStep

(* A step that is no viewer's.                                                  *)
LEMMA SessionWaits ==
  ASSUME Waits, UNCHANGED <<job, idleMu>>,
         \A t \in Session : starting[t] \in {"ending", "done"} => starting'[t] \in {"ending", "done"},
         \A t \in Session : mu'[t] = "timer" => stopping'[t] # Nil
  PROVE  Waits'
<1>1. Ending'
  <2>1. \A w \in View : SessionOf[w] \in Session
    OBVIOUS
  <2> QED
    BY <2>1 DEF Waits, Ending
<1> QED
  BY <1>1 DEF Waits, Occupied, Refilling, Timed

LEMMA OthersWait ==
  ASSUME LocksInv, Waits, NEW s \in Session,
         \/ Stopped(s) \/ DiesEarly(s) \/ EndsEarly(s) \/ Cancel(s) \/ Close(s) \/ CloseStep(s)
         \/ \E p \in Pane : Fire(s, p) \/ Expire(s, p) \/ watch(s, p) \/ Dies(s, p) \/ Ends(s, p)
  PROVE  Waits'
<1>1. LockTypes /\ WorkTypes
  BY TypeParts DEF LocksInv
<1>2. UNCHANGED <<job, idleMu>>
  BY DEF Stopped, DiesEarly, EndsEarly, Cancel, Close, CloseStep, Fire, Expire, watch, Dies, Ends
<1>3. \A t \in Session : starting[t] \in {"ending", "done"} => starting'[t] \in {"ending", "done"}
  <2>1. \/ UNCHANGED starting
        \/ starting[s] = "setup" /\ starting' = [starting EXCEPT ![s] = "ending"]
        \/ starting' = [starting EXCEPT ![s] = "done"]
        \/ starting' = [starting EXCEPT ![s] = IF @ = "setup" THEN "killed" ELSE @]
    BY DEF Stopped, DiesEarly, EndsEarly, Cancel, Close, CloseStep, Fire, Expire, watch, Dies, Ends
  <2> QED
    BY <1>1, <2>1 DEF WorkTypes
<1>4. \A t \in Session : mu[t] = "timer" => stopping[t] # Nil
  BY DEF Waits, Timed
<1>5. \A t \in Session : mu'[t] = "timer" => stopping'[t] # Nil
  <2>1. CASE Stopped(s)
    <3>1. /\ mu' = [mu EXCEPT ![s] = IF @ = "timer" THEN Nil ELSE @]
          /\ stopping' = [stopping EXCEPT ![s] = Nil]
      BY <2>1 DEF Stopped
    <3> QED
      BY <1>1, <1>4, <3>1 DEF WorkTypes, LockTypes
  <2>2. ASSUME NEW p \in Pane, BeginStop(s, p),
               UNCHANGED mu \/ mu' = [mu EXCEPT ![s] = "timer"]
        PROVE  \A t \in Session : mu'[t] = "timer" => stopping'[t] # Nil
    <3>1. stopping' = [stopping EXCEPT ![s] = p] /\ p # Nil
      BY <2>2 DEF BeginStop
    <3> QED
      BY <1>1, <1>4, <2>2, <3>1 DEF WorkTypes, LockTypes
  <2>3. CASE UNCHANGED stopping /\ (UNCHANGED mu \/ mu' = [mu EXCEPT ![s] = "close"]
                                      \/ mu' = [mu EXCEPT ![s] = Nil])
    BY <1>1, <1>4, <2>3 DEF WorkTypes
  <2>4. CASE \E p \in Pane : Expire(s, p)
    BY <2>2, <2>3, <2>4 DEF Expire
  <2>5. CASE CloseStep(s)
    BY <2>2, <2>3, <2>5 DEF CloseStep
  <2>6. CASE \/ DiesEarly(s) \/ EndsEarly(s) \/ Cancel(s) \/ Close(s)
             \/ \E p \in Pane : Fire(s, p) \/ watch(s, p) \/ Dies(s, p) \/ Ends(s, p)
    BY <2>3, <2>6 DEF DiesEarly, EndsEarly, Cancel, Close, Fire, watch, Dies, Ends
  <2> QED
    BY <2>1, <2>4, <2>5, <2>6
<1> QED
  BY <1>2, <1>3, <1>5, SessionWaits

-----------------------------------------------------------------------------
(* A step that retires nobody,                                                  *)
LEMMA UnretiredSettles ==
  ASSUME Settled, Unretired, idleMu' = Nil => idleMu = Nil,
         \A t \in Session, q \in Pane : stopping[t] = q => stopping'[t] = q \/ locks'[t][q] = NoLock
  PROVE  Settled'
<1>1. ASSUME idleMu' = Nil, NEW t \in Session, NEW q \in Pane, locks'[t][q] # NoLock,
             locks'[t][q].retired, stopping'[t] # q
      PROVE  locks'[t][q].proc = "done"
  <2>1. /\ Exists(t, q) /\ locks[t][q].retired
        /\ locks[t][q].proc = "done" => locks'[t][q].proc = "done"
    BY <1>1 DEF Unretired
  <2>2. stopping[t] # q
    BY <1>1
  <2>3. locks[t][q].proc = "done"
    BY <1>1, <2>1, <2>2 DEF Settled, Reclaims
  <2> QED
    BY <2>1, <2>3
<1> QED
  BY <1>1 DEF Settled, Reclaims, Exists

(* and one that retires a helper whose end is awaited with the mutex.           *)
LEMMA StopSettles ==
  ASSUME LockTypes, Settled, NEW s \in Session, NEW p \in Pane, BeginStop(s, p),
         stopping[s] = Nil, UNCHANGED idleMu
  PROVE  Settled'
<1>1. /\ \A t \in Session, q \in Pane : t # s \/ q # p => locks'[t][q] = locks[t][q]
      /\ stopping'[s] = p /\ \A t \in Session : t # s => stopping'[t] = stopping[t]
  BY DEF BeginStop, LockTypes
<1>2. ASSUME idleMu' = Nil, NEW t \in Session, NEW q \in Pane, locks'[t][q] # NoLock,
             locks'[t][q].retired, stopping'[t] # q
      PROVE  locks'[t][q].proc = "done"
  <2>1. t # s \/ q # p
    BY <1>1, <1>2
  <2>2. locks'[t][q] = locks[t][q] /\ stopping[t] # q
    BY <1>1, <1>2, <2>1
  <2>3. Exists(t, q) /\ locks[t][q].retired /\ idleMu = Nil
    BY <1>2, <2>2 DEF Exists
  <2>4. locks[t][q].proc = "done"
    BY <2>2, <2>3 DEF Settled, Reclaims
  <2> QED
    BY <2>2, <2>4
<1> QED
  BY <1>2 DEF Settled, Reclaims, Exists

LEMMA ViewerSettles ==
  ASSUME LocksInv, Settled, NEW v \in View, Enter(v) \/ CloseView(v) \/ ReconcileStep(v)
  PROVE  Settled'
<1>1. LockTypes /\ SessionOf[v] \in Session /\ job[v].todo \subseteq Pane /\ v # Nil
  BY TypeParts DEF LocksInv, WorkTypes, Job
<1>2. CASE Reclaimed(v)
  <2>1. CASE idleMu' = v
    BY <1>1, <2>1 DEF Settled
  <2>2. CASE UNCHANGED <<locks, stopping>>
    <3>1. \A t \in Session, q \in Pane : Reclaims(t, q) => locks[t][q].proc = "done"
      BY <1>2 DEF Reclaimed
    <3> QED
      BY <2>2, <3>1 DEF Settled, Reclaims, Exists
  <2> QED
    BY <1>2, <2>1, <2>2 DEF Reclaimed, Reserves
<1>3. ASSUME Purge(v), NEW p \in job[v].todo, BeginStop(SessionOf[v], p) PROVE Settled'
  <2>1. p \in Pane /\ stopping[SessionOf[v]] = Nil /\ UNCHANGED idleMu
    BY <1>1, <1>3 DEF Purge, Working
  <2> QED
    BY <1>1, <1>3, <2>1, StopSettles
<1>4. CASE Reclaiming
  BY <1>4 DEF Reclaiming, Settled
<1>5. ASSUME Unretired, UNCHANGED stopping, idleMu' = Nil => idleMu = Nil PROVE Settled'
  BY <1>5, UnretiredSettles
<1>6. CASE Take(v)
  <2>1. UNCHANGED stopping
    BY <1>6 DEF Take
  <2>2. idleMu' = Nil => idleMu = Nil
    BY <1>6 DEF Take, TakePane, Keep, Reuse, ReuseFails, Share, Acquire, reserveSizeSlot
  <2>3. ~Purge(v)
    <3>1. job[v].at = "take"
      BY <1>6 DEF Take, Working
    <3>2. ASSUME Purge(v) PROVE job[v].at = "purge"
      BY <3>2 DEF Purge, Working
    <3> QED
      BY <3>1, <3>2
  <2>4. Unretired \/ Reclaiming
    BY <2>3, ViewerMayRetire DEF ViewerRetires
  <2> QED
    BY <1>4, <1>5, <2>1, <2>2, <2>4
<1>7. CASE Purge(v)
  <2>1. UNCHANGED <<locks, stopping>> \/ \E p \in job[v].todo : BeginStop(SessionOf[v], p)
    BY <1>7 DEF Purge
  <2>2. UNCHANGED idleMu
    BY <1>7 DEF Purge
  <2> QED
    BY <1>3, <1>5, <1>7, <2>1, <2>2, SameUnretired
<1>8. CASE \/ Enter(v) \/ CloseView(v) \/ Check(v) \/ Start(v) \/ Ready(v) \/ SetupFails(v)
           \/ Failed(v) \/ Drop(v)
  <2>1. UNCHANGED <<stopping, idleMu>>
    BY <1>8 DEF Enter, CloseView, Check, Start, Ready, SetupFails, Failed, Drop
  <2>2. CASE Purge(v)
    BY <1>7, <2>2
  <2>3. CASE Unretired
    BY <1>5, <2>1, <2>3
  <2> QED
    BY <1>4, <1>8, <2>2, <2>3, ViewerMayRetire DEF ViewerRetires, ReconcileStep
<1> QED
  BY <1>2, <1>6, <1>7, <1>8 DEF ReconcileStep

LEMMA OthersSettle ==
  ASSUME LocksInv, Settled, NEW s \in Session,
         \/ Stopped(s) \/ DiesEarly(s) \/ EndsEarly(s) \/ Cancel(s) \/ Close(s) \/ CloseStep(s)
         \/ \E p \in Pane : Fire(s, p) \/ Expire(s, p) \/ watch(s, p) \/ Dies(s, p) \/ Ends(s, p)
  PROVE  Settled'
<1>1. LockTypes /\ Attended(s)
  BY TypeParts DEF LocksInv, AtWork
<1>2. UNCHANGED idleMu
  BY DEF Stopped, DiesEarly, EndsEarly, Cancel, Close, CloseStep, Fire, Expire, watch, Dies, Ends
<1>3. ASSUME NEW p \in Pane, BeginStop(s, p), CloseStep(s) \/ mu[s] = Nil PROVE Settled'
  <2>1. stopping[s] = Nil
    BY <1>1, <1>3 DEF CloseStep, Attended
  <2> QED
    BY <1>1, <1>2, <1>3, <2>1, StopSettles
<1>4. CASE OthersRetire(s) /\ ~Unretired
  BY <1>3, <1>4 DEF OthersRetire
<1>5. ASSUME Unretired, UNCHANGED stopping PROVE Settled'
  BY <1>2, <1>5, UnretiredSettles
<1>6. ASSUME Unretired, Stopped(s) PROVE Settled'
  <2>1. PICK p \in Pane : p = stopping[s]
    BY <1>1, <1>6 DEF Stopped, LockTypes
  <2>2. locks' = Deleted(s, p) /\ stopping' = [stopping EXCEPT ![s] = Nil]
    BY <1>6, <2>1 DEF Stopped
  <2>3. locks'[s][p] = NoLock /\ \A t \in Session : t # s => stopping'[t] = stopping[t]
    BY <1>1, <2>2 DEF Deleted, LockTypes
  <2>4. \A t \in Session, q \in Pane : stopping[t] = q => stopping'[t] = q \/ locks'[t][q] = NoLock
    BY <2>1, <2>3
  <2> QED
    BY <1>2, <1>6, <2>4, UnretiredSettles
<1>7. \/ UNCHANGED stopping \/ Stopped(s)
      \/ \E p \in Pane : BeginStop(s, p) /\ (CloseStep(s) \/ mu[s] = Nil)
  BY DEF DiesEarly, EndsEarly, Cancel, Close, CloseStep, Fire, Expire, watch, Dies, Ends
<1> QED
  BY <1>3, <1>4, <1>5, <1>6, <1>7, OthersMayRetire

LEMMA LocksSettle == Spec => [](LocksInv /\ Waits /\ Settled)
<1>1. ASSUME Init PROVE Waits /\ Settled
  <2>1. /\ \A v \in View : job[v].at = "out" /\ v # Nil
        /\ idleMu = Nil /\ \A s \in Session : mu[s] = Nil
        /\ \A s \in Session, p \in Pane : ~Exists(s, p)
    BY <1>1 DEF Init, Out, Exists
  <2> QED
    BY <2>1 DEF Waits, Occupied, Refilling, Ending, Timed, Settled, Reclaims
<1>2. ASSUME LocksInv, Waits, Settled, Next PROVE Waits' /\ Settled'
  BY <1>2, ViewerWaits, OthersWait, ViewerSettles, OthersSettle DEF Next
<1>3. ASSUME Waits, Settled, UNCHANGED vars PROVE Waits' /\ Settled'
  BY <1>3 DEF Waits, Occupied, Refilling, Ending, Timed, Settled, Reclaims, Exists, vars
<1>4. LocksInv /\ Waits /\ Settled /\ [Next]_vars => (LocksInv /\ Waits /\ Settled)'
  BY <1>2, <1>3, LocksNext, LocksStutter
<1> QED
  BY LocksInit, <1>1, <1>4, PTL DEF Spec

-----------------------------------------------------------------------------
(* Whoever has idleSizes locked gets on, or waits for a helper that is ending.  *)
LEMMA ReserverGoesOn ==
  ASSUME LocksInv, Waits, NEW v \in View, idleMu = v
  PROVE  mu[SessionOf[v]] = v /\ GoesOn(SessionOf[v])
<1>1. PICK s \in Session : s = SessionOf[v]
  OBVIOUS
<1>2. job[v].at = "reserve"
  BY DEF Waits, Refilling
<1>3. LockTypes /\ Keys /\ mu[s] = v /\ stopping[s] = Nil
  BY <1>1, <1>2, AtHand
<1>4. CASE \A t \in Session, p \in Pane : Reclaims(t, p) => locks[t][p].proc = "done"
  <2>1. ViewerMoves(v)
    BY <1>2, <1>4 DEF ViewerMoves
  <2> QED
    BY <1>1, <1>3, <2>1 DEF GoesOn, HolderMoves
<1>5. ASSUME NEW t \in Session, NEW p \in Pane, Reclaims(t, p), locks[t][p].proc # "done"
      PROVE  GoesOn(s)
  <2>1. Exists(t, p) /\ locks[t][p].retired /\ KeyOK(t, p)
    BY <1>3, <1>5 DEF Reclaims, Keys
  <2>2. locks[t][p] \in Lock /\ locks[t][p].proc # "up"
    BY <1>3, <2>1 DEF KeyOK, LockTypes, Exists
  <2>3. locks[t][p].proc = "ending"
    BY <1>5, <2>2 DEF Lock
  <2>4. HolderAwaits(s)
    BY <1>2, <1>3, <1>5, <2>3 DEF HolderAwaits
  <2> QED
    BY <2>4 DEF GoesOn
<1> QED
  BY <1>1, <1>3, <1>4, <1>5

(* A viewer that need not wait for idleSizes does so, too,                      *)
LEMMA ViewerGoesOn ==
  ASSUME LocksInv, Waits, Settled, idleMu = Nil, NEW v \in View, NEW s \in Session,
         s = SessionOf[v], mu[s] = v, stopping[s] = Nil
  PROVE  ViewerMoves(v) \/ (job[v].at = "failed" /\ starting[s] = "ending")
<1>1. /\ LockTypes /\ Keys /\ Relies(v) /\ job[v] \in Job
  BY AtHand
<1>2. job[v].at \notin {"out", "over"} /\ job[v].at # "reserve"
  BY <1>1 DEF Relies, Waits, Refilling
<1>3. ASSUME NEW p \in Pane, Exists(s, p)
      PROVE  /\ locks[s][p].retired => locks[s][p].proc = "done"
             /\ locks[s][p].refs \in Nat /\ locks[s][p].refs = Cardinality(Holders(s, p))
  <2>1. locks[s][p] \in Lock /\ KeyOK(s, p) /\ stopping[s] # p
    BY <1>1, <1>3 DEF LockTypes, Exists, Keys
  <2>2. locks[s][p].retired => locks[s][p].proc = "done"
    BY <1>3, <2>1 DEF Settled, Reclaims
  <2> QED
    BY <1>3, <2>1, <2>2 DEF KeyOK, Lock
<1>4. CASE job[v].at \in {"purge", "slot", "setup"}
  BY <1>4 DEF ViewerMoves
<1>5. CASE job[v].at \in {"check", "take", "drop"}
  <2>1. PICK p \in Pane : p \in job[v].todo
    BY <1>1, <1>5 DEF Waits, Occupied, Job
  <2>2. MayCheck(s, p)
    BY <1>3 DEF MayCheck
  <2>3. MayTake(v, s, p)
    <3>1. CASE ~Exists(s, p)
      BY <3>1 DEF MayTake
    <3>2. CASE Exists(s, p) /\ locks[s][p].refs > 0
      BY <3>2 DEF MayTake
    <3>3. CASE Exists(s, p) /\ locks[s][p].refs = 0
      BY <1>3, <3>3 DEF MayTake
    <3> QED
      BY <1>3, <3>1, <3>2, <3>3
  <2>4. MayRelease(v, s, p)
    <3>1. CASE NotCurrent(v, s, p)
      BY <3>1 DEF MayRelease
    <3>2. CASE ~NotCurrent(v, s, p)
      <4>1. Exists(s, p) /\ v \in Holders(s, p)
        BY <3>2 DEF NotCurrent, Holders, Views
      <4>2. locks[s][p].refs \in Nat /\ locks[s][p].refs # 0
        BY <1>3, <4>1, HoldersCount
      <4>3. locks[s][p].refs > 1 \/ locks[s][p].refs = 1
        BY <4>2
      <4> QED
        BY <4>3 DEF MayRelease
    <3> QED
      BY <3>1, <3>2
  <2> QED
    BY <1>5, <2>1, <2>2, <2>3, <2>4 DEF ViewerMoves
<1>6. CASE job[v].at = "failed"
  <2>1. starting[s] \in {"ending", "done"}
    BY <1>6 DEF Waits, Ending
  <2> QED
    BY <1>6, <2>1 DEF ViewerMoves
<1> QED
  BY <1>1, <1>2, <1>4, <1>5, <1>6 DEF Job, Phase

(* and so does every other holder of a session's mutex.                         *)
LEMMA HolderGoesOn ==
  ASSUME LocksInv, Waits, Settled, idleMu = Nil, NEW s \in Session, mu[s] # Nil
  PROVE  GoesOn(s)
<1>1. LockTypes /\ WorkTypes /\ Keys /\ Attended(s)
  BY TypeParts DEF LocksInv, AtWork
<1>2. CASE stopping[s] # Nil
  <2>1. PICK p \in Pane : p = stopping[s]
    BY <1>1, <1>2 DEF LockTypes
  <2>2. Exists(s, p) /\ locks[s][p].proc # "up"
    BY <1>1, <2>1 DEF Keys, KeyOK
  <2>3. locks[s][p].proc \in {"ending", "done"}
    BY <1>1, <2>2 DEF LockTypes, Exists, Lock
  <2> QED
    BY <1>2, <2>1, <2>3 DEF GoesOn, HolderMoves, HolderAwaits
<1>3. CASE stopping[s] = Nil /\ mu[s] \notin View
  <2>1. mu[s] = "close"
    BY <1>1, <1>3 DEF WorkTypes, Waits, Timed
  <2> QED
    BY <1>3, <2>1 DEF GoesOn, HolderMoves
<1>4. CASE stopping[s] = Nil /\ mu[s] \in View
  <2>1. PICK v \in View : v = mu[s] /\ SessionOf[v] = s
    BY <1>1, <1>4 DEF Attended
  <2>2. ViewerMoves(v) \/ (job[v].at = "failed" /\ starting[s] = "ending")
    BY <1>4, <2>1, ViewerGoesOn
  <2> QED
    BY <1>4, <2>1, <2>2 DEF GoesOn, HolderMoves, HolderAwaits
<1> QED
  BY <1>2, <1>3, <1>4

(* No session is stopped for good, whatever the others do: whoever holds its    *)
(* mutex gets on, waits for a helper that is ending, or waits for idleSizes,    *)
(* whose holder gets on or waits for such a helper (stopLocked,                 *)
(* reserveSizeSlot, holdSize).                                                  *)
THEOREM NeverDeadlocked == Spec => []NoDeadlock
<1>1. ASSUME LocksInv, Waits, Settled PROVE NoDeadlock
  <2>1. idleMu \in View \cup {Nil}
    BY <1>1 DEF LocksInv, TypeOK
  <2>2. ASSUME NEW s \in Session, mu[s] # Nil
        PROVE  GoesOn(s) \/ (idleMu # Nil /\ mu[SessionOf[idleMu]] = idleMu /\ GoesOn(SessionOf[idleMu]))
    <3>1. CASE idleMu = Nil
      BY <1>1, <2>2, <3>1, HolderGoesOn
    <3>2. CASE idleMu # Nil
      <4>1. PICK v \in View : v = idleMu
        BY <2>1, <3>2
      <4> QED
        BY <1>1, <3>2, <4>1, ReserverGoesOn
    <3> QED
      BY <3>1, <3>2
  <2> QED
    BY <2>2 DEF NoDeadlock
<1> QED
  BY LocksSettle, <1>1, PTL

=============================================================================
