--------------------------- MODULE MCBeeLiveness ---------------------------
(* Two parts of Bee that share no state and are scheduled fairly: a remote  *)
(* viewer's stream, and an update.  A behaviour explores one of them, the   *)
(* stream in one of two instances: with three requests and a native shell   *)
(* that only does what it is asked, or with two and one that also moves.    *)
EXTENDS SizeView, Update, TLC

CONSTANTS t1, t2, p1, p2, w

(* The second pane: in a tab of its own, with a workspace that shows one tab  *)
(* or the other; in the first tab; and not there, and no workspace either.    *)
Layout(second, active) == p1 :> t1 @@ p2 :> second @@ w :> active
MCLayouts == {Layout(t2, t1), Layout(t2, t2), Layout(t1, t1), Layout(NoTab, NoTab)}

VARIABLE part

beeVars == <<vars, updateVars, part>>

BeeInit ==
  /\ Init /\ UpdateInit /\ part \in {"asks", "moves", "update"}
  /\ part # "update" => disk = [binary |-> 0, manifest |-> 0]
  /\ part = "update" => native.where = Layout(t2, t1)

BeeNext ==
  \/ part = "asks" /\ Next /\ native'.moves = 0 /\ UNCHANGED <<updateVars, part>>
  \/ part = "moves" /\ Next /\ requests' <= 2 /\ UNCHANGED <<updateVars, part>>
  \/ part = "update" /\ UpdateNext /\ UNCHANGED <<vars, part>>

BeeSpec == BeeInit /\ [][BeeNext]_beeVars /\ Fairness /\ UpdateFairness

=============================================================================
