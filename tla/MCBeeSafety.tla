---------------------------- MODULE MCBeeSafety ----------------------------
(* Two parts of Bee that share no state and need no fairness: the helpers   *)
(* that pin sizes, and joins.  A behaviour explores one of them, the helpers*)
(* in one of two instances.                                                 *)
EXTENDS SizeLocks, Join, TLC

CONSTANTS s1, s2, v1, v2, v3, p1, p2, h1, h2, wrong

Sym == Permutations({v1, v2})

MCSessionOf == [v \in View |-> IF v = v3 THEN s2 ELSE s1]

(* Invitations to two Hives, and one with a wrong host key.                  *)
MCInvitations == {<<h1, h1>>, <<h2, h2>>, <<h2, wrong>>}

VARIABLE part

(* One pane for each session, that all its viewers may want, and that the    *)
(* native list of s1 may leave out.                                          *)
OnePane == /\ panes'[s1] \in {Nil, {}, {p1}} /\ panes'[s2] = Nil
           /\ \A v \in View : job'[v].want \subseteq {p1}

(* Two panes of s1, which no native list removes, no session that is closed, *)
(* and one viewer at a time for each session: a helper that ended while idle *)
(* may be reclaimed when its own session has used the slot for the other one.*)
Busy(v) == job'[v] # Out \/ \E p \in Pane : held'[v][p] # "no"
TwoPanes == /\ UNCHANGED <<panes, life>>
            /\ job'[v3].want \subseteq {p1}
            /\ \A s \in Session : Cardinality({v \in Views(s) : Busy(v)}) <= 1

BeeInit ==
  /\ Init /\ JoinInit /\ part \in {"one pane", "two panes", "join"}
  /\ part # "join" => machines = {}

BeeNext ==
  \/ /\ part # "join"
     /\ Assert(GuardsEnable, "a step that NoDeadlock counts on is not enabled")
     /\ Next
     /\ IF part = "one pane" THEN OnePane ELSE TwoPanes
     /\ UNCHANGED <<joinVars, part>>
  \/ part = "join" /\ JoinNext /\ UNCHANGED <<vars, part>>

BeeSpec == BeeInit /\ [][BeeNext]_<<vars, joinVars, part>>

=============================================================================
