-------------------------------- MODULE SizeView --------------------------------
(* One remote viewer's stream through Bee (sizeView in bee/internal/herdr/     *)
(* sizing.go, Relay in sizing_wire.go): Bee inspects both directions, pins the *)
(* panes of the tabs the viewer sees before the native shell shows them, and   *)
(* adds requests of its own: the activation after the first snapshot, and a    *)
(* surface request after every navigation, whose answer names the projection   *)
(* that includes it.  The native shell is external: it takes requests in       *)
(* order, answers each at once, and sends the snapshot of its projection       *)
(* whenever it gets to it, so that snapshots come late and some never come.    *)
(*                                                                             *)
(* A layout says in which tab a pane is and which tab of a workspace is the    *)
(* active one.  Bee knows the layout of its last snapshot only: by it it       *)
(* resolves the destination of a navigation, and from it it takes the panes to *)
(* pin, while the native shell goes by the layout it has by then.              *)
(*                                                                             *)
(* reconcile (module SizeLocks) is taken to have pinned what it wanted when it *)
(* returns, or to have ended the stream.  A pane that is missing from the API's *)
(* list of panes (Sizing.panes) is gone, and counts as gone from the snapshot. *)
EXTENDS Integers, Sequences, FiniteSets

CONSTANTS Tab,          \* the tabs of the session
          Pane,         \* its panes
          Workspace,    \* its workspaces
          NoTab,        \* where a pane or a workspace is that does not exist
          Layouts,      \* the layouts that the session may have
          Destination,  \* what the viewer may ask for: tabs, panes and workspaces
          FirstTab,     \* the tab that the native shell begins with
          MaxRequests,  \* bound: requests of the viewer
          MaxMoves,     \* bound: times the native shell leaves its tab by itself
          MaxPending    \* navigations, and hides, that may be pending (64)

(* What snapshot.Panes and snapshot.Workspaces give a tab for.                *)
Place == Pane \cup Workspace

(* A tab has panes in a layout.                                               *)
HasPane(t, layout) == t \in Tab /\ \E p \in Pane : layout[p] = t

ASSUME ViewConstants ==
  /\ FirstTab \in Tab /\ NoTab \notin Tab
  /\ Layouts \subseteq [Place -> Tab \cup {NoTab}]
  /\ Destination \subseteq Tab \cup Place
  /\ MaxRequests \in Nat /\ MaxMoves \in Nat /\ MaxPending \in Nat \ {0}

VARIABLES view,      \* the fields of sizeView
          pending,   \* sizeView.pending
          hide,      \* sizeView.hide
          up, down,  \* the streams to and from the native shell
          native,    \* the native shell
          requests,  \* number of requests of the viewer, and the ID of the last
          lost       \* navigations that a confirmed hide has removed from pending

vars == <<view, pending, hide, up, down, native, requests, lost>>

Request  == 1 .. MaxRequests
Revision == 1 .. (1 + MaxRequests + MaxMoves)

Navigation == [id : Request, tab : Tab, seq : Request, ack : BOOLEAN,
               floor : {0} \cup Revision, barrier : BOOLEAN]

(* Requests as the native shell gets them: the viewer's, the barrier of the   *)
(* navigation of a sequence number, and the activation.                       *)
(* A navigation names its destination; "tab" is what Bee has resolved it to,  *)
(* which is not sent.                                                         *)
Message == [from : {"viewer", "barrier"}, id : Request, op : {"focus"},
            to : Destination, tab : Tab \cup {NoTab}]
             \cup [from : {"viewer", "barrier"}, id : Request, op : {"set"}, active : BOOLEAN]
             \cup [from : {"activate"}, op : {"set"}, active : BOOLEAN]

(* Type correctness.                                                          *)
TypeOK ==
  /\ view.at \in {"new", "hello", "ready", "over"}
  /\ view.active \in BOOLEAN /\ view.requestedActive \in BOOLEAN
  /\ view.tab \in Tab /\ view.where \in [Place -> Tab \cup {NoTab}]
  /\ view.revision \in {0} \cup Revision
  /\ view.sequence \in 0 .. MaxRequests /\ view.activity \in 0 .. MaxRequests
  /\ pending \subseteq Navigation
  /\ hide \subseteq [id : Request, activity : Request]
  /\ \A i \in DOMAIN up : up[i] \in Message
  /\ native.active \in BOOLEAN /\ native.tab \in Tab /\ native.where \in Layouts
  /\ native.revision \in Revision /\ native.sent \in {0} \cup Revision
  /\ native.since \in Revision
  /\ native.by \in Request \cup {0, -1} /\ native.refused \in BOOLEAN
  /\ requests \in 0 .. MaxRequests
  /\ lost \subseteq Request

Init ==
  /\ view = [at |-> "new", active |-> FALSE, requestedActive |-> FALSE, tab |-> FirstTab,
             where |-> [x \in Place |-> NoTab], revision |-> 0, sequence |-> 0, activity |-> 0]
  /\ pending = {} /\ hide = {}
  /\ up = <<>> /\ down = <<>>
  /\ \E layout \in Layouts :
       /\ HasPane(FirstTab, layout)
       /\ native = [active |-> FALSE, tab |-> FirstTab, where |-> layout, revision |-> 1,
                    sent |-> 0, by |-> 0, since |-> 1, moves |-> 0, refused |-> FALSE]
  /\ requests = 0
  /\ lost = {}

(* reconcile: the tabs that Bee keeps, and the panes that it pins for them,   *)
(* which are those of its snapshot.                                           *)
Kept == {view.tab} \cup {n.tab : n \in pending}
Held == IF view.active /\ view.revision > 0 THEN {p \in Pane : view.where[p] \in Kept} ELSE {}

-----------------------------------------------------------------------------
(* clientFrame.                                                               *)

(* endpoint.hello: the native shell is told to begin hidden.                  *)
Hello ==
  /\ view.at = "new"
  /\ \E a \in BOOLEAN :
       view' = [view EXCEPT !.at = "hello", !.active = a, !.requestedActive = a]
  /\ UNCHANGED <<pending, hide, up, down, native, requests, lost>>

(* Requests wait for firstReady, the first snapshot.                          *)
Asks == /\ view.at = "ready"
        /\ requests < MaxRequests
        /\ requests' = requests + 1

Full(table) == Cardinality(table) >= MaxPending

(* client_shell.surface.set: a show pins at once, and a hide only counts when *)
(* it has been confirmed and nothing newer was asked.                         *)
SurfaceSet(a) ==
  /\ Asks
  /\ ~Full(hide)
  /\ view' = [view EXCEPT !.activity = @ + 1, !.requestedActive = a,
                          !.active = IF a THEN TRUE ELSE @]
  /\ hide' = IF a THEN hide
             ELSE hide \cup {[id |-> requests', activity |-> view.activity + 1]}
  /\ up' = Append(up, [from |-> "viewer", id |-> requests', op |-> "set", active |-> a])
  /\ UNCHANGED <<pending, down, native, lost>>

(* The tab a destination stands for in a layout: tab.focus names it, and      *)
(* pane.focus and workspace.focus name something that is in it.               *)
Resolved(d, layout) == IF d \in Tab THEN d ELSE layout[d]

Navigates(d) ==
  /\ Asks
  /\ up' = Append(up, [from |-> "viewer", id |-> requests', op |-> "focus", to |-> d,
                       tab |-> Resolved(d, view.where)])
  /\ UNCHANGED <<hide, down, native, lost>>

(* The destination is in Bee's snapshot: its tab is kept before the request   *)
(* goes on.                                                                   *)
Focus(d) ==
  /\ Navigates(d)
  /\ Resolved(d, view.where) # NoTab
  /\ ~Full(pending)
  /\ view' = [view EXCEPT !.sequence = @ + 1]
  /\ pending' = pending \cup {[id |-> requests', tab |-> Resolved(d, view.where),
                               seq |-> view.sequence + 1,
                               ack |-> FALSE, floor |-> 0, barrier |-> FALSE]}

(* It is not: the request goes on, and nothing is kept for it.                *)
FocusUnknown(d) ==
  /\ Navigates(d)
  /\ Resolved(d, view.where) = NoTab
  /\ UNCHANGED <<view, pending>>

(* The stream ends: a second hello, a reserved or repeated request ID, too    *)
(* many pending operations, a failed reconcile, a navigation that was pending *)
(* for ten seconds (tick), or a closed connection.  Both connections are      *)
(* closed, and close releases what the view has pinned.                       *)
Ends ==
  /\ view.at # "over"
  /\ view' = [view EXCEPT !.at = "over", !.active = FALSE, !.requestedActive = FALSE]
  /\ pending' = {} /\ hide' = {}
  /\ up' = <<>> /\ down' = <<>>
  /\ native' = [native EXCEPT !.active = FALSE]
  /\ UNCHANGED <<requests, lost>>

-----------------------------------------------------------------------------
(* serverFrame.                                                               *)

(* Faulty: the acknowledgement settles a navigation, or only its own tab does.*)
SettledAtOnce(n, tab, revision) == n.ack
SettledByTab(n, tab, revision) == n.ack /\ tab = n.tab

(* settleNavigation: what remains pending of the navigations ns.              *)
Settled(n, tab, revision) ==
  n.ack /\ ((n.floor > 0 /\ revision >= n.floor) \/ tab = n.tab)

settleNavigation(ns, tab, revision) == {n \in ns : ~Settled(n, tab, revision)}

Receives == view.at # "over" /\ down # <<>> /\ down' = Tail(down)

(* The answer to a barrier: the projection that shows the navigation.  One    *)
(* that was refused ends the stream (Ends).                                   *)
BarrierAnswer ==
  /\ Receives
  /\ Head(down).kind = "answer" /\ Head(down).from = "barrier" /\ Head(down).ok
  /\ LET known == {IF n.seq = Head(down).id THEN [n EXCEPT !.floor = Head(down).revision]
                   ELSE n : n \in pending}
     IN  pending' = settleNavigation(known, view.tab, view.revision)
  /\ UNCHANGED <<view, hide, up, native, requests, lost>>

ActivateAnswer ==
  /\ Receives
  /\ Head(down).kind = "answer" /\ Head(down).from = "activate"
  /\ UNCHANGED <<view, pending, hide, up, native, requests, lost>>

(* A navigation is answered: it is dropped if refused, and else acknowledged, *)
(* with a barrier behind it unless the viewer has asked to be hidden.         *)
Barrier(n) == [from |-> "barrier", id |-> n.seq, op |-> "set", active |-> TRUE]
(* Faulty: a barrier also for a viewer that has asked to be hidden.           *)
AlwaysBarrier == TRUE

WithBarrier == view.requestedActive

NavigationAnswer ==
  /\ Receives
  /\ Head(down).kind = "answer" /\ Head(down).from = "viewer"
  /\ \E n \in pending :
       /\ n.id = Head(down).id
       /\ \/ /\ ~Head(down).ok
             /\ pending' = settleNavigation(pending \ {n}, view.tab, view.revision)
             /\ UNCHANGED up
          \/ /\ Head(down).ok
             /\ pending' = settleNavigation(
                  (pending \ {n}) \cup {[n EXCEPT !.ack = TRUE, !.barrier = WithBarrier]},
                  view.tab, view.revision)
             /\ up' = IF WithBarrier THEN Append(up, Barrier(n)) ELSE up
  /\ UNCHANGED <<view, hide, native, requests, lost>>

(* A hide is confirmed, unless it was refused or overtaken.                   *)
Confirmed(h) == Head(down).ok /\ h.activity = view.activity

HideAnswer ==
  /\ Receives
  /\ Head(down).kind = "answer" /\ Head(down).from = "viewer"
  /\ \E h \in hide :
       /\ h.id = Head(down).id
       /\ hide' = hide \ {h}
       /\ \/ /\ Confirmed(h)
             /\ view' = [view EXCEPT !.active = FALSE]
             /\ pending' = {}
             /\ lost' = lost \cup {n.id : n \in pending}
          \/ /\ ~Confirmed(h)
             /\ pending' = settleNavigation(pending, view.tab, view.revision)
             /\ UNCHANGED <<view, lost>>
  /\ UNCHANGED <<up, native, requests>>

(* The answer to a show, or to a navigation that is no longer pending.        *)
OtherAnswer ==
  /\ Receives
  /\ Head(down).kind = "answer" /\ Head(down).from = "viewer"
  /\ \A n \in pending \cup hide : n.id # Head(down).id
  /\ pending' = settleNavigation(pending, view.tab, view.revision)
  /\ UNCHANGED <<view, hide, up, native, requests, lost>>

(* A snapshot, unless it is older than the one Bee has.  The first pins the   *)
(* tab it shows, and only then is the native shell told to show it.           *)
Activation == [from |-> "activate", op |-> "set", active |-> TRUE]

Snapshot ==
  /\ Receives
  /\ Head(down).kind = "snapshot"
  /\ \/ /\ Head(down).revision < view.revision
        /\ UNCHANGED <<view, pending, up>>
     \/ /\ Head(down).revision >= view.revision
        /\ view' = [view EXCEPT !.at = "ready", !.tab = Head(down).tab,
                                !.where = Head(down).where, !.revision = Head(down).revision]
        /\ pending' = settleNavigation(pending, Head(down).tab, Head(down).revision)
        /\ up' = IF view.at = "hello" /\ view.active THEN Append(up, Activation) ELSE up
  /\ UNCHANGED <<hide, native, requests, lost>>

ServerFrame == BarrierAnswer \/ ActivateAnswer \/ NavigationAnswer \/ HideAnswer
                 \/ OtherAnswer \/ Snapshot

-----------------------------------------------------------------------------
(* The native shell.                                                          *)

Answer(m, ok) ==
  IF m.from = "activate" THEN [kind |-> "answer", from |-> "activate", ok |-> ok]
  ELSE [kind |-> "answer", from |-> m.from, id |-> m.id, ok |-> ok,
        revision |-> native.revision]

Runs == view.at \in {"hello", "ready"}

(* It shows tab t in a new projection.  "since" is the projection with which  *)
(* it came to its tab, and "by" what took it there: the navigation that Bee   *)
(* resolved to that tab, or nothing of the kind (-1).                         *)
Projects(t, layout, by) ==
  [native EXCEPT !.tab = t, !.where = layout, !.revision = @ + 1,
                 !.by = IF t = native.tab THEN @ ELSE by,
                 !.since = IF t = native.tab THEN @ ELSE native.revision + 1]

(* A navigation moves no pane; it may change active tabs of workspaces.       *)
SamePanes(layout) == \A p \in Pane : layout[p] = native.where[p]

NativeTakes ==
  /\ Runs /\ up # <<>>
  /\ up' = Tail(up)
  /\ LET m == Head(up) IN
     \/ /\ m.op = "set"
        /\ native' = [native EXCEPT !.active = m.active]
        /\ down' = Append(down, Answer(m, TRUE))
     \/ /\ m.op = "focus"
        /\ LET t == Resolved(m.to, native.where) IN
           /\ HasPane(t, native.where)
           /\ \E layout \in Layouts :
                /\ SamePanes(layout)
                /\ native' = Projects(t, layout, IF t = m.tab THEN m.id ELSE -1)
        /\ down' = Append(down, Answer(m, TRUE))
  /\ UNCHANGED <<view, pending, hide, requests, lost>>

(* Requests of the viewer may be refused.                                     *)
NativeRefuses ==
  /\ Runs /\ up # <<>> /\ Head(up).from = "viewer"
  /\ up' = Tail(up)
  /\ down' = Append(down, Answer(Head(up), FALSE))
  /\ native' = [native EXCEPT !.refused = @ \/ Head(up).op = "set"]
  /\ UNCHANGED <<view, pending, hide, requests, lost>>

(* Panes come, go or change their tab, another tab of a workspace becomes the *)
(* active one, its own tab is closed, or somebody else moves it.              *)
NativeMoves ==
  /\ Runs /\ native.moves < MaxMoves
  /\ \E t \in Tab, layout \in Layouts :
       /\ HasPane(t, layout)
       /\ <<t, layout>> # <<native.tab, native.where>>
       /\ native' = [Projects(t, layout, -1) EXCEPT !.moves = @ + 1]
  /\ UNCHANGED <<view, pending, hide, up, down, requests, lost>>

NativeShows ==
  /\ Runs /\ native.sent < native.revision
  /\ native' = [native EXCEPT !.sent = native.revision]
  /\ down' = Append(down, [kind |-> "snapshot", tab |-> native.tab, where |-> native.where,
                           revision |-> native.revision])
  /\ UNCHANGED <<view, pending, hide, up, requests, lost>>

Next ==
  \/ Hello \/ Ends \/ ServerFrame
  \/ \E a \in BOOLEAN : SurfaceSet(a)
  \/ \E d \in Destination : Focus(d) \/ FocusUnknown(d)
  \/ NativeTakes \/ NativeRefuses \/ NativeMoves \/ NativeShows

(* Bee reads what the native shell sends, and the native shell answers each   *)
(* request and sends its projection.  Relay hands every frame of the native   *)
(* shell to the viewer before it reads the next, so the first of these        *)
(* supposes a viewer that goes on reading its stream; nothing else is asked   *)
(* of it.                                                                     *)
Fairness == /\ WF_vars(ServerFrame)
            /\ WF_vars(NativeTakes \/ NativeRefuses)
            /\ WF_vars(NativeShows)

Spec == Init /\ [][Next]_vars /\ Fairness

-----------------------------------------------------------------------------
(* What the native shell has or will have been told about its visibility.     *)
LastSet == LET sets == {i \in DOMAIN up : up[i].op = "set"}
           IN  IF sets = {} THEN native.active
               ELSE up[CHOOSE i \in sets : \A j \in sets : j <= i].active

(* Bee's own surface requests (the activation and the barriers) never undo    *)
(* what the viewer asked for: once the stream is empty the native shell is    *)
(* shown exactly if the viewer's last request says so, unless it refused.     *)
BarriersKeepVisibility ==
  view.at = "ready" /\ ~native.refused => LastSet = view.requestedActive

(* Every pane that the native shell shows is pinned, in every order of        *)
(* requests, answers and late snapshots, once Bee has the snapshot of what is *)
(* shown, and before it in all but these cases (clientFrame, reconcile):      *)
(*   Strange   Bee has no snapshot since the shell came to its tab, and did   *)
(*             not know it would: the shell left its tab by itself, or for a  *)
(*             destination that Bee's snapshot did not have or had in another *)
(*             tab, or for a navigation that a confirmed hide had already     *)
(*             removed from pending;                                          *)
(*   Moved in  the pane was not in that tab yet in Bee's snapshot.            *)
Strange == view.revision < native.since /\ native.by \in lost \cup {-1}
MovedIn(p) == view.revision < native.revision /\ view.where[p] # native.where[p]

ShownIsPinned ==
  view.at # "over" /\ native.active =>
    \A p \in Pane : native.where[p] = native.tab =>
      p \in Held \/ (view.active /\ (Strange \/ MovedIn(p)))

(* A navigation that was acknowledged with a barrier behind it is settled,    *)
(* even if its own snapshot never comes: it does not run into the timeout.    *)
NavigationsSettle ==
  \A r \in Request :
    (\E n \in pending : n.id = r /\ n.barrier)
      ~> (view.at = "over" \/ \A n \in pending : n.id # r)
=============================================================================
