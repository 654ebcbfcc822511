# Herdr Hive in TLA+

Models of the concurrent and crash-sensitive parts of Herdr Hive, checked with TLC
on small instances and, for the most important invariants, proved with TLAPS for
every value of the constants. Paths below are relative to the repository root.

`PROJECT.json` lists components, runs, mutants (a plausible bug for each property,
under which TLC finds the property violated), the source lines of every definition,
findings, hazards and theorems.

## 1. The system

Herdr is a terminal multiplexer with a client protocol of its own. **Bee** runs next
to it on every device and publishes chosen sessions; **Hive** is the SSH server to
which Bees connect and through which users reach the published sessions. A consumer
may attach to one session, call its API, or open the **aggregate gateway**, which
shows all shares of a Hive as one Herdr endpoint.

```
 viewer --- gateway (one event loop per viewer) --+
 consumer --- relayed channel (client/query/api) -+- Hive server --- Bee connection --- streams --- Herdr
 new device --- enroll (tokens, keys files)       +- registry (names.json)
```

| Component | State | Operations | Modelled by |
|---|---|---|---|
| Aggregate gateway (`hive/internal/gateway`) | sources, pending and expired requests, deadlines, interest, fence, rendered scene, failure history | one handler per event: viewer frame, source frame, catalog refresh, tick | `Gateway`, `Surface`, `Recovery` |
| Name registry (`hive/internal/registry`) | names, `names.json` | Name, save, Open | `Registry` |
| Enrollment (`hive/internal/enrollment`, `server/enroll.go`, `cmd/hive/enroll.go`) | tokens, `enrollment.json`, registered keys | redeem: reserve, append, release; revoke | `Enrollment` |
| Hive server (`hive/internal/server`) | connections, owners, shares, active relays, openings, slots | accept, handshake, publish, relay, view, tear down, shut down | `Server` |
| Bee publisher (`bee/internal/publisher`, `herdr/local.go`, `herdr/api.go`, `app/app.go`) | configuration, daemon, Run goroutine, bindings and pins, streams | change, reload, bind, publish, leave, retry; open, check, connect, relay | `Publisher` |
| Shared sizing, helpers (`bee/internal/herdr/sizing.go`) | helper processes, references, idle set, slots, catalog of panes | reconcile (acquire, share, release), expire, reclaim, watch, close | `SizeLocks` |
| Shared sizing, streams (`sizing.go`, `sizing_wire.go`) | visibility, snapshot, pending navigations and hides of one viewer | both inspected directions of the stream, barriers | `SizeView` |
| Join (`bee/internal/app/join.go`, `join_machine.go`) | device key, known_hosts, `config.json`, SSH files, `joined.json` | enroll, save, set up, in steps that a stop may separate | `Join` |
| Update (`internal/update`, `bee/internal/app/update.go`, `cmd/bee`) | executable, manifest, run.lock, publisher processes | install, restart, execute anew | `Update` |
| Remote CLI proxy, TUI, bootstrap adapter, inspection | | | see section 8 |

How they interact. The server gives the gateway a catalog of shares and a function
that opens a publisher channel; the gateway gives back sources it no longer wants.
The registry is called by `publish`, under the server's lock. Enrollment runs in its
own SSH user and shares only files with the rest. Bee and Hive interact by SSH
channels, each of which may stay unanswered. The publisher hands a terminal stream to
`Relay`, which pins the panes that the viewer sees through the `Sizing` of its session;
all sessions of a process share one budget of helpers. Join and update are commands of
Bee that meet the publisher only through its lock files and its control socket.

What is hard in it:

- **gateway**: a handler writes upstream, the write fails, the source is removed and
  `publish` is entered again in the middle of the handler; late and repeated answers
  under reused request IDs; internal slots that are all taken when the view moves;
  patches against a scene the viewer no longer has; failure history across
  republications.
- **server**: goroutines that look something up under the lock, block without it, and
  use it afterwards; reconnecting devices; opens that succeed after their caller gave
  up; shutdown racing accept.
- **publisher**: reloads that race a starting, leaving or busy daemon; endpoints
  replaced between check and connect; a reload that waits for streams.
- **registry, enrollment**: a stop between any two steps, with files in any version
  since the last directory sync.
- **sizing**: three kinds of mutex and waits for processes under them; helpers that die,
  are retired by timers or are reclaimed by another session while viewers refer to
  them; a stream whose two directions race.
- **join, update**: stops between steps whose effects stay, answers that are lost, other
  commands in between, locks that change hands while a process executes itself anew.

## 2. Modules

- `Surface`: the retained scene of a source and the scene on the viewer's screen, as
  operators. A scene is named by source, snapshot revision and surface revision; a
  patch on any other scene gives `TornScene`.
- `Recovery`: the failure record of a share: attempts, back-off, quarantine.
- `Gateway`: the event loop of one viewer. `pc = "select"` is the `select` of `Serve`;
  otherwise a handler is under way and `then` holds what it does once `publish` has
  returned. Every upstream write may fail (`WriteFails`). Time is the number of ticks
  left of every deadline, decreased by `Elapse`; `Refresh` is the tick's handler.
  `Inputs` switches kinds of outside event on, so that a run explores the ones its
  question needs; the configurations list them.
- `Aggregate`: what a viewer is promised, without tables and timers: one source shown
  at a time, handed over through nobody; a call goes to one source and ends once.
  `GatewayPromise` holds the refinement mapping.
- `Registry`, `Enrollment`: one call at a time (both hold a mutex), as steps between
  which the process may stop. `durable`, `usesDisk`, `keysDisk` are the versions a power
  loss may leave. In `Registry` a stop of the process (`NamesStop`) and a loss of power
  (`NamesPowerLoss`) differ: the file is synced, but not the directory it is renamed in.
- `Server`: every goroutine is a process: accept loop, canceller, main and request
  goroutine per connection, consumer channels (`Handler`), and for a gateway source its
  caller and its worker (`Stream`). What happens under `s.mu` is one step. A
  publication is identified with its connection.
- `Publisher`: commands, daemon, Run goroutines, streams, and Herdr replacing
  endpoints. An endpoint is the number of its incarnation; pinned incarnations do not
  come back.
- `SizeLocks`: the helpers of all sessions of a process. Every goroutine (viewers,
  timers, watchers, helpers, close) is a process, and `mu` and `idleMu` say who holds
  the mutexes. A helper needs no identity besides its session and pane: whoever still
  refers to one that has been deleted holds a "stale" one.
- `SizeView`: one stream, with a native shell that takes requests in order and sends
  snapshots late, or never when a newer one replaces them. A layout says which pane is in
  which tab and which tab of a workspace is active. The native shell has its own
  (`native.where`), Bee that of its last snapshot (`view.where`), by which it resolves
  `pane.focus` and `workspace.focus` and takes the panes to pin.
- `Join`: the files, the Hive's keys and Herdr's machine list, and how far a join has
  come; `configure` and `share` run in between.
- `Update`: `bee run` processes with the version that each executes, the files of the
  installation, and one updater.
- `GatewayProofs`, `RequestProofs`, `ViewProofs`, `ServerProofs`, `StateProofs` (`Registry`
  and `Enrollment`), `PublisherProofs`, `SizeLocksProofs`, `BeeProofs` (`Join`,
  `Update` and `SizeView`): theorems, see section 7. `MC*`: instances for TLC.

Definitions whose comment begins with "Faulty" are not part of any specification: each
is a plausible bug of the definition that follows it, used to show that a property
would notice.

## 3. Abstractions

Frames are revisions, names are numbers, channels have no bytes; wording, logging and
byte counters are left out. These points deserve a reader's attention:

- `Gateway` replaces an outer `publish` by the inner one that a failed write starts:
  what the outer call had left to do repeats what the inner one has done.
- Interest IDs (`hive:surface:k`) come from an unbounded counter; an ID matters only
  while it is pending, so the model takes the first free one. Ordinary request IDs are
  never reused, as in the code.
- In `SizeView` `reconcile` has pinned what it wanted when it returns, or has ended the
  stream; how it does so is `SizeLocks`. Panes on which it gives up because they no longer
  exist have nothing to show, and a pane of the snapshot that the API's list
  (`Sizing.panes`) does not have counts as missing from the snapshot.
- In `Join` a crash, a failed write and a returned error are one action: they leave the
  same files.
- Bindings, generations and shares of one publication are one thing in `Server`
  (a connection publishes once).

Herdr, the file system, SSH and the peers are external: they may answer, stay silent,
fail or disappear at any step.

## 4. Runs

| Run | Question | Bounds and why |
|---|---|---|
| `routing` | calls are neither mixed up, forgotten nor replayed; refinement of `Aggregate` | 2 sources, 2 request IDs, 3 wire requests, 2 slots: an ID can be reused while an expired call of its still holds a slot |
| `view` | one holder; interest, focus and terminal modes settle; the screen is current | 2 sources, 1 transition slot (the limit is met at once), calls that move the focus, visibility changes, withdrawals, writes that fail; one surface revision, so scenes are complete ones here, and patches are in `recovery` (for several sources: theorems `NeverTornScreen`, `ScreenAlwaysCurrent`) |
| `recovery` | quarantine exactly where deserved; history forgotten only after stable rendering; no torn screen | 1 share, 2 generations, 2 attempts, 2 projections and 2 surfaces; late events, violations, garbled answers, both kinds of write failure, patches that meet a moved projection; a share is replaced by its next generation while opened (mere withdrawal is in `view`) |
| `liveness` | every call is answered, a fence is held up only by sources that are lost again and again, and no fence is stranded | 2 sources that may stay silent or fail, a viewer that hides and shows, 1 transition slot, so that a fence waits for one; the back-off is capped at 1 tick and the fence's deadline is 2, so that two silent sources take turns as three do in the code (16 s, 10 s each): without the premise `HoldersStay` TLC finds that behaviour. Sources do not draw here: what drawing does to a fence is to reset the back-off, which has no effect at this cap |
| `state` | names unique and stable; no uncounted key, limits kept, nobody locked out | registry: 4 devices, limit 3, "Worker", "Worker-2" (asked for, not resolved) and another; enrollment: 2 keys, 3 tokens (one for a single device, two unlimited), at most 2 tokens and 3 uses in the state: the limits of a token, of tokens and of uses are all met (the limit of keys, which is above that of uses, is not) |
| `server` | publications, relays, sources and shutdown | a device that reconnects and a consumer; 1 channel, 2 source records |
| `teardown` | connections and `Serve` end | 1 publisher, 1 consumer, all kinds of channel |
| `publisher` | configuration, streams, pins, reloads | 2 commands, 2 changes, 2 Run goroutines (a second would exist if a reload did not wait), 1 session replaced once or gone |
| `bee_safety` | helpers: references and slots counted, stopped for a reason only, close complete, no deadlock; joins: resumed with one key, only to what works | sizes, 2 sessions, 3 viewers (2 of one session), 1 slot: with one pane each every acquisition of one session needs the other's helper, both viewers of a session share one, and one session is closed; with two panes of one session, and one viewer of it at a time, an idle helper that is reclaimed may have ended already when its own session used the slot for the other pane; join: 2 Hives, 3 invitations (one with a wrong host key), 2 generated keys, one manual machine |
| `bee_liveness` | a stream's pins, visibility and navigations; updates | view: 2 tabs, 2 panes, a workspace and 4 layouts (the second pane in either tab or gone, either tab active or the workspace gone), 2 pending operations; either 3 requests, or 2 requests and 1 move of the native shell, its panes or active tabs by itself; update: 2 processes, 3 versions |
| `garbled` | finding, section 6 | |
| `race` | finding, section 6 | |

`state`, `bee_safety` and `bee_liveness` check modules that share no state in one run: a
variable `part`, chosen at first, says whose steps a behaviour has, while the others stay
as they are. Nothing is lost, for no property speaks of two of them. In `bee_safety` it
also says which of the two instances of `SizeLocks` a behaviour is in.

`NoDeadlock` says by which guards somebody can go on. That these guards mean what they
say, `GuardsEnable`, is an `Assert` in `bee_safety`: in every state that is reached, who
holds a mutex and may move by those guards has a step that is `ENABLED`.

Deadlock checking is off where the system may really stop: in `view` and `recovery` the
viewer may leave or misuse the protocol (`pc = "done"`) or all bounded inputs may be
used up; in `server` and `teardown` every connection may have ended; in `bee_safety` the
only session that is open may have nobody left to work for, and `NoDeadlock` says what
must not happen there; in `bee_liveness` a stream may be over.

Symmetry in `server`: the two connections of a device and the two source records are
interchangeable; no liveness is checked there. In `bee_safety` the two viewers of one
session are; its action property does not mention viewers.

What the properties say is in the comment before each. The less obvious ones:

- `TablesAgree` (`NoCallForgotten`, `NothingOutlivesItsSource`, `SlotsBounded`): ties the
  viewer's view of a call to four tables (`pending`, `requestIDs`, `deadlines`, `retired`)
  and the sources.
- `ViewSettled`, `FenceKept`: no path through `publish`, `fail` and an acknowledgement
  leaves a transition or a fence with nothing to resume it.
- `PublicationsAreReal`, `WithdrawnBeforeReplaced`: a publication is gone for good once
  its connection is torn down, is withdrawn before its successor exists, and takes its
  relays with it although they were opened outside the lock.
- `HelpersCounted`: a helper's references are the viewers that hold it, one that nobody
  holds will be retired, and the process-wide budget counts the helpers there are,
  in whatever order they start, fail, die and are reclaimed.
- `StoppedForAReason`: the helper of a viewer is stopped only if its pane is gone; nobody
  else's departure, and no timer of an earlier idle period, takes it away.
- `NamesStable`: a device's name is changed or lost by its own call only. The exception,
  a loss of power that undoes a rename, is what the code does: see section 6.
- `EveryFenceAnswered`: no fence waits for ever unless the sources that are to have it are
  lost again and again; that they may be is what the code does: see section 6.
- `ShownIsPinned`: every pane that the native shell shows is pinned, at the latest when Bee
  has the snapshot of what is shown. Before that it has the exceptions `Strange` and
  `MovedIn`, which are what the code does: see section 6.
- `JoinsResume`, `JoinsAreSafe`, `TornIsRepaired`, `SuccessIsActive`,
  `PublisherComesBack`: what is left after an interruption is repaired by repeating the
  command, and success means what it says.
- `ConnEnds` has an exception, which is what the code does: see section 6, query.

## 5. Fairness

- `Gateway!FairSpec`: handlers that have begun go on (one goroutine, no locks); time
  passes and the one-second tick is taken: Go's `select` picks among ready cases at
  random, so it does not pass over one forever (`SF`). Nothing is assumed of sources
  and viewers.
- `Server!FairSpec`: what the server does by itself happens. Nothing makes a peer
  answer or close; a call blocked on a peer ends when its transport is closed or its
  timer runs out.
- `SizeView!Fairness`: Bee reads what the native shell sends, and the native shell
  answers and sends its snapshot at some time. `Relay` hands each frame of the native shell
  to the viewer before it reads the next (`sizing_wire.go:140-190`), so this supposes a
  viewer that goes on reading; nothing else is assumed of it. Without an answer from the
  native shell a navigation ends in `navigation_timeout`.
- `Update!UpdateFairness`: a process that runs goes on to take the lock, to listen and to
  execute itself anew; nothing is assumed of the updater.
- `Publisher!FairSpec`: the calls of the daemon and of Run have time limits or end with
  their context; a stream ends once it is cancelled.

## 6. Findings and observations

Shown by a run:

- `garbled` (`hive/internal/gateway/gateway.go:683`): a response is removed from the
  tables before it is decoded; if it is not a JSON object, the source is removed, and
  the viewer's call is never answered, although "Ordinary calls return a timeout after
  30 seconds" (`hive/README.md:312`). `liveness` leaves such answers out.
- `race` (`bee/internal/herdr/local.go:168`): a terminal stream checks its endpoint and
  then connects by path; one replaced in between is relayed to, although "changed
  socket identities reject new streams" (`docs/DESIGN.md:89`). API calls are checked
  again after connecting (`CallsReachTheirSession`, part of `StreamsStayBound`).

Seen in the source while modelling, not the subject of a run:

- One deadline covers opening, welcome and first snapshot (`gateway.go:321`);
  `hive/README.md:322-323` and `protocol/v1.md:240-241` grant a further 10 seconds.
- `refresh` drops the record of a share that others push out of the first `MaxSources`
  (`gateway.go:272-276`), so its quarantine ends in the same generation
  (`hive/README.md:324-325`). `recovery` has no more shares than a viewer opens.
- The fence's deadline starts again with every source the fence is passed to
  (`gateway.go:1001-1002`), and nothing limits how many there are, so the "10-second hard
  limits" of `hive/README.md:335-336` hold for a source and not for a fence. The back-off
  is capped at 16 seconds: of three or more mute sources (a viewer opens up to 8) there is
  always one back with a snapshot when the last one is given up, and the fence may never
  be answered. Two are enough if they draw for the stable interval, since that resets
  their history (`recovery.go:86-90`). `EveryFenceAnswered` has this as its premise
  (`HoldersStay`), and `liveness` reaches it.
- `Registry.Name` syncs the file but not the directory (`registry.go:75`): after a loss of
  power an earlier `names.json` may be back, the name that a device was given last is
  lost, and another device may get it. `NamesUnique` holds nevertheless; `NamesStable`
  makes the exception. Enrollment syncs its directory (`enrollment.go:177-187`).
- Public names are recomputed from the names in use (`registry.go:35-48`): a device
  that changes its name and changes back may get another suffix.
- A query's answer is copied without watching the consumer (`server.go:416`): slot and
  connection of a consumer that has gone wait for the publisher (`docs/DESIGN.md:179`
  says that closing either side returns the slot). `ConnEnds` makes the exception.
- A key whose directory sync failed is confirmed on retry without another sync
  (`server/enroll.go:70`).
- `openGatewaySource` counts its worker after the claim (`server/gateway.go:104`):
  `Serve` may return in between; `ReturnsClean`, part of `ShutdownIsClean`, states what
  still holds.
- A helper whose grace period is over leaves `idleSizes` before it has returned its slot
  (`sizing.go:363`), and another session that asks in between is refused with
  `sizing_limit`, although idle helpers "are reclaimed before rejecting new live
  controls" (`bee/README.md:329-330`). A viewer that retries gets it.
- A confirmed hide empties `pending` (`sizing.go:903`). If the native shell then shows
  again what a navigation after the hide had asked for, that tab is not pinned until the
  next snapshot (`lost` in `Strange`; without this exception TLC finds the order hide,
  focus, hide's answer, show). A tab that the shell moves to by itself has the same gap
  (`native.by = -1`).
- `pane.focus` and `workspace.focus` are resolved through the last snapshot
  (`sizing.go:806-820`). If that is out of date (a workspace has another active tab, a pane
  has moved), Bee keeps another tab than the one the shell goes to; and a destination that
  the snapshot does not have is sent on with nothing pending (`sizing.go:821`). In both
  cases the tab shown is not pinned until its snapshot has come (`Strange`).
- Only panes of the last snapshot are pinned (`sizing.go:557`): a pane that has come to a
  tab since is shown unpinned until the next one (`MovedIn`), also in a tab that is kept.
- A navigation that is acknowledged while the viewer has asked to be hidden gets no
  barrier (`sizing.go:893`); if its snapshot is replaced by a newer one it may run into
  `navigation_timeout`. `NavigationsSettle` speaks of those with a barrier.
- A second `bee update` that starts while a restarted publisher executes itself anew
  finds neither a socket nor a held `run.lock`, takes the lock, and the publisher ends
  with "already running"; nothing starts it again (`update.go:31`, `daemon.go:48`). This
  needs the first update to have ended in that window. `PublisherComesBack` makes the
  exception (`updater.locked`).
- A `bee run` that was executed before an update began and reaches `run.lock` only after
  the update has found a publisher's status may become the publisher with the old
  version (`early` in `SuccessIsActive`).
- `App.change` takes any error of the control socket for "not running" (`app.go:38`), also
  the time limit of ten seconds while the daemon waits for a Run to end. `bee unshare` and
  `bee disable` may then report success while the old Run is still publishing, although
  "Disabling publication closes streams and all helpers before acknowledgement"
  (`docs/DESIGN.md:82-83`). What still holds is `ChangesTakeEffect`: such a daemon is
  ending that Run, and has loaded the change before it serves anybody again.

## 7. Proofs

Thirty-six theorems, each for every value of the constants that the assumptions of its
module allow; the lemmas they rest on are in the same modules. In each proof every action
has a step of its own, under it the conjuncts it can disturb. Most invariants that the
runs check are not inductive. What had to be added says why the code is right, so it is
given here.

**Gateway.** `RequestProofs` and `ViewProofs` extend `GatewayProofs`.

- `TypeCorrect` (`TypeOK`): a failure writes the generation of a removed source into the
  record and into `guilty`. `TypeInv` adds that a live source and a listed share have a
  generation and that the target of a handler under way is live. `SettleType`, `FailType`
  and `ViewTypes` are about the operators that every handler uses.
- `OneHolderAlways`: `HolderInv` adds that only live sources hold interest, so that
  `ToRelease = {}` in `ActivateInterest` rules out another holder. All other steps give
  nobody interest (`NoNewHolder`).
- `HistoryAlwaysKept`, `QuarantineAlwaysDeserved`, `QuarantineAlwaysExact`: the last needs
  `QuarantineInv`: a source that failed for good is removed, its record stays blocked as
  long as its generation is listed (`Condemned`), and a generation that is not the newest
  is not live (`Outdated`). It holds if `NumSources <= MaxVisible`: `refresh` drops the
  record of a share that others push out (section 6).
- `AnswersAlwaysReachTheirCall`, `TablesAlwaysAgree`, `OperationsNeverReplayed`: `LinkInv`
  says what links the tables (`Linked`): an entry of `requestIDs` was given out in order,
  is pending at a source and has a deadline, and the viewer waits for it under that ID.
  `Control` says what the handler under way still owes the viewer. Each
  step then either leaves the tables alone (`Quiet`), or removes sources and expires calls
  (`Removes`), or is one of the few that add or settle one entry. On top of it: every call
  the viewer waits for is in the tables (`Waiting`), the slots are bounded, nothing
  outlives its source.
- `NeverTornScreen`, `ScreenAlwaysCurrent`, `ViewAlwaysSettled`, `FenceAlwaysKept`:
  between handlers everything that `publish` decides has been decided; inside `publish`
  only what its steps so far are for. `ViewInv` says, per part of the view, from which step
  of `publish` on it holds again: the active source (`Adopted`), interest (`Interests`),
  scene (`Scenes`), fence (`Fences`); the terminal modes (`Effects`) and what the gateway
  knows of the screen (`Remembered`) hold all along. A failed write goes back to the first
  step, where the least is claimed.
- `PromiseAlwaysKept` (`KeepsPromise`): `Gateway` implements `Aggregate`. `PromiseInv`
  makes the mapping well-defined (at most one holder, every call that was sent is in the
  tables); then each action is a step of `Aggregate` or a stutter.

`TablesAlwaysAgree` and `PromiseAlwaysKept` assume `"garbled" \notin Inputs`: without it
they are false, as the finding `garbled` shows. All other kinds of input are allowed, and
`"garbled"` too in the other theorems.

**Server** (`ServerProofs`).

- `ServerTypeCorrect`: `LifeInv` adds that a connection exists as long as it has a place
  in `Serve` (`Lives`) and that channels and sources at work name one (`Named`).
- `AlwaysWithdrawnFirst`: `Bindings`: `owners` and `shares` agree, and who is in them has
  not been torn down.
- `PublicationsAlwaysReal`: `Relays` says who will close a relay at each step of its
  goroutine: its publication's `active`, or the `closeList` that the withdrawal took.
- `ChannelsAlwaysOwned`: `Opens` says that a mark in `opening` belongs to exactly one
  worker that is asking.
- `ShutdownAlwaysClean`: `SweptIsDead`, and `Gone`: when `Serve` has returned there is
  neither a place nor a worker with a channel.

**Registry and enrollment** (`StateProofs`).

- `NamesAlwaysUnique`, `NamesAlwaysStable`: `SavedBefore`: the file is the names, or during
  a save the names with the change undone. Without it a stop or a failed save could
  bring back a name that is taken, or take away one that was given out. A loss of power
  loads `durable` instead, of which only uniqueness is known: `NamesStable` excepts it
  where `durable` is not the file.
- `KeysAlwaysCounted`: `ReservedFirst` (before a key is appended its use is counted in
  every version a power loss may leave) and `NotGranted` (a reservation that may be undone
  has no key in any such version).
- `LimitAlwaysKept`, `NobodyEverLockedOut`: `LimitInv`, `LoadInv`: all versions of both
  files stay within the limits of `LoadUses` and `ReadAuthorizedKeys`, since `KeysAreCounted`
  bounds the keys by the uses.

**Publisher** (`PublisherProofs`).

- `StreamsAlwaysBound`: `StreamInv`: there is one Run goroutine at work, with the rules
  that the daemon has (`OneRun`); what it publishes is bound (`Pinned`); a stream belongs
  to a run that waits for it and shares its session (`Held`); and since endpoints only move
  on (`Forward`), one that is still the bound one when it is checked again was the bound
  one when it was connected (`Reached`).
- `ChangesAlwaysTakeEffect`: `InForce`: a command waits only for the daemon that serves
  it, from before the daemon loads; who finds nobody to tell meets a daemon that has yet
  to load. That an earlier configuration is published by a Run about to be ended only, is
  `OneRun`. The theorem does not say that nothing earlier is published after success:
  that is false (section 6, `app.go:38`).

**Sizing, helpers** (`SizeLocksProofs`): `HelpersAlwaysCounted`, `ClosedAlwaysQuiet`,
`StoppedAlwaysForAReason` and `NeverDeadlocked` rest on one invariant, `LocksInv`:

- `AtWork`: who works has the session's mutex, and what a viewer relies on at its step has
  been true since it took it, while it waits for processes or for `idleSizes`;
- `Keys`: for each session and pane, who holds the helper, and who will end it if nobody
  does: the idle set with a timer, a timer that fired, a watcher, or the one that waits;
- `Counted`: each slot is a helper that has not ended or one that is being set up. The
  proof is a sum over two sets, with one lemma per way a step changes them;
- `Leaving`: after the context is cancelled no helper is up.

`NeverDeadlocked` needs two more. `Waits` says what whoever has a mutex is there for: a
viewer at one of the loops of `reconcile` has a pane left (`Occupied`), `idleSizes` is
locked by exactly the viewer that reclaims a slot (`Refilling`), a viewer whose setup
failed waits for a process that is ending (`Ending`), and a timer for its helper
(`Timed`). `Settled` says that unless `idleSizes` is locked, a helper that was taken out of
it has ended. So the one who holds `idleSizes` is in `reserve` and waits for a process
only, which nobody has to help (`ReserverGoesOn`); and if it is free, nobody waits for
anything but a process (`HolderGoesOn`): the helper that a viewer wants to use or to stop
is either not retired or done. The first attempt at this proof failed for a reason: an
earlier `Reclaimed` took a reclaimed helper to give a slot back, which one that had ended
by itself does not do, and which the loop of `reserveSizeSlot` (`sizing.go:208-228`) does not
take for granted. The second instance of `bee_safety` reaches that case.

**Join, update and viewers' streams** (`BeeProofs`).

- `JoinsAlwaysResume`, `JoinsAlwaysSafe`: `JoinInv` says how far a join has come
  (`Progress`, `SetUp`) and that a key on disk is kept and nothing else enrolled
  (`KeysKept`). It is inductive because no step takes back a file, an accepted key or a
  machine (`Grows`), so that a connection that once worked goes on working.
- `TornAlwaysRepaired`, `SuccessAlwaysActive`: `UpdateInv` adds that `run.lock` has one
  holder (`OneLock`), that nothing executes what is not installed (`Executed`), and
  `Remembers`: without a publisher the updater has the lock, with one everything executed
  since it looked is at least as new.
- `ViewTypeCorrect`, `BarriersAlwaysKeepVisibility`, `ShownAlwaysPinned`: `PinsInv` is about
  everything that is under way in the two streams. Requests are taken and answered in the
  order of their IDs (`InOrder`, which also bounds the revisions). The last request for
  visibility in `up` says what the viewer asked for last (`Told`). A hide that nothing has overtaken has no
  request to show behind it, and once it is answered the native shell stays hidden
  (`Hiding`), so that a confirmed hide may stop pinning (`Visible`). A navigation is pending
  until the native shell takes it (`Pinned`); from then on its answer comes before the
  snapshot that shows it, and the projection of its barrier is no older than its own
  revision (`Moved`), which is why neither an early acknowledgement nor an old snapshot
  unpins it. Navigations that Bee could not resolve are not pinned (`Tracked`), and Bee's
  snapshot has the shell's tab from `native.since` on and its layout at the same revision
  (`Projections`), which confines the exceptions to snapshots that are out of date.

Assumptions. The constants' assumptions are named where the constants are declared
(`BoundsAssumption`, `MaxAttemptsAssumption`, `ServerAssumption`, `RegistryAssumption`,
`EnrollmentAssumption`, `PublisherAssumption`, `SizeConstants`, `NoLockAssumption`,
`JoinConstants`, `UpdateConstants`, `ViewConstants`): sets are finite where something is
counted, bounds are numbers, and "nobody", "no lock" and the like are none of the things
that they are not. Runs evaluate all of them.

Checked by TLC only:

- liveness (`liveness`, `teardown`, the temporal properties of `publisher` and
  `bee_liveness`): fairness is outside the prover's reach;
- `GuardsEnable` of `SizeLocks`: it is a statement about `ENABLED`.

Every invariant and every action property of a passing run is the subject of a theorem.

No module uses a RECURSIVE operator.

## 8. Not modelled

- Byte encodings (`gateway/wire.go` beyond patch acceptance), the method allowlist,
  metadata commands, configuration parsing, inspection: pure or read-only.
- Terminal user interface, entry points, bootstrap adapter: drawing, flags, parsing.
- Of shared sizing: how the geometry of a terminal is read, the helper's own protocol and
  the encoding of frames (`sizing.go:123-202`, `sizing_wire.go:20-75`).
- Of join: parsing invitations, quoting paths, and the dialog; of update: downloading,
  checking and unpacking archives, and `hive update`, which replaces one file and
  restarts a service.
- Remote CLI proxy: one request per process over one connection, without state that
  outlives it; what the Hive does with the request is the relay of `Server`.

## 9. Plan

Composition of `Server`'s openings with `Gateway`'s sources, and of `SizeView` with
`SizeLocks`.
