# Verification of LogiNext

TLA+ models of the LogiNext daemon, the TLC runs that check them, and the theorems TLAPS proves about them.
Paths are relative to the repository root; the daemon's sources are under `src/`.

## The system

LogiNext grabs an MX Master 3S, turns its thumb wheel (`REL_HWHEEL`) into key combos on a virtual device and passes
every other event through. A Tauri application edits two files (`config.json`, `app_rules.txt`) and tells the daemon
to reload them over a Unix socket; a listener thread follows the focused window, so that rules may depend on it.

| Component | State it keeps | Operations | What makes it correct |
| --- | --- | --- | --- |
| scroll heuristics, `src/heuristics/` | direction, accumulator, pending gesture start, jitter count, three timestamps | `tick_leak`, `process_hwheel`; reset by a reload | a twitch gives no tick, a swipe always does; ticks are spaced; jitter does not reverse |
| pacing queue, `src/core/pacer.cpp` | ring of combos, what is held down, a timerfd | `enqueue_combo`, `process_timer`, `check_damping` | keys that go down come up; combos in order; presses paced; no work without a timer |
| rule table, `src/scope/rules*` | open-addressing table, counter | `insert`, `lookup`, `clear`, `load_rules` | the last line of an app wins; no rule lost or left over |
| scope listener, `src/scope/listener.cpp` | atomic hash, name under a mutex, stop flag, wake pipe, one backend | probes, four backends, publish, start, stop | what is published is what has the focus; stop always joins |
| event loop, `src/core/event_loop.cpp` | epoll set, flags set by signals | `run_loop` | nothing ready is forgotten, flags are acted on, a lost mouse ends it |
| IPC server and dispatch, `src/ipc/` | client slots with receive buffers, descriptor of a deferred ack | accept, read, dispatch, close, shutdown, ack | one reply per command to the client that asked; no slot lost |
| main and settings, `src/main.cpp`, `src/config/` | settings in use, the order of start-up and teardown | `on_event`, `on_reload`, `main` | a reload takes effect as a whole and keeps the last good configuration |
| UI back end, `ui/src-tauri/src/` | none of its own; the files, systemd, the daemon process | `request`, `write_config`, `write_app_rules`, start/stop/heal the daemon | one daemon runs, and it is the one the user wanted |
| UI front end, `ui/src/` | what the user sees, queued edits | apply queue, offline queue, heartbeat, debounced rule saves | what is shown ends up in force |

How they interact: the main thread is one epoll loop. It calls `on_event` for the mouse, `on_timer` for the pacer and
`on_io` for the socket, and `on_reload` at the top of a turn when SIGHUP or the `reload` command set a flag. The
listener thread writes one atomic integer that `on_event` reads, and a name that `get_active_app` reads. Clients and
the writers of the files are other processes that run, die and give up at any point.

The hard parts are therefore: events, timer expiries and commands handled in one batch although they were reported
together; flags set between two system calls; an acknowledgement given later than the request, to a descriptor that may
have changed hands; two clocks (the one that stamps events, the one of the timer); a table rebuilt while the old
contents are still in it; and, on the UI side, asynchronous calls that overlap. `PROJECT.json` lists each hazard at
its line with the properties that watch it.

## The modules

| Module | Models | Notes |
| --- | --- | --- |
| `PacedKeys` | what the pacing queue promises | abstract: a bounded line of combos, at most one down |
| `Pacer` | `pacer.cpp`, with the part of `run_loop` and `main.cpp` that calls it | implements `PacedKeys` |
| `PacerProofs` | | theorems about `Pacer` |
| `ScrollState` | `scroll_state.cpp` and the clock of the events | |
| `ScrollProofs` | | theorems about `ScrollState` |
| `RuleTable` | `rules.hpp`, `rules.cpp`, `rules_loader.cpp` | |
| `RuleProofs` | | theorems about `RuleTable` |
| `HotPath` | `on_event`, start and reload of `main.cpp`, `loader.cpp`, `settings.hpp`, `args.cpp`, `preset.hpp` | extends `RuleTable` |
| `HotProofs` | | theorems about `HotPath`, on top of `RuleProofs` |
| `Daemon` | `event_loop.cpp`, `server.cpp`, `dispatch.cpp`, `on_reload`; clients (`ipc_bridge.rs`) and file writers | |
| `DaemonProofs` | | theorems about `Daemon` |
| `ScopeListener` | `listener.cpp`, the compositors it listens to, the KWin script, `get_active_app` | |
| `ScopeProofs` | | theorems about `ScopeListener` |
| `Lifecycle` | start-up and teardown of `main.cpp`, `init_server`, `shutdown_server`, `device.cpp`; `daemon.rs`, `service.rs`, `lib.rs`, `deploy/systemd/loginext.service` | several processes |
| `LifecycleProofs` | | theorems about `Lifecycle` |
| `Frontend` | `ui/src/views/main.ts`, `rules.ts`, `ui/src/ipc/client.ts`, the back-end commands they call | |
| `FrontendProofs` | | theorems about `Frontend` |
| `MC*` | | constants for TLC |

### Pacer

`buffer`, `head`, `tail`, `count`, `release_pending` and `held_combo` are the fields of `PacingQueue`. The timerfd is
`timer`: off, or the ticks it still has to run, 0 being an expiry nobody has read. `reported` says that `epoll_wait`
returned it; between that and `on_timer` the events of the same batch may re-arm or disarm the timer, which wipes the
expiry, so that `process_timer` finds nothing to read (`NothingDue`). `kbd` is the virtual keyboard. Damping compares
timestamps of events, not the timer's clock: `check_damping(gap)` is an event any gap after the previous one.
`profile` is what the queue's profile pointer shows; a reload (`Reload`) changes it between batches.

`rested`, the time since keys last went up, is a history variable. It and `silence` stop growing at the largest
interval anything compares them with.

### ScrollState

One action, `Wheel`, is one `REL_HWHEEL` event: `tick_leak` then `process_hwheel`, in the order of the code: leak, idle
reset, jitter, accumulation, confirmation, gesture start, cooldown, threshold. `Reload` is `app->scroll = {}`. `tick` is
the returned direction. `FocusChange` hands the next event another profile, as `effective_profile` does when the focus
moves to an app with a rule: gesture, accumulator and timestamps stay, the thresholds they are compared with change.
`mono` is real time, `behind` and `ahead` are how far the wall clock was set back and forward (`SetClockBack`,
`SetClockForward`): events carry `mono + ahead - behind`, because nothing in the program selects `CLOCK_MONOTONIC` for
the device. `seen` is what an observer of wheel and ticks remembers, in real time, with how far the clock had been set
forward at the last tick; the properties compare it with the ticks and never look at the gesture state. `Passed(at)` is
the time since the last tick plus the forward steps since: to the code a forward step is a silence. After one, two
events 5 ms apart are an idle reset, a gesture start and a confirmed tick, right after the tick before, and two reverse
events are a turn. So `TicksAreSpaced` and `NoBounce` say how much closer a forward step brings ticks and turns: by
itself and no more.

### RuleTable

`slots` and `count` are the table; a stale rule stays in a slot whose hash `clear` zeroed, as in the code. `StartLoad`,
`RuleLine`, `OtherLine` and `EndLoad` are `load_rules`, a line at a time. `wanted` remembers the last line per hash,
`refused` whether a line found the table at its limit since the last load began; until one does, lookups agree with
`wanted` exactly. Nothing is assumed of the hash except that it is never 0, which `app_hash.hpp` ensures.

### HotPath

What a step of the wheel comes to, from everything that decides it. `pc` walks through `main` and `on_reload`:
`load_settings` opens the file or not, reads entries into the scratch copy `tmp`, and commits it at the closing brace or
fails anywhere before; `load_rules` is `RuleTable`'s; `ApplyCli` follows the first of them only. `settings.profile` is
the copy `apply_mode` makes, which has to follow the mode. A file is modelled as it is parsed, so it may hold any
entries in any order, twice or not at all. `on_event` takes the hash the listener published, looks it up and settles
preset, profile and inversion as `effective_*` do. `said` and `saying` are histories: what was last said of a setting by
a file that parsed, the command line, or default. The heuristics are abstracted to a tick along the turned wheel or none
(`ScrollState` has them), the pacer to the combo it is given (`Pacer` has it).

Worth knowing: "overrides config file" in the usage text holds until the next reload whose file sets the key, since
`on_reload` does not apply the command line again. A line with an empty preset is skipped as a whole, although the
comment at `rules_loader.cpp:64` shows `code=,high,`. The pacer keeps the global profile whatever the app's rule says.

### Daemon

`pc` walks through `run_loop`: test of the flags (with `on_reload`), entering `epoll_wait`, waiting in it, working off
the batch, accepting, and the lines of one read. A signal sets its flag at any point and interrupts only `"wait"`. `conn`
holds both ends of each connection with the pieces on the wire; descriptors are numbers the kernel hands out again,
lowest first, because `reload_pending_fd` outlives the dispatch that stored it. `disk` and `live` are versions of the
two files on disk and in use; `torn` says that `config.json` is truncated or missing, which `write_config`
(`std::fs::write`) makes possible and `write_app_rules` (rename) does not. A command is one piece that ends a line,
`Part` a piece that does not; all commands answered at once are `"get"`. A client sends nothing after a command until
it is answered, which is what `ipc_bridge.rs` does and `protocol.hpp` asks for. A signal that comes between the test of
its flag and `epoll_wait` is acted on only when some descriptor becomes ready (`event_loop.cpp:82`), so `QuitEnds`
asks for one. Errors of `accept4`, `read` and
`epoll_ctl` other than "would block" and end of file are left out.

### ScopeListener

`pc` is where the listener thread is: probing (`next`, `attempt`), between two probes, at the top of a backend's loop,
in its `select`, between the two round trips of `x11_publish_active`, or inside `publish_and_log`, which writes the
name (`"name"`) and then the hash (`"hash"`). All four loops have one shape, so they share `Select`, `Selected` and
`Quit`; what differs is what they do with a message. `inbox` is what the kernel's socket holds, which `select` sees,
`queue` what the client library (libxcb, sd-bus, libwayland) or Hyprland's receive buffer holds, which it does not:
a round trip moves everything that came in meanwhile from one to the other. `slots` are the `PlasmaSlot`s; a message
for a window without one is dropped (`Orphan`), as libwayland drops those of destroyed proxies.

`open`, `app` and `active` are the windows, `up` the compositors that can be reached. `say`'s number `n` counts
publications of a different app, so that a name can be told to be older than a hash; `crowded` is a history variable.
An X server that answers the probe may still fail the loop, which has a connection of its own and needs
a window manager that has interned `_NET_ACTIVE_WINDOW`; then the thread ends without another attempt (`X11Fails`).
Changes happen only while a backend is followed, since everything before is covered by the choice of initial states.
Any number of compositors may become reachable before the thread connects; after that only the connected one matters.

### Lifecycle

Each process in `Pids` is a daemon in `main()`: `unlink` and `bind` are the two halves of `init_server`, between which
another daemon may get in; `search` and `sleep` the retry loop around `find_device`; then `grab`, `setup`, `loop`, and
`close`, `remove` (the two halves of `shutdown_server`) and `release` on the way out. `path` is what is at the socket's
path; `shutdown_server` unlinks it whoever bound it, and `RuntimeDirectory=` takes the directory away with the unit's
process. `unit` and `limiter` are systemd's side of `loginext.service`: `Restart=on-failure`, `RestartSec`, the start
limit, `try-restart`. The unit's `file` is current, names a binary that has moved (still there or not: `"moved"`,
`"broken"`), or is of an old template: versions 6 and 7 know no `RuntimeDirectory=` and keep their daemon from writing
where the socket belongs, so that it serves the mouse and cannot be reached (`off`); version 1 never got a daemon to
start, which is `"broken"`. The times of still older templates differ and are not modelled. A daemon goes on without a
socket too when `socket`, `bind`, `listen` or the registration with epoll fails (the happening `"deaf"`). One that was
started with sudo is `foreign`: it takes the user's runtime directory (`resolve_socket_path`), cannot be signalled by
the interface, and where it had to make the directory (0700, its own) the user cannot reach the socket in it (`off`),
although only the socket is chowned to him and `daemon.rs:261-265` counts on that. That the directory then also shuts
out later daemons of the user is not modelled.

`ui` is the interface: healing at start, start and the wait for the socket, the switch, and `kill_daemon` and
`ensure_running` step by step with the processes found before they are signalled. `SendTerm` and `SendKill` reach
`Mine`, the ones of the same user; one success is enough to go on, after that only the socket is looked at. `Told` are
those found or asked that still are, `ours` that the unit's daemon was told to stop. Time passes only while every daemon
sleeps, so all times are scaled: one retry after 1 tick for 9 after 2 s, `RestartSec` 1 for 15 s, 3 starts in 3 for 5 in
120 s, which keeps what matters: searches and pauses of as many starts as the limit allows take longer than its
interval, even when two losses spare a search each. `past` is the history of what kinds of things happened; properties
name the ones they exclude.

What the model shows of the corners that the properties leave out: the restart by `heal_at_startup` together with one
lost mouse can use up the start limit (hence `MouseNeverLimits` without `"healed"`). When `kill_daemon` gets an answer
to `quit` it reports success once the socket is silent, although it is meant to "Stop every running `loginext` daemon"
(`daemon.rs:300`) and another one that it found may still have the mouse; on the way by signals it reports success when
one could be signalled and the socket is silent, while a foreign one goes on serving. A daemon that is told to stop
while it still searches, or while it fails, ends with EXIT_FAILURE and systemd starts another (`"early"`). So
`KilledStaysDown` is about a daemon on its own that had the mouse; for it both ways, and systemd, must hold still.
`enable_now` rewrites an old unit file but does not restart the daemon that runs by it, which stays unreachable
(`"toggle"` in `LoopIsReachable`). `RestartForceExitStatus` matters only for a SIGTERM before `sigaction`.

### Frontend

JavaScript runs handlers one at a time; whatever comes after an `await` is an action of its own (`ConfigWritten`,
`BeatAnswered`, ...), so that any other handler may run in between. `calls` is the line of outstanding `invoke`s: Tauri
runs commands that are not `async` on one thread in the order they were made, and their promises resolve in that order.
`Execute` is that thread. `applySettings` and `saveAppRules` are two calls each, a write and a reload, and the calls of
an apply and of several saves mix. All settings are one value and all overrides of a rule are one value: nothing in the
code treats mode, invert and preset differently on their way. `current`, `applied`, `queued`, `online` are `current*`,
`lastApplied*`, `pendingGlobalApply`, `lastDaemonOnline`; `shown` is what the panel shows in the global context, which
`current` may leave behind. `disk`, `live`, `up` and `unit` are the world: files, daemon, socket, systemd unit. Nobody
but the UI writes the files here (`Daemon` has other writers), and a reload is one step (`Daemon` takes it apart). Any
one call may fail. A query of the unit fails in two ways: one of the two `systemctl` calls gives no answer, and the unit
passes for off, or neither does, and it passes for not installed (`Failed`). The second ends the polling for good, locks
the button (`locked`) and puts up an overlay (`wizard`), which says "The UI will retry automatically" (`main.ts:75`)
when it does not, while `lib.rs:562-566` says of `service_state` "on every heartbeat tick". `UnitIsSeen` therefore
promises that the interface follows the unit or says that it has stopped. `early` remembers that the rules shown do not
build on those of the file.

## The runs

| Run | Question | Bounds |
| --- | --- | --- |
| `MCPacer` | invariant, pacing, `PacedKeys`, the line moves and keys come up | ring of 4, 2 combos, 2 profiles |
| `MCScrollState` | invariant, ghost filter, spacing, debounce, responsiveness, and what of them survives a wall clock set back and forward | the low and the high profile of `profile.hpp` in units of 5 ms, swapped by focus changes; gaps within and beyond either confirmation window and idle time; back by 200 ms, once; forward by 255 ms, once |
| `MCScrollGhost` | *violation*: the ghost filter does not survive it | high profile; back by 40 or 200 ms in all |
| `MCHotPath` | invariant, the wheel obeys rules and settings, rules stay | table of 4 with limit 2, 3 apps with colliding hashes, 2 modes, 2 presets, wheel by 1 either way |
| `MCDaemon` | invariant, slots, ack, versions, replies | 2 connections on 2 slots, buffer of 1 piece, batches of 2 of up to 3 ready descriptors, 2 versions of `config.json`, which is torn before the first and between the two |
| `MCDaemonLive` | replies come, slots come free, quit and a lost mouse end the daemon | 1 connection, all signals, all mouse events, 2 versions of `app_rules.txt` |
| `MCOneResponse` | *violation*: two reloads in a batch | 2 connections |
| `MCScope` | hash follows the focus, name is not older than hash, slots, focus changes arrive, `stop` joins | 3 windows on 2 slots, 2 apps, 2 probe attempts, 2 changes, every backend |
| `MCScopeEnded` | *violation*: the hash outlives the detector | same |
| `MCFrontend` | invariant, what is reported as applied or saved is in force, saves reach the file, nothing gets stuck | 3 settings, 1 app with 1 override, 2 user actions, 1 fault |
| `MCLifecycle` | invariant, one daemon, its socket, the start limit, the old kill command, the mouse is served | 2 processes, 2 happenings of 9 kinds, 4 kinds of unit files, times as above |
| `MCQueue` | *violation*: the offline queue is emptied without being applied | same |

Why these bounds are enough to be interesting: a ring of four is full with two steps of the line to spare and wraps in
the middle of it; two connections on two slots make every slot and descriptor be reused while the other is in use, and a
batch of two leaves ready descriptors behind; three settings allow an edit during an apply that differs from both ends
of it; a table of four with two rules has chains that collide and wrap around, and a third app is refused; of two
happenings the second can strike at any step of the recovery from the first, and before them the interface may be open,
a socket be left from before, or the unit file not be current. The scroll run lasts 310 ms, enough for a gesture to idle
out under either profile and the next one to be confirmed; its forward step is longer than every profile's idle time and
makes a gesture idle out at once, after the clock was set back too. A daemon turns a client away when its slots are
full; with two connections on two slots that does not happen in a run, and the proofs, which are for any number of
either, cover it. `CHECK_DEADLOCK FALSE` is set where the program may stop for good (the daemon ends, the front end's
heartbeat gives up) or a bound of the model is reached (`MaxTime`).

`Slips` in a module are wrong forms of its definitions, one for each property, that a programmer could plausibly
write; with any of them in place TLC finds the property violated.

### Fairness

`Pacer`: time passes (`Tick`), the level-triggered registration of the timerfd reports an unread expiry (`ReportTimer`),
and the loop calls `on_timer` for what it was told (`process_timer`); each weakly fair. The user is not assumed to do
anything. `Daemon`: the thread runs (weak fairness of `Loop`), and signals do not cut short every single `epoll_wait`
(strong fairness of `EpollWait`). Clients, files and the mouse are free. `ScopeListener`: the thread runs and a
compositor answers its round trips (weak fairness of `Thread`), KWin's timer fires (`Heartbeat`), and a stop that has
begun is carried through (`Wake`, `Join`). Windows, and whether a compositor is there, are free. `Frontend`: due timers
and answers run (`Continue`, `Beat`, `SaveNow`, `AskRules`), and so do commands (`Execute`, whose calls all have time
limits or are short); neither the user nor the daemon is assumed to do anything. `Lifecycle`: processes run (`Daemon`),
systemd starts what is due (`SystemdStarts`), time passes (`Tick`); mouse, interface and user are free. Hyprland is left
out of `FocusArrives`: it tells of focus changes only, so the daemon knows nothing of the window that had the focus when
it connected.

### Findings

* `MCScrollGhost`: events are stamped with `CLOCK_REALTIME`, the header asks for `CLOCK_MONOTONIC`. After the clock is
  set back an isolated twitch can confirm one from long before. Spacing and debounce survive that (`MCScrollState`), and
  the wheel stays dead for no longer than the clock was set back. They do not survive a clock set forward: it brings the
  next tick, or the next turn, closer by as much, against `scroll_state.cpp:100` ("same-gesture emissions must be spaced
  by emit_cooldown_ns"); the properties of the run say so.
* `MCOneResponse`: of two reloads read in one batch only the second is acknowledged; `protocol.hpp` promises one
  response to each. The first client runs into its 500 ms timeout although its reload took place.
* `MCScopeEnded`: `listener.hpp` says that a hash of 0 stands for "detector unavailable", but when the compositor goes
  away the thread ends with the last hash in place. With `hypr_loop` and the others alike the last app's rule stays in
  force until the daemon restarts.
* `MCQueue`: the flush of the offline queue does not look at the context although a comment says that every call site
  does; with an app's chip selected when the daemon comes on, the queue is cleared and the edit is never applied.

## What is proved

For every value of the constants that satisfies the named assumptions (`PacerAssumption`, `ScrollAssumption`,
`RuleAssumption`, `HotAssumption`, `ListenerAssumption`, `DaemonAssumption`, `LifecycleAssumption`,
`FrontendAssumption`):

* `PacerProofs`: `IInv` is invariant. Its parts need one another: `TimerCoversWork` makes sure that a push into an idle
  pacer finds the timer off, `RingShape` and `WaitingAreCombos` that the slot read at `head` was written,
  `KeysAsRecorded` that lifting the held combo lifts everything, and `PressIsFarEnough`, the strengthening behind
  `PressesArePaced`, that the time rested plus the time left on the timer is at least a pacing interval whenever the
  next expiry would press. From `IInv` follow the action property `PressesArePaced` and the refinement `KeepsPromise`:
  each step of `Pacer` is a step of `PacedKeys` or leaves `Waiting` and `kbd` alone, the modular arithmetic of the ring
  being isolated in a few lemmas about `Wrap`.
* `ScrollProofs`: `IInv` is invariant. It relates the timestamps of the program, which may run behind, to the real times
  `seen` holds: each lies between the real time plus what the clock was `ahead` then, minus `behind`, and the same
  without `behind`; a pending gesture began after an idle time, a forward step that passes for one, or a reload; and the
  reverse row of the observer is at least the program's jitter count. `ScrollAssumption` asks only that the times and
  thresholds of each profile are ordered as in `profile.hpp`. From it follow `NoGhostTicksYet`, `TicksAreSpaced` and
  `NoBounce`, the last with profiles changing between any two events, and `Responsive`. For the latter `SteadyIsCounted`
  says where each event of a steady run went: it passed for jitter, of which there is a bounded number, or it turned the
  gesture, and from there on it moved the accumulator by at least one. A few lemmas about powers of two bound the leak,
  which an event inside a confirmation window is too early for: hence `confirmation_window < leak_interval`.
* `RuleProofs`: `IInv` is invariant. `ChainsUnbroken` is the strengthening: nothing a probe could stop at precedes the
  slot that holds a hash. Lemma `InsertKeeps` shows that writing into the first stop of a probe preserves it and changes
  no other lookup; `RoomLeavesFreeSlot` that below the limit some slot is free, hence every probe stops;
  `RefusedAtLimit` that a line is refused only at the limit. From it follow `CountIsOccupied`, `LastLineWins` and the
  action property `RulesStay`.
* `HotProofs`: every step of `HotPath` is a step of `RuleTable` or leaves it alone, so `IInv` carries over. `HotIInv`
  adds `SettingsAreSaid` (needs `ScratchIsSaying`, the same of the scratch copy while a file is parsed) and
  `LoadsAreWhole`. With `LastLineWins` they give `WheelObeys`: nothing a torn file, a reload or an override did before
  shows.
* `ScopeProofs`: `PublishInv` (the name is never behind the hash nor behind a hash `get_active_app` has loaded) gives
  `NameNotOlder`. `FocusInv` gives `HashFollowsFocus`, the part of `HashIsFocus` about X11, Hyprland and KWin: what the
  hash becomes once everything sent so far is worked off (`Coming`) is the focused window's app, and X11 either has a
  notification to read or asked about the window that still has the focus. Without it a round trip could take the last
  notification off the socket and nothing would say that the hash is still to come. Plasma keeps state of its own on the
  way, so there the argument is about histories (`PlasmaInv`): the slots show some snapshot of the windows, and what is
  under way, library queue first and then socket, unfolds from it, message by message, to the windows as they are. A
  change of the windows appends the messages that lead one snapshot on, the loop takes one off the front and makes the
  slots show the next. When nothing is under way the two ends meet, which is `SlotsAreWindows` and Plasma's part of
  `HashIsFocus`. The list sent on connecting has to unfold from no windows at all, which it does because it names every
  window before it says anything of them (`Windowlist`); the set of windows has to be finite for there to be such a
  list.
* `DaemonProofs`: `IInv` is invariant. `LoopIsSound` says that only open connections hold descriptors, each its own, and
  that what the loop has in hand or in its batch is open; with it a descriptor that is handed out again (the lowest free
  one, which exists by the pigeonhole principle) cannot be that of a pending ack, because `AckIsDue` keeps the requester
  out of every batch until it is answered. `QueueIsSound` is about the backlog. `Speech` says that a client's last piece
  is the only one that can end a command, hence one line per read at most ends in a reply, and `QuestionsFirst` that
  what a client wrote before it asked is not newer than what is on disk when its question is read. From it follow
  `SlotsAreConnections`, `AckGoesToRequester`, `DoneMeansLive` and `RepliesMatch`, for any number of connections and
  slots.
* `LifecycleProofs`: `IInv` is invariant, for any number of processes, happenings and any times. `UnitIsKnown` and
  `CrowdsAreMade` say who can have started a daemon; `SocketIsOwned` that whoever is at the path has it open, so that a
  process that is gone leaves `Stale` and not its name there; `SocketIsReachable` follows a daemon on its own from
  `bind` to `close`, and says of one that cannot be reached which of its three reasons it has; `LeftoversGo` says that a
  dead socket is there only between the two halves of somebody's `shutdown_server`. `MouseIsHeld` (who serves has the
  mouse and has not failed) and `ToldAreStopping` are the argument for `kill_daemon`: from the moment a daemon that
  serves has been told, by quit or by signal, until it is gone it ends with success, so that systemd has no reason to
  start the unit again. The proof has one lemma for each of four kinds of steps (one daemon goes on, none does, one
  starts, some are gone) and one for each action, first for the parts about units and sockets (`Base`), then for those
  two. From it follow `OneDaemon`, `LoopIsReachable`, `NothingLeftBehind` and `KilledStaysDown`. `MouseNeverLimits`
  needs an account of time as well: `MouseIsAwaited` says that, as long as only the mouse fails, the starts the limit
  counts have together taken a pause and a search each, less a search for every time a mouse was found and lost. It is
  invariant under `Patient`, an inequality between the times of the unit and the number of losses. In `loginext.service`
  5 pauses of 15 s and 5 searches of 18 s exceed the 120 s of the limit by 45 s, so two losses within it are allowed for
  and a third is not; its comment asks for a single slow boot.
* `FrontendProofs`: `IInv` is invariant. `CallsInTurn` says that the finished calls come first and that an apply, a
  click and the first listing wait for one call at a time, which is what the flags `applying` and `busy` are for.
  `ApplyStands`: from `write_config` on, nothing can touch `config.json` before the apply is over, so what was written
  is still there when the reload is answered. `SaveStands`: the rules shown are on disk, or the last save that is still
  to be run carries them, or the timer is set; saves overlap, and only the last one counts. `ReloadStands`: while the
  daemon runs with other rules than those on disk, and a save has been reported, some call that will tell it is under
  way, behind every reload that worked. One lemma for each action, over a lemma for the steps of the interface (a call
  taken off the front, one put at the end) and one for those of the back end (an answer filled in). From it follow
  `AppliedIsInForce` and `SavedIsInForce`.

Every invariant and action property that a passing run checks is a theorem, and so is the refinement.
Only model-checked is liveness (`LineMoves`, `OneResponse`, `SlotsComeFree`, `QuitEnds`, `FocusArrives`, `StopJoins`,
`RulesReachDisk`, `ApplyEnds`, `UnitIsSeen`, `MouseIsServed`, `LoserGivesUp`), which is out of the prover's reach.

## Plan

In this order, the most important behaviour first:

1. done: `Pacer` over `PacedKeys`, `ScrollState`, `RuleTable`, `Daemon`; with proofs about all of them.
2. done: `ScopeListener`, with proofs.
3. done: `HotPath` over `RuleTable`, and `Lifecycle`, with proofs.
4. done: `Frontend`, with proofs. Open: what the chips and the preset list draw, and how a unit is installed.
5. done: proofs about Plasma's slots, of `Responsive` and of `MouseNeverLimits`.
6. open: the liveness arguments cut into steps that are invariants or action properties, and those proved.

## Not modelled, and why

Presets are a constant table. Which capabilities make a device the mouse, the set-up of the virtual device in
`emitter.cpp`, the options of `args.cpp` other than `--mode` and `--invert`, the log and the bug report are input and
output with no state the rest depends on. Text formats (JSON, `app_rules.txt`, the replies) are reduced to what they
say. `on_client_readable` of the server is not used by the daemon (`on_client_readable_fd` is). `--debug-perf`
counters are left out.
