----------------------------- MODULE Lifecycle ------------------------------
(***************************************************************************)
(* How daemons come and go: main() of src/src/main.cpp from init_server to *)
(* the end of its teardown, in as many processes as there are; the mouse,  *)
(* which one of them may grab; the socket's path, which belongs to whoever *)
(* wrote it last; the systemd unit that restarts a daemon that failed, and *)
(* gives up after too many starts; and the user interface, which looks at  *)
(* the unit when it starts, switches it on and off, and has two commands   *)
(* of older days that start and kill daemons themselves.                   *)
(*                                                                         *)
(* Time passes in Ticks.  Only what sleeps takes time: a system call does  *)
(* not, so time stands still while a daemon has something else to do.      *)
(***************************************************************************)
EXTENDS Integers, FiniteSets

CONSTANTS
  Pids,           \* the processes that may be daemons
  UnitPid,        \* the one systemd starts, again and again
  NoPid,
  Retries,        \* kFindRetries
  Interval,       \* kFindIntervalSec
  RestartSec, LimitInterval, LimitBurst,    \* the unit's
  Happenings,     \* what may happen, see Events
  MaxHappenings   \* how often

NoDir  == "nodir"     \* not even the directory the socket belongs in
Absent == "absent"    \* nothing at the socket's path
Stale  == "stale"     \* a socket nobody listens on any more

(* The mouse is lost; a daemon is killed by SIGKILL, or is sent SIGTERM     *)
(* from outside, finds no uinput, or gets no socket; somebody starts one by *)
(* hand; the interface is started, its switch is used, or one of its older  *)
(* commands.                                                                *)
Events == {"lost", "crash", "term", "uinput", "deaf", "hand", "launch", "toggle", "legacy"}

ASSUME LifecycleAssumption ==
  /\ UnitPid \in Pids /\ NoPid \notin Pids /\ {NoDir, Absent, Stale} \cap Pids = {}
  /\ {Retries, Interval, RestartSec, LimitInterval, LimitBurst, MaxHappenings} \subseteq Nat
  /\ Happenings \subseteq Events

VARIABLES
  proc,      \* the daemons, see Gone
  path,      \* the socket's path: NoDir, Absent, Stale, or who listens there
  grab,      \* who has the mouse, of those whose descriptor of it still works
  mouse,     \* it is there
  unit,      \* loginext.service
  limiter,   \* the unit's starts: how many since the first that counts, and its age
  ui,        \* where the interface is, and what it remembers
  happened,  \* how much happened
  past       \* history: what kinds of things happened

vars == <<proc, path, grab, mouse, unit, limiter, ui, happened, past>>

(* pc: where main() is.  tries and wait: how often it looked for the mouse  *)
(* in vain, and what is left of the sleep after that.  stop: g_stop.        *)
(* asked: a quit command waits in its socket.  bound: ipc_bound.  failed:   *)
(* it is going to exit with EXIT_FAILURE.  off: it has no access to the     *)
(* socket's path, or does not touch it any more.  foreign: it runs under    *)
(* another uid than the interface.                                          *)
Gone ==
  [pc |-> "gone", tries |-> 0, wait |-> 0, stop |-> FALSE, asked |-> FALSE, bound |-> FALSE,
   failed |-> FALSE, off |-> FALSE, foreign |-> FALSE]
Fresh == [Gone EXCEPT !.pc = "unlink"]

At(p, where) == proc[p].pc = where
Alive  == {p \in Pids : ~At(p, "gone")}
Unused == Pids \ ({UnitPid} \cup Alive)
NewPid == CHOOSE p \in Unused : TRUE

(* A connect() to the path succeeds: somebody listens, served or not.       *)
socket_alive == path \in Pids

Happens(what) ==
  /\ what \in Happenings /\ happened < MaxHappenings
  /\ happened' = happened + 1
  /\ past' = past \cup {what}

Calm == UNCHANGED <<happened, past>>

(* One more daemon beside others is a crowd.                                *)
Joined(kinds) == IF Alive = {} THEN kinds ELSE kinds \cup {"crowd"}

-----------------------------------------------------------------------------
(* What systemd does: systemd.service(5), systemd.exec(5).                  *)

(* At most LimitBurst starts in the LimitInterval that begins with the      *)
(* first of them.                                                           *)
NoStarts == [num |-> 0, age |-> 0]
MayStart == limiter.num < LimitBurst
Counted  == [limiter EXCEPT !.num = @ + 1]
Older    ==
  IF limiter.num = 0 \/ limiter.age = LimitInterval THEN NoStarts ELSE [limiter EXCEPT !.age = @ + 1]

(* The unit's process ended: Restart=on-failure, unless it was asked to.    *)
Ended(failed) ==
  CASE unit.state = "stopping" -> [unit EXCEPT !.state = "inactive"]
    [] unit.state = "cycling"  -> [unit EXCEPT !.state = "starting"]
    [] OTHER -> IF failed
                THEN [unit EXCEPT !.state = "waiting", !.timer = RestartSec]
                ELSE [unit EXCEPT !.state = "inactive"]

(* systemctl start, stop and try-restart, on a unit u; the last two send    *)
(* SIGTERM to its process.                                                  *)
Started(u) ==
  CASE u.state \in {"inactive", "limited", "waiting"} ->
         [u EXCEPT !.state = "starting", !.timer = 0]
    [] u.state = "stopping" -> [u EXCEPT !.state = "cycling"]
    [] OTHER -> u
Stopped(u) ==
  CASE u.state \in {"waiting", "starting"} -> [u EXCEPT !.state = "inactive", !.timer = 0]
    [] u.state \in {"active", "cycling"} -> [u EXCEPT !.state = "stopping"]
    [] OTHER -> u
TryRestarted(u) ==
  CASE u.state = "active"  -> [u EXCEPT !.state = "cycling"]
    [] u.state = "waiting" -> [u EXCEPT !.state = "starting", !.timer = 0]
    [] OTHER -> u

(* SIGTERM: signal_stop sets the flag, and cuts a sleep short.              *)
Termed(who) ==
  [p \in Pids |-> IF p \in who THEN [proc[p] EXCEPT !.stop = TRUE, !.wait = 0] ELSE proc[p]]

(* A start that is due.  RuntimeDirectory= makes the socket's directory,    *)
(* and removes it when the start fails, as it does when the unit file names *)
(* no existing binary.  A template before v8 knows no RuntimeDirectory= and *)
(* keeps its daemon from writing there (v1 kept it from starting at all).   *)
SystemdStarts ==
  /\ \/ unit.state = "starting"
     \/ unit.state = "waiting" /\ unit.timer = 0
  /\ \/ /\ ~MayStart
        /\ unit' = [unit EXCEPT !.state = "limited"]
        /\ UNCHANGED <<proc, path, limiter>> /\ Calm
     \/ /\ MayStart /\ unit.file = "broken"
        /\ limiter' = Counted
        /\ unit' = Ended(TRUE) /\ path' \in {NoDir, path}
        /\ UNCHANGED proc /\ Calm
     \/ /\ MayStart /\ unit.file # "broken"
        /\ limiter' = Counted
        /\ unit' = [unit EXCEPT !.state = "active"]
        /\ proc' = [proc EXCEPT ![UnitPid] = [Fresh EXCEPT !.off = (unit.file = "old")]]
        /\ path' = IF path = NoDir /\ unit.file # "old" THEN Absent ELSE path
        /\ past' = Joined(past)
        /\ UNCHANGED happened
  /\ UNCHANGED <<grab, mouse, ui>>

(* One of the event nodes is the mouse's; it can be grabbed.                *)
find_device == mouse
grab_device == mouse /\ grab = NoPid

(* Who has the mouse once the processes who let go of it, or are no more.   *)
release_device(who) == IF grab \in who THEN NoPid ELSE grab

(* The processes who are no more: the kernel takes the mouse from them, and *)
(* RuntimeDirectory= removes the socket's directory with the unit's         *)
(* process, whoever listens in it.                                          *)
Buried(who, failed) ==
  /\ proc' = [p \in Pids |-> IF p \in who THEN Gone ELSE proc[p]]
  /\ grab' = release_device(who)
  /\ unit' = IF UnitPid \in who THEN Ended(failed) ELSE unit
  /\ path' = IF UnitPid \in who /\ unit.file # "old" THEN NoDir
             ELSE IF path \in who THEN Stale ELSE path

-----------------------------------------------------------------------------
(* main(), from init_server on.                                             *)

Goto(p, where) == proc' = [proc EXCEPT ![p].pc = where]

(* init_server: it makes the directory and removes whatever is at the path; *)
(* then it binds its own socket there, unless somebody else's got in        *)
(* between, the directory has gone or is read-only, or socket() or listen() *)
(* fails, which takes away again what bind() made.                          *)
(* Slip: a socket that is there is left there.                              *)
Unlink_kept(p) ==
  /\ At(p, "unlink")
  /\ path' = IF path = NoDir /\ ~proc[p].off THEN Absent ELSE path
  /\ Goto(p, "bind")
  /\ UNCHANGED <<grab, mouse, unit, limiter, ui>> /\ Calm

Unlink(p) ==
  /\ At(p, "unlink")
  /\ path' = IF proc[p].off THEN path ELSE Absent
  /\ Goto(p, "bind")
  /\ UNCHANGED <<grab, mouse, unit, limiter, ui>> /\ Calm

Bind(p) ==
  /\ At(p, "bind")
  /\ \/ /\ path = Absent /\ ~proc[p].off
        /\ path' = p
        /\ proc' = [proc EXCEPT ![p].pc = "search", ![p].bound = TRUE]
        /\ Calm
     \/ /\ \/ (path # Absent \/ proc[p].off) /\ Calm
           \/ path = Absent /\ ~proc[p].off /\ Happens("deaf")
        /\ Goto(p, "search")
        /\ UNCHANGED path
  /\ UNCHANGED <<grab, mouse, unit, limiter, ui>>

(* The exits with EXIT_FAILURE: shutdown_server if the socket is bound,     *)
(* then release_device.                                                     *)
(* Slip: the socket stays as it is.                                         *)
GiveUp_open(p) == proc' = [proc EXCEPT ![p].failed = TRUE, ![p].pc = "release"]

GiveUp(p) ==
  proc' = [proc EXCEPT ![p].failed = TRUE, ![p].pc = IF proc[p].bound THEN "close" ELSE "release"]

(* find_device, and what follows when it finds nothing.                     *)
(* Slips: it gives up at once; it tries once too often.                     *)
Search_once(p) ==
  /\ At(p, "search")
  /\ IF mouse THEN Goto(p, "grab") ELSE GiveUp(p)
  /\ UNCHANGED <<path, grab, mouse, unit, limiter, ui>> /\ Calm
Search_more(p) ==
  /\ At(p, "search")
  /\ \/ mouse /\ Goto(p, "grab")
     \/ ~mouse /\ (proc[p].stop \/ proc[p].tries > Retries) /\ GiveUp(p)
     \/ /\ ~mouse /\ ~proc[p].stop /\ proc[p].tries <= Retries
        /\ proc' = [proc EXCEPT ![p].pc = "sleep", ![p].tries = @ + 1, ![p].wait = Interval]
  /\ UNCHANGED <<path, grab, mouse, unit, limiter, ui>> /\ Calm

Search(p) ==
  /\ At(p, "search")
  /\ \/ find_device /\ proc' = [proc EXCEPT ![p].pc = "grab", ![p].tries = 0]
     \/ ~find_device /\ (proc[p].stop \/ proc[p].tries = Retries) /\ GiveUp(p)
     \/ /\ ~find_device /\ ~proc[p].stop /\ proc[p].tries < Retries
        /\ proc' = [proc EXCEPT ![p].pc = "sleep", ![p].tries = @ + 1, ![p].wait = Interval]
  /\ UNCHANGED <<path, grab, mouse, unit, limiter, ui>> /\ Calm

Wake(p) ==
  /\ At(p, "sleep") /\ proc[p].wait = 0
  /\ Goto(p, "search")
  /\ UNCHANGED <<path, grab, mouse, unit, limiter, ui>> /\ Calm

(* grab_device: EBUSY when another daemon has the mouse, ENODEV when it has *)
(* gone since it was found.                                                 *)
(* Slip: it waits until the mouse is free.                                  *)
Grab_waits(p) ==
  /\ At(p, "grab")
  /\ IF grab_device
     THEN grab' = p /\ Goto(p, "setup")
     ELSE /\ proc' = [proc EXCEPT ![p].pc = "sleep", ![p].wait = Interval]
          /\ UNCHANGED grab
  /\ UNCHANGED <<path, mouse, unit, limiter, ui>> /\ Calm

Grab(p) ==
  /\ At(p, "grab")
  /\ IF grab_device
     THEN grab' = p /\ Goto(p, "setup")
     ELSE GiveUp(p) /\ UNCHANGED grab
  /\ UNCHANGED <<path, mouse, unit, limiter, ui>> /\ Calm

(* init_emitter, init_pacer, init_loop, register_timer; then the listening  *)
(* socket is added to the loop's, and scope::start.  An error of one of the *)
(* first four ends the daemon; without the socket, which shutdown_server    *)
(* removes then, it goes on.                                                *)
Setup(p) ==
  /\ At(p, "setup")
  /\ \/ Goto(p, "loop") /\ UNCHANGED path /\ Calm
     \/ GiveUp(p) /\ UNCHANGED path /\ Happens("uinput")
     \/ /\ proc[p].bound /\ Happens("deaf")
        /\ proc' = [proc EXCEPT ![p].pc = "loop", ![p].bound = FALSE, ![p].asked = FALSE,
                               ![p].off = TRUE]
        /\ path' = IF path = NoDir THEN NoDir ELSE Absent
  /\ UNCHANGED <<grab, mouse, unit, limiter, ui>>

(* The loop gets to a quit command, however old (handle_quit).              *)
ReadQuit(p) ==
  /\ At(p, "loop") /\ proc[p].asked
  /\ proc' = [proc EXCEPT ![p].stop = TRUE, ![p].asked = FALSE]
  /\ ui' = IF ui.pc = "asked" /\ ui.whom = p
           THEN [ui EXCEPT !.pc = "quitpoll", !.ours = (p = UnitPid)] ELSE ui
  /\ UNCHANGED <<path, grab, mouse, unit, limiter>> /\ Calm

(* run_loop ends when it sees g_stop, or fails when it reads from a mouse   *)
(* that has gone; shutdown_server follows either way.                       *)
(* Slips: a lost mouse ends the daemon as a signal does; a signal ends it   *)
(* with EXIT_FAILURE.                                                       *)
Leave_clean(p) ==
  /\ At(p, "loop")
  /\ proc[p].stop \/ grab # p
  /\ Goto(p, "close")
  /\ UNCHANGED <<path, grab, mouse, unit, limiter, ui>> /\ Calm

Leave_failing(p) ==
  /\ At(p, "loop")
  /\ proc[p].stop \/ grab # p
  /\ proc' = [proc EXCEPT ![p].pc = "close", ![p].failed = TRUE]
  /\ UNCHANGED <<path, grab, mouse, unit, limiter, ui>> /\ Calm

Leave(p) ==
  /\ At(p, "loop")
  /\ \/ proc[p].stop /\ Goto(p, "close")
     \/ grab # p /\ proc' = [proc EXCEPT ![p].pc = "close", ![p].failed = TRUE]
  /\ UNCHANGED <<path, grab, mouse, unit, limiter, ui>> /\ Calm

(* shutdown_server closes the socket, then removes what is at the path.     *)
Close(p) ==
  /\ At(p, "close")
  /\ path' = IF path = p THEN Stale ELSE path
  /\ Goto(p, "remove")
  /\ UNCHANGED <<grab, mouse, unit, limiter, ui>> /\ Calm

Remove(p) ==
  /\ At(p, "remove")
  /\ path' = IF path = NoDir \/ proc[p].off THEN path ELSE Absent
  /\ Goto(p, "release")
  /\ UNCHANGED <<grab, mouse, unit, limiter, ui>> /\ Calm

(* What kill_daemon still sees of those it found, or asked.                 *)
Without(who) ==
  [ui EXCEPT !.found = @ \ who, !.whom = IF @ \in who THEN NoPid ELSE @]

(* release_device, the end of main(), and what the kernel and systemd do    *)
(* when the process has ended.                                              *)
Exit(p) ==
  /\ At(p, "release")
  /\ Buried({p}, proc[p].failed)
  /\ ui' = Without({p})
  /\ UNCHANGED <<mouse, limiter>> /\ Calm

Daemon(p) ==
  \/ Unlink(p) \/ Bind(p) \/ Search(p) \/ Wake(p) \/ Grab(p) \/ Setup(p)
  \/ ReadQuit(p) \/ Leave(p) \/ Close(p) \/ Remove(p) \/ Exit(p)

-----------------------------------------------------------------------------
(* What happens to them.                                                    *)

(* A daemon waits; all of them do.                                          *)
Idle(p) ==
  \/ At(p, "gone")
  \/ At(p, "sleep") /\ proc[p].wait > 0
  \/ At(p, "loop") /\ ~proc[p].stop /\ ~proc[p].asked /\ grab = p
Quiet == \A p \in Pids : Idle(p)

(* Unplugged, asleep, out of range: whoever had the mouse has a dead        *)
(* descriptor from now on, also when it comes back, which takes a while.    *)
LoseMouse ==
  /\ mouse /\ Happens("lost")
  /\ mouse' = FALSE /\ grab' = NoPid
  /\ UNCHANGED <<proc, path, unit, limiter, ui>>

MouseBack ==
  /\ ~mouse /\ Quiet
  /\ mouse' = TRUE
  /\ UNCHANGED <<proc, path, grab, unit, limiter, ui>> /\ Calm

Crash(p) ==
  /\ p \in Alive /\ Happens("crash")
  /\ Buried({p}, TRUE)
  /\ ui' = Without({p})
  /\ UNCHANGED <<mouse, limiter>>

Term(p) ==
  /\ p \in Alive /\ Happens("term")
  /\ proc' = Termed({p})
  /\ UNCHANGED <<path, grab, mouse, unit, limiter, ui>>

(* A daemon started by hand, as the user or with sudo.  Where the user has  *)
(* his directory, that one binds its socket there too; one that root has to *)
(* make is closed to him.                                                   *)
ByHand == {Fresh, [Fresh EXCEPT !.foreign = TRUE, !.off = (path = NoDir)]}

StartByHand ==
  /\ Unused # {}
  /\ "hand" \in Happenings /\ happened < MaxHappenings
  /\ happened' = happened + 1
  /\ past' = Joined(past \cup {"hand"})
  /\ \E d \in ByHand : proc' = [proc EXCEPT ![NewPid] = d]
  /\ UNCHANGED <<path, grab, mouse, unit, limiter, ui>>

Tick ==
  /\ Quiet
  /\ unit.state # "starting" /\ (unit.state = "waiting" => unit.timer > 0)
  /\ proc' = [p \in Pids |-> IF At(p, "sleep") THEN [proc[p] EXCEPT !.wait = @ - 1] ELSE proc[p]]
  /\ unit' = IF unit.state = "waiting" THEN [unit EXCEPT !.timer = @ - 1] ELSE unit
  /\ limiter' = Older
  /\ UNCHANGED <<path, grab, mouse, ui>> /\ Calm

-----------------------------------------------------------------------------
(* The interface.  pc: closed, starting (heal, start, wait), open, or in    *)
(* kill_daemon (found, asked, quitpoll, term, termpoll, kill, killpoll).    *)
(* svc: what it knows of the unit since it asked.  found: the daemons       *)
(* kill_daemon found that still are.  whom: the daemon it asked to quit, if *)
(* it still is.  ours: the unit's daemon has been told to stop.             *)
Closed == [pc |-> "closed", svc |-> "off", found |-> {}, whom |-> NoPid, ours |-> FALSE]

(* run(): query_state, on which everything that follows depends.            *)
query_state ==
  CASE unit.state \in {"starting", "active", "waiting"} -> "active"
    [] unit.state \notin {"starting", "active", "waiting"} /\ unit.enabled -> "enabled"
    [] OTHER -> "off"

Launch ==
  /\ ui.pc \in {"closed", "open", "killed"} /\ Happens("launch")
  /\ ui' = [Closed EXCEPT !.pc = IF query_state = "off" THEN "open" ELSE "heal",
                          !.svc = query_state]
  /\ UNCHANGED <<proc, path, grab, mouse, unit, limiter>>

(* heal_unit_if_stale: a unit file is rewritten that is of an old template, *)
(* or names another binary, whether it is there (moved) or not (broken).    *)
Healed(u) == [u EXCEPT !.file = "current"]

(* heal_at_startup restarts the unit then, if it runs or is about to.       *)
heal_at_startup ==
  /\ ui.pc = "heal"
  /\ IF unit.file = "current" THEN UNCHANGED <<unit, proc, past>>
     ELSE /\ unit' = TryRestarted(Healed(unit))
          /\ proc' = IF unit.state = "active" THEN Termed({UnitPid}) ELSE proc
          /\ past' = past \cup {"healed"}
  /\ ui' = IF ui.svc = "active" THEN [Closed EXCEPT !.pc = "wait"] ELSE [Closed EXCEPT !.pc = "start"]
  /\ UNCHANGED <<path, grab, mouse, limiter, happened>>

start_only ==
  /\ ui.pc = "start"
  /\ unit' = Started(Healed(unit))
  /\ ui' = [ui EXCEPT !.pc = "wait"]
  /\ UNCHANGED <<proc, path, grab, mouse, limiter>> /\ Calm

(* It waits until the socket can be connected to, or for five seconds.      *)
(* Slip: it starts a daemon of its own (daemon::ensure_running).            *)
wait_for_running_spawns ==
  /\ ui.pc = "wait"
  /\ ui' = [Closed EXCEPT !.pc = "open"]
  /\ IF socket_alive \/ Unused = {}
     THEN UNCHANGED <<proc, past>>
     ELSE proc' = [proc EXCEPT ![NewPid] = Fresh] /\ past' = Joined(past)
  /\ UNCHANGED <<path, grab, mouse, unit, limiter, happened>>

wait_for_running ==
  /\ ui.pc = "wait"
  /\ ui' = [Closed EXCEPT !.pc = "open"]
  /\ UNCHANGED <<proc, path, grab, mouse, unit, limiter>> /\ Calm

(* The switch.                                                              *)
enable_now ==
  /\ ui.pc \in {"open", "killed"} /\ Happens("toggle")
  /\ unit' = Started([Healed(unit) EXCEPT !.enabled = TRUE])
  /\ UNCHANGED <<proc, path, grab, mouse, limiter, ui>>

disable_now ==
  /\ ui.pc \in {"open", "killed"} /\ Happens("toggle")
  /\ unit' = Stopped([unit EXCEPT !.enabled = FALSE])
  /\ proc' = IF unit.state = "active" THEN Termed({UnitPid}) ELSE proc
  /\ UNCHANGED <<path, grab, mouse, limiter, ui>>

(* daemon_respawn, that is ensure_running: a daemon of its own, unless      *)
(* somebody listens already.                                                *)
ensure_running ==
  /\ ui.pc \in {"open", "killed"} /\ "legacy" \in Happenings /\ happened < MaxHappenings
  /\ ~socket_alive /\ Unused # {}
  /\ happened' = happened + 1
  /\ past' = Joined(past \cup {"legacy"})
  /\ proc' = [proc EXCEPT ![NewPid] = Fresh]
  /\ UNCHANGED <<path, grab, mouse, unit, limiter, ui>>

(* kill_daemon looks for processes first, then for the socket.              *)
find_daemon_pids ==
  /\ ui.pc \in {"open", "killed"} /\ Happens("legacy")
  /\ ui' = [Closed EXCEPT !.pc = "found", !.found = Alive]
  /\ UNCHANGED <<proc, path, grab, mouse, unit, limiter>>

Over(result) == ui' = [Closed EXCEPT !.pc = result]
Goes(where)  == ui' = [ui EXCEPT !.pc = where]

(* quit_via_ipc: the command goes to whoever listens.                       *)
AskToQuit ==
  /\ ui.pc = "found"
  /\ \/ socket_alive /\ proc' = [proc EXCEPT ![path].asked = TRUE]
                     /\ ui' = [ui EXCEPT !.pc = "asked", !.whom = path]
     \/ ~socket_alive /\ ui.found # {} /\ Goes("term") /\ UNCHANGED proc
     \/ ~socket_alive /\ ui.found = {} /\ Over("open") /\ UNCHANGED proc
  /\ UNCHANGED <<path, grab, mouse, unit, limiter>> /\ Calm

(* No answer within 500 ms.                                                 *)
QuitTimesOut ==
  /\ ui.pc = "asked"
  /\ Goes("term")
  /\ UNCHANGED <<proc, path, grab, mouse, unit, limiter>> /\ Calm

(* The socket is polled until it is silent, or for KILL_GRACE.              *)
Poll ==
  /\ \/ ui.pc \in {"quitpoll", "termpoll", "killpoll"} /\ ~socket_alive /\ Goes("killed")
     \/ ui.pc = "quitpoll" /\ socket_alive /\ Goes("term")
     \/ ui.pc = "termpoll" /\ socket_alive /\ Goes("kill")
     \/ ui.pc = "killpoll" /\ socket_alive /\ Over("open")
  /\ UNCHANGED <<proc, path, grab, mouse, unit, limiter>> /\ Calm

(* SIGTERM to all it found, SIGKILL if that does not help.  kill(2) fails   *)
(* for a foreign daemon, which is no matter as long as it succeeds for one: *)
(* then the socket decides.  History: it came to signals before the daemon  *)
(* had the mouse, or while it was failing by itself; it came to SIGKILL.    *)
Mine == {p \in ui.found : ~proc[p].foreign}

Settled(p) ==
  \/ At(p, "loop") /\ grab = p
  \/ proc[p].pc \in {"close", "remove", "release"} /\ ~proc[p].failed

SendTerm ==
  /\ ui.pc = "term"
  /\ proc' = Termed(Mine)
  /\ IF Mine = {}
     THEN Over("open")
     ELSE ui' = [ui EXCEPT !.pc = "termpoll", !.ours = (UnitPid \in Mine)]
  /\ past' = IF \A p \in Mine : Settled(p) THEN past ELSE past \cup {"early"}
  /\ UNCHANGED <<path, grab, mouse, unit, limiter, happened>>

SendKill ==
  /\ ui.pc = "kill"
  /\ IF Mine = {}
     THEN Over("open") /\ UNCHANGED <<proc, path, grab, unit, past>>
     ELSE /\ Buried(Mine, TRUE)
          /\ ui' = [Without(Mine) EXCEPT !.pc = "killpoll"]
          /\ past' = past \cup {"sigkill"}
  /\ UNCHANGED <<mouse, limiter, happened>>

Interface ==
  \/ Launch \/ heal_at_startup \/ start_only \/ wait_for_running
  \/ enable_now \/ disable_now \/ ensure_running
  \/ find_daemon_pids \/ AskToQuit \/ QuitTimesOut \/ Poll \/ SendTerm \/ SendKill

-----------------------------------------------------------------------------
(* At login, or any time later: an enabled unit is about to be started.  An *)
(* open interface, a socket left from before, and a unit file that is not   *)
(* current come one at a time.                                              *)
Init ==
  /\ proc = [p \in Pids |-> Gone]
  /\ path \in {NoDir, Stale}
  /\ grab = NoPid
  /\ mouse \in BOOLEAN
  /\ unit \in [state : {"starting", "inactive"}, timer : {0}, enabled : BOOLEAN,
               file : {"current", "moved", "old", "broken"}]
  /\ unit.state = "starting" => unit.enabled
  /\ limiter = NoStarts
  /\ ui \in {Closed, [Closed EXCEPT !.pc = "open"]}
  /\ ui.pc = "open" => path = NoDir /\ unit.file = "current"
  /\ path = Stale => unit.file = "current"
  /\ happened = 0
  /\ past = (IF path = Stale THEN {"crash"} ELSE {})
            \cup (IF unit.file = "broken" THEN {"broken"} ELSE {})
            \cup (IF unit.state = "inactive" THEN {"off"} ELSE {})

Next ==
  \/ \E p \in Pids : Daemon(p)
  \/ SystemdStarts \/ Tick
  \/ LoseMouse \/ MouseBack \/ StartByHand
  \/ \E p \in Pids : Crash(p) \/ Term(p)
  \/ Interface

Spec == Init /\ [][Next]_vars

(* Processes run, systemd does its work, time passes.  Nothing is assumed   *)
(* of the mouse, the interface and its user.                                *)
FairSpec ==
  /\ Spec
  /\ \A p \in Pids : WF_vars(Daemon(p))
  /\ WF_vars(SystemdStarts) /\ WF_vars(Tick)

-----------------------------------------------------------------------------

Kinds   == Events \cup {"crowd", "broken", "off", "healed", "early", "sigkill"}
Killing == {"found", "asked", "quitpoll", "term", "termpoll", "kill", "killpoll"}

Processes ==
  [pc : {"gone", "unlink", "bind", "search", "sleep", "grab", "setup", "loop", "close", "remove",
         "release"},
   tries : 0 .. Retries, wait : 0 .. Interval,
   stop : BOOLEAN, asked : BOOLEAN, bound : BOOLEAN, failed : BOOLEAN, off : BOOLEAN,
   foreign : BOOLEAN]
Units ==
  [state : {"inactive", "starting", "active", "stopping", "cycling", "waiting", "limited"},
   timer : 0 .. RestartSec, enabled : BOOLEAN,
   file : {"current", "moved", "old", "broken"}]
Interfaces ==
  [pc : {"closed", "heal", "start", "wait", "open", "killed"} \cup Killing,
   svc : {"off", "enabled", "active"}, found : SUBSET Alive, whom : Alive \cup {NoPid},
   ours : BOOLEAN]

TypeOK ==
  /\ proc \in [Pids -> Processes]
  /\ path \in Pids \cup {NoDir, Absent, Stale}
  /\ grab \in Pids \cup {NoPid}
  /\ mouse \in BOOLEAN
  /\ unit \in Units
  /\ limiter \in [num : 0 .. LimitBurst, age : 0 .. LimitInterval]
  /\ ui \in Interfaces
  /\ happened \in Nat /\ past \subseteq Kinds

(* KNOWN_ISSUES.md, the two-daemon race: systemd and the interface never    *)
(* have two daemons at a time; it takes one started by hand, or the         *)
(* interface's old command.                                                 *)
OneDaemon == "crowd" \in past => past \cap {"hand", "legacy"} # {}

(* A daemon that serves the mouse can be reached, also after others crashed *)
(* and left their sockets, as long as no two of them ever met.  The ones    *)
(* that cannot are those whose init_server or epoll_ctl failed, those of    *)
(* others, and the unit's from a template before v8: and that one only      *)
(* until the interface has rewritten the file and told it to stop (its      *)
(* switch rewrites the file too, but does not restart the daemon).          *)
Deaf(p)     == "deaf" \in past /\ ~proc[p].bound
Outdated(p) == p = UnitPid /\ (unit.file = "old" \/ proc[p].stop \/ "toggle" \in past)

LoopIsReachable ==
  past \cap {"crowd", "broken"} = {} =>
    \A p \in Pids :
      At(p, "loop") =>
        \/ path = p
        \/ Deaf(p)
        \/ proc[p].off /\ (proc[p].foreign \/ Outdated(p))

(* When the last daemon is gone there is no socket left, unless one was     *)
(* killed, however many there were and in whatever order they went.         *)
NothingLeftBehind ==
  Alive = {} /\ past \cap {"crash", "legacy"} = {} => path \in {NoDir, Absent}

(* loginext.service, at StartLimitIntervalSec: a mouse that is missing for  *)
(* however long never makes systemd give up, nor does one that is lost now  *)
(* and then: so seldom, see Patient, that the starts it costs do not add up.*)
MouseNeverLimits == unit.state = "limited" => past \ {"lost", "launch"} # {}

(* daemon.rs, KillOutcome::Killed: when kill_daemon reports that, the       *)
(* daemons it found or asked are on their way out, and systemd brings none  *)
(* of them back, for the one of the unit exits with success.  This needs a  *)
(* daemon on its own (with more of them the quit command reaches one, and   *)
(* signals do not reach a foreign one), that had the mouse when it was told *)
(* and keeps it, and no other reason to start the unit again.               *)
Hindered == {"crowd", "early", "sigkill", "lost", "crash", "healed", "toggle"}

Told     == ui.found \cup ({ui.whom} \ {NoPid})

KilledStaysDown ==
  ui.pc = "killed" /\ past \cap Hindered = {} =>
    /\ \A p \in Told : proc[p].stop
    /\ ui.ours => unit.state \notin {"starting", "waiting", "cycling"}

(* main.cpp, the exit status: once the mouse is there to stay, a unit that  *)
(* was on and that nobody stopped has a daemon serve it, whatever crashed   *)
(* or was unplugged before, unless it was started too often.                *)
Serving  == grab \in Pids /\ At(grab, "loop")
SwitchedOff == past \cap {"off", "broken", "term", "toggle", "legacy"} # {}

MouseIsServed ==
  <>[]mouse => <>[](Serving \/ SwitchedOff \/ unit.state = "limited")

(* KNOWN_ISSUES.md: a unit whose mouse another daemon holds stops trying.   *)
Rivalled == Serving /\ grab # UnitPid /\ unit.state \in {"starting", "active", "waiting"}

LoserGivesUp == Rivalled ~> ~Rivalled

(* What the safety properties need of the rest of the state.  systemd knows *)
(* whether its process runs, and nobody but it and those who made a crowd   *)
(* start any.                                                               *)
UnitIsKnown ==
  /\ unit.state \in {"active", "stopping", "cycling"} <=> UnitPid \in Alive
  /\ unit.file = "broken" => "broken" \in past
  /\ ui.pc = "start" => unit.file = "current"
  /\ unit.state \in {"stopping", "cycling"} =>
       proc[UnitPid].stop /\ past \cap {"healed", "toggle"} # {}

CrowdsAreMade ==
  /\ past \cap {"hand", "legacy"} = {} => Alive \subseteq {UnitPid} /\ "crowd" \notin past
  /\ "crowd" \notin past => \A p, q \in Alive : p = q

(* The socket at the path is somebody's who has it open; a lone daemon's is *)
(* its own; and a dead one is about to be removed.                          *)
Listening == {"search", "sleep", "grab", "setup", "loop", "close"}

SocketIsOwned ==
  /\ path \in Pids => proc[path].bound /\ ~proc[path].off /\ proc[path].pc \in Listening
  /\ \A p \in Pids : proc[p].pc \in {"unlink", "bind"} => ~proc[p].bound

SocketIsReachable ==
  /\ \A p \in Pids :
       proc[p].off => /\ ~At(p, "gone") /\ ~proc[p].bound
                      /\ Deaf(p) \/ proc[p].foreign \/ Outdated(p)
  /\ past \cap {"crowd", "broken"} = {} =>
       \A p \in Pids :
         ~proc[p].off => /\ At(p, "bind") => path = Absent
                         /\ proc[p].pc \in Listening => path = p \/ Deaf(p)

LeftoversGo ==
  /\ past \cap {"crash", "legacy"} = {} /\ path = Stale =>
       \E p \in Pids : At(p, "remove") /\ ~proc[p].off
  /\ ui.pc \in Killing => "legacy" \in past

(* Who serves has the mouse and has not failed.  Those whom kill_daemon has *)
(* told, and the unit if its daemon was among them.                         *)
MouseIsHeld ==
  /\ \A p \in Pids : proc[p].failed => proc[p].pc \in {"close", "remove", "release"}
  /\ "lost" \notin past => \A p \in Pids : proc[p].pc \in {"setup", "loop"} => grab = p

Stopping(p) == proc[p].stop /\ Settled(p)

ToldAreStopping ==
  /\ ui.pc \in {"quitpoll", "termpoll", "killed"} /\ past \cap Hindered = {} =>
       /\ \A p \in Told : Stopping(p)
       /\ ui.ours => /\ unit.state \notin {"starting", "waiting", "cycling"}
                     /\ unit.state \in {"active", "stopping"} => Stopping(UnitPid)
  /\ ui.pc = "killpoll" => "sigkill" \in past

IInv ==
  /\ TypeOK /\ UnitIsKnown /\ CrowdsAreMade
  /\ SocketIsOwned /\ SocketIsReachable /\ LeftoversGo
  /\ MouseIsHeld /\ ToldAreStopping

(* How long a start looks for a mouse that is not there, and how the unit's *)
(* times must be chosen: LimitBurst starts in vain take longer than the     *)
(* interval in which no more are allowed, although every loss of the mouse  *)
(* may spare a start its search.  With the times of loginext.service,       *)
(* 5 * 15 + (5 - n) * 18 > 120, which allows for two losses.                *)
SearchTime == Retries * Interval
Patient ==
  LimitBurst * RestartSec + LimitBurst * SearchTime > LimitInterval + MaxHappenings * SearchTime

(* How much of its time the present start has taken: the mouse it had and   *)
(* lost counts as much as a search in vain.                                 *)
Elapsed ==
  LET d == proc[UnitPid] IN
  CASE unit.state = "waiting" -> SearchTime + (RestartSec - unit.timer)
    [] d.pc = "search" -> d.tries * Interval
    [] d.pc = "sleep"  -> d.tries * Interval - d.wait
    [] d.pc \in {"close", "remove", "release"} -> SearchTime
    [] d.pc = "grab" /\ ~mouse -> SearchTime
    [] d.pc \in {"setup", "loop"} /\ grab # UnitPid -> SearchTime
    [] OTHER -> 0

(* As long as nothing but the mouse fails, the unit's daemon is looking for *)
(* it, serves it or is about to be started again, and every start that      *)
(* counts has taken its time.                                               *)
MouseIsAwaited ==
  past \subseteq {"lost", "launch"} =>
    /\ unit.state \in {"starting", "active", "waiting"} /\ unit.file # "broken"
    /\ ui.pc # "start" /\ (ui.pc = "heal" => ui.svc = "active")
    /\ ~proc[UnitPid].stop /\ ~proc[UnitPid].asked
    /\ proc[UnitPid].pc \in {"unlink", "bind"} => proc[UnitPid].tries = 0
    /\ proc[UnitPid].pc \in {"close", "remove", "release"} => proc[UnitPid].failed
    /\ grab # NoPid =>
         grab = UnitPid /\ proc[UnitPid].pc \in {"setup", "loop", "close", "remove", "release"}
    /\ happened <= MaxHappenings
    /\ unit.state = "starting" => limiter.num = 0
    /\ limiter.num > 0 =>
         limiter.age + happened * SearchTime
           >= (limiter.num - 1) * (RestartSec + SearchTime) + Elapsed

PatientInv == IInv /\ (Patient => MouseIsAwaited)
=============================================================================
