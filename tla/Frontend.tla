------------------------------ MODULE Frontend ------------------------------
(***************************************************************************)
(* The front end of ui/src: what the user sees and edits (the global       *)
(* settings in views/main.ts, the per-app rules in views/rules.ts), the    *)
(* asynchronous calls through which it becomes files and then the          *)
(* daemon's settings, the queue for edits made while the daemon is off,    *)
(* and the heartbeat and the button that follow and drive the systemd      *)
(* unit.                                                                   *)
(*                                                                         *)
(* JavaScript runs one handler at a time and every `await` lets others     *)
(* run.  The back end's commands are not async, so Tauri runs them one     *)
(* after the other in the order of the calls.  `calls` holds the           *)
(* outstanding ones: those the back end has finished, then those it has    *)
(* not begun; what comes after an await is the action that takes the       *)
(* answer of the first.  A value of the settings (mode, invert, preset) is *)
(* one element of Values, what a rule says one element of Overrides.       *)
(***************************************************************************)
EXTENDS Naturals, Sequences

CONSTANTS
  Values,     \* settings: config.json, and what the panel shows in the global context
  Stored,     \* those that config.json may hold at first
  Default,    \* those of fetchInitialState when no daemon answers
  Apps,       \* applications a rule may name
  Overrides,  \* what a rule may say
  NoRule,     \* the application has none
  Null,       \* the null of current* and lastApplied*
  Global,     \* the global context
  Pending,    \* no answer yet
  Failed,     \* the answer that a call failed
  MaxEdits,   \* bound: changes the user makes, clicks on the status button included
  MaxFaults   \* bound: things that go wrong or change outside

ASSUME FrontendAssumption ==
  /\ Stored \subseteq Values /\ Default \in Values /\ Null \notin Values
  /\ NoRule \notin Overrides /\ Global \notin Apps /\ "ok" \notin {Pending, Failed}
  /\ MaxEdits \in Nat /\ MaxFaults \in Nat

VARIABLES
  current,    \* currentMode, currentInvert, currentActivePreset
  applied,    \* lastApplied*
  shown,      \* what the panel shows in the global context
  context,    \* currentContext
  applying,   \* an applyCurrentSettings is under way
  queued,     \* pendingGlobalApply
  online,     \* lastDaemonOnline
  pressed,    \* aria-pressed of the status button
  busy,       \* its click handler is under way
  beat,       \* the heartbeat's timer is set
  locked,     \* the status button is disabled
  wizard,     \* the overlay says that the unit is not installed
  rules,      \* the rules as edited
  saveTimer,  \* a save of the rules is due
  listed,     \* initialFetch: "no", "asked", "yes"
  calls,      \* outstanding calls, oldest first
  disk,       \* the two files
  live,       \* what the daemon read from them last
  up,         \* the daemon answers on its socket
  unit,       \* the unit is active and enabled
  toast,      \* history: the last toasts said "Settings applied", "Rules saved"
  broken,     \* history: the last write of the rules failed
  early,      \* history: the rules shown do not build on the file: changed before it was
              \* read, or it could not be
  edits, faults

panel  == <<current, applied, shown, context, applying, queued>>
button == <<online, pressed, busy, beat, locked, wizard>>
chips  == <<rules, saveTimer, listed>>
world  == <<disk, live, up, unit>>
told   == <<toast, broken, early>>
vars   == <<panel, button, chips, calls, world, told, edits, faults>>

Ruleset == [Apps -> Overrides \cup {NoRule}]
(* invoke(): what the command takes, and its answer once it has one.        *)
Call(cmd, arg) == [cmd |-> cmd, arg |-> arg, answer |-> Pending]
Rest           == Tail(calls)
Outstanding(cmds) == \E i \in DOMAIN calls : calls[i].cmd \in cmds

OrDefault(v) == IF v = Null THEN Default ELSE v

(* Slips: forms a definition below could take by mistake, kept to show that *)
(* each property fails when the code goes wrong.                            *)
Declines_reentrant(now)  == context # Global \/ OrDefault(now) = applied
Confirmed_now(snapshot)  == applied' = OrDefault(current) /\ UNCHANGED current
Caught_noFinally         == queued' = TRUE /\ UNCHANGED applying
schedule_unlessBusy      == beat' = (beat \/ ~busy)
RulesWritten_trusting ==
  /\ Head(calls).cmd = "write_app_rules"
  /\ calls' = Rest
  /\ toast' = [toast EXCEPT !.saved = TRUE]
  /\ UNCHANGED <<panel, button, chips, world, broken, early, edits, faults>>
Save_oneAtATime ==
  calls' = IF Outstanding({"write_app_rules", "reload_rules"}) THEN calls
           ELSE Append(calls, Call("write_app_rules", rules))

-----------------------------------------------------------------------------
(* Applying the global settings                                             *)

(* applyCurrentSettings with the settings `now` (current' of the caller),   *)
(* fromQueue or while the daemon is believed to be on, `queue` being the    *)
(* flag the caller leaves and `others` the other outstanding calls.         *)
Declines(now) == context # Global \/ applying \/ OrDefault(now) = applied

applyCurrentSettings(now, reachable, queue, others) ==
  \/ /\ Declines(now)
     /\ queued' = queue /\ calls' = others
     /\ UNCHANGED <<applying, toast>>
  \/ /\ ~Declines(now) /\ ~reachable
     /\ queued' = TRUE /\ calls' = others
     /\ toast' = [toast EXCEPT !.applied = FALSE]
     /\ UNCHANGED applying
  \/ /\ ~Declines(now) /\ reachable
     /\ applying' = TRUE
     /\ queued' = queue
     /\ calls' = Append(others, Call("write_config", OrDefault(now)))
     /\ UNCHANGED toast

(* The user moves a control of the panel or clicks a preset, in the global  *)
(* context.  (In the context of an application the same controls change     *)
(* its rule: ChangeRule.)                                                   *)
Edit(v) ==
  /\ edits < MaxEdits /\ edits' = edits + 1
  /\ context = Global
  /\ v # shown
  /\ shown' = v /\ current' = v
  /\ applyCurrentSettings(v, online, queued, calls)
  /\ UNCHANGED <<applied, context, button, chips, world, broken, early, faults>>

(* The catch and the finally of a call that threw.                          *)
Caught == queued' = TRUE /\ applying' = FALSE

(* applySettings, after write_config: on to the reload, or the catch.       *)
ConfigWritten ==
  /\ Head(calls).cmd = "write_config"
  /\ \/ /\ Head(calls).answer # Failed
        /\ calls' = Append(Rest, Call("reload_config", Head(calls).arg))
        /\ UNCHANGED <<applying, queued, toast>>
     \/ /\ Head(calls).answer = Failed
        /\ calls' = Rest
        /\ Caught
        /\ toast' = [toast EXCEPT !.applied = FALSE]
  /\ UNCHANGED <<current, applied, shown, context, button, chips, world, broken, early, edits, faults>>

(* ... and after the reload.                                                *)
Confirmed(snapshot) == current' = snapshot /\ applied' = snapshot

ConfigReloaded ==
  /\ Head(calls).cmd = "reload_config"
  /\ calls' = Rest
  /\ applying' = FALSE
  /\ \/ /\ Head(calls).answer # Failed
        /\ Confirmed(Head(calls).arg)
        /\ toast' = [toast EXCEPT !.applied = TRUE]
     \/ /\ Head(calls).answer = Failed
        /\ toast' = [toast EXCEPT !.applied = FALSE]
        /\ UNCHANGED <<current, applied>>
  /\ UNCHANGED <<shown, context, queued, button, chips, world, broken, early, edits, faults>>

(* fetchInitialState, after get_settings.                                   *)
SettingsFetched ==
  /\ Head(calls).cmd = "get_settings"
  /\ calls' = Rest
  /\ current' = IF Head(calls).answer = Failed THEN Default ELSE Head(calls).answer
  /\ applied' = current' /\ shown' = current'
  /\ UNCHANGED <<context, applying, queued, button, chips, world, told, edits, faults>>

(* syncRightPanelToContext, as far as the global context goes.              *)
Synced == IF context = Global /\ current # Null THEN current ELSE shown

(* A click on the Global chip or on that of an application with a rule.     *)
SwitchContext(c) ==
  /\ c # context
  /\ c # Global => rules[c] # NoRule
  /\ context' = c
  /\ shown' = IF c = Global /\ current # Null THEN current ELSE shown
  /\ UNCHANGED <<current, applied, applying, queued, button, chips, calls, world, told, edits, faults>>

-----------------------------------------------------------------------------
(* The heartbeat and the status button                                      *)

Rises(on) == ~online /\ on /\ queued

(* notifyDaemonOnlineChange: on a rising edge the queue is emptied and      *)
(* applied.                                                                 *)
notifyDaemonOnlineChange(on, others) ==
  /\ online' = on
  /\ \/ /\ Rises(on)
        /\ applyCurrentSettings(current, TRUE, FALSE, others)
     \/ /\ ~Rises(on)
        /\ calls' = others
        /\ UNCHANGED <<applying, queued, toast>>

(* schedule: the heartbeat's timer is set anew, also by the click handler.   *)
schedule == beat' = TRUE

(* The timer of the heartbeat runs out.                                     *)
Beat ==
  /\ beat
  /\ ~busy        \* else it is only set again
  /\ beat' = FALSE
  /\ calls' = Append(calls, Call("service_state", Null))
  /\ UNCHANGED <<panel, online, pressed, busy, locked, wizard, chips, world, told, edits, faults>>

(* beat, and the first probe of attachHeartbeat, after service_state.  A    *)
(* query that failed passes for a unit that is not installed: the button is *)
(* disabled for good, the overlay says so, and the timer is not set again.  *)
(* (service_install_hint, asked for the overlay's text, changes nothing.)   *)
(* The next query that works, if a click still under way sets the timer,    *)
(* takes the overlay away; the first probe finds none.                      *)
BeatAnswered ==
  LET on == Head(calls).answer IN
  /\ Head(calls).cmd \in {"probe", "service_state"}
  /\ \/ /\ on # Failed
        /\ pressed' = on
        /\ wizard' = FALSE
        /\ schedule
        /\ notifyDaemonOnlineChange(on, Rest)
        /\ UNCHANGED locked
     \/ /\ on = Failed
        /\ pressed' = FALSE
        /\ locked' = TRUE /\ wizard' = TRUE
        /\ calls' = Rest
        /\ UNCHANGED <<beat, online, applying, queued, toast>>
  /\ UNCHANGED <<current, applied, shown, context, busy, chips, world, broken, early, edits, faults>>

(* The user clicks the status button, which listens after the first probe.  *)
ClickToggle ==
  /\ edits < MaxEdits /\ edits' = edits + 1
  /\ ~Outstanding({"probe"}) /\ ~locked
  /\ ~busy /\ busy' = TRUE
  /\ beat' = FALSE
  /\ pressed' = FALSE
  /\ calls' = Append(calls, Call(IF pressed THEN "service_disable" ELSE "service_enable", Null))
  /\ UNCHANGED <<panel, online, locked, wizard, chips, world, told, faults>>

(* The rest of its handler, after service_enable or service_disable.        *)
ToggleAnswered ==
  LET on == Head(calls).answer IN
  /\ Head(calls).cmd \in {"service_enable", "service_disable"}
  /\ busy' = FALSE /\ schedule
  /\ \/ /\ on # Failed
        /\ pressed' = on
        /\ notifyDaemonOnlineChange(on, Rest)
     \/ /\ on = Failed
        /\ pressed' = (Head(calls).cmd = "service_disable")
        /\ calls' = Rest
        /\ UNCHANGED <<online, applying, queued, toast>>
  /\ UNCHANGED <<current, applied, shown, context, locked, wizard, chips, world, broken, early, edits,
                 faults>>

-----------------------------------------------------------------------------
(* The rules                                                                *)

(* scheduleSave: the timer starts over.                                     *)
scheduleSave == saveTimer' = TRUE

(* addRule, updateRule, setRuleMode, setRuleInvert, unbindRule: nothing     *)
(* happens unless the rule changes.  A rule is added from the row of the    *)
(* focused application, which shows one only if the daemon told it, or when *)
(* the panel still shows an application that lost its rule.                 *)
ChangeRule(a, o) ==
  /\ edits < MaxEdits /\ edits' = edits + 1
  /\ rules[a] # o
  /\ context = a \/ (rules[a] = NoRule /\ up)
  /\ rules' = [rules EXCEPT ![a] = o]
  /\ scheduleSave
  /\ shown' = Synced
  /\ early' = (early \/ listed # "yes")
  /\ UNCHANGED <<current, applied, context, applying, queued, button, listed, calls, world,
                 toast, broken, faults>>

(* The X of a chip.  The panel is synchronised inside deleteRule, before    *)
(* the context becomes global: for an application without a rule it shows   *)
(* the global values.                                                       *)
DeleteRule(a) ==
  /\ edits < MaxEdits /\ edits' = edits + 1
  /\ rules[a] # NoRule
  /\ rules' = [rules EXCEPT ![a] = NoRule]
  /\ scheduleSave
  /\ context' = IF context = a THEN Global ELSE context
  /\ shown' = IF context = a THEN OrDefault(current) ELSE Synced
  /\ early' = (early \/ listed # "yes")
  /\ UNCHANGED <<current, applied, applying, queued, button, listed, calls, world, toast, broken,
                 faults>>

(* saveNow, when the debounce timer runs out: the rules of this moment go   *)
(* to write_app_rules, whatever saves are under way.                        *)
Save == calls' = Append(calls, Call("write_app_rules", rules))

SaveNow ==
  /\ saveTimer /\ saveTimer' = FALSE
  /\ Save
  /\ UNCHANGED <<panel, button, rules, listed, world, told, edits, faults>>

(* saveAppRules, after write_app_rules and after the reload.                *)
RulesWritten ==
  /\ Head(calls).cmd = "write_app_rules"
  /\ \/ /\ Head(calls).answer # Failed
        /\ calls' = Append(Rest, Call("reload_rules", Null))
        /\ UNCHANGED toast
     \/ /\ Head(calls).answer = Failed
        /\ calls' = Rest
        /\ toast' = [toast EXCEPT !.saved = FALSE]
  /\ UNCHANGED <<panel, button, chips, world, broken, early, edits, faults>>

RulesReloaded ==
  /\ Head(calls).cmd = "reload_rules"
  /\ calls' = Rest
  /\ toast' = [toast EXCEPT !.saved = (Head(calls).answer # Failed)]
  /\ UNCHANGED <<panel, button, chips, world, broken, early, edits, faults>>

(* initialFetch: list_presets answered, or was tried often enough.          *)
AskRules ==
  /\ listed = "no" /\ listed' = "asked"
  /\ calls' = Append(calls, Call("read_app_rules", Null))
  /\ UNCHANGED <<panel, button, rules, saveTimer, world, told, edits, faults>>

(* ... and after read_app_rules (the chips and the panel follow when the    *)
(* focused application has been asked for, too).                            *)
RulesListed ==
  /\ Head(calls).cmd = "read_app_rules"
  /\ calls' = Rest
  /\ listed' = "yes"
  /\ \/ /\ Head(calls).answer # Failed
        /\ rules' = Head(calls).answer
        /\ UNCHANGED early
     \/ /\ Head(calls).answer = Failed
        /\ early' = TRUE
        /\ UNCHANGED rules
  /\ shown' = Synced
  /\ UNCHANGED <<current, applied, context, applying, queued, button, saveTimer, world, toast,
                 broken, edits, faults>>

-----------------------------------------------------------------------------
(* The back end runs the first call it has not run                          *)

Waiting == {i \in DOMAIN calls : calls[i].answer = Pending}
Turn(i) == i \in Waiting /\ \A j \in Waiting : i <= j

Answer(i, a) == calls' = [calls EXCEPT ![i].answer = a]

(* ipc_request: the command is answered, or the answer is that it failed:   *)
(* no daemon, or none within the 500 ms the bridge waits.                   *)
Unanswered ==
  \/ ~up /\ UNCHANGED faults
  \/ up /\ faults < MaxFaults /\ faults' = faults + 1

get_settings(i) ==
  /\ calls[i].cmd = "get_settings"
  /\ \/ up /\ Answer(i, live.config) /\ UNCHANGED faults
     \/ Unanswered /\ Answer(i, Failed)
  /\ UNCHANGED <<world, broken>>

(* A reload reads both files before it is acknowledged.  One the bridge     *)
(* gave up on takes effect or is lost.                                      *)
reload(i) ==
  /\ calls[i].cmd \in {"reload_config", "reload_rules"}
  /\ \/ up /\ live' = disk /\ Answer(i, "ok") /\ UNCHANGED faults
     \/ Unanswered /\ Answer(i, Failed) /\ live' \in (IF up THEN {live, disk} ELSE {live})
  /\ UNCHANGED <<disk, up, unit, broken>>

write_config(i) ==
  /\ calls[i].cmd = "write_config"
  /\ \/ /\ disk' = [disk EXCEPT !.config = calls[i].arg]
        /\ Answer(i, "ok") /\ UNCHANGED faults
     \/ /\ faults < MaxFaults /\ faults' = faults + 1
        /\ Answer(i, Failed) /\ UNCHANGED disk
  /\ UNCHANGED <<live, up, unit, broken>>

write_app_rules(i) ==
  /\ calls[i].cmd = "write_app_rules"
  /\ \/ /\ disk' = [disk EXCEPT !.rules = calls[i].arg]
        /\ Answer(i, "ok") /\ broken' = FALSE /\ UNCHANGED faults
     \/ /\ faults < MaxFaults /\ faults' = faults + 1
        /\ Answer(i, Failed) /\ broken' = TRUE /\ UNCHANGED disk
  /\ UNCHANGED <<live, up, unit>>

read_app_rules(i) ==
  /\ calls[i].cmd = "read_app_rules"
  /\ \/ Answer(i, disk.rules) /\ UNCHANGED faults
     \/ /\ faults < MaxFaults /\ faults' = faults + 1
        /\ Answer(i, Failed)
  /\ UNCHANGED <<world, broken>>

(* query_state: is-active and is-enabled.  When neither of the two answers, *)
(* the unit passes for not available; when one does not, for off.           *)
service_state(i) ==
  /\ calls[i].cmd \in {"probe", "service_state"}
  /\ \/ Answer(i, unit) /\ UNCHANGED faults
     \/ /\ faults < MaxFaults /\ faults' = faults + 1
        /\ \E a \in {Failed, FALSE} : Answer(i, a)
  /\ UNCHANGED <<world, broken>>

(* enable --now and disable --now, then a query, which may fail; or         *)
(* systemctl does.                                                          *)
service_switch(i) ==
  LET on == calls[i].cmd = "service_enable" IN
  /\ calls[i].cmd \in {"service_enable", "service_disable"}
  /\ \/ /\ unit' = on /\ up' = (up /\ on)
        /\ \/ Answer(i, on) /\ UNCHANGED faults
           \/ on /\ Answer(i, FALSE) /\ faults < MaxFaults /\ faults' = faults + 1
     \/ /\ faults < MaxFaults /\ faults' = faults + 1
        /\ Answer(i, Failed) /\ UNCHANGED <<unit, up>>
  /\ UNCHANGED <<disk, live, broken>>

Execute ==
  /\ \E i \in DOMAIN calls :
       /\ Turn(i)
       /\ \/ get_settings(i) \/ reload(i) \/ write_config(i) \/ write_app_rules(i)
          \/ read_app_rules(i) \/ service_state(i) \/ service_switch(i)
  /\ UNCHANGED <<panel, button, chips, toast, early, edits>>

(* Outside: systemd starts the daemon of an active unit, and it reads the   *)
(* files; the daemon dies, or the unit is switched with systemctl.          *)
DaemonStarts ==
  /\ unit /\ ~up
  /\ up' = TRUE /\ live' = disk
  /\ UNCHANGED <<panel, button, chips, calls, disk, unit, told, edits, faults>>

UnitSwitched ==
  /\ faults < MaxFaults /\ faults' = faults + 1
  /\ unit' \in BOOLEAN
  /\ \/ up /\ up' = FALSE
     \/ unit' # unit /\ up' = (up /\ unit')
  /\ UNCHANGED <<panel, button, chips, calls, disk, live, told, edits>>

-----------------------------------------------------------------------------
Init ==
  /\ disk \in [config : Stored, rules : Ruleset] /\ live = disk
  /\ unit \in BOOLEAN /\ up \in {FALSE, unit}
  /\ current = Null /\ applied = Null /\ shown = Null
  /\ context = Global /\ applying = FALSE /\ queued = FALSE
  /\ online = FALSE /\ pressed = FALSE /\ busy = FALSE /\ beat = FALSE
  /\ locked = FALSE /\ wizard = FALSE
  /\ rules = [a \in Apps |-> NoRule] /\ saveTimer = FALSE /\ listed = "no"
  /\ calls = <<Call("get_settings", Null), Call("probe", Null)>>
  /\ toast = [applied |-> FALSE, saved |-> FALSE] /\ broken = FALSE /\ early = FALSE
  /\ edits = 0 /\ faults = 0

(* What continues after an await, once the first call has its answer.       *)
Continue ==
  /\ calls # <<>> /\ Head(calls).answer # Pending
  /\ \/ ConfigWritten \/ ConfigReloaded \/ SettingsFetched \/ BeatAnswered
     \/ ToggleAnswered \/ RulesWritten \/ RulesReloaded \/ RulesListed

User ==
  \/ \E v \in Values : Edit(v)
  \/ \E c \in Apps \cup {Global} : SwitchContext(c)
  \/ \E a \in Apps, o \in Overrides : ChangeRule(a, o)
  \/ \E a \in Apps : DeleteRule(a)
  \/ ClickToggle

Next ==
  \/ User \/ Continue \/ Execute
  \/ Beat \/ SaveNow \/ AskRules
  \/ DaemonStarts \/ UnitSwitched

(* The browser runs due timers and answers, the back end runs its commands; *)
(* nobody promises that the user does anything or that the daemon runs.     *)
Fairness ==
  /\ WF_vars(Continue) /\ WF_vars(Execute)
  /\ WF_vars(Beat) /\ WF_vars(SaveNow) /\ WF_vars(AskRules)

Spec == Init /\ [][Next]_vars /\ Fairness

-----------------------------------------------------------------------------
Commands ==
  {"get_settings", "read_app_rules", "write_config", "reload_config", "write_app_rules",
   "reload_rules", "probe", "service_state", "service_enable", "service_disable"}

(* What a command may be given, and what it may answer.                     *)
Taken(cmd) ==
  CASE cmd \in {"write_config", "reload_config"} -> Values
    [] cmd = "write_app_rules" -> Ruleset
    [] OTHER -> {Null}
Given(cmd) ==
  CASE cmd = "get_settings" -> Values \cup {Failed}
    [] cmd = "read_app_rules" -> Ruleset \cup {Failed}
    [] cmd \in {"probe", "service_state", "service_enable", "service_disable"} -> BOOLEAN \cup {Failed}
    [] OTHER -> {"ok", Failed}

CallsOf(cmd) == [cmd : {cmd}, arg : Taken(cmd), answer : Given(cmd) \cup {Pending}]

Files == [config : Values, rules : Ruleset]

(* Types, and the flags that stand for calls: an apply, a click is under    *)
(* way exactly as long as it waits for a call.  The heartbeat goes on until *)
(* the button is locked.                                                    *)
TypeOK ==
  /\ {current, applied, shown} \subseteq Values \cup {Null}
  /\ context \in Apps \cup {Global}
  /\ {queued, online, pressed, locked, wizard, saveTimer, up, unit, broken, early} \subseteq BOOLEAN
  /\ listed \in {"no", "asked", "yes"}
  /\ toast \in [applied : BOOLEAN, saved : BOOLEAN]
  /\ disk \in Files /\ live \in Files /\ rules \in Ruleset
  /\ Len(calls) \in Nat /\ calls = [i \in 1 .. Len(calls) |-> calls[i]]
  /\ \A i \in DOMAIN calls : calls[i].cmd \in Commands /\ calls[i] \in CallsOf(calls[i].cmd)
  /\ applying = Outstanding({"write_config", "reload_config"})
  /\ busy = Outstanding({"service_enable", "service_disable"})
  /\ beat \/ locked \/ Outstanding({"probe", "service_state", "service_enable", "service_disable"})
  /\ edits \in Nat /\ faults \in Nat

(* After "Settings applied" and until something else is tried, the settings *)
(* the UI compares the user's with, lastApplied, are in the file and in     *)
(* force, whatever was edited, saved or restarted while the apply waited.   *)
AppliedIsInForce ==
  toast.applied /\ ~applying =>
    disk.config = applied /\ (up => live.config = applied)

(* After "Rules saved", with no save due or under way, the daemon has the   *)
(* rules the UI shows, although saves overlap and all share one file.       *)
SavedIsInForce ==
  /\ toast.saved /\ up
  /\ ~saveTimer /\ ~Outstanding({"write_app_rules", "reload_rules"})
  /\ ~broken /\ ~early
  => live.rules = rules

(* Every change of the rules ends up in the file, unless writing fails or   *)
(* the rules were changed before or without reading it.                     *)
RulesReachDisk == <>[](broken \/ early \/ disk.rules = rules)

(* An apply always ends, so that the next one is not declined for good.     *)
ApplyEnds == applying ~> ~applying

(* The UI never stops following the unit in silence: one query that fails   *)
(* may end the heartbeat for good, but then the overlay says so, and it is  *)
(* not taken away unless the unit is followed again.                        *)
UnitIsSeen == \A b \in BOOLEAN : <>[](unit = b) => <>[](online = b \/ wizard)

(* The queue is emptied only by an apply of what the user chose.            *)
QueueIsApplied ==
  [][queued /\ ~queued' => applying' \/ OrDefault(current) = applied]_vars

(* What the safety properties need of the calls.  Those the back end has    *)
(* finished come first; a click, an apply and the first listing of the      *)
(* rules are each made once at a time; and what the daemon was using when   *)
(* the interface came up is asked for before anything is applied.           *)
CallsInTurn ==
  /\ \A i, j \in DOMAIN calls : i < j /\ calls[j].answer # Pending => calls[i].answer # Pending
  /\ \A i, j \in DOMAIN calls :
       \A cmds \in {{"write_config", "reload_config"}, {"service_enable", "service_disable"},
                    {"read_app_rules"}} :
         calls[i].cmd \in cmds /\ calls[j].cmd \in cmds => i = j
  /\ \A i \in DOMAIN calls : /\ calls[i].cmd = "get_settings" => i = 1 /\ ~toast.applied
                             /\ calls[i].cmd = "read_app_rules" => listed = "asked"

(* A call has been run, and did not fail.                                   *)
Worked(i) == calls[i].answer \notin {Pending, Failed}

(* An apply finds on disk what it has written, and in use what it has       *)
(* reloaded.                                                                *)
ApplyStands ==
  \A i \in DOMAIN calls :
    /\ calls[i].cmd = "write_config" /\ Worked(i) => disk.config = calls[i].arg
    /\ calls[i].cmd = "reload_config" =>
         disk.config = calls[i].arg /\ (Worked(i) /\ up => live.config = calls[i].arg)

(* The rules shown are on disk, or on their way: with the last save that is *)
(* still to be run, or with the timer.                                      *)
SaveStands ==
  ~early =>
    /\ listed # "yes" =>
         ~saveTimer /\ ~toast.saved /\ ~Outstanding({"write_app_rules", "reload_rules"})
    /\ \A i \in DOMAIN calls : calls[i].cmd = "read_app_rules" /\ Worked(i) => calls[i].answer = disk.rules
    /\ ~saveTimer =>
         \A i \in DOMAIN calls :
           /\ calls[i].cmd = "write_app_rules" /\ calls[i].answer = Pending
           /\ \A j \in DOMAIN calls : calls[j].cmd = "write_app_rules" => j <= i
           => calls[i].arg = rules
    /\ ~saveTimer /\ ~broken /\ listed = "yes" =>
         \/ disk.rules = rules
         \/ \E i \in DOMAIN calls : calls[i].cmd = "write_app_rules" /\ calls[i].answer = Pending

(* While the daemon is behind the file, a call that will tell is under way, *)
(* after any reload that worked.                                            *)
Tells(i) == (calls[i].cmd = "write_app_rules" /\ Worked(i)) \/ (calls[i].cmd = "reload_rules" /\ ~Worked(i))

ReloadStands ==
  up /\ live.rules # disk.rules =>
    /\ toast.saved => \E i \in DOMAIN calls : Tells(i)
    /\ \A i \in DOMAIN calls : calls[i].cmd = "reload_rules" /\ Worked(i) =>
         \E j \in DOMAIN calls : i < j /\ Tells(j)

IInv ==
  TypeOK /\ CallsInTurn /\ ApplyStands /\ AppliedIsInForce /\ SaveStands /\ ReloadStands
=============================================================================
