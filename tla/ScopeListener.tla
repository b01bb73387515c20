--------------------------- MODULE ScopeListener ---------------------------
(***************************************************************************)
(* The scope listener (src/src/scope/listener.cpp): the thread that finds  *)
(* a compositor, follows its focused window through one of four backends   *)
(* and publishes the window's app, first as a name under a mutex, then as  *)
(* the atomic hash the wheel's events are resolved with.  The main thread  *)
(* reads both (handle_get_active_app) and stops the listener at the end.   *)
(*                                                                         *)
(* Around it: the windows, and the compositor that reports them over a     *)
(* connection.  A message first arrives at the connection's socket, which  *)
(* select sees, and moves into the client library's own queue, which it    *)
(* does not.  An app stands for its name and for its hash alike.           *)
(***************************************************************************)
EXTENDS Integers, Sequences, SequencesExt

CONSTANTS
  Windows, Apps,
  AppAtStart,    \* the app of each window that is there at the start
  MaxWindows,    \* plasma_max_windows
  Attempts,      \* probe_max_attempts
  Offered,       \* backends that may become reachable
  MaxChanges     \* bound on what happens to the windows

NoWindow == "no window"
NoApp    == "no app"      \* hash 0, empty name
NoLink   == "no link"
Nothing  == <<>>
Backends == <<"hypr", "kwin", "wayland", "x11">>   \* in the order they are tried
FreeSlot == [win |-> NoWindow, active |-> FALSE, app |-> NoApp]
Slots    == 1 .. MaxWindows

ASSUME ListenerAssumption ==
  /\ NoWindow \notin Windows /\ NoApp \notin Apps /\ IsFiniteSet(Windows)
  /\ AppAtStart \in [Windows -> Apps]
  /\ MaxWindows \in Nat \ {0} /\ Attempts \in Nat \ {0} /\ MaxChanges \in Nat
  /\ Offered \subseteq {Backends[i] : i \in DOMAIN Backends}

VARIABLES
  open, app, active,      \* the windows: mapped, whose, focused
  up, changes,            \* backends one could connect to; changes so far
  backend, inbox, queue, eof,   \* the connection: socket, library's queue, end
  pc, next, attempt,      \* the thread; the probe and the attempt it is at
  target, slots,          \* x11_publish_active's window; the Plasma slots
  say, name, hash,        \* being published, intro_name, active_app_hash
  stop, wake,             \* Listener::stop, the wake pipe holds a byte
  main, asked,            \* the main thread; the hash get_active_app loaded
  crowded                 \* history: a window found no slot

world  == <<open, app, active, up, changes>>
link   == <<backend, inbox, queue, eof>>
probe  == <<next, attempt>>
tables == <<target, slots, crowded>>
spoken == <<say, name, hash>>
reader == <<main, asked>>
vars   == <<world, link, pc, probe, tables, spoken, stop, wake, reader>>

AppOf(w) == IF w = NoWindow THEN NoApp ELSE app[w]

(* Messages: hypr and kwin send an app, x11 that something changed, Plasma  *)
(* what happened to which window.                                           *)
Says(a)      == [kind |-> "says", win |-> NoWindow, app |-> a, on |-> FALSE]
Changed      == [kind |-> "changed", win |-> NoWindow, app |-> NoApp, on |-> FALSE]
Mapped(w)    == [kind |-> "window", win |-> w, app |-> NoApp, on |-> FALSE]
AppId(w, a)  == [kind |-> "app_id", win |-> w, app |-> a, on |-> FALSE]
State(w, on) == [kind |-> "state", win |-> w, app |-> NoApp, on |-> on]
Unmapped(w)  == [kind |-> "unmapped", win |-> w, app |-> NoApp, on |-> FALSE]

(* Slips: forms the definitions below could take by mistake, kept to show   *)
(* that each property fails when the code goes wrong.                       *)
Sleeps_early             == TRUE
Republishes_never(s)     == FALSE
Freed_inactive(s)        == [slots EXCEPT ![s].active = FALSE, ![s].app = NoApp]
Woken_not                == wake
LastAttempt_offByOne     == attempt > Attempts

-----------------------------------------------------------------------------
Init ==
  /\ open \in SUBSET Windows
  /\ app = [w \in Windows |-> IF w \in open THEN AppAtStart[w] ELSE NoApp]
  /\ active \in open \cup {NoWindow}
  /\ up \in {{}} \cup {{b} : b \in Offered} /\ changes = 0
  /\ backend = NoLink /\ inbox = <<>> /\ queue = <<>> /\ eof = FALSE
  /\ pc = "probe" /\ next = 1 /\ attempt = 1
  /\ target = NoWindow /\ slots = [s \in Slots |-> FreeSlot] /\ crowded = FALSE
  /\ say = NoApp /\ name = [app |-> NoApp, n |-> 0] /\ hash = [app |-> NoApp, n |-> 0]
  /\ stop = FALSE /\ wake = FALSE
  /\ main = "running" /\ asked = Nothing

-----------------------------------------------------------------------------
(* The windows and the compositor.                                          *)

Sent(messages) ==
  inbox' = IF backend = NoLink \/ eof THEN inbox ELSE inbox \o messages

(* Changes before the thread follows a backend are among the initial states,*)
(* and once it has ended nobody looks any more.                             *)
Followed == backend # NoLink /\ pc # "ended"

Change ==
  /\ changes < MaxChanges /\ Followed
  /\ changes' = changes + 1
  /\ UNCHANGED <<backend, queue, eof, pc, probe, tables, spoken, stop, wake, reader>>

(* What is sent when the focus goes from active to w.                       *)
FocusNews(w) ==
  CASE backend = "hypr" -> <<Says(AppOf(w))>>
    [] backend = "kwin" -> IF w = NoWindow THEN <<>> ELSE <<Says(AppOf(w))>>
    [] backend = "wayland" -> (IF active = NoWindow THEN <<>> ELSE <<State(active, FALSE)>>)
                                \o (IF w = NoWindow THEN <<>> ELSE <<State(w, TRUE)>>)
    [] backend = "x11" -> <<Changed>>
    [] OTHER -> <<>>

Focus(w) ==
  /\ Change
  /\ w \in open \cup {NoWindow} /\ w # active
  /\ active' = w
  /\ Sent(FocusNews(w))
  /\ UNCHANGED <<open, app, up>>

Map(w, a) ==
  /\ Change
  /\ w \notin open
  /\ open' = open \cup {w}
  /\ app' = [app EXCEPT ![w] = a]
  /\ Sent(IF backend = "wayland" THEN <<Mapped(w), AppId(w, a)>> ELSE <<>>)
  /\ UNCHANGED <<active, up>>

(* A focused window that closes leaves nothing focused at first.            *)
Unmap(w) ==
  /\ Change
  /\ w \in open
  /\ open' = open \ {w}
  /\ active' = IF active = w THEN NoWindow ELSE active
  /\ Sent(IF backend = "wayland" THEN <<Unmapped(w)>>
          ELSE IF active = w THEN FocusNews(NoWindow) ELSE <<>>)
  /\ app' = [app EXCEPT ![w] = NoApp]
  /\ UNCHANGED up

(* Plasma learns the proper app id only after the window is there.          *)
Rename(w, a) ==
  /\ Change
  /\ backend = "wayland" /\ w \in open /\ app[w] # a
  /\ app' = [app EXCEPT ![w] = a]
  /\ Sent(<<AppId(w, a)>>)
  /\ UNCHANGED <<open, active, up>>

Appear(b) ==
  /\ b \in Offered \ up /\ backend = NoLink
  /\ up' = up \cup {b}
  /\ UNCHANGED <<open, app, active, changes, link, pc, probe, tables, spoken, stop, wake, reader>>

(* The compositor (for kwin: the session bus) goes away.                    *)
Vanish(b) ==
  /\ changes < MaxChanges /\ Followed /\ b = backend /\ b \in up
  /\ changes' = changes + 1
  /\ up' = up \ {b}
  /\ eof' = (eof \/ backend = b)
  /\ UNCHANGED <<open, app, active, backend, inbox, queue, pc, probe, tables, spoken, stop, wake,
                 reader>>

(* The KWin script repeats the active window every two seconds.             *)
Heartbeat ==
  /\ backend = "kwin" /\ ~eof /\ active # NoWindow
  /\ inbox = <<>> /\ queue = <<>>
  /\ Sent(<<Says(app[active])>>)
  /\ UNCHANGED <<world, backend, queue, eof, pc, probe, tables, spoken, stop, wake, reader>>

-----------------------------------------------------------------------------
(* thread_main: try each backend, sleep, try again.                         *)

(* What a backend starts with: Plasma names the windows there are, then says*)
(* what each of them is; the script that kwin_dbus_loop has KWin run reports*)
(* the active one, if it runs at all.                                       *)
Windowlist ==
  LET s == SetToSeq(open)
  IN [i \in DOMAIN s |-> Mapped(s[i])] \o [i \in DOMAIN s |-> AppId(s[i], app[s[i]])]
       \o [i \in DOMAIN s |-> State(s[i], s[i] = active)]

Seeds(b) ==
  CASE b = "wayland" -> {Windowlist}
    [] b = "kwin" /\ active # NoWindow -> {<<>>, <<Says(app[active])>>}
    [] OTHER -> {<<>>}

(* The next backend is there: connect, and start to follow it; no other is  *)
(* looked at from here on.                                                  *)
Connect ==
  /\ pc = "probe" /\ Backends[next] \in up
  /\ ~(next = 1 /\ stop)
  /\ backend' = Backends[next] /\ up' = {Backends[next]}
  /\ eof' = FALSE /\ inbox' = <<>>
  /\ queue' \in Seeds(Backends[next])
  /\ pc' = IF Backends[next] = "x11" THEN "fetch" ELSE "top"
  /\ UNCHANGED <<open, app, active, changes, probe, tables, spoken, stop, wake, reader>>

(* It is not there, or (hypr, kwin, wayland) its loop cannot be set up: go  *)
(* on to the following one.  Only before the first does the thread look at  *)
(* the stop flag.                                                           *)
PassOver ==
  /\ pc = "probe" /\ Backends[next] \notin up
  /\ ~(next = 1 /\ stop)
  /\ IF next = Len(Backends) THEN next' = 1 /\ pc' = "sleep" ELSE next' = next + 1 /\ UNCHANGED pc
  /\ UNCHANGED <<world, link, attempt, tables, spoken, stop, wake, reader>>

(* The X server let the probe in but x11_loop cannot set itself up: its own *)
(* connection fails, or there is no window manager yet that has interned    *)
(* _NET_ACTIVE_WINDOW.  The thread does not try again.                      *)
X11Fails ==
  /\ pc = "probe" /\ Backends[next] = "x11" /\ "x11" \in up
  /\ pc' = "ended"
  /\ UNCHANGED <<world, link, probe, tables, spoken, stop, wake, reader>>

GiveUp ==
  /\ pc = "probe" /\ next = 1 /\ stop
  /\ pc' = "ended"
  /\ UNCHANGED <<world, link, probe, tables, spoken, stop, wake, reader>>

LastAttempt == attempt = Attempts

(* Two seconds of sleep, or less if the pipe has a byte.  After the last    *)
(* attempt the thread means to idle, but its pipe does not block.           *)
Sleep ==
  /\ pc = "sleep"
  /\ wake' = FALSE
  /\ IF (wake /\ stop) \/ LastAttempt
     THEN pc' = "ended" /\ UNCHANGED attempt
     ELSE pc' = "probe" /\ attempt' = attempt + 1
  /\ UNCHANGED <<world, link, next, tables, spoken, stop, reader>>

-----------------------------------------------------------------------------
(* The loops of the four backends.  Each works off what its library holds   *)
(* before it sleeps in select; hypr and kwin do so before they look at the  *)
(* stop flag.                                                               *)

Drained == queue = <<>>

Select ==
  /\ pc = "top" /\ ~stop
  /\ Drained
  /\ pc' = "select"
  /\ UNCHANGED <<world, link, probe, tables, spoken, stop, wake, reader>>

Quit ==
  /\ pc = "top" /\ stop
  /\ queue = <<>> \/ backend \in {"wayland", "x11"}
  /\ pc' = "ended"
  /\ UNCHANGED <<world, link, probe, tables, spoken, stop, wake, reader>>

(* select returns: told to stop, or with something to read, or because the  *)
(* connection ended, which is noticed once everything is read.              *)
Selected ==
  /\ pc = "select"
  /\ inbox # <<>> \/ wake \/ eof
  /\ wake' = FALSE
  /\ IF wake /\ stop THEN pc' = "ended" /\ UNCHANGED <<inbox, queue>>
     ELSE /\ queue' = queue \o inbox /\ inbox' = <<>>
          /\ pc' = IF inbox = <<>> /\ eof THEN "ended" ELSE "top"
  /\ UNCHANGED <<world, backend, eof, probe, tables, spoken, stop, reader>>

(* hypr_loop and kwin_on_activated: publish what a message says.            *)
HandleSaid ==
  /\ pc = "top" /\ backend \in {"hypr", "kwin"} /\ queue # <<>>
  /\ say' = Head(queue).app
  /\ queue' = Tail(queue)
  /\ pc' = "name"
  /\ UNCHANGED <<world, backend, inbox, eof, probe, tables, name, hash, stop, wake, reader>>

(* x11_publish_active: ask for the focused window, then for its class.      *)
(* Messages that come in meanwhile end up in the library's queue.           *)
HandleChanged ==
  /\ pc = "top" /\ backend = "x11" /\ queue # <<>>
  /\ queue' = <<>>
  /\ pc' = "fetch"
  /\ UNCHANGED <<world, backend, inbox, eof, probe, tables, spoken, stop, wake, reader>>

Fetch ==
  /\ pc = "fetch"
  /\ queue' = queue \o inbox /\ inbox' = <<>>
  /\ IF eof THEN pc' = "top" /\ UNCHANGED <<target, say>>
     ELSE /\ target' = active
          /\ pc' = IF active = NoWindow THEN "name" ELSE "class"
          /\ say' = IF active = NoWindow THEN NoApp ELSE say
  /\ UNCHANGED <<world, backend, eof, probe, slots, crowded, name, hash, stop, wake, reader>>

FetchClass ==
  /\ pc = "class"
  /\ queue' = queue \o inbox /\ inbox' = <<>>
  /\ say' = IF eof \/ target \notin open THEN NoApp ELSE app[target]
  /\ pc' = "name"
  /\ UNCHANGED <<world, backend, eof, probe, tables, name, hash, stop, wake, reader>>

(* The Plasma callbacks.                                                    *)
SlotOf(w) == {s \in Slots : slots[s].win = w}
FreeSlots == {s \in Slots : slots[s].win = NoWindow}
FirstFree == CHOOSE s \in FreeSlots : \A t \in FreeSlots : s <= t

Handling(kind) ==
  /\ pc = "top" /\ backend = "wayland" /\ queue # <<>>
  /\ Head(queue).kind = kind
  /\ queue' = Tail(queue)
  /\ UNCHANGED <<world, backend, inbox, eof, probe, target, name, hash, stop, wake, reader>>

plw_register_window ==
  /\ Handling("window")
  /\ crowded' = (crowded \/ FreeSlots = {})
  /\ slots' = IF FreeSlots = {} THEN slots
              ELSE [slots EXCEPT ![FirstFree] = [FreeSlot EXCEPT !.win = Head(queue).win]]
  /\ UNCHANGED <<pc, say>>

(* A message about a window without a slot reaches no callback.             *)
Orphan ==
  /\ \E kind \in {"app_id", "state", "unmapped"} : Handling(kind)
  /\ SlotOf(Head(queue).win) = {}
  /\ UNCHANGED <<pc, slots, crowded, say>>

(* The focused window's app id is published again when it changes.          *)
Republishes(s) == slots[s].active

plw_app_id_changed(s) ==
  /\ Handling("app_id")
  /\ slots[s].win = Head(queue).win
  /\ slots' = [slots EXCEPT ![s].app = Head(queue).app]
  /\ IF Republishes(s) THEN say' = Head(queue).app /\ pc' = "name" ELSE UNCHANGED <<say, pc>>
  /\ UNCHANGED crowded

plw_state_changed(s) ==
  /\ Handling("state")
  /\ slots[s].win = Head(queue).win
  /\ slots' = [slots EXCEPT ![s].active = Head(queue).on]
  /\ IF Head(queue).on /\ ~slots[s].active
     THEN say' = slots[s].app /\ pc' = "name" ELSE UNCHANGED <<say, pc>>
  /\ UNCHANGED crowded

Freed(s) == [slots EXCEPT ![s] = FreeSlot]

plw_unmapped(s) ==
  /\ Handling("unmapped")
  /\ slots[s].win = Head(queue).win
  /\ slots' = Freed(s)
  /\ UNCHANGED <<pc, say, crowded>>

(* publish_and_log: the name under the mutex, then the hash.                *)
Publication == [app |-> say, n |-> IF say = name.app THEN name.n ELSE name.n + 1]
WriteFirst_hash == hash' = Publication /\ UNCHANGED name    \* a slip
WriteFirst == name' = Publication /\ UNCHANGED hash

PublishName ==
  /\ pc = "name"
  /\ WriteFirst
  /\ pc' = "hash"
  /\ UNCHANGED <<world, link, probe, tables, say, stop, wake, reader>>

PublishHash ==
  /\ pc = "hash"
  /\ LET p == Publication IN hash' = p /\ name' = p
  /\ pc' = "top"
  /\ UNCHANGED <<world, link, probe, tables, say, stop, wake, reader>>

-----------------------------------------------------------------------------
(* The main thread: get_active_app loads the hash, then copies the name;    *)
(* at the end it stops the listener and joins it.                           *)
LoadHash ==
  /\ main = "running" /\ asked = Nothing
  /\ asked' = <<hash>>
  /\ UNCHANGED <<world, link, pc, probe, tables, spoken, stop, wake, main>>

CopyName ==
  /\ asked # Nothing
  /\ asked' = Nothing
  /\ UNCHANGED <<world, link, pc, probe, tables, spoken, stop, wake, main>>

Stop ==
  /\ main = "running" /\ asked = Nothing
  /\ main' = "stopping"
  /\ stop' = TRUE
  /\ UNCHANGED <<world, link, pc, probe, tables, spoken, wake, asked>>

Woken == TRUE

Wake ==
  /\ main = "stopping"
  /\ main' = "joining"
  /\ wake' = Woken
  /\ UNCHANGED <<world, link, pc, probe, tables, spoken, stop, asked>>

Join ==
  /\ main = "joining" /\ pc = "ended"
  /\ main' = "joined"
  /\ UNCHANGED <<world, link, pc, probe, tables, spoken, stop, wake, asked>>

Thread ==
  \/ Connect \/ PassOver \/ X11Fails \/ GiveUp \/ Sleep
  \/ Select \/ Quit \/ Selected
  \/ HandleSaid \/ HandleChanged \/ Fetch \/ FetchClass
  \/ plw_register_window \/ Orphan
  \/ \E s \in Slots : plw_app_id_changed(s) \/ plw_state_changed(s) \/ plw_unmapped(s)
  \/ PublishName \/ PublishHash

World ==
  \/ \E w \in Windows \cup {NoWindow} : Focus(w)
  \/ \E w \in Windows, a \in Apps : Map(w, a) \/ Rename(w, a)
  \/ \E w \in Windows : Unmap(w)
  \/ \E b \in Offered : Appear(b) \/ Vanish(b)

Main == LoadHash \/ CopyName \/ Stop \/ Wake \/ Join

Next == World \/ Heartbeat \/ Thread \/ Main

Spec == Init /\ [][Next]_vars

(* The thread runs, KWin's timer fires, and a stop once begun is carried    *)
(* through.  The compositor answers every round trip.                       *)
FairSpec == Spec /\ WF_vars(Thread) /\ WF_vars(Heartbeat) /\ WF_vars(Wake) /\ WF_vars(Join)

-----------------------------------------------------------------------------
TypeOK ==
  /\ open \subseteq Windows /\ app \in [Windows -> Apps \cup {NoApp}]
  /\ active \in open \cup {NoWindow}
  /\ up \subseteq Offered /\ backend \in Offered \cup {NoLink}
  /\ pc \in {"probe", "sleep", "top", "select", "fetch", "class", "name", "hash", "ended"}
  /\ next \in DOMAIN Backends /\ attempt \in 1 .. Attempts
  /\ target \in Windows \cup {NoWindow}
  /\ slots \in [Slots -> [win : Windows \cup {NoWindow}, active : BOOLEAN,
                          app : Apps \cup {NoApp}]]
  /\ say \in Apps \cup {NoApp}
  /\ stop \in BOOLEAN /\ wake \in BOOLEAN /\ eof \in BOOLEAN
  /\ main \in {"running", "stopping", "joining", "joined"}

(* The thread sleeps in select and nothing it could wake for is there.      *)
Asleep == pc = "select" /\ inbox = <<>> /\ ~wake /\ ~eof

(* While it sleeps, the hash is that of the focused window's app: no news   *)
(* are left unread in a library's queue, no event overtaken by another.     *)
(* With x11 and hypr this includes that nothing is focused; the two KDE     *)
(* backends then keep the last app.  hypr and kwin know nothing before the  *)
(* first message, Plasma nothing of windows it had no slot for.             *)
X11Follows    == backend = "x11" => hash.app = AppOf(active)
HyprFollows   == backend = "hypr" /\ hash.n > 0 => hash.app = AppOf(active)
KWinFollows   == backend = "kwin" /\ hash.n > 0 /\ active # NoWindow => hash.app = AppOf(active)
PlasmaFollows == backend = "wayland" /\ ~crowded /\ active # NoWindow => hash.app = AppOf(active)

HashIsFocus == Asleep => X11Follows /\ HyprFollows /\ KWinFollows /\ PlasmaFollows

(* Plasma's slots, all messages read, hold the windows there are, each once:*)
(* none leaks when windows come and go.                                     *)
SlotsAreWindows ==
  /\ \A s, t \in Slots : slots[s].win = slots[t].win /\ slots[s].win # NoWindow => s = t
  /\ Asleep /\ backend = "wayland" =>
       LET held == {slots[s].win : s \in Slots} \ {NoWindow}
       IN IF crowded THEN held \subseteq open ELSE held = open

(* get_active_app may answer with the name of a later focus than the hash's,*)
(* never with the name of an earlier one: the hash that picks the rule was  *)
(* published together with the reported name or before it.                  *)
NameNotOlder == [][asked # Nothing /\ asked' = Nothing => asked[1].n <= name.n]_asked

(* A focus change reaches the hash as soon as the user lets go of the       *)
(* focus, also one reported while the thread was busy or before it was      *)
(* connected.  hypr learns of it only if it comes after.                    *)
Behind ==
  /\ active # NoWindow /\ hash.app # AppOf(active)
  /\ backend \in {"kwin", "x11", "wayland"} /\ ~eof /\ ~crowded

FocusArrives == Behind ~> (~Behind \/ stop)

(* stop() always gets to join the thread, whichever loop it is in.          *)
StopJoins == stop ~> (main = "joined")

(* listener.hpp: "0 means no specific app focused / unknown / detector      *)
(* unavailable": once the detector ended, the hash says so.                 *)
EndedMeansUnknown == [][pc' = "ended" /\ ~stop => hash'.app = NoApp]_vars
=============================================================================
