------------------------------- MODULE Daemon -------------------------------
(***************************************************************************)
(* The daemon's event loop (core/event_loop.cpp) with everything its main  *)
(* thread serves besides the wheel: signals, the IPC server and its        *)
(* commands (ipc/server.cpp, ipc/dispatch.cpp), and the deferred reload of *)
(* main.cpp.  Around it: the clients at the other end of the Unix socket,  *)
(* and the programs that write the two configuration files.                *)
(*                                                                         *)
(* The loop is modelled system call by system call where something else    *)
(* can happen between: a signal after a flag was tested, a connection      *)
(* while a batch of ready descriptors is being worked off.                 *)
(***************************************************************************)
EXTENDS Integers, Sequences, FiniteSets

CONSTANTS
  Conns,        \* connections that may exist at a time, with reuse
  MaxClients,   \* max_clients
  MaxEvents,    \* max_epoll_events: descriptors one epoll_wait reports
  RecvBuf,      \* client_recv_buf, in pieces of a line
  MaxWire,      \* pieces a client may have under way
  MaxConfig, MaxRules,   \* bounds on the versions of the two files
  Signals,      \* which of "TERM", "HUP" may be sent to the daemon
  MouseEvents,  \* what may happen to the mouse: "moved", "gone"
  Commands      \* commands clients send, of "get", "reload", "quit"

NoFd   == 0
NoCmd  == "none"
Part   == "part"       \* a piece of a line, its newline still to come
NoFiles == [config |-> 0, rules |-> 0]
Listen == "listener"
Device == "device"

(* "get" stands for every command answered on the spot from what is live:   *)
(* ping, get_settings, list_*, get_active_app, and the two error replies.   *)
Pieces   == {Part} \cup Commands
Slots    == 1 .. MaxClients
Fds      == 1 .. Cardinality(Conns)

ASSUME DaemonAssumption ==
  /\ IsFiniteSet(Conns) /\ {Listen, Device} \cap Conns = {}
  /\ MaxClients \in Nat \ {0} /\ RecvBuf \in Nat \ {0} /\ MaxWire \in Nat \ {0}
  /\ MaxEvents \in Nat \ {0}
  /\ MaxConfig \in Nat /\ MaxRules \in Nat \ {0}
  /\ Commands \subseteq {"get", "reload", "quit"}
  /\ Signals \subseteq {"TERM", "HUP"} /\ MouseEvents \subseteq {"moved", "gone"}

VARIABLES
  pc,          \* where run_loop is
  batch,       \* descriptors epoll_wait reported, still to be served
  cur, chunk,  \* the connection being read, what of its bytes is left to do
  stop, reload,        \* g_stop, g_reload
  pending,     \* DispatchCtx::reload_pending_fd
  slots,       \* IpcServer::clients: [fd, recv_len] per slot
  conn,        \* both ends of every connection
  backlog,     \* connections the listener has not accepted
  mouse,       \* "quiet", "moved" (events to read) or "gone"
  disk, live,  \* versions of config.json and app_rules.txt: on disk, in use
  torn         \* config.json is missing, or truncated and not yet rewritten

loop  == <<pc, batch, cur, chunk>>
flags == <<stop, reload>>
files == <<disk, live, torn>>
vars  == <<pc, batch, cur, chunk, stop, reload, pending, slots, conn, backlog, mouse, disk, live,
           torn>>

FreeSlot == [fd |-> NoFd, recv_len |-> 0]

(* One connection.  state: idle, queued, open (accepted), shut (the daemon  *)
(* closed its end); hung: the client closed its own.  wire: pieces sent and *)
(* not yet read.  cmd: the command the client waits on, and since: the      *)
(* files' versions when it sent it.  reply: what came back, and seen: the   *)
(* versions in use when the daemon wrote it.                                *)
Idle ==
  [state |-> "idle", fd |-> NoFd, hung |-> FALSE, wire |-> <<>>, cmd |-> NoCmd,
   since |-> NoFiles, reply |-> NoCmd, seen |-> NoFiles]

-----------------------------------------------------------------------------
Open(c)      == conn[c].state = "open"
OwnerOf(fd)  == {c \in Conns : Open(c) /\ conn[c].fd = fd}
SlotOf(c)    == CHOOSE s \in Slots : slots[s].fd = conn[c].fd
FreeSlots    == {s \in Slots : slots[s].fd = NoFd}
FirstFree    == CHOOSE s \in FreeSlots : \A t \in FreeSlots : s <= t

(* The kernel hands out the lowest descriptor that is not in use.           *)
NewFd == CHOOSE fd \in Fds : OwnerOf(fd) = {} /\ \A g \in Fds : g < fd => OwnerOf(g) # {}

(* What the descriptor of an open connection would give a reader.           *)
Readable(c) == Open(c) /\ (conn[c].wire # <<>> \/ conn[c].hung)

Ready ==
  {c \in Conns : Readable(c)}
    \cup (IF backlog # <<>> THEN {Listen} ELSE {})
    \cup (IF mouse # "quiet" THEN {Device} ELSE {})

(* epoll_wait reports what its array has room for; the rest stays ready.    *)
Batches ==
  IF Cardinality(Ready) <= MaxEvents THEN {Ready}
  ELSE {b \in SUBSET Ready : Cardinality(b) = MaxEvents}

(* write_line and the write of the ack: the reply reaches the client unless *)
(* it hung up.                                                              *)
Answered(c, reply, versions) ==
  IF conn[c].hung THEN conn
  ELSE [conn EXCEPT ![c].reply = reply, ![c].seen = versions]

(* The connection c after the daemon closed its end.                        *)
Closed(c) ==
  IF conn[c].hung THEN Idle ELSE [conn[c] EXCEPT !.state = "shut", !.fd = NoFd, !.wire = <<>>]

(* Slips: forms the definitions below could take by mistake, kept to show   *)
(* that each property fails when the code goes wrong.                       *)
close_client_keepsSlot(c) == conn' = [conn EXCEPT ![c] = Closed(c)] /\ UNCHANGED slots
close_client_ignored(c)   == UNCHANGED <<slots, conn>>
Room_whole(c)             == RecvBuf
Loaded_rulesOnly          == [config |-> live.config, rules |-> disk.rules]
Acked_onlyDone(verdict)   == IF verdict # "done" \/ OwnerOf(pending) = {} THEN conn
                             ELSE Answered(CHOOSE c \in OwnerOf(pending) : TRUE, verdict, live)
handle_quit_silent        == stop' = TRUE /\ UNCHANGED conn
Stopping_afterReload      == stop /\ ~reload

(* close_client                                                             *)
close_client(c) ==
  /\ slots' = [slots EXCEPT ![SlotOf(c)] = FreeSlot]
  /\ conn' = [conn EXCEPT ![c] = Closed(c)]

-----------------------------------------------------------------------------
Init ==
  /\ pc = "test" /\ batch = {} /\ cur = Listen /\ chunk = <<>>
  /\ stop = FALSE /\ reload = FALSE
  /\ pending = NoFd
  /\ slots = [s \in Slots |-> FreeSlot]
  /\ conn = [c \in Conns |-> Idle]
  /\ backlog = <<>>
  /\ mouse = "quiet"
  /\ torn \in BOOLEAN
  /\ disk = [config |-> IF torn THEN 0 ELSE 1, rules |-> 1]
  /\ live = disk

(* The clients.                                                             *)

Connect(c) ==
  /\ pc # "gone"
  /\ conn[c].state = "idle"
  /\ conn' = [conn EXCEPT ![c].state = "queued"]
  /\ backlog' = Append(backlog, c)
  /\ UNCHANGED <<loop, flags, pending, slots, mouse, files>>

Saying(k, piece) ==
  IF piece \in Commands
  THEN [k EXCEPT !.wire = Append(@, piece), !.cmd = piece, !.since = disk]
  ELSE [k EXCEPT !.wire = Append(@, piece)]

(* A client sends the next piece of a line.  Once it sent a command it      *)
(* sends nothing until it is answered, as ipc_bridge.rs does and            *)
(* protocol.hpp asks.                                                       *)
Send(c, piece) ==
  /\ conn[c].state \in {"queued", "open"} /\ ~conn[c].hung
  /\ Len(conn[c].wire) < MaxWire
  /\ conn[c].cmd = NoCmd
  /\ conn' = [conn EXCEPT ![c] = Saying(@, piece)]
  /\ UNCHANGED <<loop, flags, pending, slots, backlog, mouse, files>>

Forgetful(k) == [k EXCEPT !.cmd = NoCmd, !.since = NoFiles, !.reply = NoCmd, !.seen = NoFiles]

Receive(c) ==
  /\ conn[c].reply # NoCmd
  /\ conn' = [conn EXCEPT ![c] = Forgetful(@)]
  /\ UNCHANGED <<loop, flags, pending, slots, backlog, mouse, files>>

(* The client is done, gave up waiting (ipc_bridge.rs after 500 ms), or     *)
(* died.  Once both ends are closed the connection may be used again.       *)
HangUp(c) ==
  /\ conn[c].state # "idle" /\ ~conn[c].hung
  /\ conn' = [conn EXCEPT ![c] =
       IF @.state = "shut" THEN Idle ELSE [Forgetful(@) EXCEPT !.hung = TRUE]]
  /\ UNCHANGED <<loop, flags, pending, slots, backlog, mouse, files>>

(* write_config truncates config.json, then fills it; write_app_rules       *)
(* renames a complete file into place.                                      *)
Truncate ==
  /\ ~torn /\ disk.config < MaxConfig
  /\ torn' = TRUE
  /\ UNCHANGED <<loop, flags, pending, slots, conn, backlog, mouse, disk, live>>

Fill ==
  /\ torn
  /\ torn' = FALSE
  /\ disk' = [disk EXCEPT !.config = @ + 1]
  /\ UNCHANGED <<loop, flags, pending, slots, conn, backlog, mouse, live>>

RenameRules ==
  /\ disk.rules < MaxRules
  /\ disk' = [disk EXCEPT !.rules = @ + 1]
  /\ UNCHANGED <<loop, flags, pending, slots, conn, backlog, mouse, live, torn>>

(* The mouse moves, or is unplugged.                                        *)
Mouse(now) ==
  /\ mouse = "quiet"
  /\ mouse' = now
  /\ UNCHANGED <<loop, flags, pending, slots, conn, backlog, files>>

-----------------------------------------------------------------------------
(* A signal sets its flag, and ends epoll_wait with EINTR if the loop is    *)
(* blocked in it.                                                           *)
Interrupted == IF pc = "wait" THEN "test" ELSE pc

SigTerm ==
  /\ "TERM" \in Signals /\ ~stop /\ pc # "gone"
  /\ stop' = TRUE
  /\ pc' = Interrupted
  /\ UNCHANGED <<batch, cur, chunk, reload, pending, slots, conn, backlog, mouse, files>>

SigHup ==
  /\ "HUP" \in Signals /\ ~reload /\ pc # "gone"
  /\ reload' = TRUE
  /\ pc' = Interrupted
  /\ UNCHANGED <<batch, cur, chunk, stop, pending, slots, conn, backlog, mouse, files>>

-----------------------------------------------------------------------------
(* run_loop.                                                                *)

(* load_settings commits a file it can parse and otherwise keeps what it    *)
(* has; load_rules takes what there is.                                     *)
Loaded == [config |-> IF torn THEN live.config ELSE disk.config, rules |-> disk.rules]

(* send_reload_ack writes to whoever owns the remembered descriptor now.    *)
Acked(verdict) ==
  IF OwnerOf(pending) = {} THEN conn
  ELSE Answered(CHOOSE c \in OwnerOf(pending) : TRUE, verdict, Loaded)

(* A slip: the descriptor is still remembered after the ack.                *)
on_reload_keepsFd ==
  /\ live' = Loaded
  /\ conn' = Acked(IF torn THEN "failed" ELSE "done")
  /\ UNCHANGED pending

(* on_reload, which also starts the gesture over (ScrollState!Reload).      *)
on_reload ==
  /\ live' = Loaded
  /\ conn' = Acked(IF torn THEN "failed" ELSE "done")
  /\ pending' = NoFd

(* The top of the loop: leave, or reload if asked to, and go on to block.   *)
Stopping == stop

TestFlags ==
  /\ pc = "test"
  /\ \/ Stopping /\ pc' = "leave" /\ UNCHANGED <<reload, live, conn, pending>>
     \/ /\ ~Stopping
        /\ pc' = "enter"
        /\ reload' = FALSE
        /\ IF reload THEN on_reload ELSE UNCHANGED <<live, conn, pending>>
  /\ UNCHANGED <<batch, cur, chunk, stop, slots, backlog, mouse, disk, torn>>

(* Only from here on does a signal end the wait.                            *)
EnterWait ==
  /\ pc = "enter"
  /\ pc' = "wait"
  /\ UNCHANGED <<batch, cur, chunk, flags, pending, slots, conn, backlog, mouse, files>>

EpollWait ==
  /\ pc = "wait" /\ Ready # {}
  /\ batch' \in Batches
  /\ pc' = "batch"
  /\ UNCHANGED <<cur, chunk, flags, pending, slots, conn, backlog, mouse, files>>

EndBatch ==
  /\ pc = "batch" /\ batch = {}
  /\ pc' = "test"
  /\ UNCHANGED <<batch, cur, chunk, flags, pending, slots, conn, backlog, mouse, files>>

(* Drain the mouse.  If it is gone: out of the loop, whatever else is ready.*)
ServeDevice ==
  /\ pc = "batch" /\ Device \in batch
  /\ IF mouse = "gone"
     THEN batch' = {} /\ stop' = TRUE /\ UNCHANGED mouse
     ELSE batch' = batch \ {Device} /\ mouse' = "quiet" /\ UNCHANGED stop
  /\ UNCHANGED <<pc, cur, chunk, reload, pending, slots, conn, backlog, files>>

(* on_accept takes connections until there is none left, one per step.      *)
ServeListener ==
  /\ pc = "batch" /\ Listen \in batch
  /\ batch' = batch \ {Listen}
  /\ pc' = "accept"
  /\ UNCHANGED <<cur, chunk, flags, pending, slots, conn, backlog, mouse, files>>

Accept ==
  /\ pc = "accept" /\ backlog # <<>>
  /\ backlog' = Tail(backlog)
  /\ LET c == Head(backlog) IN
     IF FreeSlots = {}
     THEN conn' = [conn EXCEPT ![c] = Closed(c)] /\ UNCHANGED slots
     ELSE /\ conn' = [conn EXCEPT ![c].state = "open", ![c].fd = NewFd]
          /\ slots' = [slots EXCEPT ![FirstFree] = [fd |-> NewFd, recv_len |-> 0]]
  /\ UNCHANGED <<loop, flags, pending, mouse, files>>

EndAccept ==
  /\ pc = "accept" /\ backlog = <<>>
  /\ pc' = "batch"
  /\ UNCHANGED <<batch, cur, chunk, flags, pending, slots, conn, backlog, mouse, files>>

(* on_client_readable_fd: one read into what is left of the buffer.         *)
Room(c) == RecvBuf - slots[SlotOf(c)].recv_len
Fits(c) == IF Room(c) < Len(conn[c].wire) THEN Room(c) ELSE Len(conn[c].wire)

ServeClient(c) ==
  /\ pc = "batch" /\ c \in batch
  /\ batch' = batch \ {c}
  /\ IF Room(c) = 0 \/ conn[c].wire = <<>>
     THEN close_client(c) /\ UNCHANGED <<pc, cur, chunk>>
     ELSE /\ pc' = "lines" /\ cur' = c
          /\ chunk' = SubSeq(conn[c].wire, 1, Fits(c))
          /\ conn' = [conn EXCEPT ![c].wire = SubSeq(@, Fits(c) + 1, Len(@))]
          /\ UNCHANGED slots
  /\ UNCHANGED <<flags, pending, backlog, mouse, files>>

(* handle_reload leaves the answer to the loop; quit does not.              *)
handle_reload == reload' = TRUE /\ pending' = conn[cur].fd
handle_quit   == stop' = TRUE /\ conn' = Answered(cur, "done", live)

(* The next piece of what was read: kept if its line is not complete,       *)
(* otherwise dispatched (dispatch_with_fd).                                 *)
Piece ==
  /\ pc = "lines" /\ chunk # <<>>
  /\ chunk' = Tail(chunk)
  /\ slots' = [slots EXCEPT ![SlotOf(cur)].recv_len = IF Head(chunk) = Part THEN @ + 1 ELSE 0]
  /\ CASE Head(chunk) = "get" -> conn' = Answered(cur, "done", live) /\ UNCHANGED <<flags, pending>>
       [] Head(chunk) = "quit" -> handle_quit /\ UNCHANGED <<reload, pending>>
       [] Head(chunk) = "reload" -> handle_reload /\ UNCHANGED <<stop, conn>>
       [] OTHER -> UNCHANGED <<flags, pending, conn>>
  /\ UNCHANGED <<pc, batch, cur, backlog, mouse, files>>

EndLines ==
  /\ pc = "lines" /\ chunk = <<>>
  /\ pc' = "batch"
  /\ cur' = Listen
  /\ UNCHANGED <<batch, chunk, flags, pending, slots, conn, backlog, mouse, files>>

(* Out of the loop: shutdown_server closes every connection and the         *)
(* listener, whose backlog the kernel then drops.                           *)
Leave ==
  /\ pc = "leave"
  /\ pc' = "gone"
  /\ slots' = [s \in Slots |-> FreeSlot]
  /\ conn' = [c \in Conns |->
       IF conn[c].state = "idle" THEN Idle ELSE Closed(c)]
  /\ backlog' = <<>>
  /\ UNCHANGED <<batch, cur, chunk, flags, pending, mouse, files>>

Clients ==
  \/ \E c \in Conns : Connect(c) \/ Receive(c) \/ HangUp(c)
  \/ \E c \in Conns, piece \in Pieces : Send(c, piece)

Loop ==
  \/ TestFlags \/ EnterWait \/ EpollWait \/ EndBatch
  \/ ServeDevice \/ ServeListener \/ Accept \/ EndAccept
  \/ \E c \in Conns : ServeClient(c)
  \/ Piece \/ EndLines \/ Leave

Next ==
  \/ Clients
  \/ Truncate \/ Fill \/ RenameRules
  \/ \E now \in MouseEvents : Mouse(now)
  \/ SigTerm \/ SigHup
  \/ Loop

Spec == Init /\ [][Next]_vars

(* The daemon's thread keeps running.  Nothing is assumed of the clients,   *)
(* the mouse or the files, and of the signals only that they do not cut     *)
(* every single epoll_wait short.                                           *)
FairSpec == Spec /\ WF_vars(Loop) /\ SF_vars(EpollWait)

-----------------------------------------------------------------------------

Versions    == [config : Nat, rules : Nat]
Connections ==
  [state : {"idle", "queued", "open", "shut"}, fd : Fds \cup {NoFd}, hung : BOOLEAN,
   wire : Seq(Pieces), cmd : Commands \cup {NoCmd}, since : Versions,
   reply : {NoCmd, "done", "failed"}, seen : Versions]

TypeOK ==
  /\ pc \in {"test", "enter", "wait", "batch", "accept", "lines", "leave", "gone"}
  /\ batch \subseteq Conns \cup {Listen, Device}
  /\ cur \in Conns \cup {Listen} /\ chunk \in Seq(Pieces)
  /\ stop \in BOOLEAN /\ reload \in BOOLEAN /\ torn \in BOOLEAN
  /\ pending \in Fds \cup {NoFd}
  /\ slots \in [Slots -> [fd : Fds \cup {NoFd}, recv_len : 0 .. RecvBuf]]
  /\ conn \in [Conns -> Connections]
  /\ backlog \in Seq(Conns)
  /\ disk \in Versions /\ live \in Versions
  /\ mouse \in {"quiet", "moved", "gone"}

(* The slots hold exactly the descriptors of the accepted connections, each *)
(* once: no slot leaks when clients vanish, and none is shared.             *)
SlotsAreConnections ==
  /\ {slots[s].fd : s \in Slots \ FreeSlots} = {conn[c].fd : c \in {k \in Conns : Open(k)}}
  /\ \A s, t \in Slots \ FreeSlots : slots[s].fd = slots[t].fd => s = t
  /\ \A c, d \in Conns : Open(c) /\ Open(d) /\ conn[c].fd = conn[d].fd => c = d

(* Descriptors are reused, so the one remembered for the reload ack must    *)
(* still be the requester's when the ack goes out: it belongs to an open    *)
(* connection whose client waits for a reload, or hung up since.  And the   *)
(* reload it waits for is still to come: its flag is up.                    *)
AckGoesToRequester ==
  pending # NoFd /\ pc # "gone" =>
    /\ reload
    /\ \E c \in OwnerOf(pending) : conn[c].hung \/ (conn[c].cmd = "reload" /\ conn[c].reply = NoCmd)

(* A client that is told its reload is done runs on what it had written     *)
(* before it asked, or on something newer.                                  *)
DoneMeansLive ==
  \A c \in Conns : conn[c].cmd = "reload" /\ conn[c].reply = "done" =>
    /\ conn[c].seen.config >= conn[c].since.config
    /\ conn[c].seen.rules >= conn[c].since.rules

(* The command of c is on its way or being worked off.                      *)
InHand(c) ==
  \/ conn[c].cmd \in {conn[c].wire[i] : i \in DOMAIN conn[c].wire}
  \/ cur = c /\ conn[c].cmd \in {chunk[i] : i \in DOMAIN chunk}

(* The daemon read c's command, c still holds the line, and got nothing.    *)
Unanswered(c) ==
  conn[c].cmd # NoCmd /\ conn[c].reply = NoCmd /\ Open(c) /\ ~InHand(c)

(* Every command but reload is answered before the daemon turns to anything *)
(* else, quit included; and a reply never comes without a question.         *)
RepliesMatch ==
  \A c \in Conns : /\ Unanswered(c) => conn[c].cmd = "reload"
                   /\ conn[c].reply # NoCmd => conn[c].cmd # NoCmd

(* What these need of the rest of the state.  Descriptors are held by open  *)
(* connections only, and the loop works on nothing else.                    *)
LoopIsSound ==
  /\ \A c \in Conns : Open(c) <=> conn[c].fd # NoFd
  /\ pc \notin {"batch", "accept", "lines"} => batch = {}
  /\ \A c \in batch \cap Conns : Open(c)
  /\ IF pc = "lines"
     THEN cur \in Conns \ batch /\ Open(cur) /\ Len(chunk) <= Room(cur)
     ELSE cur = Listen /\ chunk = <<>>

(* Each connection is queued once, and those that ended keep nothing.       *)
QueueIsSound ==
  /\ \A i \in DOMAIN backlog : conn[backlog[i]].state = "queued"
  /\ \A i, j \in DOMAIN backlog : backlog[i] = backlog[j] => i = j
  /\ \A c \in Conns : /\ conn[c].state = "idle" => conn[c] = Idle
                      /\ conn[c].state = "shut" => conn[c].wire = <<>> /\ ~conn[c].hung
  /\ pc = "gone" => \A c \in Conns : conn[c].state \in {"idle", "shut"}

(* A command ends what its client has said, on the wire or read.            *)
LastWord(c, pieces) ==
  \A i \in DOMAIN pieces :
    pieces[i] # Part => conn[c].cmd = pieces[i] /\ i = Len(pieces) /\ conn[c].reply = NoCmd

Speech ==
  \A c \in Conns :
    IF conn[c].hung THEN conn[c].cmd = NoCmd /\ conn[c].reply = NoCmd
    ELSE /\ LastWord(c, conn[c].wire)
         /\ cur = c => /\ LastWord(c, chunk)
                       /\ conn[c].wire # <<>> => \A i \in DOMAIN chunk : chunk[i] = Part

QuestionsFirst ==
  /\ \A c \in Conns : /\ conn[c].state = "queued" /\ conn[c].cmd # NoCmd => InHand(c)
                      /\ conn[c].state = "queued" => conn[c].reply = NoCmd
                      /\ conn[c].cmd # NoCmd => /\ conn[c].since.config <= disk.config
                                                /\ conn[c].since.rules <= disk.rules

(* The connection whose reload is to be acknowledged is not read from again *)
(* before it is.                                                            *)
Requester(c) ==
  /\ Open(c) /\ conn[c].fd = pending /\ c \notin batch
  /\ conn[c].hung \/ (conn[c].cmd = "reload" /\ conn[c].reply = NoCmd /\ ~InHand(c))

AckIsDue ==
  pending # NoFd /\ pc # "gone" =>
    reload /\ pc \notin {"enter", "wait"} /\ \E c \in Conns : Requester(c)

IInv ==
  /\ TypeOK /\ SlotsAreConnections /\ LoopIsSound /\ QueueIsSound
  /\ Speech /\ QuestionsFirst /\ RepliesMatch /\ DoneMeansLive
  /\ AckIsDue

(* protocol.hpp: "The client issues one command, the daemon writes exactly  *)
(* one response line."  A client that holds the line gets its answer, unless*)
(* the daemon ends.                                                         *)
OneResponse ==
  \A c \in Conns : Unanswered(c) ~> (~Unanswered(c) \/ pc = "gone")

(* A connection its client abandoned gives its slot back.                   *)
SlotsComeFree ==
  \A c \in Conns : (Open(c) /\ conn[c].hung) ~> ~Open(c)

(* A client told that the daemon is stopping sees it stop (daemon.rs then   *)
(* polls for the socket to close), and so does a daemon whose mouse is gone,*)
(* though a reload may be asked for in the same batch.  A signal ends it    *)
(* too, but only once something is ready: one that lands between the test   *)
(* of the flag and epoll_wait does not keep the loop from blocking.         *)
QuitEnds ==
  /\ \A c \in Conns : (conn[c].cmd = "quit" /\ conn[c].reply = "done") ~> (pc = "gone")
  /\ (mouse = "gone") ~> (pc = "gone")
  /\ (stop /\ Ready # {}) ~> (pc = "gone")
=============================================================================
