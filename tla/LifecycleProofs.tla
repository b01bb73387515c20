--------------------------- MODULE LifecycleProofs --------------------------
(***************************************************************************)
(* Proofs about Lifecycle, for any number of processes, any bound on what  *)
(* happens and any times: it takes a hand or the interface's old command   *)
(* to have two daemons; a daemon that serves can be reached, but for those *)
(* whose socket failed and those of old unit files; the last one leaves no *)
(* socket; and the daemons that kill_daemon reports as killed are going,   *)
(* as long as nothing hinders it.                                          *)
(***************************************************************************)
EXTENDS Lifecycle, TLAPS

(* IInv is proved in two parts, and this is the first: who runs, and whose  *)
(* the socket is, does not depend on whom the interface has told to stop.   *)
Base ==
  /\ TypeOK /\ UnitIsKnown /\ CrowdsAreMade
  /\ SocketIsOwned /\ SocketIsReachable /\ LeftoversGo

LEMMA PathIsClear ==
  /\ NoDir \notin Pids /\ Absent \notin Pids /\ Stale \notin Pids
  /\ NoDir # Absent /\ NoDir # Stale /\ Absent # Stale
  BY LifecycleAssumption DEF NoDir, Absent, Stale

LEMMA Bounds ==
  /\ Retries \in Nat /\ Interval \in Nat /\ RestartSec \in Nat
  /\ LimitInterval \in Nat /\ LimitBurst \in Nat
  BY LifecycleAssumption

LEMMA FreshIsNew ==
  /\ Gone \in Processes /\ Gone.pc = "gone" /\ ~Gone.off /\ ~Gone.failed
  /\ Fresh \in Processes /\ Fresh.pc = "unlink"
<1>1. 0 \in 0 .. Retries /\ 0 \in 0 .. Interval
  BY Bounds
<1>2. Gone \in Processes /\ Gone.pc = "gone" /\ ~Gone.off /\ ~Gone.failed
  BY <1>1 DEF Gone, Processes
<1>3. Fresh \in Processes /\ Fresh.pc = "unlink"
  BY <1>2 DEF Fresh, Processes
<1> QED  BY <1>2, <1>3

(* A new process d has not done anything yet; whether it has access to the  *)
(* socket's path is another matter.                                         *)
New(d) == d \in Processes /\ d.pc = "unlink" /\ ~d.bound /\ ~d.failed

LEMMA NewIs ==
  /\ \A off \in BOOLEAN :
       /\ New([Fresh EXCEPT !.off = off]) /\ [Fresh EXCEPT !.off = off].off = off
       /\ New([Fresh EXCEPT !.foreign = TRUE, !.off = off])
       /\ [Fresh EXCEPT !.foreign = TRUE, !.off = off].foreign
  /\ New(Fresh) /\ ~Fresh.off
<1>1. 0 \in 0 .. Retries /\ 0 \in 0 .. Interval
  BY Bounds
<1> QED  BY <1>1 DEF New, Fresh, Gone, Processes

LEMMA NewIsUnused ==
  ASSUME Unused # {}
  PROVE  NewPid \in Pids /\ NewPid # UnitPid /\ At(NewPid, "gone")
  BY DEF NewPid, Unused, Alive

LEMMA InitBase == Init => Base
<1> SUFFICES ASSUME Init PROVE Base
  OBVIOUS
<1>1. proc \in [Pids -> Processes] /\ \A p \in Pids : proc[p].pc = "gone" /\ ~proc[p].off
  BY FreshIsNew DEF Init
<1>2. Alive = {}
  BY <1>1 DEF Alive, At
<1>3. TypeOK
  <2>1. unit \in Units /\ limiter \in [num : 0 .. LimitBurst, age : 0 .. LimitInterval]
    BY Bounds DEF Init, Units, NoStarts
  <2>2. Closed \in Interfaces /\ [Closed EXCEPT !.pc = "open"] \in Interfaces
    BY DEF Closed, Interfaces
  <2>3. ui \in Interfaces
    BY <2>2 DEF Init
  <2> QED  BY <1>1, <2>1, <2>3 DEF Init, TypeOK, Kinds, Events
<1>4. UnitIsKnown
  BY <1>2 DEF Init, UnitIsKnown, Closed
<1>5. CrowdsAreMade
  BY <1>2 DEF Init, CrowdsAreMade
<1>6. SocketIsOwned /\ SocketIsReachable
  BY <1>1, PathIsClear DEF Init, SocketIsOwned, SocketIsReachable, At, Listening
<1>7. LeftoversGo
  BY PathIsClear DEF Init, LeftoversGo, Closed, Killing
<1> QED  BY <1>3, <1>4, <1>5, <1>6, <1>7 DEF Base

-----------------------------------------------------------------------------
(* The four kinds of steps.  In each, past only grows.                      *)

(* One daemon goes on, and with it what is at the path.                     *)
LEMMA OneMoves ==
  ASSUME Base, NEW p \in Pids, proc'[p] \in Processes, ~At(p, "gone"), proc'[p].pc # "gone",
         proc' = [proc EXCEPT ![p] = proc'[p]], proc[p].stop => proc'[p].stop,
         proc'[p].foreign = proc[p].foreign,
         UNCHANGED <<unit, limiter, mouse>>,
         grab' \in Pids \cup {NoPid}, path' \in {path, p, Absent, Stale},
         happened' \in Nat, past \subseteq past', past' \subseteq Kinds,
         "crowd" \in past' => "crowd" \in past,
         \/ ui' = ui
         \/ ui' = [ui EXCEPT !.pc = "quitpoll", !.ours = (p = UnitPid)] /\ ui.pc \in Killing,
         proc'[p].off => ~proc'[p].bound /\ (proc[p].off \/ "deaf" \in past'),
         proc'[p].pc \in {"unlink", "bind"} => ~proc'[p].bound,
         path' = p => proc'[p].bound /\ ~proc'[p].off /\ proc'[p].pc \in Listening,
         ~proc'[p].off /\ proc'[p].pc = "bind" => path' = Absent,
         ~proc'[p].off /\ proc'[p].pc \in Listening =>
           \/ path' = p \/ ("deaf" \in past' /\ ~proc'[p].bound)
           \/ /\ path' = path /\ proc[p].pc \in Listening
              /\ ~proc[p].off /\ proc'[p].bound = proc[p].bound
           \/ path # Absent /\ At(p, "bind") /\ ~proc[p].off,
         path' = Stale =>
           \/ proc'[p].pc = "remove" /\ ~proc'[p].off
           \/ path = Stale /\ (At(p, "remove") => proc[p].off)
  PROVE  Base'
<1>1. \A q \in Pids : q # p => proc'[q] = proc[q]
  BY DEF Base, TypeOK
<1>2. Alive' = Alive
  BY <1>1 DEF Alive, At
<1>3. TypeOK'
  <2>1. ui' \in Interfaces'
    <3>1. ui \in Interfaces
      BY DEF Base, TypeOK
    <3> QED  BY <1>2, <3>1 DEF Interfaces, Killing
  <2>2. path' \in Pids \cup {NoDir, Absent, Stale}
    BY DEF Base, TypeOK
  <2>3. proc' \in [Pids -> Processes]
    BY DEF Base, TypeOK
  <2> QED  BY <2>1, <2>2, <2>3 DEF Base, TypeOK
<1>4. UnitIsKnown'
  <2>1. ui'.pc = "start" => ui.pc = "start"
    BY DEF Base, TypeOK, Interfaces
  <2>2. proc[UnitPid].stop => proc'[UnitPid].stop
    BY <1>1, LifecycleAssumption
  <2> QED  BY <1>2, <2>1, <2>2 DEF Base, UnitIsKnown
<1>5. CrowdsAreMade'
  BY <1>2 DEF Base, CrowdsAreMade
<1>6. SocketIsOwned'
  BY <1>1, PathIsClear DEF Base, SocketIsOwned
<1>7. SocketIsReachable'
  <2>1. ASSUME NEW q \in Pids, proc'[q].off
        PROVE  At(q, "gone")' = FALSE /\ ~proc'[q].bound
               /\ (Deaf(q)' \/ proc'[q].foreign \/ Outdated(q)')
    <3>1. CASE q = p
      BY <1>1, <2>1, <3>1 DEF Base, SocketIsReachable, Deaf, Outdated, At
    <3>2. CASE q # p
      BY <1>1, <2>1, <3>2 DEF Base, SocketIsReachable, Deaf, Outdated, At
    <3> QED  BY <3>1, <3>2
  <2>2. ASSUME past' \cap {"crowd", "broken"} = {}, NEW q \in Pids, ~proc'[q].off
        PROVE  /\ At(q, "bind")' => path' = Absent
               /\ proc'[q].pc \in Listening => path' = q \/ Deaf(q)'
    <3>1. past \cap {"crowd", "broken"} = {}
      BY <2>2
    <3>2. CASE q = p
      BY <1>1, <2>2, <3>1, <3>2 DEF Base, SocketIsReachable, Deaf, At
    <3>3. CASE q # p
      <4>1. proc'[q].pc = "gone"
        BY <1>1, <3>1, <3>3 DEF Base, CrowdsAreMade, Alive, At
      <4> QED  BY <4>1 DEF At, Listening
    <3> QED  BY <3>2, <3>3
  <2> QED  BY <2>1, <2>2 DEF SocketIsReachable, Deaf, Outdated, At
<1>8. LeftoversGo'
  <2>1. ui'.pc \in Killing => ui.pc \in Killing
    BY DEF Base, TypeOK, Interfaces
  <2> QED  BY <1>1, <2>1 DEF Base, LeftoversGo, At
<1> QED  BY <1>3, <1>4, <1>5, <1>6, <1>7, <1>8 DEF Base

Runs(u) == u.state \in {"active", "stopping", "cycling"}

(* Nobody goes on: what a daemon q may learn meanwhile.                     *)
Stays(q) ==
  /\ proc'[q].pc = proc[q].pc /\ proc'[q].bound = proc[q].bound
  /\ proc'[q].off = proc[q].off /\ proc'[q].foreign = proc[q].foreign
  /\ proc'[q].failed = proc[q].failed
  /\ proc[q].stop => proc'[q].stop

(* What the interface, systemd and the mouse do as long as no daemon goes   *)
(* on.  The unit file gets better; a unit that stops or cycles has told its *)
(* process.                                                                 *)
UnitMoves ==
  /\ Runs(unit') <=> Runs(unit)
  /\ \/ unit'.file = unit.file
     \/ unit'.file = "current"
        /\ (At(UnitPid, "gone") \/ proc'[UnitPid].stop \/ "toggle" \in past')
  /\ \/ unit'.state = unit.state \/ unit'.state \notin {"stopping", "cycling"}
     \/ proc'[UnitPid].stop /\ past' \cap {"healed", "toggle"} # {}

ScreenMoves ==
  \/ ui' = ui
  \/ /\ ui'.pc = "start" => unit'.file = "current"
     /\ ui'.pc \in Killing => "legacy" \in past'

LEMMA NoneMoves ==
  ASSUME Base, TypeOK', \A q \in Pids : Stays(q), UNCHANGED path, UnitMoves, ScreenMoves,
         past \subseteq past', "crowd" \in past' => "crowd" \in past
  PROVE  Base'
<1>1. Alive' = Alive
  BY DEF Alive, At, Stays
<1>2. UnitIsKnown'
  <2>1. Runs(unit') <=> UnitPid \in Alive'
    BY <1>1 DEF Base, UnitIsKnown, UnitMoves, Runs
  <2>2. unit'.file = "broken" => "broken" \in past'
    BY DEF Base, UnitIsKnown, UnitMoves
  <2>3. ui'.pc = "start" => unit'.file = "current"
    BY DEF Base, UnitIsKnown, UnitMoves, ScreenMoves
  <2>4. unit'.state \in {"stopping", "cycling"} =>
          proc'[UnitPid].stop /\ past' \cap {"healed", "toggle"} # {}
    BY LifecycleAssumption DEF Base, UnitIsKnown, UnitMoves, Stays
  <2> QED  BY <2>1, <2>2, <2>3, <2>4 DEF UnitIsKnown, Runs
<1>3. CrowdsAreMade'
  BY <1>1 DEF Base, CrowdsAreMade
<1>4. SocketIsOwned'
  BY DEF Base, SocketIsOwned, Stays
<1>5. SocketIsReachable'
  <2>1. ASSUME NEW q \in Pids, proc'[q].off
        PROVE  At(q, "gone")' = FALSE /\ ~proc'[q].bound
               /\ (Deaf(q)' \/ proc'[q].foreign \/ Outdated(q)')
    BY <2>1 DEF Base, SocketIsReachable, Deaf, Outdated, At, Stays, UnitMoves
  <2>2. ASSUME past' \cap {"crowd", "broken"} = {}, NEW q \in Pids, ~proc'[q].off
        PROVE  /\ At(q, "bind")' => path' = Absent
               /\ proc'[q].pc \in Listening => path' = q \/ Deaf(q)'
    BY <2>2 DEF Base, SocketIsReachable, Deaf, At, Stays
  <2> QED  BY <2>1, <2>2 DEF SocketIsReachable, Deaf, Outdated, At
<1>6. LeftoversGo'
  BY DEF Base, LeftoversGo, At, Stays, ScreenMoves
<1> QED  BY <1>2, <1>3, <1>4, <1>5, <1>6 DEF Base

(* A daemon is started.                                                     *)
LEMMA OneStarts ==
  ASSUME Base, TypeOK', NEW p \in Pids, At(p, "gone"), NEW d, New(d),
         d.off => d.foreign \/ (p = UnitPid /\ unit.file = "old"),
         proc' = [proc EXCEPT ![p] = d],
         path' = path \/ (path = NoDir /\ path' = Absent),
         UnitIsKnown', unit'.file = unit.file,
         past' \in {Joined(past), Joined(past \cup {"hand"}), Joined(past \cup {"legacy"})},
         p = UnitPid \/ past' \cap {"hand", "legacy"} # {},
         UNCHANGED ui
  PROVE  Base'
<1>1. \A q \in Pids : proc'[q] = IF q = p THEN d ELSE proc[q]
  BY DEF Base, TypeOK
<1>2. Alive' = Alive \cup {p} /\ p \notin Alive
  BY <1>1 DEF Alive, At, New
<1>3. past \subseteq past' /\ (Alive # {} => "crowd" \in past')
      /\ ("crowd" \in past' => "crowd" \in past \/ Alive # {})
  BY DEF Joined
<1>4. CrowdsAreMade'
  <2>1. ASSUME past' \cap {"hand", "legacy"} = {}
        PROVE  Alive' \subseteq {UnitPid} /\ "crowd" \notin past'
    BY <1>2, <1>3, <2>1 DEF Base, CrowdsAreMade
  <2>2. ASSUME "crowd" \notin past'
        PROVE  \A q, s \in Alive' : q = s
    BY <1>2, <1>3, <2>2
  <2> QED  BY <2>1, <2>2 DEF CrowdsAreMade
<1>5. SocketIsOwned'
  BY <1>1, PathIsClear DEF Base, SocketIsOwned, At, Listening, New
<1>6. SocketIsReachable'
  <2>1. ASSUME NEW q \in Pids, proc'[q].off
        PROVE  At(q, "gone")' = FALSE /\ ~proc'[q].bound
               /\ (Deaf(q)' \/ proc'[q].foreign \/ Outdated(q)')
    <3>1. CASE q = p
      BY <1>1, <2>1, <3>1 DEF New, Outdated, At
    <3>2. CASE q # p
      BY <1>1, <1>3, <2>1, <3>2 DEF Base, SocketIsReachable, Deaf, Outdated, At
    <3> QED  BY <3>1, <3>2
  <2>2. ASSUME past' \cap {"crowd", "broken"} = {}, NEW q \in Pids
        PROVE  proc'[q].pc \notin {"bind"} \cup Listening
    <3>1. Alive = {}
      BY <1>3, <2>2
    <3> QED  BY <1>1, <3>1 DEF Alive, At, Listening, New
  <2> QED  BY <2>1, <2>2 DEF SocketIsReachable, Deaf, Outdated, At
<1>7. LeftoversGo'
  BY <1>1, <1>3, PathIsClear DEF Base, LeftoversGo, At
<1> QED  BY <1>4, <1>5, <1>6, <1>7 DEF Base

(* Daemons are gone.                                                        *)
LEMMA SomeGo ==
  ASSUME Base, NEW who, who \subseteq Alive, NEW failed \in BOOLEAN, Buried(who, failed),
         UNCHANGED <<limiter, mouse>>, happened' \in Nat,
         past \subseteq past', past' \subseteq Kinds, "crowd" \in past' => "crowd" \in past,
         who = {} \/ past' \cap {"crash", "legacy"} # {}
           \/ \A p \in who : At(p, "release"),
         \/ ui' = Without(who)
         \/ ui' = [Without(who) EXCEPT !.pc = "killpoll"] /\ ui.pc \in Killing
  PROVE  Base'
<1>1. \A q \in Pids : proc'[q] = IF q \in who THEN Gone ELSE proc[q]
  BY DEF Buried
<1>2. Alive' = Alive \ who
  BY <1>1, FreshIsNew DEF Alive, At
<1>3. /\ path' \in {path, Stale, NoDir} /\ path' \notin who
      /\ path' = Stale => path = Stale \/ path \in who
  BY PathIsClear DEF Buried, Alive
<1>4. TypeOK'
  <2>1. proc' \in [Pids -> Processes]
    BY FreshIsNew DEF Base, TypeOK, Buried
  <2>2. grab' \in Pids \cup {NoPid}
    BY DEF Base, TypeOK, Buried, release_device
  <2>3. unit' \in Units
    <3>1. unit \in Units
      BY DEF Base, TypeOK
    <3>2. RestartSec \in 0 .. RestartSec
      BY Bounds
    <3>3. Ended(failed) \in Units
      BY <3>1, <3>2 DEF Ended, Units
    <3> QED  BY <3>1, <3>3 DEF Buried
  <2>4. ui' \in Interfaces'
    <3>1. ui \in Interfaces
      BY DEF Base, TypeOK
    <3>2. ui.found \ who \in SUBSET (Alive \ who)
      BY <3>1 DEF Interfaces
    <3>3. (IF ui.whom \in who THEN NoPid ELSE ui.whom) \in (Alive \ who) \cup {NoPid}
      BY <3>1 DEF Interfaces
    <3>4. "killpoll" \in Killing
      BY DEF Killing
    <3> QED  BY <1>2, <3>1, <3>2, <3>3, <3>4 DEF Interfaces, Without
  <2> QED  BY <1>3, <2>1, <2>2, <2>3, <2>4 DEF Base, TypeOK
<1>5. ui'.pc = ui.pc \/ (ui'.pc = "killpoll" /\ ui.pc \in Killing)
  BY DEF Base, TypeOK, Interfaces, Without
<1>6. UnitIsKnown'
  <2>1. CASE UnitPid \in who
    <3>1. Runs(unit)
      BY <2>1 DEF Base, UnitIsKnown, Runs
    <3>2. unit'.state \in {"inactive", "starting", "waiting"} /\ unit'.file = unit.file
      BY <2>1, <3>1 DEF Base, TypeOK, Units, Buried, Ended, Runs
    <3> QED  BY <1>2, <1>5, <2>1, <3>2 DEF Base, UnitIsKnown
  <2>2. CASE UnitPid \notin who
    <3>1. unit' = unit /\ proc'[UnitPid] = proc[UnitPid]
      BY <1>1, <2>2, LifecycleAssumption DEF Buried
    <3> QED  BY <1>2, <1>5, <2>2, <3>1 DEF Base, UnitIsKnown
  <2> QED  BY <2>1, <2>2
<1>7. CrowdsAreMade'
  BY <1>2 DEF Base, CrowdsAreMade
<1>8. SocketIsOwned'
  BY <1>1, <1>3, PathIsClear, FreshIsNew DEF Base, SocketIsOwned
<1>9. SocketIsReachable'
  <2>1. ASSUME NEW q \in Pids, proc'[q].off
        PROVE  At(q, "gone")' = FALSE /\ ~proc'[q].bound
               /\ (Deaf(q)' \/ proc'[q].foreign \/ Outdated(q)')
    <3>1. proc'[q] = proc[q] /\ q \notin who
      BY <1>1, <2>1, FreshIsNew
    <3>2. q = UnitPid => unit' = unit
      BY <3>1 DEF Buried
    <3> QED  BY <2>1, <3>1, <3>2 DEF Base, SocketIsReachable, Deaf, Outdated, At
  <2>2. ASSUME past' \cap {"crowd", "broken"} = {}, NEW q \in Pids,
               At(q, "bind")' \/ proc'[q].pc \in Listening
        PROVE  path' = path /\ proc'[q] = proc[q]
    <3>1. q \in Alive \ who
      BY <1>1, <2>2, FreshIsNew DEF Alive, At, Listening
    <3>2. who = {}
      BY <2>2, <3>1 DEF Base, CrowdsAreMade
    <3> QED  BY <1>1, <3>2 DEF Buried
  <2>3. ASSUME past' \cap {"crowd", "broken"} = {}, NEW q \in Pids, ~proc'[q].off
        PROVE  /\ At(q, "bind")' => path' = Absent
               /\ proc'[q].pc \in Listening => path' = q \/ Deaf(q)'
    BY <2>2, <2>3 DEF Base, SocketIsReachable, Deaf, At
  <2> QED  BY <2>1, <2>3 DEF SocketIsReachable, Deaf, Outdated, At
<1>10. LeftoversGo'
  <2>1. ASSUME past' \cap {"crash", "legacy"} = {}, path' = Stale
        PROVE  \E p \in Pids : At(p, "remove")' /\ ~proc'[p].off
    <3>1. \A p \in who : At(p, "release")
      BY <2>1
    <3>2. path = Stale
      BY <1>3, <2>1, <3>1, PathIsClear DEF Base, SocketIsOwned, At, Listening, Alive
    <3>3. PICK p \in Pids : At(p, "remove") /\ ~proc[p].off
      BY <2>1, <3>2 DEF Base, LeftoversGo
    <3> QED  BY <1>1, <3>1, <3>3 DEF At
  <2>2. ui'.pc \in Killing => "legacy" \in past'
    BY <1>5 DEF Base, LeftoversGo
  <2> QED  BY <2>1, <2>2 DEF LeftoversGo, At
<1> QED  BY <1>4, <1>6, <1>7, <1>8, <1>9, <1>10 DEF Base

-----------------------------------------------------------------------------
(* What main() does, step by step.                                          *)

LEMMA Typed ==
  ASSUME Base
  PROVE  /\ proc \in [Pids -> Processes] /\ \A p \in Pids : proc[p] \in Processes
         /\ grab \in Pids \cup {NoPid}
         /\ happened \in Nat /\ past \subseteq Kinds
  BY DEF Base, TypeOK

LEMMA CalmIs ==
  ASSUME Base, Calm
  PROVE  happened' \in Nat /\ past' = past /\ past' \subseteq Kinds
  BY Typed DEF Calm

LEMMA HappensIs ==
  ASSUME Base, NEW what, Happens(what)
  PROVE  /\ what \in Events /\ happened' \in Nat
         /\ past' = past \cup {what} /\ past' \subseteq Kinds
         /\ "crowd" \in past' => "crowd" \in past
<1>1. what \in Events /\ what # "crowd"
  BY LifecycleAssumption DEF Happens, Events
<1> QED  BY <1>1, Typed DEF Happens, Kinds

LEMMA UnlinkInv ==
  ASSUME Base, NEW p \in Pids, Unlink(p)
  PROVE  Base'
<1> DEFINE r == [proc[p] EXCEPT !.pc = "bind"]
<1>1. /\ r \in Processes /\ r.pc = "bind" /\ r.stop = proc[p].stop /\ r.foreign = proc[p].foreign
      /\ r.off = proc[p].off /\ r.bound = proc[p].bound
  BY DEF Base, TypeOK, Processes
<1>2. proc' = [proc EXCEPT ![p] = proc'[p]] /\ proc'[p] = r
  BY Typed DEF Unlink, Goto
<1>3. ~proc[p].bound
  BY DEF Unlink, At, Base, SocketIsOwned
<1>4. path # p
  BY DEF Unlink, At, Base, SocketIsOwned, Listening
<1> HIDE DEF r
<1>5. ~At(p, "gone") /\ ~At(p, "remove") /\ r.pc \notin {"gone", "remove"} \cup Listening
      /\ (proc[p].stop => r.stop)
  BY <1>1 DEF Unlink, At, Listening
<1>6. /\ path' \in {path, Absent} /\ path' # p /\ (path' = Stale => path = Stale)
      /\ ~r.off => path' = Absent
  BY <1>1, <1>4, PathIsClear DEF Unlink
<1>7. grab' \in Pids \cup {NoPid} /\ UNCHANGED <<unit, limiter, mouse>> /\ ui' = ui
  BY Typed DEF Unlink
<1>8. happened' \in Nat /\ past' = past /\ past' \subseteq Kinds
  BY CalmIs DEF Unlink
<1> QED  BY <1>1, <1>2, <1>3, <1>5, <1>6, <1>7, <1>8, OneMoves

(* Its own socket is at the path; or the path is somebody's; or it has no   *)
(* access to it; or it has no socket.                                       *)
LEMMA BindInv ==
  ASSUME Base, NEW p \in Pids, Bind(p)
  PROVE  Base'
<1>1. proc[p] \in Processes /\ path # p /\ At(p, "bind") /\ ~proc[p].bound
  BY Typed DEF Bind, At, Base, SocketIsOwned, Listening
<1>2. grab' \in Pids \cup {NoPid} /\ UNCHANGED <<unit, limiter, mouse>> /\ ui' = ui
  BY Typed DEF Bind
<1>3. CASE /\ path = Absent /\ ~proc[p].off /\ path' = p /\ Calm
           /\ proc' = [proc EXCEPT ![p].pc = "search", ![p].bound = TRUE]
  <2> DEFINE r == [proc[p] EXCEPT !.pc = "search", !.bound = TRUE]
  <2>1. /\ r \in Processes /\ r.pc = "search" /\ r.stop = proc[p].stop
        /\ r.foreign = proc[p].foreign /\ r.off = proc[p].off /\ r.bound
    BY <1>1 DEF Processes
  <2>2. proc' = [proc EXCEPT ![p] = proc'[p]] /\ proc'[p] = r
    BY <1>3, Typed
  <2> HIDE DEF r
  <2>3. ~At(p, "gone") /\ ~At(p, "remove") /\ r.pc \in Listening /\ path' # Stale
    BY <1>1, <1>3, <2>1, PathIsClear DEF At, Listening
  <2>4. happened' \in Nat /\ past' = past /\ past' \subseteq Kinds
    BY <1>3, CalmIs
  <2> QED  BY <1>2, <1>3, <2>1, <2>2, <2>3, <2>4, OneMoves
<1>4. CASE /\ Goto(p, "search") /\ UNCHANGED path
           /\ \/ (path # Absent \/ proc[p].off) /\ Calm
              \/ path = Absent /\ ~proc[p].off /\ Happens("deaf")
  <2> DEFINE r == [proc[p] EXCEPT !.pc = "search"]
  <2>1. /\ r \in Processes /\ r.pc = "search" /\ r.stop = proc[p].stop
        /\ r.foreign = proc[p].foreign /\ r.off = proc[p].off /\ r.bound = proc[p].bound
    BY <1>1 DEF Processes
  <2>2. proc' = [proc EXCEPT ![p] = proc'[p]] /\ proc'[p] = r
    BY <1>4, Typed DEF Goto
  <2> HIDE DEF r
  <2>3. ~At(p, "gone") /\ ~At(p, "remove") /\ r.pc \in Listening
    BY <1>1, <2>1 DEF At, Listening
  <2>4. /\ happened' \in Nat /\ past \subseteq past' /\ past' \subseteq Kinds
        /\ "crowd" \in past' => "crowd" \in past
    BY <1>4, CalmIs, HappensIs
  <2>5. ~proc[p].off => path # Absent \/ "deaf" \in past'
    BY <1>4, HappensIs
  <2> QED  BY <1>1, <1>2, <1>4, <2>1, <2>2, <2>3, <2>4, <2>5, OneMoves
<1> QED  BY <1>3, <1>4 DEF Bind

(* A daemon that gives up has a socket, or never had one at the path.       *)
LEMMA GiveUpMoves ==
  ASSUME Base, NEW p \in Pids, proc[p].pc \in Listening, GiveUp(p),
         UNCHANGED <<path, grab, mouse, unit, limiter, ui>>,
         happened' \in Nat, past \subseteq past', past' \subseteq Kinds,
         "crowd" \in past' => "crowd" \in past
  PROVE  Base'
<1> DEFINE r == [proc[p] EXCEPT !.failed = TRUE, !.pc = IF proc[p].bound THEN "close" ELSE "release"]
<1>1. /\ r \in Processes /\ r.pc = (IF proc[p].bound THEN "close" ELSE "release")
      /\ r.stop = proc[p].stop /\ r.bound = proc[p].bound
      /\ r.foreign = proc[p].foreign /\ r.off = proc[p].off
  <2>1. proc[p] \in Processes
    BY Typed
  <2> QED  BY <2>1 DEF Processes
<1>2. proc' = [proc EXCEPT ![p] = proc'[p]] /\ proc'[p] = r
  BY Typed DEF GiveUp
<1>3. (path = p => proc[p].bound /\ ~proc[p].off) /\ (proc[p].off => ~proc[p].bound)
  BY DEF Base, SocketIsOwned, SocketIsReachable
<1> HIDE DEF r
<1>4. /\ ~At(p, "gone") /\ ~At(p, "remove") /\ r.pc \notin {"gone", "unlink", "bind"}
      /\ (proc[p].stop => r.stop) /\ (r.pc \in Listening => r.bound)
  BY <1>1 DEF At, Listening
<1>5. path' = path /\ (path' = p => r.bound /\ ~r.off /\ r.pc \in Listening)
  BY <1>1, <1>3 DEF Listening
<1>6. grab' \in Pids \cup {NoPid} /\ UNCHANGED <<unit, limiter, mouse>> /\ ui' = ui
  BY Typed
<1> QED  BY <1>1, <1>2, <1>3, <1>4, <1>5, <1>6, OneMoves

(* A daemon that keeps its socket moves on.                                 *)
Keeps(p) ==
  /\ proc' = [proc EXCEPT ![p] = proc'[p]] /\ proc'[p] \in Processes
  /\ proc'[p].pc \in Listening /\ proc'[p].bound = proc[p].bound
  /\ proc'[p].off = proc[p].off /\ proc'[p].foreign = proc[p].foreign
  /\ proc[p].stop => proc'[p].stop

LEMMA ListenerMoves ==
  ASSUME Base, NEW p \in Pids, proc[p].pc \in Listening, Keeps(p),
         UNCHANGED <<path, mouse, unit, limiter>>, grab' \in Pids \cup {NoPid},
         happened' \in Nat, past \subseteq past', past' \subseteq Kinds,
         "crowd" \in past' => "crowd" \in past,
         \/ ui' = ui
         \/ ui' = [ui EXCEPT !.pc = "quitpoll", !.ours = (p = UnitPid)] /\ ui.pc \in Killing
  PROVE  Base'
<1>1. (path = p => proc[p].bound /\ ~proc[p].off) /\ (proc[p].off => ~proc[p].bound)
  BY DEF Base, SocketIsOwned, SocketIsReachable
<1>2. /\ ~At(p, "gone") /\ ~At(p, "remove")
      /\ proc'[p].pc \notin {"gone", "unlink", "bind"}
  BY DEF At, Listening, Keeps
<1> QED  BY <1>1, <1>2, OneMoves DEF Keeps

LEMMA SearchInv ==
  ASSUME Base, NEW p \in Pids, Search(p)
  PROVE  Base'
<1>1. /\ proc[p] \in Processes /\ proc[p].pc \in Listening
      /\ 0 \in 0 .. Retries /\ Interval \in 0 .. Interval
  BY Typed, Bounds DEF Search, At, Listening
<1>2. UNCHANGED <<path, mouse, unit, limiter>> /\ grab' \in Pids \cup {NoPid} /\ ui' = ui
  BY Typed DEF Search
<1>3. happened' \in Nat /\ past' = past /\ past' \subseteq Kinds
  BY CalmIs DEF Search
<1>4. CASE proc' = [proc EXCEPT ![p].pc = "grab", ![p].tries = 0]
  <2> DEFINE r == [proc[p] EXCEPT !.pc = "grab", !.tries = 0]
  <2>1. r \in Processes /\ r.pc \in Listening /\ r.bound = proc[p].bound /\ r.stop = proc[p].stop
        /\ r.off = proc[p].off /\ r.foreign = proc[p].foreign
    BY <1>1 DEF Processes, Listening
  <2>2. proc' = [proc EXCEPT ![p] = proc'[p]] /\ proc'[p] = r
    BY <1>4, Typed
  <2> HIDE DEF r
  <2> QED  BY <1>1, <1>2, <1>3, <2>1, <2>2, ListenerMoves DEF Keeps
<1>5. CASE GiveUp(p)
  BY <1>1, <1>3, <1>5, GiveUpMoves DEF Search
<1>6. CASE /\ proc[p].tries < Retries
           /\ proc' = [proc EXCEPT ![p].pc = "sleep", ![p].tries = @ + 1, ![p].wait = Interval]
  <2> DEFINE r == [proc[p] EXCEPT !.pc = "sleep", !.tries = @ + 1, !.wait = Interval]
  <2>1. r \in Processes /\ r.pc \in Listening /\ r.bound = proc[p].bound /\ r.stop = proc[p].stop
        /\ r.off = proc[p].off /\ r.foreign = proc[p].foreign
    <3>1. proc[p].tries + 1 \in 0 .. Retries
      BY <1>1, <1>6, Bounds DEF Processes
    <3> QED  BY <1>1, <3>1 DEF Processes, Listening
  <2>2. proc' = [proc EXCEPT ![p] = proc'[p]] /\ proc'[p] = r
    BY <1>6, Typed
  <2> HIDE DEF r
  <2> QED  BY <1>1, <1>2, <1>3, <2>1, <2>2, ListenerMoves DEF Keeps
<1> QED  BY <1>4, <1>5, <1>6 DEF Search

(* Wherever a listening daemon goes that way.                               *)
LEMMA GoOn ==
  ASSUME Base, NEW p \in Pids, proc[p].pc \in Listening, NEW where \in Listening,
         Goto(p, where),
         UNCHANGED <<path, mouse, unit, limiter, ui>>, grab' \in Pids \cup {NoPid}, Calm
  PROVE  Base'
<1> DEFINE r == [proc[p] EXCEPT !.pc = where]
<1>1. r \in Processes /\ r.pc \in Listening /\ r.bound = proc[p].bound /\ r.stop = proc[p].stop
      /\ r.off = proc[p].off /\ r.foreign = proc[p].foreign
  BY DEF Base, TypeOK, Processes, Listening
<1>2. proc' = [proc EXCEPT ![p] = proc'[p]] /\ proc'[p] = r
  BY Typed DEF Goto
<1> HIDE DEF r
<1>3. happened' \in Nat /\ past' = past /\ past' \subseteq Kinds
  BY CalmIs
<1> QED  BY <1>1, <1>2, <1>3, ListenerMoves DEF Keeps

LEMMA WakeInv ==
  ASSUME Base, NEW p \in Pids, Wake(p)
  PROVE  Base'
  BY Typed, GoOn DEF Wake, At, Listening

LEMMA GrabInv ==
  ASSUME Base, NEW p \in Pids, Grab(p)
  PROVE  Base'
<1>1. CASE grab_device
  BY <1>1, Typed, GoOn DEF Grab, At, Listening
<1>2. CASE ~grab_device
  BY <1>2, Typed, CalmIs, GiveUpMoves DEF Grab, At, Listening
<1> QED  BY <1>1, <1>2

LEMMA SetupInv ==
  ASSUME Base, NEW p \in Pids, Setup(p)
  PROVE  Base'
<1>1. CASE Goto(p, "loop") /\ UNCHANGED path /\ Calm
  BY <1>1, Typed, GoOn DEF Setup, At, Listening
<1>2. CASE GiveUp(p) /\ UNCHANGED path /\ Happens("uinput")
  BY <1>2, GiveUpMoves, HappensIs DEF Setup, At, Listening
<1>3. CASE /\ proc[p].bound /\ Happens("deaf")
           /\ proc' = [proc EXCEPT ![p].pc = "loop", ![p].bound = FALSE, ![p].asked = FALSE,
                                  ![p].off = TRUE]
           /\ path' = IF path = NoDir THEN NoDir ELSE Absent
  <2> DEFINE r == [proc[p] EXCEPT !.pc = "loop", !.bound = FALSE, !.asked = FALSE, !.off = TRUE]
  <2>1. /\ r \in Processes /\ r.pc = "loop" /\ r.stop = proc[p].stop
        /\ r.foreign = proc[p].foreign /\ r.off /\ ~r.bound
    <3>1. proc[p] \in Processes
      BY Typed
    <3> QED  BY <3>1 DEF Processes
  <2>2. proc' = [proc EXCEPT ![p] = proc'[p]] /\ proc'[p] = r
    BY <1>3, Typed
  <2> HIDE DEF r
  <2>3. ~At(p, "gone") /\ r.pc \notin {"gone", "unlink", "bind"}
    BY <2>1 DEF Setup, At
  <2>4. path' \in {path, Absent} /\ path' # p /\ path' # Stale
    BY <1>3, PathIsClear
  <2>5. /\ happened' \in Nat /\ past \subseteq past' /\ past' \subseteq Kinds
        /\ ("crowd" \in past' => "crowd" \in past) /\ "deaf" \in past'
    BY <1>3, HappensIs
  <2>6. UNCHANGED <<unit, limiter, mouse>> /\ grab' \in Pids \cup {NoPid} /\ ui' = ui
    BY Typed DEF Setup
  <2> QED  BY <2>1, <2>2, <2>3, <2>4, <2>5, <2>6, OneMoves
<1> QED  BY <1>1, <1>2, <1>3 DEF Setup

LEMMA ReadQuitInv ==
  ASSUME Base, NEW p \in Pids, ReadQuit(p)
  PROVE  Base'
<1> DEFINE r == [proc[p] EXCEPT !.stop = TRUE, !.asked = FALSE]
<1>1. r \in Processes /\ r.pc = "loop" /\ r.bound = proc[p].bound /\ r.stop
      /\ r.off = proc[p].off /\ r.foreign = proc[p].foreign
  BY DEF Base, TypeOK, Processes, ReadQuit, At
<1>2. proc' = [proc EXCEPT ![p] = proc'[p]] /\ proc'[p] = r
  BY Typed DEF ReadQuit
<1>3. \/ ui' = ui
      \/ ui' = [ui EXCEPT !.pc = "quitpoll", !.ours = (p = UnitPid)] /\ ui.pc \in Killing
  <2>1. ui.pc = "asked" => ui.pc \in Killing
    BY DEF Killing
  <2>2. ui' = IF ui.pc = "asked" /\ ui.whom = p
              THEN [ui EXCEPT !.pc = "quitpoll", !.ours = (p = UnitPid)] ELSE ui
    BY DEF ReadQuit
  <2> QED  BY <2>1, <2>2, Zenon
<1> HIDE DEF r
<1>4. proc[p].pc \in Listening /\ r.pc \in Listening
  BY <1>1 DEF ReadQuit, At, Listening
<1>5. UNCHANGED <<path, mouse, unit, limiter>> /\ grab' \in Pids \cup {NoPid}
  BY Typed DEF ReadQuit
<1>6. happened' \in Nat /\ past' = past /\ past' \subseteq Kinds
  BY CalmIs DEF ReadQuit
<1> QED  BY <1>1, <1>2, <1>3, <1>4, <1>5, <1>6, ListenerMoves DEF Keeps

LEMMA LeaveInv ==
  ASSUME Base, NEW p \in Pids, Leave(p)
  PROVE  Base'
<1>1. CASE Goto(p, "close")
  BY <1>1, Typed, GoOn DEF Leave, At, Listening
<1>2. CASE proc' = [proc EXCEPT ![p].pc = "close", ![p].failed = TRUE]
  <2> DEFINE r == [proc[p] EXCEPT !.pc = "close", !.failed = TRUE]
  <2>1. r \in Processes /\ r.pc \in Listening /\ r.bound = proc[p].bound /\ r.stop = proc[p].stop
        /\ r.off = proc[p].off /\ r.foreign = proc[p].foreign
    <3>1. proc[p] \in Processes
      BY Typed
    <3> QED  BY <3>1 DEF Processes, Listening
  <2>2. proc' = [proc EXCEPT ![p] = proc'[p]] /\ proc'[p] = r
    BY <1>2, Typed
  <2> HIDE DEF r
  <2>3. proc[p].pc \in Listening
    BY DEF Leave, At, Listening
  <2>4. UNCHANGED <<path, mouse, unit, limiter, ui>> /\ grab' \in Pids \cup {NoPid}
    BY Typed DEF Leave
  <2>5. happened' \in Nat /\ past' = past /\ past' \subseteq Kinds
    BY CalmIs DEF Leave
  <2> QED  BY <2>1, <2>2, <2>3, <2>4, <2>5, ListenerMoves DEF Keeps
<1> QED  BY <1>1, <1>2 DEF Leave

LEMMA CloseInv ==
  ASSUME Base, NEW p \in Pids, Close(p)
  PROVE  Base'
<1> DEFINE r == [proc[p] EXCEPT !.pc = "remove"]
<1>1. /\ r \in Processes /\ r.pc = "remove" /\ r.stop = proc[p].stop /\ r.bound = proc[p].bound
      /\ r.off = proc[p].off /\ r.foreign = proc[p].foreign
  BY DEF Base, TypeOK, Processes
<1>2. proc' = [proc EXCEPT ![p] = proc'[p]] /\ proc'[p] = r
  BY Typed DEF Close, Goto
<1>3. (path = p => ~proc[p].off) /\ (proc[p].off => ~proc[p].bound)
  BY DEF Base, SocketIsOwned, SocketIsReachable
<1> HIDE DEF r
<1>4. path' \in {path, Stale} /\ path' # p /\ (path' = Stale => ~r.off \/ path = Stale)
  BY <1>1, <1>3, PathIsClear DEF Close
<1>5. /\ ~At(p, "gone") /\ ~At(p, "remove")
      /\ r.pc \notin {"gone", "unlink", "bind"} \cup Listening
  BY <1>1 DEF Close, At, Listening
<1>6. grab' \in Pids \cup {NoPid} /\ UNCHANGED <<unit, limiter, mouse>> /\ ui' = ui
  BY Typed DEF Close
<1>7. happened' \in Nat /\ past' = past /\ past' \subseteq Kinds
  BY CalmIs DEF Close
<1> QED  BY <1>1, <1>2, <1>3, <1>4, <1>5, <1>6, <1>7, OneMoves

LEMMA RemoveInv ==
  ASSUME Base, NEW p \in Pids, Remove(p)
  PROVE  Base'
<1> DEFINE r == [proc[p] EXCEPT !.pc = "release"]
<1>1. /\ r \in Processes /\ r.pc = "release" /\ r.stop = proc[p].stop
      /\ r.bound = proc[p].bound /\ r.off = proc[p].off /\ r.foreign = proc[p].foreign
  BY DEF Base, TypeOK, Processes
<1>2. proc' = [proc EXCEPT ![p] = proc'[p]] /\ proc'[p] = r
  BY Typed DEF Remove, Goto
<1>3. path # p /\ (proc[p].off => ~proc[p].bound)
  BY DEF Remove, At, Base, SocketIsOwned, SocketIsReachable, Listening
<1>4. path' \in {path, Absent} /\ path' # p /\ (path' = Stale => path = Stale /\ proc[p].off)
  BY <1>3, PathIsClear DEF Remove
<1> HIDE DEF r
<1>5. ~At(p, "gone") /\ r.pc \notin {"gone", "unlink", "bind"} \cup Listening
  BY <1>1 DEF Remove, At, Listening
<1>6. grab' \in Pids \cup {NoPid} /\ UNCHANGED <<unit, limiter, mouse>> /\ ui' = ui
  BY Typed DEF Remove
<1>7. happened' \in Nat /\ past' = past /\ past' \subseteq Kinds
  BY CalmIs DEF Remove
<1> QED  BY <1>1, <1>2, <1>3, <1>4, <1>5, <1>6, <1>7, OneMoves

LEMMA ExitInv ==
  ASSUME Base, NEW p \in Pids, Exit(p)
  PROVE  Base'
<1>1. {p} \subseteq Alive /\ \A q \in {p} : At(q, "release")
  BY DEF Exit, Alive, At
<1>2. proc[p].failed \in BOOLEAN
  BY DEF Base, TypeOK, Processes
<1>3. Buried({p}, proc[p].failed) /\ UNCHANGED <<limiter, mouse>> /\ ui' = Without({p})
  BY DEF Exit
<1>4. happened' \in Nat /\ past' = past /\ past' \subseteq Kinds
  BY CalmIs DEF Exit
<1> QED  BY <1>1, <1>2, <1>3, <1>4, SomeGo

LEMMA DaemonInv ==
  ASSUME Base, NEW p \in Pids, Daemon(p)
  PROVE  Base'
  BY UnlinkInv, BindInv, SearchInv, WakeInv, GrabInv, SetupInv, ReadQuitInv, LeaveInv, CloseInv,
     RemoveInv, ExitInv
     DEF Daemon

-----------------------------------------------------------------------------
(* What happens to the daemons.                                             *)

LEMMA TermedIs ==
  ASSUME Base, NEW who, proc' = Termed(who)
  PROVE  /\ proc' \in [Pids -> Processes]
         /\ \A q \in Pids : Stays(q) /\ (q \in who => proc'[q].stop)
<1>1. \A q \in Pids : proc[q] \in Processes /\ 0 \in 0 .. Interval
  BY Typed, Bounds
<1>2. \A q \in Pids : [proc[q] EXCEPT !.stop = TRUE, !.wait = 0] \in Processes
  BY <1>1 DEF Processes
<1>3. \A q \in Pids : proc'[q] = IF q \in who THEN [proc[q] EXCEPT !.stop = TRUE, !.wait = 0]
                                              ELSE proc[q]
  BY DEF Termed
<1>4. proc' \in [Pids -> Processes]
  BY <1>1, <1>2 DEF Termed
<1>5. \A q \in Pids : Stays(q) /\ (q \in who => proc'[q].stop)
  BY <1>1, <1>3 DEF Processes, Stays
<1> QED  BY <1>4, <1>5

LEMMA SystemctlIs ==
  ASSUME NEW u \in Units
  PROVE  /\ Healed(u) \in Units /\ Healed(u).file = "current" /\ Healed(u).state = u.state
         /\ Started(u) \in Units /\ Started(u).file = u.file /\ (Runs(Started(u)) <=> Runs(u))
         /\ Stopped(u) \in Units /\ Stopped(u).file = u.file /\ (Runs(Stopped(u)) <=> Runs(u))
         /\ TryRestarted(u) \in Units /\ TryRestarted(u).file = u.file
         /\ (Runs(TryRestarted(u)) <=> Runs(u))
<1>1. 0 \in 0 .. RestartSec
  BY Bounds
<1>2. Healed(u) \in Units /\ Healed(u).file = "current" /\ Healed(u).state = u.state
  BY DEF Healed, Units
<1>3. Started(u) \in Units /\ Started(u).file = u.file /\ (Runs(Started(u)) <=> Runs(u))
  BY <1>1 DEF Started, Units, Runs
<1>4. Stopped(u) \in Units /\ Stopped(u).file = u.file /\ (Runs(Stopped(u)) <=> Runs(u))
  BY <1>1 DEF Stopped, Units, Runs
<1>5. /\ TryRestarted(u) \in Units /\ TryRestarted(u).file = u.file
      /\ (Runs(TryRestarted(u)) <=> Runs(u))
  BY <1>1 DEF TryRestarted, Units, Runs
<1> QED  BY <1>2, <1>3, <1>4, <1>5

(* When they tell the unit's process to go, and which leave it alone.       *)
LEMMA SystemctlTells ==
  ASSUME NEW u \in Units
  PROVE  /\ Started(u).state \in {u.state, "starting", "cycling"}
         /\ Started(u).state = "cycling" => u.state \in {"cycling", "stopping"}
         /\ Stopped(u).state \in {u.state, "inactive", "stopping"}
         /\ Stopped(u).state = "stopping" => u.state \in {"active", "cycling", "stopping"}
         /\ TryRestarted(u).state \in {u.state, "starting", "cycling"}
         /\ TryRestarted(u).state = "cycling" => u.state \in {"cycling", "active"}
<1>1. /\ Started(u).state \in {u.state, "starting", "cycling"}
      /\ Started(u).state = "cycling" => u.state \in {"cycling", "stopping"}
  BY DEF Started, Units
<1>2. /\ Stopped(u).state \in {u.state, "inactive", "stopping"}
      /\ Stopped(u).state = "stopping" => u.state \in {"active", "cycling", "stopping"}
  BY DEF Stopped, Units
<1>3. /\ TryRestarted(u).state \in {u.state, "starting", "cycling"}
      /\ TryRestarted(u).state = "cycling" => u.state \in {"cycling", "active"}
  BY DEF TryRestarted, Units
<1> QED  BY <1>1, <1>2, <1>3

(* Whatever the interface and the mouse do as long as no daemon goes on.    *)
LEMMA Watched ==
  ASSUME Base, proc' \in [Pids -> Processes], \A q \in Pids : Stays(q),
         UNCHANGED path, grab' \in Pids \cup {NoPid}, mouse' \in BOOLEAN,
         unit' \in Units, UnitMoves,
         limiter' \in [num : 0 .. LimitBurst, age : 0 .. LimitInterval],
         happened' \in Nat, past \subseteq past', past' \subseteq Kinds,
         "crowd" \in past' => "crowd" \in past,
         ui' = ui \/ ui' \in Interfaces, ScreenMoves
  PROVE  Base'
<1>1. Alive' = Alive
  BY DEF Alive, At, Stays
<1>2. ui' \in Interfaces'
  BY <1>1 DEF Base, TypeOK, Interfaces
<1>3. TypeOK'
  BY <1>2 DEF Base, TypeOK
<1> QED  BY <1>3, NoneMoves

LEMMA Same ==
  ASSUME Base
  PROVE  /\ unit \in Units /\ mouse \in BOOLEAN /\ grab \in Pids \cup {NoPid}
         /\ limiter \in [num : 0 .. LimitBurst, age : 0 .. LimitInterval]
         /\ ui \in Interfaces
         /\ proc' = proc => \A q \in Pids : Stays(q)
         /\ unit' = unit => UnitMoves
         /\ ui' = ui => ScreenMoves
  BY DEF Base, TypeOK, Stays, UnitMoves, ScreenMoves

LEMMA MouseInv ==
  ASSUME Base, LoseMouse \/ MouseBack
  PROVE  Base'
<1>1. /\ happened' \in Nat /\ past \subseteq past' /\ past' \subseteq Kinds
      /\ "crowd" \in past' => "crowd" \in past
  BY CalmIs, HappensIs DEF LoseMouse, MouseBack
<1>2. /\ UNCHANGED <<proc, path, unit, limiter, ui>>
      /\ grab' \in Pids \cup {NoPid} /\ mouse' \in BOOLEAN
  BY Typed DEF LoseMouse, MouseBack
<1> QED  BY <1>1, <1>2, Same, Typed, Watched

LEMMA CrashInv ==
  ASSUME Base, NEW p \in Pids, Crash(p)
  PROVE  Base'
<1>1. {p} \subseteq Alive /\ Buried({p}, TRUE) /\ UNCHANGED <<limiter, mouse>> /\ ui' = Without({p})
  BY DEF Crash
<1>2. /\ happened' \in Nat /\ past \subseteq past' /\ past' \subseteq Kinds
      /\ ("crowd" \in past' => "crowd" \in past) /\ "crash" \in past'
  BY HappensIs DEF Crash
<1>3. past' \cap {"crash", "legacy"} # {}
  BY <1>2
<1> QED  BY <1>1, <1>2, <1>3, SomeGo

LEMMA TermInv ==
  ASSUME Base, NEW p \in Pids, Term(p)
  PROVE  Base'
<1>1. proc' = Termed({p}) /\ UNCHANGED <<path, grab, mouse, unit, limiter, ui>>
  BY DEF Term
<1>2. /\ happened' \in Nat /\ past \subseteq past' /\ past' \subseteq Kinds
      /\ "crowd" \in past' => "crowd" \in past
  BY HappensIs DEF Term
<1> QED  BY <1>1, <1>2, Same, TermedIs, Watched

(* A daemon started beside or after others.                                 *)
LEMMA StartIs ==
  ASSUME Base, Unused # {}, NEW d, New(d), d.off => d.foreign, proc' = [proc EXCEPT ![NewPid] = d],
         past' \in {Joined(past \cup {"hand"}), Joined(past \cup {"legacy"})},
         happened' \in Nat, UNCHANGED <<path, grab, mouse, unit, limiter, ui>>
  PROVE  Base'
<1>1. NewPid \in Pids /\ NewPid # UnitPid /\ At(NewPid, "gone")
  BY NewIsUnused
<1>2. proc' \in [Pids -> Processes] /\ Alive' = Alive \cup {NewPid}
      /\ proc'[UnitPid] = proc[UnitPid]
  BY <1>1, Typed, LifecycleAssumption DEF Alive, At, New
<1>3. past' \subseteq Kinds /\ past' \cap {"hand", "legacy"} # {} /\ past \subseteq past'
  BY Typed DEF Joined, Kinds, Events
<1>4. ui' \in Interfaces'
  BY <1>2, Same DEF Interfaces
<1>5. TypeOK'
  BY <1>2, <1>3, <1>4 DEF Base, TypeOK
<1>6. UnitIsKnown'
  BY <1>1, <1>2, <1>3 DEF Base, UnitIsKnown
<1> QED  BY <1>1, <1>3, <1>5, <1>6, OneStarts

LEMMA StartByHandInv ==
  ASSUME Base, StartByHand
  PROVE  Base'
<1>1. happened' \in Nat /\ Unused # {} /\ past' = Joined(past \cup {"hand"})
      /\ UNCHANGED <<path, grab, mouse, unit, limiter, ui>>
  BY Typed DEF StartByHand
<1>2. PICK d \in ByHand : proc' = [proc EXCEPT ![NewPid] = d]
  BY DEF StartByHand
<1>3. New(d) /\ (d.off => d.foreign)
  BY NewIs DEF ByHand
<1> QED  BY <1>1, <1>2, <1>3, StartIs

LEMMA TickInv ==
  ASSUME Base, Tick
  PROVE  Base'
<1>1. \A q \in Pids : At(q, "sleep") => proc[q].wait \in 1 .. Interval
  BY Typed, Bounds DEF Tick, Quiet, Idle, At, Processes
<1>2. \A q \in Pids : At(q, "sleep") => [proc[q] EXCEPT !.wait = @ - 1] \in Processes
  <2> SUFFICES ASSUME NEW q \in Pids, At(q, "sleep")
               PROVE  [proc[q] EXCEPT !.wait = @ - 1] \in Processes
    OBVIOUS
  <2>1. proc[q] \in Processes /\ proc[q].wait - 1 \in 0 .. Interval
    BY <1>1, Typed, Bounds
  <2> QED  BY <2>1 DEF Processes
<1>3. proc' \in [Pids -> Processes]
  BY <1>2, Typed DEF Tick
<1>4. \A q \in Pids : Stays(q)
  BY Typed DEF Tick, Processes, Stays
<1>5. unit' \in Units /\ unit'.state = unit.state /\ unit'.file = unit.file
  <2>1. unit \in Units /\ (unit.state = "waiting" => unit.timer - 1 \in 0 .. RestartSec)
    BY Same, Bounds DEF Tick, Units
  <2> QED  BY <2>1 DEF Tick, Units
<1>6. limiter' \in [num : 0 .. LimitBurst, age : 0 .. LimitInterval]
  BY Same, Bounds DEF Tick, Older, NoStarts
<1>7. happened' \in Nat /\ past' = past /\ past' \subseteq Kinds
  BY CalmIs DEF Tick
<1>8. UNCHANGED <<path, grab, mouse, ui>>
  BY DEF Tick
<1>9. UnitMoves
  BY <1>5 DEF UnitMoves, Runs
<1> QED  BY <1>3, <1>4, <1>5, <1>6, <1>7, <1>8, <1>9, Same, Watched

LEMMA SystemdStartsInv ==
  ASSUME Base, SystemdStarts
  PROVE  Base'
<1>1. /\ unit \in Units /\ ~Runs(unit) /\ UnitPid \in Pids /\ At(UnitPid, "gone")
      /\ UNCHANGED <<grab, mouse, ui>>
  BY LifecycleAssumption, Same DEF SystemdStarts, Runs, Base, UnitIsKnown, Alive
<1>2. limiter.num < LimitBurst => Counted \in [num : 0 .. LimitBurst, age : 0 .. LimitInterval]
  BY Same, Bounds DEF Counted
<1>3. CASE unit' = [unit EXCEPT !.state = "limited"] /\ UNCHANGED <<proc, path, limiter>> /\ Calm
  <2>1. unit' \in Units /\ UnitMoves
    BY <1>1, <1>3 DEF Units, Runs, UnitMoves
  <2> QED  BY <1>1, <1>3, <2>1, Same, Typed, CalmIs, Watched
<1>4. CASE /\ MayStart /\ unit.file = "broken" /\ limiter' = Counted
           /\ unit' = Ended(TRUE) /\ path' \in {NoDir, path} /\ UNCHANGED proc /\ Calm
  <2>1. unit' \in Units /\ unit'.file = unit.file /\ ~Runs(unit')
    <3>1. unit' = [unit EXCEPT !.state = "waiting", !.timer = RestartSec]
          /\ RestartSec \in 0 .. RestartSec
      BY <1>1, <1>4, Bounds DEF Ended, Runs
    <3> QED  BY <1>1, <3>1 DEF Units, Runs
  <2>2. Alive' = Alive /\ UNCHANGED past /\ "broken" \in past
    BY <1>4 DEF Alive, At, Calm, Base, UnitIsKnown
  <2>3. ui' \in Interfaces'
    BY <1>1, <2>2, Same DEF Interfaces
  <2>4. TypeOK'
    BY <1>1, <1>2, <1>4, <2>1, <2>2, <2>3, CalmIs DEF MayStart, Base, TypeOK
  <2>5. UnitIsKnown' /\ CrowdsAreMade'
    BY <1>1, <2>1, <2>2 DEF Base, UnitIsKnown, CrowdsAreMade, Runs
  <2>6. SocketIsOwned' /\ LeftoversGo'
    BY <1>1, <1>4, <2>2, PathIsClear DEF Base, SocketIsOwned, LeftoversGo, At
  <2>7. SocketIsReachable'
    BY <1>1, <1>4, <2>1, <2>2 DEF Base, SocketIsReachable, Deaf, Outdated, At
  <2> QED  BY <2>4, <2>5, <2>6, <2>7 DEF Base
<1>5. CASE /\ MayStart /\ limiter' = Counted /\ unit' = [unit EXCEPT !.state = "active"]
           /\ proc' = [proc EXCEPT ![UnitPid] = [Fresh EXCEPT !.off = (unit.file = "old")]]
           /\ path' = (IF path = NoDir /\ unit.file # "old" THEN Absent ELSE path)
           /\ past' = Joined(past) /\ UNCHANGED happened
  <2> DEFINE d == [Fresh EXCEPT !.off = (unit.file = "old")]
  <2>1. unit' \in Units /\ unit'.file = unit.file /\ unit'.state = "active"
    BY <1>1, <1>5 DEF Units
  <2>2. New(d) /\ d.off = (unit.file = "old")
    BY NewIs
  <2> HIDE DEF d
  <2>3. proc' = [proc EXCEPT ![UnitPid] = d]
    BY <1>5 DEF d
  <2>4. proc' \in [Pids -> Processes] /\ Alive' = Alive \cup {UnitPid}
    BY <1>1, <2>2, <2>3, Typed DEF Alive, At, New
  <2>5. past' \subseteq Kinds /\ past \subseteq past'
    BY <1>5, Typed DEF Joined, Kinds, Events
  <2>6. ui' \in Interfaces'
    BY <1>1, <2>4, Same DEF Interfaces
  <2>7. TypeOK'
    BY <1>1, <1>2, <1>5, <2>1, <2>4, <2>5, <2>6 DEF MayStart, Base, TypeOK
  <2>8. UnitIsKnown'
    BY <1>1, <2>1, <2>4, <2>5 DEF Base, UnitIsKnown
  <2> QED  BY <1>1, <1>5, <2>1, <2>2, <2>3, <2>7, <2>8, OneStarts
<1> QED  BY <1>3, <1>4, <1>5 DEF SystemdStarts

-----------------------------------------------------------------------------
(* What the interface does.                                                 *)

Elsewhere == {"heal", "start", "wait", "open", "killed"}

LEMMA ScreenIs ==
  ASSUME Base
  PROVE  /\ ui \in Interfaces /\ query_state \in {"off", "enabled", "active"}
         /\ \A where \in Elsewhere :
              [Closed EXCEPT !.pc = where] \in Interfaces /\ [Closed EXCEPT !.pc = where].pc = where
         /\ Killing \cap (Elsewhere \cup {"closed"}) = {}
<1>1. ui \in Interfaces
  BY Same
<1>2. query_state \in {"off", "enabled", "active"}
  BY DEF query_state
<1>3. \A where \in Elsewhere :
        [Closed EXCEPT !.pc = where] \in Interfaces /\ [Closed EXCEPT !.pc = where].pc = where
  BY DEF Closed, Interfaces, Elsewhere
<1> QED  BY <1>1, <1>2, <1>3 DEF Killing, Elsewhere

(* The interface alone moves.                                               *)
LEMMA ScreenAlone ==
  ASSUME Base, UNCHANGED <<proc, path, grab, mouse, unit, limiter>>,
         ui' \in Interfaces, ScreenMoves,
         happened' \in Nat, past \subseteq past', past' \subseteq Kinds,
         "crowd" \in past' => "crowd" \in past
  PROVE  Base'
  BY Same, Typed, Watched

LEMMA LaunchInv ==
  ASSUME Base, Launch
  PROVE  Base'
<1>1. ui' \in Interfaces /\ ui'.pc \in {"open", "heal"}
  <2> DEFINE s == query_state
  <2>1. s \in {"off", "enabled", "active"}
        /\ ui' = [Closed EXCEPT !.pc = IF s = "off" THEN "open" ELSE "heal", !.svc = s]
    BY ScreenIs DEF Launch
  <2> HIDE DEF s
  <2> QED  BY <2>1 DEF Closed, Interfaces
<1>2. /\ happened' \in Nat /\ past \subseteq past' /\ past' \subseteq Kinds
      /\ "crowd" \in past' => "crowd" \in past
  BY HappensIs DEF Launch
<1>3. ScreenMoves
  BY <1>1 DEF ScreenMoves, Killing
<1> QED  BY <1>1, <1>2, <1>3, ScreenAlone DEF Launch

LEMMA HealInv ==
  ASSUME Base, heal_at_startup
  PROVE  Base'
<1>1. ui' \in Interfaces /\ ui'.pc \in {"wait", "start"}
  BY ScreenIs DEF heal_at_startup, Elsewhere
<1>2. UNCHANGED <<path, grab, mouse, limiter, happened>>
  BY DEF heal_at_startup
<1>3. grab' \in Pids \cup {NoPid} /\ mouse' \in BOOLEAN /\ happened' \in Nat
      /\ limiter' \in [num : 0 .. LimitBurst, age : 0 .. LimitInterval]
  BY <1>2, Same, Typed
<1>4. CASE unit.file = "current" /\ UNCHANGED <<unit, proc, past>>
  <2>1. ScreenMoves
    BY <1>1, <1>4 DEF ScreenMoves, Killing
  <2> QED  BY <1>1, <1>2, <1>3, <1>4, <2>1, Same, Typed, Watched
<1>5. CASE /\ unit' = TryRestarted(Healed(unit)) /\ past' = past \cup {"healed"}
           /\ proc' = IF unit.state = "active" THEN Termed({UnitPid}) ELSE proc
  <2> DEFINE u == Healed(unit)
  <2>1. u \in Units /\ u.state = unit.state /\ u.file = "current" /\ unit' = TryRestarted(u)
    BY <1>5, Same, SystemctlIs
  <2> HIDE DEF u
  <2>2. /\ unit' \in Units /\ (Runs(unit') <=> Runs(unit)) /\ unit'.file = "current"
        /\ unit'.state \in {u.state, "starting", "cycling"}
        /\ unit'.state = "cycling" => u.state \in {"cycling", "active"}
    BY <2>1, SystemctlIs, SystemctlTells DEF Runs
  <2>3. /\ proc' \in [Pids -> Processes] /\ \A q \in Pids : Stays(q)
        /\ unit.state = "active" => proc'[UnitPid].stop
    BY <1>5, Typed, TermedIs, Same, LifecycleAssumption
  <2>4. At(UnitPid, "gone") \/ proc'[UnitPid].stop
    BY <2>3, LifecycleAssumption DEF Base, UnitIsKnown, Alive, Stays
  <2>5. UnitMoves
    BY <1>5, <2>1, <2>2, <2>3, <2>4 DEF UnitMoves
  <2>6. past \subseteq past' /\ past' \subseteq Kinds /\ ("crowd" \in past' => "crowd" \in past)
    BY <1>5, Typed DEF Kinds
  <2>7. ScreenMoves
    BY <1>1, <2>2 DEF ScreenMoves, Killing
  <2> QED  BY <1>1, <1>2, <1>3, <2>2, <2>3, <2>5, <2>6, <2>7, Watched
<1> QED  BY <1>4, <1>5 DEF heal_at_startup

LEMMA StartOnlyInv ==
  ASSUME Base, start_only
  PROVE  Base'
<1>1. ui' \in Interfaces /\ ui'.pc = "wait"
  BY ScreenIs DEF start_only, Interfaces
<1>2. unit.file = "current"
  BY DEF start_only, Base, UnitIsKnown
<1>3. unit' \in Units /\ UnitMoves
  <2> DEFINE u == Healed(unit)
  <2>1. u \in Units /\ u.state = unit.state /\ u.file = "current" /\ unit' = Started(u)
    BY Same, SystemctlIs DEF start_only
  <2> HIDE DEF u
  <2>2. /\ unit' \in Units /\ (Runs(unit') <=> Runs(unit)) /\ unit'.file = unit.file
        /\ unit'.state \in {u.state, "starting", "cycling"}
        /\ unit'.state = "cycling" => unit.state \in {"cycling", "stopping"}
    BY <1>2, <2>1, SystemctlIs, SystemctlTells DEF Runs
  <2>3. proc' = proc /\ past' = past
    BY DEF start_only, Calm
  <2>4. unit'.state = "cycling" => proc[UnitPid].stop /\ past \cap {"healed", "toggle"} # {}
    BY <2>2 DEF Base, UnitIsKnown
  <2> QED  BY <2>1, <2>2, <2>3, <2>4 DEF UnitMoves
<1>4. happened' \in Nat /\ past' = past /\ past' \subseteq Kinds
  BY CalmIs DEF start_only
<1>5. UNCHANGED <<proc, path, grab, mouse, limiter>>
  BY DEF start_only
<1>6. ScreenMoves
  BY <1>1 DEF ScreenMoves, Killing
<1> QED  BY <1>1, <1>3, <1>4, <1>5, <1>6, Same, Typed, Watched

LEMMA WaitInv ==
  ASSUME Base, wait_for_running
  PROVE  Base'
<1>1. ui' \in Interfaces /\ ui'.pc = "open"
  BY ScreenIs DEF wait_for_running, Elsewhere
<1>2. ScreenMoves
  BY <1>1 DEF ScreenMoves, Killing
<1> QED  BY <1>1, <1>2, CalmIs, ScreenAlone DEF wait_for_running

LEMMA EnableInv ==
  ASSUME Base, enable_now
  PROVE  Base'
<1>1. /\ happened' \in Nat /\ past \subseteq past' /\ past' \subseteq Kinds
      /\ ("crowd" \in past' => "crowd" \in past) /\ "toggle" \in past'
  BY HappensIs DEF enable_now
<1>2. UNCHANGED <<proc, path, grab, mouse, limiter, ui>>
  BY DEF enable_now
<1>3. unit' \in Units /\ UnitMoves
  <2> DEFINE u == [Healed(unit) EXCEPT !.enabled = TRUE]
  <2>1. u \in Units /\ u.state = unit.state /\ u.file = "current" /\ unit' = Started(u)
    BY Same DEF enable_now, Units, Healed
  <2> HIDE DEF u
  <2>2. /\ unit' \in Units /\ (Runs(unit') <=> Runs(unit)) /\ unit'.file = "current"
        /\ unit'.state \in {u.state, "starting", "cycling"}
        /\ unit'.state = "cycling" => unit.state \in {"cycling", "stopping"}
    BY <2>1, SystemctlIs, SystemctlTells DEF Runs
  <2>3. unit'.state = "cycling" => proc[UnitPid].stop
    BY <2>2 DEF Base, UnitIsKnown
  <2> QED  BY <1>1, <1>2, <2>1, <2>2, <2>3 DEF UnitMoves
<1> QED  BY <1>1, <1>2, <1>3, Same, Typed, Watched

LEMMA DisableInv ==
  ASSUME Base, disable_now
  PROVE  Base'
<1>1. /\ happened' \in Nat /\ past \subseteq past' /\ past' \subseteq Kinds
      /\ ("crowd" \in past' => "crowd" \in past) /\ "toggle" \in past'
  BY HappensIs DEF disable_now
<1>2. UNCHANGED <<path, grab, mouse, limiter, ui>>
  BY DEF disable_now
<1>3. /\ proc' \in [Pids -> Processes] /\ \A q \in Pids : Stays(q)
      /\ unit.state = "active" => proc'[UnitPid].stop
  BY Typed, TermedIs, Same, LifecycleAssumption DEF disable_now
<1>4. unit' \in Units /\ UnitMoves
  <2> DEFINE u == [unit EXCEPT !.enabled = FALSE]
  <2>1. u \in Units /\ u.state = unit.state /\ u.file = unit.file /\ unit' = Stopped(u)
    BY Same DEF disable_now, Units
  <2> HIDE DEF u
  <2>2. /\ unit' \in Units /\ (Runs(unit') <=> Runs(unit)) /\ unit'.file = unit.file
        /\ unit'.state \in {u.state, "inactive", "stopping"}
        /\ unit'.state = "stopping" => unit.state \in {"active", "cycling", "stopping"}
    BY <2>1, SystemctlIs, SystemctlTells DEF Runs
  <2>3. unit'.state = "stopping" => proc'[UnitPid].stop
    BY <1>3, <2>2, LifecycleAssumption DEF Base, UnitIsKnown, Stays
  <2> QED  BY <1>1, <2>1, <2>2, <2>3 DEF UnitMoves
<1> QED  BY <1>1, <1>2, <1>3, <1>4, Same, Watched

LEMMA EnsureInv ==
  ASSUME Base, ensure_running
  PROVE  Base'
<1>1. happened' \in Nat
  BY Typed DEF ensure_running
<1> QED  BY <1>1, NewIs, StartIs DEF ensure_running

LEMMA FindInv ==
  ASSUME Base, find_daemon_pids
  PROVE  Base'
<1>1. ui' \in Interfaces /\ ui'.pc = "found"
  BY DEF find_daemon_pids, Interfaces, Killing, Closed
<1>2. /\ happened' \in Nat /\ past \subseteq past' /\ past' \subseteq Kinds
      /\ ("crowd" \in past' => "crowd" \in past) /\ "legacy" \in past'
  BY HappensIs DEF find_daemon_pids
<1>3. ScreenMoves
  BY <1>1, <1>2 DEF ScreenMoves
<1> QED  BY <1>1, <1>2, <1>3, ScreenAlone DEF find_daemon_pids

(* In kill_daemon the interface goes on, or leaves.                         *)
LEMMA OverIs ==
  ASSUME Base, Over("open")
  PROVE  ui' \in Interfaces /\ ui'.pc = "open" /\ ScreenMoves
<1>1. ui' \in Interfaces /\ ui'.pc = "open"
  BY ScreenIs DEF Over, Elsewhere
<1> QED  BY <1>1 DEF ScreenMoves, Killing

LEMMA GoesIs ==
  ASSUME Base, ui.pc \in Killing, NEW where \in Killing \cup {"killed"}, Goes(where), past' = past
  PROVE  /\ ui' \in Interfaces /\ ui'.pc = where /\ ui'.found = ui.found
         /\ ui'.whom = ui.whom /\ ui'.ours = ui.ours /\ ScreenMoves
<1>1. /\ ui' \in Interfaces /\ ui'.pc = where /\ ui'.found = ui.found
      /\ ui'.whom = ui.whom /\ ui'.ours = ui.ours
  BY ScreenIs DEF Goes, Interfaces
<1>2. "legacy" \in past'
  BY DEF Base, LeftoversGo
<1> QED  BY <1>1, <1>2 DEF ScreenMoves, Killing

LEMMA AskToQuitInv ==
  ASSUME Base, AskToQuit
  PROVE  Base'
<1>1. /\ happened' \in Nat /\ past' = past /\ past' \subseteq Kinds
      /\ UNCHANGED <<path, grab, mouse, unit, limiter>>
  BY CalmIs DEF AskToQuit
<1>2. ui.pc \in Killing /\ "asked" \in Killing /\ "term" \in Killing /\ "legacy" \in past
  BY DEF AskToQuit, Killing, Base, LeftoversGo
<1>3. CASE /\ socket_alive /\ proc' = [proc EXCEPT ![path].asked = TRUE]
           /\ ui' = [ui EXCEPT !.pc = "asked", !.whom = path]
  <2>1. path \in Pids /\ proc[path] \in Processes /\ path \in Alive
    BY <1>3, Typed DEF socket_alive, Base, SocketIsOwned, Listening, Alive, At
  <2>2. [proc[path] EXCEPT !.asked = TRUE] \in Processes
    BY <2>1 DEF Processes
  <2>3. proc' \in [Pids -> Processes]
    BY <1>3, <2>1, <2>2, Typed
  <2>4. \A q \in Pids : Stays(q)
    BY <1>3, <2>1, Typed DEF Processes, Stays
  <2>5. ui' \in Interfaces /\ ui'.pc = "asked"
    BY <1>2, <1>3, <2>1, ScreenIs DEF Interfaces
  <2>6. ScreenMoves
    BY <1>1, <1>2, <2>5 DEF ScreenMoves
  <2> QED  BY <1>1, <2>3, <2>4, <2>5, <2>6, Same, Watched
<1>4. CASE Goes("term") /\ UNCHANGED proc
  <2>1. ui' \in Interfaces /\ ScreenMoves
    BY <1>1, <1>2, <1>4, GoesIs
  <2> QED  BY <1>1, <1>4, <2>1, ScreenAlone
<1>5. CASE Over("open") /\ UNCHANGED proc
  BY <1>1, <1>5, OverIs, ScreenAlone
<1> QED  BY <1>3, <1>4, <1>5 DEF AskToQuit

LEMMA QuitTimesOutInv ==
  ASSUME Base, QuitTimesOut
  PROVE  Base'
<1>1. ui.pc \in Killing /\ "term" \in Killing /\ "legacy" \in past
  BY DEF QuitTimesOut, Killing, Base, LeftoversGo
<1>2. /\ happened' \in Nat /\ past' = past /\ past' \subseteq Kinds
      /\ UNCHANGED <<proc, path, grab, mouse, unit, limiter>> /\ Goes("term")
  BY CalmIs DEF QuitTimesOut
<1>3. ui' \in Interfaces /\ ScreenMoves
  BY <1>1, <1>2, GoesIs
<1> QED  BY <1>2, <1>3, ScreenAlone

LEMMA PollInv ==
  ASSUME Base, Poll
  PROVE  Base'
<1>1. /\ happened' \in Nat /\ past' = past /\ past' \subseteq Kinds
      /\ UNCHANGED <<proc, path, grab, mouse, unit, limiter>>
  BY CalmIs DEF Poll
<1>2. CASE Over("open")
  BY <1>1, <1>2, OverIs, ScreenAlone
<1>3. CASE /\ ui.pc \in {"quitpoll", "termpoll", "killpoll"}
           /\ Goes("killed") \/ Goes("term") \/ Goes("kill")
  <2>1. ui.pc \in Killing /\ "term" \in Killing /\ "kill" \in Killing
    BY <1>3 DEF Killing
  <2>2. ui' \in Interfaces /\ ScreenMoves
    BY <1>1, <1>3, <2>1, GoesIs
  <2> QED  BY <1>1, <2>2, ScreenAlone
<1> QED  BY <1>2, <1>3 DEF Poll

LEMMA SendTermInv ==
  ASSUME Base, SendTerm
  PROVE  Base'
<1>1. /\ happened' \in Nat /\ past \subseteq past' /\ past' \subseteq Kinds
      /\ ("crowd" \in past' => "crowd" \in past)
      /\ UNCHANGED <<path, grab, mouse, unit, limiter>> /\ proc' = Termed(Mine)
  BY Typed DEF SendTerm, Kinds
<1>2. proc' \in [Pids -> Processes] /\ \A q \in Pids : Stays(q)
  BY <1>1, TermedIs
<1>3. CASE Over("open")
  BY <1>1, <1>2, <1>3, OverIs, Same, Watched
<1>4. CASE ui' = [ui EXCEPT !.pc = "termpoll", !.ours = (UnitPid \in Mine)]
  <2>1. "termpoll" \in Killing /\ "legacy" \in past
    BY DEF SendTerm, Killing, Base, LeftoversGo
  <2> DEFINE ours == UnitPid \in Mine
  <2>2. ui' \in Interfaces /\ ui'.pc = "termpoll"
    <3>1. ours \in BOOLEAN /\ ui' = [ui EXCEPT !.pc = "termpoll", !.ours = ours]
      BY <1>4
    <3> HIDE DEF ours
    <3> QED  BY <2>1, <3>1, ScreenIs DEF Interfaces
  <2>3. ScreenMoves
    BY <1>1, <2>1, <2>2 DEF ScreenMoves
  <2> QED  BY <1>1, <1>2, <2>2, <2>3, Same, Watched
<1> QED  BY <1>3, <1>4 DEF SendTerm

LEMMA SendKillInv ==
  ASSUME Base, SendKill
  PROVE  Base'
<1>1. /\ happened' \in Nat /\ past \subseteq past' /\ past' \subseteq Kinds
      /\ ("crowd" \in past' => "crowd" \in past) /\ UNCHANGED <<mouse, limiter>>
  <2>1. past' \in {past, past \cup {"sigkill"}} /\ UNCHANGED <<mouse, limiter, happened>>
    BY DEF SendKill
  <2> QED  BY <2>1, Typed DEF Kinds
<1>2. CASE Over("open") /\ UNCHANGED <<proc, path, grab, unit, past>>
  BY <1>1, <1>2, OverIs, ScreenAlone
<1>3. CASE Buried(Mine, TRUE) /\ ui' = [Without(Mine) EXCEPT !.pc = "killpoll"]
  <2>1. ui.pc \in Killing /\ "legacy" \in past /\ Mine \subseteq Alive
    BY Same DEF SendKill, Killing, Base, LeftoversGo, Mine, Interfaces
  <2>2. past' \cap {"crash", "legacy"} # {}
    BY <1>1, <2>1
  <2> QED  BY <1>1, <1>3, <2>1, <2>2, SomeGo
<1> QED  BY <1>2, <1>3 DEF SendKill

LEMMA InterfaceInv ==
  ASSUME Base, Interface
  PROVE  Base'
  BY LaunchInv, HealInv, StartOnlyInv, WaitInv, EnableInv, DisableInv, EnsureInv, FindInv,
     AskToQuitInv, QuitTimesOutInv, PollInv, SendTermInv, SendKillInv
     DEF Interface

LEMMA NextBase == Base /\ [Next]_vars => Base'
<1> SUFFICES ASSUME Base, [Next]_vars PROVE Base'
  OBVIOUS
<1>1. CASE \E p \in Pids : Daemon(p)
  BY <1>1, DaemonInv
<1>2. CASE SystemdStarts \/ Tick \/ StartByHand
  BY <1>2, SystemdStartsInv, TickInv, StartByHandInv
<1>3. CASE LoseMouse \/ MouseBack
  BY <1>3, MouseInv
<1>4. CASE \E p \in Pids : Crash(p) \/ Term(p)
  BY <1>4, CrashInv, TermInv
<1>5. CASE Interface
  BY <1>5, InterfaceInv
<1>6. CASE UNCHANGED vars
  <2>1. UNCHANGED <<proc, path, grab, mouse, unit, limiter, ui, happened, past>>
    BY <1>6 DEF vars
  <2> QED  BY <2>1, Same, Typed, Watched
<1> QED  BY <1>1, <1>2, <1>3, <1>4, <1>5, <1>6 DEF Next

-----------------------------------------------------------------------------
(* The second part of IInv: who has the mouse, and who has been told.       *)

Ending == {"close", "remove", "release"}

(* Nobody moves, and the mouse stays where it is: those who have been told  *)
(* stop as before.                                                          *)
LEMMA HeldStays ==
  ASSUME Base, MouseIsHeld, \A q \in Pids : Stays(q), grab' = grab, past \subseteq past'
  PROVE  MouseIsHeld' /\ \A q \in Pids : Settled(q) => Settled(q)'
<1>1. MouseIsHeld'
  BY DEF MouseIsHeld, Stays
<1>2. \A q \in Pids : Settled(q) => Settled(q)'
  BY DEF Settled, Stays, At
<1> QED  BY <1>1, <1>2

LEMMA ToldStays ==
  ASSUME Base, MouseIsHeld, ToldAreStopping,
         \A q \in Pids : Stays(q), grab' = grab, past \subseteq past',
         unit'.state = unit.state, ui' = ui
  PROVE  MouseIsHeld' /\ ToldAreStopping'
<1>1. MouseIsHeld' /\ \A q \in Pids : Stopping(q) => Stopping(q)'
  BY HeldStays DEF Stopping, Stays
<1>2. Told \subseteq Pids
  BY Same DEF Told, Interfaces, Alive
<1> QED  BY <1>1, <1>2, LifecycleAssumption DEF ToldAreStopping, Told

(* The interface goes where nobody has been told anything.                  *)
LEMMA NobodyTold ==
  ASSUME ui'.pc \notin {"quitpoll", "termpoll", "killed", "killpoll"}
  PROVE  ToldAreStopping'
  BY DEF ToldAreStopping

(* Whoever is told alone, is the only one there is.                         *)
LEMMA OnlyOne ==
  ASSUME Base, past \cap Hindered = {}, NEW p \in Alive
  PROVE  Alive = {p} /\ ui.found \subseteq {p} /\ ui.whom \in {p, NoPid}
         /\ (p = UnitPid => unit.state = "active")
<1>1. Alive = {p}
  BY DEF Base, CrowdsAreMade, Hindered
<1>2. p = UnitPid => unit.state = "active"
  BY DEF Base, UnitIsKnown, Hindered
<1> QED  BY <1>1, <1>2, Same DEF Interfaces

(* What a daemon does to itself, as long as it is there.                    *)
Advances(p) ==
  /\ proc' = [proc EXCEPT ![p] = proc'[p]]
  /\ grab' = grab \/ (grab = NoPid /\ grab' = p)
  /\ UNCHANGED unit /\ past \subseteq past'
  /\ proc'[p].failed => proc'[p].pc \in Ending
  /\ proc'[p].pc \in {"setup", "loop"} => grab' = p \/ proc[p].pc \in {"setup", "loop"}
  /\ Stopping(p) =>
       /\ proc'[p].stop
       /\ \/ proc'[p].pc = "loop" /\ grab' = p
          \/ proc'[p].pc \in Ending /\ ~proc'[p].failed

LEMMA DaemonAdvances ==
  ASSUME Base, MouseIsHeld, NEW p \in Pids, Daemon(p), ~Exit(p)
  PROVE  Advances(p)
<1> USE DEF Advances, MouseIsHeld, At, Calm, Happens, Ending, Stopping, Settled, Goto
<1>1. proc \in [Pids -> Processes] /\ proc[p] \in Processes
  BY Typed
<1>2. CASE Unlink(p) \/ Bind(p)
  BY <1>1, <1>2 DEF Unlink, Bind, Processes
<1>3. CASE Search(p)
  BY <1>1, <1>3 DEF Search, GiveUp, Processes
<1>4. CASE Wake(p) \/ Grab(p)
  BY <1>1, <1>4 DEF Wake, Grab, grab_device, GiveUp, Processes
<1>5. CASE Setup(p)
  BY <1>1, <1>5 DEF Setup, GiveUp, Processes
<1>6. CASE ReadQuit(p)
  BY <1>1, <1>6 DEF ReadQuit, Processes
<1>7. CASE Leave(p)
  BY <1>1, <1>7 DEF Leave, Processes
<1>8. CASE Close(p) \/ Remove(p)
  BY <1>1, <1>8 DEF Close, Remove, Processes
<1> QED  BY <1>2, <1>3, <1>4, <1>5, <1>6, <1>7, <1>8 DEF Daemon

LEMMA AdvanceHolds ==
  ASSUME Base, MouseIsHeld, NEW p \in Pids, Advances(p)
  PROVE  MouseIsHeld' /\ \A q \in Pids : Stopping(q) => Stopping(q)'
<1>1. \A q \in Pids : q # p => proc'[q] = proc[q]
  BY Typed DEF Advances
<1>2. NoPid \notin Pids
  BY LifecycleAssumption
<1>3. MouseIsHeld'
  BY <1>1, <1>2 DEF MouseIsHeld, Advances, Ending
<1>4. ASSUME NEW q \in Pids, Stopping(q)
      PROVE  Stopping(q)'
  <2>1. CASE q = p
    BY <1>4, <2>1 DEF Advances, Stopping, Settled, At, Ending
  <2>2. CASE q # p
    BY <1>1, <1>2, <1>4, <2>2 DEF Advances, Stopping, Settled, At
  <2> QED  BY <2>1, <2>2
<1> QED  BY <1>3, <1>4

LEMMA ReadQuitTells ==
  ASSUME Base, MouseIsHeld, ToldAreStopping, NEW p \in Pids, ReadQuit(p)
  PROVE  ToldAreStopping'
<1>1. Advances(p) /\ MouseIsHeld' /\ (\A q \in Pids : Stopping(q) => Stopping(q)')
      /\ UNCHANGED <<unit, grab, past>>
  BY DaemonAdvances, AdvanceHolds DEF ReadQuit, Daemon, Exit, At, Calm
<1>2. CASE ui' = ui
  <2>1. Told \subseteq Pids /\ Told' = Told
    BY <1>2, Same DEF Told, Interfaces, Alive
  <2> QED  BY <1>1, <1>2, <2>1, LifecycleAssumption DEF ToldAreStopping
<1>3. CASE /\ ui.pc = "asked" /\ ui.whom = p
           /\ ui' = [ui EXCEPT !.pc = "quitpoll", !.ours = (p = UnitPid)]
  <2>1. /\ ui'.pc = "quitpoll" /\ ui'.found = ui.found /\ ui'.whom = p
        /\ ui'.ours => p = UnitPid
    BY <1>3, Same DEF Interfaces
  <2>2. proc'[p].pc = "loop" /\ proc'[p].stop /\ p \in Alive
    BY Typed DEF ReadQuit, At, Alive, Processes
  <2>3. ASSUME past' \cap Hindered = {}
        PROVE  /\ \A q \in Told' : Stopping(q)'
               /\ ui'.ours => unit'.state = "active" /\ Stopping(UnitPid)'
    <3>1. Told' \subseteq {p} /\ (p = UnitPid => unit.state = "active")
      BY <1>1, <2>1, <2>2, <2>3, OnlyOne DEF Told
    <3>2. Stopping(p)'
      BY <1>1, <2>2, <2>3 DEF MouseIsHeld, Stopping, Settled, At, Hindered
    <3> QED  BY <1>1, <2>1, <3>1, <3>2
  <2> QED  BY <2>1, <2>3 DEF ToldAreStopping
<1> QED  BY <1>2, <1>3 DEF ReadQuit

(* Processes that are gone hold no mouse; the others go on as before.       *)
LEMMA BuriedHolds ==
  ASSUME Base, MouseIsHeld, NEW who, NEW failed, Buried(who, failed), past \subseteq past'
  PROVE  /\ MouseIsHeld'
         /\ \A q \in Pids : q \notin who => (Stopping(q) => Stopping(q)')
<1>1. \A q \in Pids : proc'[q] = IF q \in who THEN Gone ELSE proc[q]
  BY DEF Buried
<1>2. \A q \in Pids : q \notin who /\ grab = q => grab' = q
  BY DEF Buried, release_device
<1>3. MouseIsHeld'
  BY <1>1, <1>2, FreshIsNew DEF MouseIsHeld
<1>4. \A q \in Pids : q \notin who => (Stopping(q) => Stopping(q)')
  BY <1>1, <1>2 DEF Stopping, Settled, At
<1> QED  BY <1>3, <1>4

LEMMA ExitTells ==
  ASSUME Base, MouseIsHeld, ToldAreStopping, NEW p \in Pids, Exit(p)
  PROVE  MouseIsHeld' /\ ToldAreStopping'
<1>1. /\ At(p, "release") /\ Buried({p}, proc[p].failed) /\ ui' = Without({p}) /\ past' = past
  BY DEF Exit, Calm
<1>2. MouseIsHeld' /\ \A q \in Pids : q # p => (Stopping(q) => Stopping(q)')
  BY <1>1, BuriedHolds
<1>3. /\ ui'.pc = ui.pc /\ ui'.ours = ui.ours /\ Told' \subseteq Told \ {p} /\ Told \subseteq Pids
  BY <1>1, Same, LifecycleAssumption DEF Without, Told, Interfaces, Alive
<1>4. ASSUME ui.pc \in {"quitpoll", "termpoll", "killed"}, past \cap Hindered = {}, ui.ours
      PROVE  /\ unit'.state \notin {"starting", "waiting", "cycling"}
             /\ unit'.state \in {"active", "stopping"} => Stopping(UnitPid)'
  <2>1. /\ unit.state \notin {"starting", "waiting", "cycling"}
        /\ unit.state \in {"active", "stopping"} => Stopping(UnitPid)
    BY <1>4 DEF ToldAreStopping
  <2>2. CASE p = UnitPid
    <3>1. unit.state \in {"active", "stopping"} /\ Stopping(UnitPid)
      BY <1>1, <2>1, <2>2 DEF Base, UnitIsKnown, Alive, At
    <3>2. proc[p].failed = FALSE
      BY <1>1, <2>2, <3>1, Typed DEF Stopping, Settled, At, Processes
    <3>3. unit' = [unit EXCEPT !.state = "inactive"]
      BY <1>1, <2>2, <3>1, <3>2 DEF Buried, Ended
    <3> QED  BY <3>3, Same DEF Units
  <2>3. CASE p # UnitPid
    BY <1>1, <1>2, <2>1, <2>3, LifecycleAssumption DEF Buried
  <2> QED  BY <2>2, <2>3
<1>5. ToldAreStopping'
  BY <1>1, <1>2, <1>3, <1>4 DEF ToldAreStopping
<1> QED  BY <1>2, <1>5

LEMMA DaemonTells ==
  ASSUME Base, MouseIsHeld, ToldAreStopping, NEW p \in Pids, Daemon(p)
  PROVE  MouseIsHeld' /\ ToldAreStopping'
<1>1. CASE Exit(p)
  BY <1>1, ExitTells
<1>2. CASE ReadQuit(p)
  <2>1. ~Exit(p)
    BY <1>2 DEF ReadQuit, Exit, At
  <2> QED  BY <1>2, <2>1, DaemonAdvances, AdvanceHolds, ReadQuitTells
<1>3. CASE ~Exit(p) /\ ~ReadQuit(p)
  <2>1. Advances(p)
    BY <1>3, DaemonAdvances
  <2>2. ui' = ui
    BY <1>3 DEF Daemon, Unlink, Bind, Search, Wake, Grab, Setup, Leave, Close, Remove
  <2>3. MouseIsHeld' /\ (\A q \in Pids : Stopping(q) => Stopping(q)') /\ unit' = unit
        /\ past \subseteq past'
    BY <2>1, AdvanceHolds DEF Advances
  <2>4. Told \subseteq Pids /\ Told' = Told
    BY <2>2, Same DEF Told, Interfaces, Alive
  <2> QED  BY <2>2, <2>3, <2>4, LifecycleAssumption DEF ToldAreStopping
<1> QED  BY <1>1, <1>2, <1>3

(* A process that is new has not been told anything, and systemd starts the *)
(* unit's only if that one has not.                                         *)
LEMMA NewTells ==
  ASSUME Base, MouseIsHeld, ToldAreStopping, NEW p \in Pids, At(p, "gone"), NEW d, New(d),
         proc' = [proc EXCEPT ![p] = d], UNCHANGED <<grab, ui>>, past \subseteq past',
         unit' = unit \/ (unit.state \in {"starting", "waiting"} /\ p = UnitPid),
         p = UnitPid => ~Runs(unit)
  PROVE  MouseIsHeld' /\ ToldAreStopping'
<1>1. \A q \in Pids : proc'[q] = IF q = p THEN d ELSE proc[q]
  BY Typed
<1>2. MouseIsHeld'
  BY <1>1 DEF MouseIsHeld, New
<1>3. \A q \in Pids : q # p => (Stopping(q) => Stopping(q)')
  BY <1>1 DEF Stopping, Settled, At
<1>4. Told \subseteq Alive /\ p \notin Alive /\ Told' = Told /\ Alive \subseteq Pids
  BY Same DEF Told, Interfaces, Alive
<1>5. ASSUME ui.pc \in {"quitpoll", "termpoll", "killed"}, past \cap Hindered = {}, ui.ours
      PROVE  /\ unit'.state \notin {"starting", "waiting", "cycling"}
             /\ unit'.state \in {"active", "stopping"} => Stopping(UnitPid)'
  BY <1>3, <1>5, LifecycleAssumption DEF ToldAreStopping, Runs
<1>6. ToldAreStopping'
  BY <1>3, <1>4, <1>5 DEF ToldAreStopping
<1> QED  BY <1>2, <1>6

LEMMA StartsTell ==
  ASSUME Base, MouseIsHeld, ToldAreStopping, SystemdStarts \/ StartByHand \/ ensure_running
  PROVE  MouseIsHeld' /\ ToldAreStopping'
<1>1. CASE StartByHand
  <2>1. PICK d \in ByHand : proc' = [proc EXCEPT ![NewPid] = d]
    BY <1>1 DEF StartByHand
  <2>2. New(d)
    BY NewIs DEF ByHand
  <2>3. /\ NewPid \in Pids /\ NewPid # UnitPid /\ At(NewPid, "gone")
        /\ UNCHANGED <<grab, ui, unit>> /\ past \subseteq past'
    BY <1>1, NewIsUnused DEF StartByHand, Joined
  <2> QED  BY <2>1, <2>2, <2>3, NewTells
<1>2. CASE ensure_running
  <2>1. /\ NewPid \in Pids /\ NewPid # UnitPid /\ At(NewPid, "gone")
        /\ UNCHANGED <<grab, ui, unit>> /\ past \subseteq past'
        /\ proc' = [proc EXCEPT ![NewPid] = Fresh]
    BY <1>2, NewIsUnused DEF ensure_running, Joined
  <2> QED  BY <2>1, NewIs, NewTells
<1>3. CASE SystemdStarts
  <2>1. unit.state \in {"starting", "waiting"} /\ UNCHANGED <<grab, mouse, ui>>
    BY <1>3 DEF SystemdStarts
  <2>2. CASE UNCHANGED <<proc, past>>
    <3>1. MouseIsHeld' /\ \A q \in Pids : Stopping(q) => Stopping(q)'
      BY <2>1, <2>2, Same, HeldStays DEF Stopping
    <3>2. Told \subseteq Pids /\ Told' = Told
      BY <2>1, Same DEF Told, Interfaces, Alive
    <3> QED  BY <2>1, <2>2, <3>1, <3>2 DEF ToldAreStopping
  <2>3. CASE /\ proc' = [proc EXCEPT ![UnitPid] = [Fresh EXCEPT !.off = (unit.file = "old")]]
             /\ past' = Joined(past)
    <3> DEFINE d == [Fresh EXCEPT !.off = (unit.file = "old")]
    <3>1. New(d)
      BY NewIs
    <3> HIDE DEF d
    <3>2. proc' = [proc EXCEPT ![UnitPid] = d]
      BY <2>3 DEF d
    <3>3. /\ UnitPid \in Pids /\ At(UnitPid, "gone") /\ ~Runs(unit)
      BY <2>1, LifecycleAssumption DEF Base, UnitIsKnown, Alive, Runs
    <3>4. past \subseteq past'
      BY <2>3 DEF Joined
    <3> QED  BY <2>1, <3>1, <3>2, <3>3, <3>4, NewTells
  <2> QED  BY <1>3, <2>2, <2>3 DEF SystemdStarts, Calm
<1> QED  BY <1>1, <1>2, <1>3

LEMMA EventsTell ==
  ASSUME Base, MouseIsHeld, ToldAreStopping,
         \/ Tick \/ LoseMouse \/ MouseBack
         \/ \E p \in Pids : Crash(p) \/ Term(p)
  PROVE  MouseIsHeld' /\ ToldAreStopping'
<1>1. CASE Tick
  <2>1. \A q \in Pids : Stays(q)
    BY <1>1, Typed DEF Tick, Processes, Stays
  <2>2. UNCHANGED <<grab, ui, past>> /\ unit'.state = unit.state
    BY <1>1, Same DEF Tick, Calm, Units
  <2> QED  BY <2>1, <2>2, ToldStays
<1>2. CASE LoseMouse
  <2>1. UNCHANGED <<proc, ui>> /\ "lost" \in past' /\ past \subseteq past'
    BY <1>2 DEF LoseMouse, Happens
  <2>2. MouseIsHeld'
    BY <2>1 DEF MouseIsHeld
  <2>3. past' \cap Hindered # {} /\ (ui.pc = "killpoll" => "sigkill" \in past')
    BY <2>1 DEF Hindered, ToldAreStopping
  <2> QED  BY <2>1, <2>2, <2>3 DEF ToldAreStopping
<1>3. CASE MouseBack
  BY <1>3, Same, ToldStays DEF MouseBack, Calm
<1>4. ASSUME NEW p \in Pids, Crash(p)
      PROVE  MouseIsHeld' /\ ToldAreStopping'
  <2>1. Buried({p}, TRUE) /\ ui' = Without({p}) /\ "crash" \in past' /\ past \subseteq past'
    BY <1>4 DEF Crash, Happens
  <2>2. MouseIsHeld'
    BY <2>1, BuriedHolds
  <2>3. ui'.pc = ui.pc
    BY <2>1, Same DEF Without, Interfaces
  <2>4. past' \cap Hindered # {} /\ (ui.pc = "killpoll" => "sigkill" \in past')
    BY <2>1 DEF Hindered, ToldAreStopping
  <2> QED  BY <2>2, <2>3, <2>4 DEF ToldAreStopping
<1>5. ASSUME NEW p \in Pids, Term(p)
      PROVE  MouseIsHeld' /\ ToldAreStopping'
  BY <1>5, TermedIs, ToldStays DEF Term, Happens
<1> QED  BY <1>1, <1>2, <1>3, <1>4, <1>5

LEMMA SwitchTells ==
  ASSUME Base, MouseIsHeld, ToldAreStopping, enable_now \/ disable_now
  PROVE  MouseIsHeld' /\ ToldAreStopping'
<1>1. /\ "toggle" \in past' /\ past \subseteq past' /\ UNCHANGED <<grab, ui>>
      /\ proc' \in {proc, Termed({UnitPid})} /\ ui.pc \in {"open", "killed"}
  BY DEF enable_now, disable_now, Happens
<1>2. \A q \in Pids : Stays(q)
  BY <1>1, Same, TermedIs
<1>3. past' \cap Hindered # {}
  BY <1>1 DEF Hindered
<1> QED  BY <1>1, <1>2, <1>3, HeldStays DEF ToldAreStopping

(* SIGTERM reaches the only daemon there is, which has the mouse.           *)
LEMMA SendTermTells ==
  ASSUME Base, MouseIsHeld, ToldAreStopping, SendTerm
  PROVE  MouseIsHeld' /\ ToldAreStopping'
<1>1. /\ proc' = Termed(Mine) /\ UNCHANGED <<grab, unit>> /\ past \subseteq past'
      /\ Mine \subseteq ui.found /\ ui.found \subseteq Alive /\ Alive \subseteq Pids
  BY Same DEF SendTerm, Mine, Interfaces, Alive
<1>2. \A q \in Pids : Stays(q) /\ (q \in Mine => proc'[q].stop)
  BY <1>1, TermedIs
<1>3. MouseIsHeld' /\ \A q \in Pids : Settled(q) => Settled(q)'
  BY <1>1, <1>2, HeldStays
<1>4. CASE Over("open")
  BY <1>3, <1>4, OverIs, NobodyTold
<1>5. CASE Mine # {} /\ ui' = [ui EXCEPT !.pc = "termpoll", !.ours = (UnitPid \in Mine)]
  <2>1. /\ ui'.pc = "termpoll" /\ ui'.found = ui.found /\ ui'.whom = ui.whom
        /\ ui'.ours => UnitPid \in Mine
    BY <1>5, Same DEF Interfaces
  <2>2. ASSUME past' \cap Hindered = {}
        PROVE  /\ \A q \in Told' : Stopping(q)'
               /\ ui'.ours => unit'.state = "active" /\ Stopping(UnitPid)'
    <3>1. PICK p \in Mine : TRUE
      BY <1>5
    <3>2. past' = past /\ Settled(p)
      BY <2>2, <3>1 DEF SendTerm, Hindered
    <3>3. Alive = {p} /\ Told' \subseteq {p} /\ (p = UnitPid => unit.state = "active")
      BY <1>1, <2>1, <2>2, <3>1, <3>2, OnlyOne DEF Told
    <3>4. Stopping(p)'
      BY <1>1, <1>2, <1>3, <3>1, <3>2 DEF Stopping
    <3> QED  BY <1>1, <2>1, <3>3, <3>4
  <2> QED  BY <1>3, <2>1, <2>2 DEF ToldAreStopping
<1> QED  BY <1>4, <1>5 DEF SendTerm

LEMMA SendKillTells ==
  ASSUME Base, MouseIsHeld, ToldAreStopping, SendKill
  PROVE  MouseIsHeld' /\ ToldAreStopping'
<1>1. CASE Over("open") /\ UNCHANGED <<proc, path, grab, unit, past>>
  BY <1>1, OverIs, NobodyTold, Same, HeldStays
<1>2. CASE /\ Buried(Mine, TRUE) /\ ui' = [Without(Mine) EXCEPT !.pc = "killpoll"]
           /\ past' = past \cup {"sigkill"}
  <2>1. MouseIsHeld'
    BY <1>2, BuriedHolds
  <2>2. ui'.pc = "killpoll"
    BY <1>2, Same DEF Without, Interfaces
  <2> QED  BY <1>2, <2>1, <2>2 DEF ToldAreStopping
<1> QED  BY <1>1, <1>2 DEF SendKill

LEMMA PollTells ==
  ASSUME Base, MouseIsHeld, ToldAreStopping, Poll
  PROVE  MouseIsHeld' /\ ToldAreStopping'
<1>1. UNCHANGED <<proc, path, grab, mouse, unit, limiter, past>>
  BY DEF Poll, Calm
<1>2. MouseIsHeld' /\ \A q \in Pids : Stopping(q) => Stopping(q)'
  BY <1>1, Same, HeldStays DEF Stopping
<1>3. CASE Over("open")
  BY <1>2, <1>3, OverIs, NobodyTold
<1>4. CASE ui.pc \in {"quitpoll", "termpoll"} /\ (Goes("term") \/ Goes("kill"))
  <2>1. ui'.pc \in {"term", "kill"}
    BY <1>4, Same DEF Goes, Interfaces
  <2> QED  BY <1>2, <2>1, NobodyTold
<1>5. CASE ui.pc \in {"quitpoll", "termpoll", "killpoll"} /\ Goes("killed")
  <2>1. /\ ui'.pc = "killed" /\ ui'.ours = ui.ours /\ Told' = Told /\ Told \subseteq Pids
    BY <1>5, Same DEF Goes, Told, Interfaces, Alive
  <2>2. past \cap Hindered = {} => ui.pc \in {"quitpoll", "termpoll"}
    BY <1>5 DEF ToldAreStopping, Hindered
  <2> QED  BY <1>1, <1>2, <2>1, <2>2, LifecycleAssumption DEF ToldAreStopping
<1> QED  BY <1>3, <1>4, <1>5 DEF Poll

LEMMA InterfaceTells ==
  ASSUME Base, MouseIsHeld, ToldAreStopping, Interface
  PROVE  MouseIsHeld' /\ ToldAreStopping'
<1>1. CASE enable_now \/ disable_now \/ ensure_running
  BY <1>1, SwitchTells, StartsTell
<1>2. CASE Poll \/ SendTerm \/ SendKill
  BY <1>2, PollTells, SendTermTells, SendKillTells
<1>3. CASE Launch \/ heal_at_startup \/ start_only \/ wait_for_running \/ find_daemon_pids
  <2>1. ui'.pc \in {"open", "heal", "wait", "start", "found"}
    BY <1>3, Same DEF Launch, heal_at_startup, start_only, wait_for_running, find_daemon_pids,
                      Closed, Interfaces
  <2>2. UNCHANGED grab /\ past \subseteq past' /\ proc' \in {proc, Termed({UnitPid})}
    BY <1>3 DEF Launch, heal_at_startup, start_only, wait_for_running, find_daemon_pids, Happens,
                Calm
  <2>3. \A q \in Pids : Stays(q)
    BY <2>2, Same, TermedIs
  <2> QED  BY <2>1, <2>2, <2>3, HeldStays, NobodyTold
<1>4. CASE QuitTimesOut
  <2>1. ui'.pc = "term" /\ UNCHANGED <<proc, grab, past>>
    BY <1>4, Same DEF QuitTimesOut, Goes, Interfaces, Calm
  <2> QED  BY <2>1, Same, HeldStays, NobodyTold
<1>5. CASE AskToQuit
  <2>1. ui'.pc \in {"asked", "term", "open"} /\ UNCHANGED <<grab, past>>
    BY <1>5, Same DEF AskToQuit, Goes, Over, Interfaces, Closed, Calm
  <2>2. \A q \in Pids : Stays(q)
    BY <1>5, Same, Typed DEF AskToQuit, Processes, Stays
  <2> QED  BY <2>1, <2>2, HeldStays, NobodyTold
<1> QED  BY <1>1, <1>2, <1>3, <1>4, <1>5 DEF Interface

-----------------------------------------------------------------------------
LEMMA IInvIs == IInv <=> Base /\ MouseIsHeld /\ ToldAreStopping
  BY DEF IInv, Base

LEMMA InitInv == Init => IInv
<1> SUFFICES ASSUME Init PROVE IInv
  OBVIOUS
<1>1. \A p \in Pids : proc[p] = Gone
  BY DEF Init
<1>2. MouseIsHeld
  BY <1>1, FreshIsNew DEF MouseIsHeld
<1>3. ToldAreStopping
  BY DEF Init, Closed, ToldAreStopping
<1> QED  BY <1>2, <1>3, InitBase, IInvIs

LEMMA NextInv == IInv /\ [Next]_vars => IInv'
<1> SUFFICES ASSUME IInv, [Next]_vars PROVE IInv'
  OBVIOUS
<1>1. Base /\ MouseIsHeld /\ ToldAreStopping
  BY IInvIs
<1>2. Base'
  BY <1>1, NextBase
<1>3. MouseIsHeld' /\ ToldAreStopping'
  <2>1. CASE \E p \in Pids : Daemon(p)
    BY <1>1, <2>1, DaemonTells
  <2>2. CASE SystemdStarts \/ StartByHand
    BY <1>1, <2>2, StartsTell
  <2>3. CASE Tick \/ LoseMouse \/ MouseBack \/ \E p \in Pids : Crash(p) \/ Term(p)
    BY <1>1, <2>3, EventsTell
  <2>4. CASE Interface
    BY <1>1, <2>4, InterfaceTells
  <2>5. CASE UNCHANGED vars
    <3>1. UNCHANGED <<proc, grab, unit, ui, past>>
      BY <2>5 DEF vars
    <3> QED  BY <1>1, <3>1, Same, ToldStays
  <2> QED  BY <2>1, <2>2, <2>3, <2>4, <2>5 DEF Next
<1> QED  BY <1>2, <1>3 DEF IInv, Base

(* main.cpp, service.rs and daemon.rs together: systemd knows its process,  *)
(* who started two daemons, whose the socket is, who has the mouse and who  *)
(* has been told to stop, in every reachable state.                         *)
THEOREM LifecycleInvariant == Spec => []IInv
<1>1. Init => IInv  BY InitInv
<1>2. IInv /\ [Next]_vars => IInv'  BY NextInv
<1> QED  BY <1>1, <1>2, PTL DEF Spec

(* KNOWN_ISSUES.md, the two-daemon race: systemd and the interface alone    *)
(* never have two daemons at a time.                                        *)
THEOREM AlwaysOneDaemon == Spec => []OneDaemon
<1>1. IInv => OneDaemon
  BY DEF IInv, CrowdsAreMade, OneDaemon
<1> QED  BY <1>1, LifecycleInvariant, PTL

(* init_server: as long as no two daemons ever met, one that serves the     *)
(* mouse has its socket at the path, unless the socket or its registration  *)
(* failed, it is another user's with no access to the path, or it is the    *)
(* unit's from a template before v8, which has not been restarted since.    *)
THEOREM LoopAlwaysReachable == Spec => []LoopIsReachable
<1>1. IInv => LoopIsReachable
  BY DEF IInv, SocketIsReachable, LoopIsReachable, Deaf, Outdated, At, Listening
<1> QED  BY <1>1, LifecycleInvariant, PTL

(* shutdown_server: the last daemon to go leaves no socket behind, unless   *)
(* one was killed.                                                          *)
THEOREM NothingEverLeftBehind == Spec => []NothingLeftBehind
<1>1. IInv => NothingLeftBehind
  BY DEF IInv, TypeOK, SocketIsOwned, LeftoversGo, NothingLeftBehind, Alive, At, Listening
<1> QED  BY <1>1, LifecycleInvariant, PTL

(* kill_daemon: when it reports that they are killed, the daemons it found  *)
(* or asked are stopping and systemd does not start the unit's again, as    *)
(* long as none of Hindered happened.                                       *)
THEOREM KilledAlwaysStaysDown == Spec => []KilledStaysDown
<1>1. IInv => KilledStaysDown
  BY DEF IInv, ToldAreStopping, KilledStaysDown, Stopping
<1> QED  BY <1>1, LifecycleInvariant, PTL

-----------------------------------------------------------------------------
(* As long as nothing fails but the mouse: what the unit's daemon does, and *)
(* what the starts so far have cost.                                        *)
Calmly == past \subseteq {"lost", "launch"}

Awaiting ==
  /\ unit.state \in {"starting", "active", "waiting"} /\ unit.file # "broken"
  /\ ui.pc # "start" /\ (ui.pc = "heal" => ui.svc = "active")
  /\ ~proc[UnitPid].stop /\ ~proc[UnitPid].asked
  /\ proc[UnitPid].pc \in {"unlink", "bind"} => proc[UnitPid].tries = 0
  /\ proc[UnitPid].pc \in {"close", "remove", "release"} => proc[UnitPid].failed
  /\ grab # NoPid =>
       grab = UnitPid /\ proc[UnitPid].pc \in {"setup", "loop", "close", "remove", "release"}
  /\ happened <= MaxHappenings
  /\ unit.state = "starting" => limiter.num = 0

Budget ==
  limiter.num > 0 =>
    limiter.age + happened * SearchTime >= (limiter.num - 1) * (RestartSec + SearchTime) + Elapsed

LEMMA AwaitedIs == MouseIsAwaited <=> (Calmly => Awaiting /\ Budget)
  BY DEF MouseIsAwaited, Calmly, Awaiting, Budget

(* What a daemon d has taken, when g has the mouse and m says it is there.  *)
Spent(d, g, m) ==
  CASE d.pc = "search" -> d.tries * Interval
    [] d.pc = "sleep"  -> d.tries * Interval - d.wait
    [] d.pc \in {"close", "remove", "release"} -> SearchTime
    [] d.pc = "grab" /\ ~m -> SearchTime
    [] d.pc \in {"setup", "loop"} /\ g # UnitPid -> SearchTime
    [] OTHER -> 0

LEMMA OneMore ==
  \A n, c \in Nat : n * c \in Nat /\ (n + 1) * c = n * c + c
  OBVIOUS

LEMMA SearchTimeIs == SearchTime \in Nat /\ 0 * Interval = 0
  BY Bounds, OneMore DEF SearchTime

LEMMA SpentIs ==
  ASSUME NEW d \in Processes, NEW g, NEW m
  PROVE  /\ Spent(d, g, m) \in Int
         /\ d.pc = "search" => Spent(d, g, m) = d.tries * Interval
         /\ d.pc = "sleep"  => Spent(d, g, m) = d.tries * Interval - d.wait
         /\ d.pc \in {"close", "remove", "release"} => Spent(d, g, m) = SearchTime
         /\ d.pc = "grab" => Spent(d, g, m) = IF m THEN 0 ELSE SearchTime
         /\ d.pc \in {"setup", "loop"} => Spent(d, g, m) = IF g # UnitPid THEN SearchTime ELSE 0
         /\ d.pc \in {"gone", "unlink", "bind"} => Spent(d, g, m) = 0
<1>1. d.tries \in Nat /\ d.wait \in Nat
  BY Bounds DEF Processes
<1>2. d.tries * Interval \in Nat /\ SearchTime \in Nat
  BY <1>1, Bounds, OneMore, SearchTimeIs
<1>3. /\ d.pc = "search" => Spent(d, g, m) = d.tries * Interval
      /\ d.pc = "sleep"  => Spent(d, g, m) = d.tries * Interval - d.wait
      /\ d.pc \in {"close", "remove", "release"} => Spent(d, g, m) = SearchTime
  BY DEF Spent
<1>4. /\ d.pc = "grab" => Spent(d, g, m) = IF m THEN 0 ELSE SearchTime
      /\ d.pc \in {"setup", "loop"} => Spent(d, g, m) = IF g # UnitPid THEN SearchTime ELSE 0
      /\ d.pc \in {"gone", "unlink", "bind"} => Spent(d, g, m) = 0
  BY DEF Spent
<1>5. d.pc \in {"gone", "unlink", "bind", "search", "sleep", "grab", "setup", "loop", "close",
                "remove", "release"}
  BY DEF Processes
<1> QED  BY <1>1, <1>2, <1>3, <1>4, <1>5

LEMMA ElapsedIs ==
  Base => /\ Elapsed \in Int
          /\ unit.state = "waiting" => Elapsed = SearchTime + (RestartSec - unit.timer)
          /\ unit.state # "waiting" => Elapsed = Spent(proc[UnitPid], grab, mouse)
<1> SUFFICES ASSUME Base
             PROVE  /\ Elapsed \in Int
                    /\ unit.state = "waiting" => Elapsed = SearchTime + (RestartSec - unit.timer)
                    /\ unit.state # "waiting" => Elapsed = Spent(proc[UnitPid], grab, mouse)
  OBVIOUS
<1>1. proc[UnitPid] \in Processes /\ unit.timer \in Nat
  BY Typed, Bounds, LifecycleAssumption, Same DEF Units
<1>2. unit.state = "waiting" => proc[UnitPid].pc = "gone"
  BY LifecycleAssumption DEF Base, UnitIsKnown, Alive, At
<1>3. unit.state = "waiting" => Elapsed = SearchTime + (RestartSec - unit.timer)
  BY <1>2 DEF Elapsed
<1>4. unit.state # "waiting" => Elapsed = Spent(proc[UnitPid], grab, mouse)
  BY DEF Elapsed, Spent
<1>5. Spent(proc[UnitPid], grab, mouse) \in Int
  BY <1>1, SpentIs
<1>6. SearchTime + (RestartSec - unit.timer) \in Int
  BY <1>1, SearchTimeIs, Bounds
<1> QED  BY <1>3, <1>4, <1>5, <1>6

LEMMA ElapsedNext ==
  ASSUME Base'
  PROVE  /\ Elapsed' \in Int
         /\ unit'.state = "waiting" => Elapsed' = SearchTime + (RestartSec - unit'.timer)
         /\ unit'.state # "waiting" => Elapsed' = Spent(proc'[UnitPid], grab', mouse')
<1>1. (Base => /\ Elapsed \in Int
               /\ unit.state = "waiting" => Elapsed = SearchTime + (RestartSec - unit.timer)
               /\ unit.state # "waiting" => Elapsed = Spent(proc[UnitPid], grab, mouse))'
  BY ElapsedIs, PTL
<1> QED  BY <1>1

LEMMA BudgetIs ==
  ASSUME Base, Base'
  PROVE  /\ limiter.num \in Nat /\ limiter.age \in Nat /\ happened \in Nat
         /\ limiter'.num \in Nat /\ limiter'.age \in Nat /\ happened' \in Nat
         /\ SearchTime \in Nat /\ RestartSec \in Nat /\ Elapsed \in Int /\ Elapsed' \in Int
         /\ happened * SearchTime \in Nat
         /\ (happened + 1) * SearchTime = happened * SearchTime + SearchTime
         /\ limiter.num > 0 => (limiter.num - 1) * (RestartSec + SearchTime) \in Nat
<1>1. /\ limiter.num \in Nat /\ limiter.age \in Nat /\ happened \in Nat
      /\ limiter'.num \in Nat /\ limiter'.age \in Nat /\ happened' \in Nat
  BY Bounds DEF Base, TypeOK
<1>2. SearchTime \in Nat /\ RestartSec \in Nat /\ Elapsed \in Int /\ Elapsed' \in Int
  BY SearchTimeIs, Bounds, ElapsedIs, ElapsedNext
<1>3. limiter.num > 0 => limiter.num - 1 \in Nat
  BY <1>1
<1> QED  BY <1>1, <1>2, <1>3, OneMore

(* A step that takes no more of the start's time than there is.             *)
LEMMA BudgetKept ==
  ASSUME Base, Base', Budget, limiter' = limiter,
         \/ happened' = happened /\ Elapsed' <= Elapsed
         \/ happened' = happened + 1 /\ Elapsed' <= Elapsed + SearchTime
  PROVE  Budget'
<1> DEFINE k == happened * SearchTime
           n == (limiter.num - 1) * (RestartSec + SearchTime)
<1>1. /\ limiter.num \in Nat /\ limiter.age \in Nat /\ SearchTime \in Nat
      /\ Elapsed \in Int /\ Elapsed' \in Int /\ k \in Nat
      /\ (happened + 1) * SearchTime = k + SearchTime
      /\ limiter.num > 0 => n \in Nat
  BY BudgetIs
<1>2. limiter.num > 0 => limiter.age + k >= n + Elapsed
  BY DEF Budget
<1>3. happened' * SearchTime = k \/ (happened' * SearchTime = k + SearchTime /\ happened' = happened + 1)
  BY <1>1
<1>4. happened' # happened + 1 => Elapsed' <= Elapsed /\ happened' * SearchTime = k
  OBVIOUS
<1>5. happened' = happened + 1 =>
        Elapsed' <= Elapsed + SearchTime /\ happened' * SearchTime = k + SearchTime
  BY <1>1, BudgetIs
<1> HIDE DEF k, n
<1>6. limiter.num > 0 => limiter.age + happened' * SearchTime >= n + Elapsed'
  BY <1>1, <1>2, <1>4, <1>5
<1> QED  BY <1>6 DEF Budget, n

(* The only process is the unit's.                                          *)
LEMMA Alone ==
  ASSUME Base, Calmly, Awaiting, NEW p \in Pids, ~At(p, "gone")
  PROVE  p = UnitPid /\ unit.state = "active"
<1>1. p \in Alive /\ p = UnitPid
  BY DEF Base, CrowdsAreMade, Calmly, Alive
<1> QED  BY <1>1 DEF Base, UnitIsKnown, Awaiting

(* The unit's daemon goes on.                                               *)
LEMMA AloneMoves ==
  ASSUME Base, Base', Awaiting, Budget, unit.state = "active",
         UNCHANGED <<mouse, unit, limiter, ui, happened>>,
         ~proc'[UnitPid].stop, ~proc'[UnitPid].asked,
         proc'[UnitPid].pc \in {"unlink", "bind"} => proc'[UnitPid].tries = 0,
         proc'[UnitPid].pc \in {"close", "remove", "release"} => proc'[UnitPid].failed,
         grab' # NoPid =>
           /\ grab' = UnitPid
           /\ proc'[UnitPid].pc \in {"setup", "loop", "close", "remove", "release"},
         Spent(proc'[UnitPid], grab', mouse) <= Spent(proc[UnitPid], grab, mouse)
  PROVE  Awaiting' /\ Budget'
<1>1. Awaiting'
  BY DEF Awaiting
<1>2. Elapsed' <= Elapsed
  BY ElapsedIs, ElapsedNext
<1> QED  BY <1>1, <1>2, BudgetKept

LEMMA UnitIs ==
  ASSUME Base
  PROVE  UnitPid \in Pids /\ proc[UnitPid] \in Processes
  BY Typed, LifecycleAssumption

LEMMA UnlinkAwaits ==
  ASSUME Base, Base', Awaiting, Budget, unit.state = "active", Unlink(UnitPid)
  PROVE  Awaiting' /\ Budget'
<1> DEFINE d == proc[UnitPid]
           r == [d EXCEPT !.pc = "bind"]
<1>1. d \in Processes /\ d.pc = "unlink"
  BY UnitIs DEF Unlink, At
<1>2. /\ r \in Processes /\ r.pc = "bind" /\ r.stop = d.stop /\ r.asked = d.asked
      /\ r.tries = d.tries
  BY <1>1 DEF Processes
<1>3. proc'[UnitPid] = r /\ UNCHANGED <<grab, mouse, unit, limiter, ui, happened>>
  BY Typed, UnitIs DEF Unlink, Goto, Calm
<1>4. ~d.stop /\ ~d.asked /\ grab = NoPid /\ d.tries = 0
  BY <1>1 DEF Awaiting
<1> HIDE DEF r
<1>5. Spent(r, grab, mouse) = 0 /\ Spent(d, grab, mouse) = 0
  BY <1>1, <1>2, SpentIs
<1> QED  BY <1>2, <1>3, <1>4, <1>5, AloneMoves

LEMMA BindAwaits ==
  ASSUME Base, Base', Awaiting, Budget, unit.state = "active", Bind(UnitPid), ~Happens("deaf")
  PROVE  Awaiting' /\ Budget'
<1> DEFINE d == proc[UnitPid]
           r == proc'[UnitPid]
<1>1. d \in Processes /\ d.pc = "bind"
  BY UnitIs DEF Bind, At
<1>2. proc' = [proc EXCEPT ![UnitPid] = r] /\ r \in Processes
      /\ UNCHANGED <<grab, mouse, unit, limiter, ui, happened>>
  BY Typed, UnitIs DEF Bind, Goto, Calm, Base, TypeOK
<1>3. r.pc = "search" /\ r.stop = d.stop /\ r.asked = d.asked /\ r.tries = d.tries
  BY <1>1, Typed, UnitIs DEF Bind, Goto, Processes
<1>4. ~d.stop /\ ~d.asked /\ grab = NoPid /\ d.tries = 0
  BY <1>1 DEF Awaiting
<1> HIDE DEF r
<1>5. Spent(r, grab, mouse) = 0 /\ Spent(d, grab, mouse) = 0
  <2>1. Spent(r, grab, mouse) = 0 * Interval
    BY <1>2, <1>3, <1>4, SpentIs
  <2> QED  BY <1>1, <2>1, SpentIs, SearchTimeIs
<1> QED  BY <1>2, <1>3, <1>4, <1>5, AloneMoves DEF r

(* A daemon that has no mouse, and had its time to find one, gives up.      *)
LEMMA GiveUpAwaits ==
  ASSUME Base, Base', Awaiting, Budget, unit.state = "active", GiveUp(UnitPid), grab = NoPid,
         UNCHANGED <<grab, mouse, unit, limiter, ui, happened>>,
         Spent(proc[UnitPid], grab, mouse) = SearchTime
  PROVE  Awaiting' /\ Budget'
<1> DEFINE d == proc[UnitPid]
           r == [d EXCEPT !.failed = TRUE, !.pc = IF d.bound THEN "close" ELSE "release"]
<1>1. d \in Processes
  BY UnitIs
<1>2. /\ r \in Processes /\ r.pc \in {"close", "release"} /\ r.failed
      /\ r.stop = d.stop /\ r.asked = d.asked
  BY <1>1 DEF Processes
<1>3. proc'[UnitPid] = r
  BY Typed, UnitIs DEF GiveUp
<1>4. ~d.stop /\ ~d.asked
  BY DEF Awaiting
<1> HIDE DEF r
<1>5. Spent(r, grab, mouse) = SearchTime
  BY <1>2, SpentIs
<1> QED  BY <1>2, <1>3, <1>4, <1>5, SearchTimeIs, AloneMoves

LEMMA SearchAwaits ==
  ASSUME Base, Base', Awaiting, Budget, unit.state = "active", Search(UnitPid)
  PROVE  Awaiting' /\ Budget'
<1> DEFINE d == proc[UnitPid]
<1>1. /\ d \in Processes /\ d.pc = "search" /\ grab = NoPid /\ ~d.stop /\ ~d.asked
      /\ UNCHANGED <<grab, mouse, unit, limiter, ui, happened>>
  BY UnitIs DEF Search, At, Awaiting, Calm
<1>2. d.tries \in Nat /\ Spent(d, grab, mouse) = d.tries * Interval /\ d.tries * Interval \in Nat
      /\ (d.tries + 1) * Interval = d.tries * Interval + Interval
  <2>1. d.tries \in Nat
    BY <1>1, Bounds DEF Processes
  <2> QED  BY <1>1, <2>1, SpentIs, OneMore, Bounds
<1>3. CASE find_device /\ proc' = [proc EXCEPT ![UnitPid].pc = "grab", ![UnitPid].tries = 0]
  <2> DEFINE r == [d EXCEPT !.pc = "grab", !.tries = 0]
  <2>1. 0 \in 0 .. Retries
    BY Bounds
  <2>2. r \in Processes /\ r.pc = "grab" /\ r.stop = d.stop /\ r.asked = d.asked
    BY <1>1, <2>1 DEF Processes
  <2>3. proc'[UnitPid] = r
    BY <1>3, Typed, UnitIs
  <2> HIDE DEF r
  <2>4. Spent(r, grab, mouse) = 0
    BY <1>3, <2>2, SpentIs DEF find_device
  <2> QED  BY <1>1, <1>2, <2>2, <2>3, <2>4, AloneMoves
<1>4. CASE (d.stop \/ d.tries = Retries) /\ GiveUp(UnitPid)
  <2>1. d.tries = Retries
    BY <1>1, <1>4
  <2>2. Spent(d, grab, mouse) = SearchTime
    BY <1>2, <2>1 DEF SearchTime
  <2> QED  BY <1>1, <1>4, <2>2, GiveUpAwaits
<1>5. CASE /\ d.tries < Retries
           /\ proc' = [proc EXCEPT ![UnitPid].pc = "sleep", ![UnitPid].tries = @ + 1,
                                   ![UnitPid].wait = Interval]
  <2> DEFINE r == [d EXCEPT !.pc = "sleep", !.tries = @ + 1, !.wait = Interval]
  <2>1. d.tries + 1 \in 0 .. Retries /\ Interval \in 0 .. Interval
    BY <1>2, <1>5, Bounds
  <2>2. /\ r \in Processes /\ r.pc = "sleep" /\ r.stop = d.stop /\ r.asked = d.asked
        /\ r.tries = d.tries + 1 /\ r.wait = Interval
    BY <1>1, <2>1 DEF Processes
  <2>3. proc'[UnitPid] = r
    BY <1>5, Typed, UnitIs
  <2> HIDE DEF r
  <2>4. Spent(r, grab, mouse) = (d.tries + 1) * Interval - Interval
    BY <2>2, SpentIs
  <2>5. Spent(r, grab, mouse) <= Spent(d, grab, mouse)
    BY <1>2, <2>4, Bounds
  <2> QED  BY <1>1, <2>2, <2>3, <2>5, AloneMoves
<1> QED  BY <1>3, <1>4, <1>5 DEF Search

(* Wherever the daemon goes without losing or gaining anything.             *)
LEMMA GotoAwaits ==
  ASSUME Base, Base', Awaiting, Budget, unit.state = "active",
         NEW where \in {"search", "loop", "remove", "release"}, Goto(UnitPid, where),
         where = "search"  => proc[UnitPid].pc = "sleep" /\ proc[UnitPid].wait = 0,
         where = "loop"    => proc[UnitPid].pc = "setup",
         where = "remove"  => proc[UnitPid].pc = "close",
         where = "release" => proc[UnitPid].pc = "remove",
         UNCHANGED <<grab, mouse, unit, limiter, ui>>, Calm
  PROVE  Awaiting' /\ Budget'
<1> DEFINE d == proc[UnitPid]
           r == [d EXCEPT !.pc = where]
<1>1. d \in Processes
  BY UnitIs
<1>2. /\ r \in Processes /\ r.pc = where /\ r.stop = d.stop /\ r.asked = d.asked
      /\ r.failed = d.failed /\ r.tries = d.tries /\ r.wait = d.wait
  BY <1>1 DEF Processes
<1>3. proc'[UnitPid] = r
  BY Typed, UnitIs DEF Goto
<1>4. d.tries * Interval \in Nat
  BY <1>1, OneMore, Bounds DEF Processes
<1> HIDE DEF r
<1>5. Spent(r, grab, mouse) <= Spent(d, grab, mouse)
  BY <1>1, <1>2, <1>4, SpentIs, SearchTimeIs
<1>6. ~d.stop /\ ~d.asked /\ (d.pc \in {"close", "remove"} => d.failed)
      /\ (grab # NoPid => grab = UnitPid /\ where \in {"loop", "remove", "release"})
  BY DEF Awaiting
<1>7. happened' = happened
  BY DEF Calm
<1> QED  BY <1>2, <1>3, <1>5, <1>6, <1>7, AloneMoves

LEMMA GrabAwaits ==
  ASSUME Base, Base', Awaiting, Budget, unit.state = "active", Grab(UnitPid)
  PROVE  Awaiting' /\ Budget'
<1> DEFINE d == proc[UnitPid]
<1>1. /\ d \in Processes /\ d.pc = "grab" /\ grab = NoPid /\ ~d.stop /\ ~d.asked
      /\ UNCHANGED <<mouse, unit, limiter, ui, happened>>
  BY UnitIs DEF Grab, At, Awaiting, Calm
<1>2. /\ mouse => Spent(d, grab, mouse) = 0
      /\ ~mouse => Spent(d, grab, mouse) = SearchTime
  BY <1>1, SpentIs
<1>3. CASE mouse /\ grab' = UnitPid /\ Goto(UnitPid, "setup")
  <2> DEFINE r == [d EXCEPT !.pc = "setup"]
  <2>1. r \in Processes /\ r.pc = "setup" /\ r.stop = d.stop /\ r.asked = d.asked
    BY <1>1 DEF Processes
  <2>2. proc'[UnitPid] = r
    BY <1>3, Typed, UnitIs DEF Goto
  <2> HIDE DEF r
  <2>3. Spent(r, grab', mouse) = 0
    BY <1>3, <2>1, SpentIs
  <2>4. Spent(d, grab, mouse) = 0
    BY <1>2, <1>3, Zenon
  <2>5. grab' = UnitPid
    BY <1>3
  <2> QED  BY <1>1, <2>1, <2>2, <2>3, <2>4, <2>5, AloneMoves
<1>4. CASE ~mouse /\ GiveUp(UnitPid) /\ UNCHANGED grab
  BY <1>1, <1>2, <1>4, GiveUpAwaits
<1> QED  BY <1>1, <1>3, <1>4 DEF Grab, grab_device

LEMMA LeaveAwaits ==
  ASSUME Base, Base', Awaiting, Budget, unit.state = "active", Leave(UnitPid)
  PROVE  Awaiting' /\ Budget'
<1> DEFINE d == proc[UnitPid]
           r == [d EXCEPT !.pc = "close", !.failed = TRUE]
<1>1. /\ d \in Processes /\ d.pc = "loop" /\ ~d.stop /\ ~d.asked
      /\ UNCHANGED <<grab, mouse, unit, limiter, ui, happened>>
  BY UnitIs DEF Leave, At, Awaiting, Calm
<1>2. grab # UnitPid /\ proc' = [proc EXCEPT ![UnitPid].pc = "close", ![UnitPid].failed = TRUE]
  BY <1>1 DEF Leave
<1>3. r \in Processes /\ r.pc = "close" /\ r.stop = d.stop /\ r.asked = d.asked /\ r.failed
  BY <1>1 DEF Processes
<1>4. proc'[UnitPid] = r
  BY <1>2, Typed, UnitIs
<1> HIDE DEF r
<1>5. Spent(d, grab, mouse) = SearchTime /\ Spent(r, grab, mouse) = SearchTime
  BY <1>1, <1>2, <1>3, SpentIs
<1> QED  BY <1>1, <1>2, <1>3, <1>4, <1>5, SearchTimeIs, AloneMoves DEF Awaiting

(* systemd will start it again.                                             *)
LEMMA ExitAwaits ==
  ASSUME Base, Base', Awaiting, Budget, unit.state = "active", Exit(UnitPid)
  PROVE  Awaiting' /\ Budget'
<1> DEFINE d == proc[UnitPid]
<1>1. /\ d \in Processes /\ d.pc = "release" /\ d.failed
      /\ UNCHANGED <<mouse, limiter, happened>> /\ Buried({UnitPid}, d.failed)
      /\ ui' = Without({UnitPid})
  BY UnitIs DEF Exit, At, Awaiting, Calm
<1>2. proc'[UnitPid] = Gone
  BY <1>1, UnitIs DEF Buried
<1>3. grab' = NoPid
  BY <1>1 DEF Buried, release_device, Awaiting
<1>4. unit' = [unit EXCEPT !.state = "waiting", !.timer = RestartSec]
  BY <1>1 DEF Buried, Ended
<1>5. unit'.state = "waiting" /\ unit'.timer = RestartSec /\ unit'.file = unit.file
  BY <1>4, Same DEF Units
<1>6. ui'.pc = ui.pc /\ ui'.svc = ui.svc
  BY <1>1, Same DEF Without, Interfaces
<1>7. Awaiting'
  BY <1>1, <1>2, <1>3, <1>5, <1>6 DEF Awaiting, Gone
<1>8. Elapsed = SearchTime
  BY <1>1, ElapsedIs, SpentIs
<1>9. Elapsed' = SearchTime
  BY <1>5, ElapsedNext, SearchTimeIs, Bounds
<1> QED  BY <1>1, <1>7, <1>8, <1>9, SearchTimeIs, BudgetKept

LEMMA DaemonAwaits ==
  ASSUME Base, Base', Calmly', Calmly, Awaiting, Budget, NEW p \in Pids, Daemon(p)
  PROVE  Awaiting' /\ Budget'
<1>1. ~At(p, "gone")
  BY DEF Daemon, At, Unlink, Bind, Search, Wake, Grab, Setup, ReadQuit, Leave, Close, Remove, Exit
<1>2. p = UnitPid /\ unit.state = "active" /\ ~proc[p].asked /\ ~proc[p].stop
  BY <1>1, Alone DEF Awaiting
<1>3. CASE Unlink(p) \/ Bind(p) \/ Search(p)
  <2>1. ~Happens("deaf")
    BY DEF Happens, Calmly
  <2> QED  BY <1>2, <1>3, <2>1, UnlinkAwaits, BindAwaits, SearchAwaits
<1>4. CASE Grab(p) \/ Leave(p) \/ Exit(p)
  BY <1>2, <1>4, GrabAwaits, LeaveAwaits, ExitAwaits
<1>5. CASE Wake(p)
  BY <1>2, <1>5, GotoAwaits DEF Wake, At
<1>6. CASE Setup(p)
  <2>1. ~Happens("uinput") /\ ~Happens("deaf")
    BY DEF Happens, Calmly
  <2> QED  BY <1>2, <1>6, <2>1, GotoAwaits DEF Setup, At
<1>7. CASE Close(p)
  BY <1>2, <1>7, GotoAwaits DEF Close, At
<1>8. CASE Remove(p)
  BY <1>2, <1>8, GotoAwaits DEF Remove, At
<1>9. ~ReadQuit(p)
  BY <1>2 DEF ReadQuit
<1> QED  BY <1>3, <1>4, <1>5, <1>6, <1>7, <1>8, <1>9 DEF Daemon

(* A start that is due takes another of LimitBurst; when there are no more, *)
(* the others took longer than LimitInterval.                               *)
LEMMA StartAwaits ==
  ASSUME Patient, Base, Base', Calmly, Awaiting, Budget, SystemdStarts
  PROVE  Awaiting' /\ Budget'
<1> DEFINE k == happened * SearchTime
           c == RestartSec + SearchTime
<1>1. /\ unit \in Units /\ UnitPid \in Pids /\ At(UnitPid, "gone") /\ Alive = {} /\ grab = NoPid
      /\ UNCHANGED <<grab, mouse, ui>>
  <2>1. unit.state \in {"starting", "waiting"} /\ UNCHANGED <<grab, mouse, ui>>
    BY DEF SystemdStarts
  <2>2. At(UnitPid, "gone")
    BY <2>1, UnitIs DEF Base, UnitIsKnown, Alive
  <2>3. Alive = {}
    BY <2>2 DEF Base, CrowdsAreMade, Calmly, Alive
  <2> QED  BY <2>1, <2>2, <2>3, UnitIs, Same DEF At, Awaiting
<1>2. /\ limiter.num \in Nat /\ limiter.age \in Nat /\ SearchTime \in Nat /\ RestartSec \in Nat
      /\ k \in Nat /\ c \in Nat /\ limiter.age <= LimitInterval /\ limiter.num <= LimitBurst
  BY BudgetIs, Same, Bounds
<1>3. limiter.num = 0 \/ (limiter.num > 0 /\ limiter.age + k >= limiter.num * c)
  <2>1. CASE unit.state = "waiting" /\ unit.timer = 0 /\ limiter.num > 0
    <3>1. Elapsed = c
      BY <1>2, <2>1, ElapsedIs
    <3>2. limiter.age + k >= (limiter.num - 1) * c + c
      BY <2>1, <3>1 DEF Budget
    <3>3. limiter.num - 1 \in Nat
      BY <1>2, <2>1
    <3>4. (limiter.num - 1) * c + c = limiter.num * c
      BY <1>2, <3>3, OneMore
    <3> QED  BY <2>1, <3>2, <3>4
  <2> QED  BY <1>2, <2>1 DEF SystemdStarts, Awaiting
<1>4. MayStart
  <2> SUFFICES ASSUME limiter.num >= LimitBurst
               PROVE  FALSE
    BY <1>2, Bounds DEF MayStart
  <2>1. limiter.num = LimitBurst
    BY <1>2, Bounds
  <2>2. LimitBurst * c = LimitBurst * RestartSec + LimitBurst * SearchTime
        /\ LimitBurst * c \in Nat
    BY <1>2, Bounds
  <2>3. k <= MaxHappenings * SearchTime
    <3>1. happened \in Nat /\ MaxHappenings \in Nat /\ happened <= MaxHappenings
      BY LifecycleAssumption, Typed DEF Awaiting
    <3>2. (MaxHappenings - happened) * SearchTime \in Nat
      BY <1>2, <3>1, OneMore
    <3>3. MaxHappenings * SearchTime = happened * SearchTime + (MaxHappenings - happened) * SearchTime
      BY <1>2, <3>1
    <3> QED  BY <1>2, <3>2, <3>3
  <2>4. MaxHappenings * SearchTime \in Nat
    BY <1>2, LifecycleAssumption, OneMore
  <2>5. LimitBurst * c > LimitInterval + MaxHappenings * SearchTime
    BY <2>2 DEF Patient
  <2>6. CASE limiter.num = 0
    <3>1. LimitBurst * c = 0
      BY <1>2, <2>1, <2>6, OneMore
    <3> QED  BY <2>4, <2>5, <3>1, Bounds
  <2>7. CASE limiter.age + k >= limiter.num * c
    <3> HIDE DEF k, c
    <3> QED  BY <1>2, <2>1, <2>2, <2>3, <2>4, <2>5, <2>7, Bounds
  <2> QED  BY <1>3, <2>6, <2>7
<1>5. /\ limiter' = Counted /\ unit' = [unit EXCEPT !.state = "active"] /\ past' = past
      /\ proc' = [proc EXCEPT ![UnitPid] = [Fresh EXCEPT !.off = (unit.file = "old")]]
      /\ UNCHANGED happened
  BY <1>1, <1>4 DEF SystemdStarts, Awaiting, Joined
<1>6. /\ limiter'.num = limiter.num + 1 /\ limiter'.age = limiter.age
      /\ unit'.state = "active" /\ unit'.file = unit.file
      /\ proc'[UnitPid] = [Fresh EXCEPT !.off = (unit.file = "old")]
  BY <1>1, <1>5, Typed, Same DEF Counted, Units
<1>7. Awaiting'
  BY <1>1, <1>5, <1>6 DEF Awaiting, Fresh, Gone
<1>8. Elapsed' = 0
  <2>1. proc'[UnitPid] \in Processes /\ proc'[UnitPid].pc = "unlink"
    BY <1>6, NewIs DEF New
  <2>2. Elapsed' = Spent(proc'[UnitPid], grab', mouse')
    BY <1>6, ElapsedNext
  <2> QED  BY <2>1, <2>2, SpentIs
<1>9. limiter'.age + happened' * SearchTime >= (limiter'.num - 1) * c + Elapsed'
  <2>1. limiter'.num - 1 = limiter.num /\ happened' * SearchTime = k
    BY <1>2, <1>5, <1>6
  <2>2. limiter.age + k >= limiter.num * c
    <3>1. CASE limiter.num = 0
      <4>1. limiter.num * c = 0
        BY <1>2, <3>1
      <4> QED  BY <1>2, <4>1
    <3> QED  BY <1>3, <3>1
  <2>3. limiter.num * c \in Nat
    BY <1>2, OneMore
  <2> HIDE DEF k, c
  <2> QED  BY <1>2, <1>6, <1>8, <2>1, <2>2, <2>3
<1> QED  BY <1>7, <1>9 DEF Budget

LEMMA TickTakes ==
  ASSUME Base, Base', Tick
  PROVE  /\ UNCHANGED <<grab, mouse, ui, happened, past>> /\ limiter' = Older
         /\ unit'.state = unit.state /\ unit'.file = unit.file /\ unit.state # "starting"
         /\ proc'[UnitPid].pc = proc[UnitPid].pc /\ proc'[UnitPid].tries = proc[UnitPid].tries
         /\ proc'[UnitPid].stop = proc[UnitPid].stop /\ proc'[UnitPid].asked = proc[UnitPid].asked
         /\ proc'[UnitPid].failed = proc[UnitPid].failed
         /\ Elapsed' <= Elapsed + 1
<1> DEFINE d == proc[UnitPid]
           r == proc'[UnitPid]
<1>1. /\ d \in Processes /\ UnitPid \in Pids /\ unit \in Units
      /\ UNCHANGED <<grab, mouse, ui, happened, past>> /\ limiter' = Older
      /\ unit.state # "starting"
  BY UnitIs, Same DEF Tick, Calm
<1>2. /\ r.pc = d.pc /\ r.stop = d.stop /\ r.asked = d.asked /\ r.failed = d.failed
      /\ r.tries = d.tries /\ r \in Processes
      /\ IF d.pc = "sleep" THEN r.wait = d.wait - 1 ELSE r = d
  <2>1. r = IF d.pc = "sleep" THEN [d EXCEPT !.wait = @ - 1] ELSE d
    BY <1>1 DEF Tick, At
  <2>2. r \in Processes
    BY <1>1 DEF Base, TypeOK
  <2> QED  BY <1>1, <2>1, <2>2 DEF Processes
<1>3. /\ unit'.state = unit.state /\ unit'.file = unit.file
      /\ unit.state = "waiting" => unit'.timer = unit.timer - 1
  BY <1>1 DEF Tick, Units
<1>4. d.wait \in Nat /\ d.tries \in Nat /\ d.tries * Interval \in Nat /\ unit.timer \in Nat
  BY <1>1, Bounds, OneMore DEF Processes, Units
<1> HIDE DEF d, r
<1>5. Spent(r, grab, mouse) <= Spent(d, grab, mouse) + 1
  <2>1. CASE d.pc = "sleep"
    <3>1. Spent(r, grab, mouse) = d.tries * Interval - (d.wait - 1)
      BY <1>2, <2>1, SpentIs
    <3>2. Spent(d, grab, mouse) = d.tries * Interval - d.wait
      BY <1>1, <2>1, SpentIs
    <3> QED  BY <1>4, <3>1, <3>2
  <2>2. CASE d.pc # "sleep"
    <3>1. Spent(d, grab, mouse) \in Int
      BY <1>1, SpentIs
    <3> QED  BY <1>2, <2>2, <3>1
  <2> QED  BY <2>1, <2>2
<1>6. Elapsed' <= Elapsed + 1
  <2>1. CASE unit.state = "waiting"
    <3>1. Elapsed = SearchTime + (RestartSec - unit.timer)
      BY <2>1, ElapsedIs
    <3>2. Elapsed' = SearchTime + (RestartSec - (unit.timer - 1))
      BY <1>3, <2>1, ElapsedNext
    <3> QED  BY <1>4, <3>1, <3>2, SearchTimeIs, Bounds
  <2>2. CASE unit.state # "waiting"
    <3>1. Elapsed = Spent(d, grab, mouse)
      BY <2>2, ElapsedIs DEF d
    <3>2. Elapsed' = Spent(r, grab, mouse)
      BY <1>1, <1>3, <2>2, ElapsedNext DEF r
    <3> QED  BY <1>5, <3>1, <3>2
  <2> QED  BY <2>1, <2>2
<1> QED  BY <1>1, <1>2, <1>3, <1>6 DEF d, r

LEMMA TickAwaits ==
  ASSUME Base, Base', Awaiting, Budget, Tick
  PROVE  Awaiting' /\ Budget'
<1> DEFINE k == happened * SearchTime
           n == (limiter.num - 1) * (RestartSec + SearchTime)
<1>1. Awaiting'
  BY TickTakes DEF Awaiting
<1>2. CASE limiter' = NoStarts
  <2>1. limiter'.num = 0
    BY <1>2 DEF NoStarts
  <2>2. Budget'
    BY <2>1 DEF Budget
  <2> QED  BY <1>1, <2>2
<1>3. CASE limiter' = [limiter EXCEPT !.age = @ + 1]
  <2>1. limiter'.num = limiter.num /\ limiter'.age = limiter.age + 1 /\ happened' = happened
        /\ Elapsed' <= Elapsed + 1
    BY <1>3, Same, TickTakes
  <2>2. /\ limiter.age \in Nat /\ Elapsed \in Int /\ Elapsed' \in Int /\ k \in Nat
        /\ limiter.num > 0 => n \in Nat
    BY BudgetIs
  <2>3. limiter.num > 0 => limiter.age + k >= n + Elapsed
    BY DEF Budget
  <2>4. happened' * SearchTime = k /\ (limiter'.num - 1) * (RestartSec + SearchTime) = n
    BY <2>1
  <2> HIDE DEF k, n
  <2>5. limiter.num > 0 => limiter'.age + k >= n + Elapsed'
    BY <2>1, <2>2, <2>3
  <2>6. Budget'
    BY <2>1, <2>4, <2>5 DEF Budget
  <2> QED  BY <1>1, <2>6
<1> QED  BY <1>1, <1>2, <1>3, TickTakes DEF Older

(* A mouse that is lost costs a search at most.                             *)
LEMMA LoseMouseAwaits ==
  ASSUME Base, Base', Awaiting, Budget, LoseMouse
  PROVE  Awaiting' /\ Budget'
<1> DEFINE d == proc[UnitPid]
<1>1. /\ UNCHANGED <<proc, unit, limiter, ui>> /\ mouse /\ ~mouse' /\ grab' = NoPid
      /\ happened' = happened + 1 /\ happened < MaxHappenings
      /\ happened \in Nat /\ MaxHappenings \in Nat /\ NoPid # UnitPid
  BY Typed, LifecycleAssumption DEF LoseMouse, Happens
<1>2. Awaiting'
  BY <1>1 DEF Awaiting
<1>3. d \in Processes
  BY UnitIs
<1> HIDE DEF d
<1>4. Spent(d, grab', mouse') <= Spent(d, grab, mouse) + SearchTime
  <2>1. d.pc \in {"gone", "unlink", "bind", "search", "sleep", "grab", "setup", "loop", "close",
                  "remove", "release"}
    BY <1>3 DEF Processes
  <2>2. CASE d.pc = "grab"
    <3>1. Spent(d, grab', mouse') = SearchTime /\ Spent(d, grab, mouse) = 0
      BY <1>1, <1>3, <2>2, SpentIs
    <3> QED  BY <3>1, SearchTimeIs
  <2>3. CASE d.pc \in {"setup", "loop"}
    <3>1. Spent(d, grab', mouse') = SearchTime /\ Spent(d, grab, mouse) \in {0, SearchTime}
      BY <1>1, <1>3, <2>3, SpentIs
    <3> QED  BY <3>1, SearchTimeIs
  <2>4. CASE d.pc \notin {"grab", "setup", "loop"}
    <3>1. Spent(d, grab', mouse') = Spent(d, grab, mouse) /\ Spent(d, grab, mouse) \in Int
      BY <1>3, <2>1, <2>4, SpentIs
    <3> QED  BY <3>1, SearchTimeIs
  <2> QED  BY <2>2, <2>3, <2>4
<1>5. Elapsed' <= Elapsed + SearchTime
  <2>1. CASE unit.state = "waiting"
    <3>1. Elapsed' = Elapsed /\ Elapsed \in Int
      BY <1>1, <2>1, ElapsedIs, ElapsedNext
    <3> QED  BY <3>1, SearchTimeIs
  <2>2. CASE unit.state # "waiting"
    BY <1>1, <1>4, <2>2, ElapsedIs, ElapsedNext DEF d
  <2> QED  BY <2>1, <2>2
<1> QED  BY <1>1, <1>2, <1>5, BudgetKept

LEMMA MouseBackAwaits ==
  ASSUME Base, Base', Awaiting, Budget, MouseBack
  PROVE  Awaiting' /\ Budget'
<1> DEFINE d == proc[UnitPid]
<1>1. UNCHANGED <<proc, unit, limiter, ui, grab, happened>>
  BY DEF MouseBack, Calm
<1>2. Awaiting'
  BY <1>1 DEF Awaiting
<1>3. d \in Processes /\ d.pc \in {"gone", "sleep", "loop"}
  BY UnitIs DEF MouseBack, Quiet, Idle, At
<1>4. Elapsed' = Elapsed /\ Elapsed \in Int
  <2>1. Spent(d, grab, mouse') = Spent(d, grab, mouse)
    <3> HIDE DEF d
    <3> QED  BY <1>3, SpentIs
  <2> QED  BY <1>1, <2>1, ElapsedIs, ElapsedNext
<1> QED  BY <1>1, <1>2, <1>4, BudgetKept

(* The interface looks at the unit, sees that it runs, and lets it be.      *)
LEMMA InterfaceAwaits ==
  ASSUME Base, Base', Calmly, Calmly', Awaiting, Budget, Interface
  PROVE  Awaiting' /\ Budget'
<1>1. ui.pc \notin Killing /\ ui.pc # "start"
  BY DEF Base, LeftoversGo, Calmly, Awaiting
<1>2. \A what \in {"toggle", "legacy"} : ~Happens(what)
  BY DEF Happens, Calmly
<1>3. ~enable_now /\ ~disable_now /\ ~find_daemon_pids /\ ~start_only /\ ~AskToQuit
      /\ ~QuitTimesOut /\ ~Poll /\ ~SendTerm /\ ~SendKill
  BY <1>1, <1>2 DEF enable_now, disable_now, find_daemon_pids, start_only, AskToQuit,
                   QuitTimesOut, Poll, SendTerm, SendKill, Killing
<1>4. ~ensure_running
  BY DEF ensure_running, Joined, Calmly
<1>5. CASE Launch
  <2>1. /\ UNCHANGED <<proc, unit, limiter, grab, mouse>> /\ happened' = happened + 1
        /\ happened < MaxHappenings /\ happened \in Nat /\ MaxHappenings \in Nat
    BY <1>5, Typed, LifecycleAssumption DEF Launch, Happens
  <2>2. query_state = "active"
    BY DEF query_state, Awaiting
  <2>3. ui'.pc = "heal" /\ ui'.svc = "active"
    BY <1>5, <2>2 DEF Launch, Closed
  <2>4. Awaiting'
    BY <2>1, <2>3 DEF Awaiting
  <2>5. Elapsed' = Elapsed /\ Elapsed \in Int
    BY <2>1, ElapsedIs, ElapsedNext
  <2> QED  BY <2>1, <2>4, <2>5, BudgetKept, SearchTimeIs
<1>6. CASE heal_at_startup \/ wait_for_running
  <2>1. UNCHANGED <<proc, unit, limiter, grab, mouse, happened>>
    BY <1>6 DEF heal_at_startup, wait_for_running, Calm, Calmly
  <2>2. ui'.pc \in {"wait", "open"}
    BY <1>6 DEF heal_at_startup, wait_for_running, Awaiting, Closed
  <2>3. Awaiting'
    BY <2>1, <2>2 DEF Awaiting
  <2>4. Elapsed' = Elapsed /\ Elapsed \in Int
    BY <2>1, ElapsedIs, ElapsedNext
  <2> QED  BY <2>1, <2>3, <2>4, BudgetKept
<1> QED  BY <1>3, <1>4, <1>5, <1>6 DEF Interface

LEMMA PastStays ==
  ASSUME Base, [Next]_vars
  PROVE  past \subseteq past'
<1> USE DEF Calm
<1>1. CASE \E p \in Pids : Daemon(p)
  BY <1>1 DEF Daemon, Unlink, Bind, Search, Wake, Grab, Setup, ReadQuit, Leave, Close, Remove,
              Exit, Happens
<1>2. CASE SystemdStarts \/ Tick \/ StartByHand
  BY <1>2 DEF SystemdStarts, Tick, StartByHand, Joined
<1>3. CASE LoseMouse \/ MouseBack
  BY <1>3 DEF LoseMouse, MouseBack, Happens
<1>4. CASE \E p \in Pids : Crash(p) \/ Term(p)
  BY <1>4 DEF Crash, Term, Happens
<1>5. CASE Interface
  BY <1>5 DEF Interface, Launch, heal_at_startup, start_only, wait_for_running, enable_now,
              disable_now, ensure_running, find_daemon_pids, AskToQuit, QuitTimesOut, Poll,
              SendTerm, SendKill, Happens, Joined
<1>6. CASE UNCHANGED vars
  BY <1>6 DEF vars
<1> QED  BY <1>1, <1>2, <1>3, <1>4, <1>5, <1>6 DEF Next

LEMMA PatientNext ==
  ASSUME Patient, Base, MouseIsAwaited, [Next]_vars
  PROVE  MouseIsAwaited'
<1>1. Base'
  BY NextBase
<1> SUFFICES ASSUME Calmly'
             PROVE  Awaiting' /\ Budget'
  <2>1. (MouseIsAwaited <=> (Calmly => Awaiting /\ Budget))'
    BY AwaitedIs, PTL
  <2> QED  BY <2>1
<1>2. Calmly /\ Awaiting /\ Budget
  BY PastStays, AwaitedIs DEF Calmly
<1>3. CASE \E p \in Pids : Daemon(p)
  BY <1>1, <1>2, <1>3, DaemonAwaits
<1>4. CASE SystemdStarts \/ Tick
  BY <1>1, <1>2, <1>4, StartAwaits, TickAwaits
<1>5. CASE LoseMouse \/ MouseBack
  BY <1>1, <1>2, <1>5, LoseMouseAwaits, MouseBackAwaits
<1>6. ~StartByHand /\ \A p \in Pids : ~Crash(p) /\ ~Term(p)
  <2>1. ~StartByHand
    BY DEF StartByHand, Joined, Calmly
  <2>2. ~Happens("crash") /\ ~Happens("term")
    BY DEF Happens, Calmly
  <2> QED  BY <2>1, <2>2 DEF Crash, Term
<1>7. CASE Interface
  BY <1>1, <1>2, <1>7, InterfaceAwaits
<1>8. CASE UNCHANGED vars
  BY <1>2, <1>8 DEF vars, Awaiting, Budget, Elapsed
<1> QED  BY <1>3, <1>4, <1>5, <1>6, <1>7, <1>8 DEF Next

LEMMA PatientInit ==
  ASSUME Init
  PROVE  MouseIsAwaited
<1> SUFFICES ASSUME Calmly
             PROVE  Awaiting /\ Budget
  BY AwaitedIs
<1>1. unit.state = "starting" /\ unit.file # "broken" /\ ui.pc \in {"closed", "open"}
  BY DEF Init, Calmly, Closed
<1>2. proc[UnitPid] = Gone
  BY LifecycleAssumption DEF Init
<1> QED  BY <1>1, <1>2, LifecycleAssumption DEF Init, Awaiting, Budget, Gone, NoStarts

(* As above, and with times like those of loginext.service the unit's       *)
(* daemon is looking for the mouse, serves it or is about to be started     *)
(* again, and every start has taken its time, as long as only the mouse     *)
(* fails.                                                                   *)
THEOREM LifecycleIsPatient == Spec => []PatientInv
<1>1. Init => PatientInv
  BY InitInv, PatientInit DEF PatientInv
<1>2. PatientInv /\ [Next]_vars => PatientInv'
  <2> SUFFICES ASSUME PatientInv, [Next]_vars
               PROVE  PatientInv'
    OBVIOUS
  <2>1. IInv'
    BY NextInv DEF PatientInv
  <2>2. ASSUME Patient
        PROVE  MouseIsAwaited'
    BY <2>2, PatientNext, IInvIs DEF PatientInv
  <2> QED  BY <2>1, <2>2 DEF PatientInv, Patient, SearchTime
<1> QED  BY <1>1, <1>2, PTL DEF Spec

(* loginext.service, at StartLimitIntervalSec: the times are chosen so that *)
(* a mouse that is missing, however long, and is lost as often as they      *)
(* allow for, never makes systemd give up.                                  *)
THEOREM MouseNeverGivesUp ==
  ASSUME Patient
  PROVE  Spec => []MouseNeverLimits
<1>1. PatientInv => MouseNeverLimits
  BY DEF PatientInv, MouseIsAwaited, MouseNeverLimits
<1> QED  BY <1>1, LifecycleIsPatient, PTL
=============================================================================
