--------------------------- MODULE FrontendProofs ---------------------------
(***************************************************************************)
(* Proofs about Frontend, for any settings, applications and overrides and *)
(* any number of edits and faults: what is reported as applied or as saved *)
(* is in force.                                                            *)
(***************************************************************************)
EXTENDS Frontend, SequenceTheorems, TLAPS

Calls == UNION {CallsOf(cmd) : cmd \in Commands}

LEMMA CallsAreTyped ==
  ASSUME NEW c \in Calls
  PROVE  c.cmd \in Commands /\ c \in CallsOf(c.cmd)
  BY DEF Calls, CallsOf

LEMMA CallIs ==
  ASSUME NEW cmd \in Commands, NEW arg \in Taken(cmd)
  PROVE  /\ Call(cmd, arg) \in Calls
         /\ Call(cmd, arg).cmd = cmd /\ Call(cmd, arg).arg = arg
         /\ Call(cmd, arg).answer = Pending
  BY DEF Call, Calls, CallsOf

(* The part of the type invariant that is about calls.                      *)
LEMMA CallsTyped ==
  ASSUME TypeOK
  PROVE  calls \in Seq(Calls)
<1>1. \A i \in 1 .. Len(calls) : calls[i] \in Calls
  BY DEF TypeOK, Calls
<1>2. calls \in [1 .. Len(calls) -> Calls] /\ Len(calls) \in Nat
  BY <1>1 DEF TypeOK
<1> QED  BY <1>2, SeqDef

LEMMA SeqOfCalls ==
  ASSUME NEW s \in Seq(Calls)
  PROVE  /\ Len(s) \in Nat /\ s = [i \in 1 .. Len(s) |-> s[i]]
         /\ DOMAIN s = 1 .. Len(s)
         /\ \A i \in DOMAIN s : s[i].cmd \in Commands /\ s[i] \in CallsOf(s[i].cmd)
<1>1. /\ Len(s) \in Nat /\ DOMAIN s = 1 .. Len(s) /\ \A i \in DOMAIN s : s[i] \in Calls
  OBVIOUS
<1>2. s = [i \in 1 .. Len(s) |-> s[i]]
  OBVIOUS
<1> QED  BY <1>1, <1>2, CallsAreTyped

-----------------------------------------------------------------------------
(* Steps of the interface take the first call away, d of them, and make new *)
(* ones, at most one.                                                       *)
Moved(d, new) ==
  /\ calls' \in Seq(Calls) /\ Len(calls) >= d
  /\ \A i \in 1 .. Len(calls) - d : i \in DOMAIN calls' /\ calls'[i] = calls[i + d]
  /\ \A i \in DOMAIN calls' : i <= Len(calls) - d \/ (i = Len(calls) - d + 1 /\ calls'[i] \in new)
  /\ \A c \in new : /\ Len(calls) - d + 1 \in DOMAIN calls' /\ calls'[Len(calls) - d + 1] = c
                    /\ c.answer = Pending

LEMMA NoneMoved ==
  ASSUME calls \in Seq(Calls), UNCHANGED calls
  PROVE  Moved(0, {})
  BY DEF Moved

LEMMA PushMoved ==
  ASSUME calls \in Seq(Calls), NEW c \in Calls, c.answer = Pending, calls' = Append(calls, c)
  PROVE  Moved(0, {c})
<1>1. calls' \in Seq(Calls) /\ Len(calls') = Len(calls) + 1 /\ DOMAIN calls' = 1 .. Len(calls) + 1
  OBVIOUS
<1>2. \A i \in 1 .. Len(calls) : calls'[i] = calls[i]
  OBVIOUS
<1>3. calls'[Len(calls) + 1] = c
  OBVIOUS
<1> QED  BY <1>1, <1>2, <1>3 DEF Moved

LEMMA PopMoved ==
  ASSUME calls \in Seq(Calls), calls # <<>>, calls' = Rest
  PROVE  Moved(1, {})
<1>1. /\ calls' \in Seq(Calls) /\ Len(calls') = Len(calls) - 1 /\ Len(calls) >= 1
      /\ DOMAIN calls' = 1 .. Len(calls) - 1
  BY DEF Rest
<1>2. \A i \in 1 .. Len(calls) - 1 : calls'[i] = calls[i + 1]
  BY DEF Rest
<1> QED  BY <1>1, <1>2 DEF Moved

LEMMA SwapMoved ==
  ASSUME calls \in Seq(Calls), calls # <<>>, NEW c \in Calls, c.answer = Pending,
         calls' = Append(Rest, c)
  PROVE  Moved(1, {c})
<1>1. /\ Rest \in Seq(Calls) /\ Len(Rest) = Len(calls) - 1 /\ Len(calls) >= 1
  BY DEF Rest
<1>2. \A i \in 1 .. Len(calls) - 1 : Rest[i] = calls[i + 1]
  BY DEF Rest
<1>3. /\ calls' \in Seq(Calls) /\ Len(calls') = Len(calls) /\ DOMAIN calls' = 1 .. Len(calls)
      /\ \A i \in 1 .. Len(calls) - 1 : calls'[i] = Rest[i]
      /\ calls'[Len(calls)] = c
  BY <1>1
<1> QED  BY <1>1, <1>2, <1>3 DEF Moved

LEMMA OutstandingIs ==
  ASSUME calls \in Seq(Calls), NEW d \in {0, 1}, NEW new, Moved(d, new), NEW cmds
  PROVE  Outstanding(cmds)' <=>
           (\E i \in DOMAIN calls : i > d /\ calls[i].cmd \in cmds) \/ (\E c \in new : c.cmd \in cmds)
<1>1. ASSUME Outstanding(cmds)'
      PROVE  \/ \E i \in DOMAIN calls : i > d /\ calls[i].cmd \in cmds
             \/ \E c \in new : c.cmd \in cmds
  <2>1. PICK i \in DOMAIN calls' : calls'[i].cmd \in cmds
    BY <1>1 DEF Outstanding
  <2>2. CASE i <= Len(calls) - d
    BY <2>1, <2>2 DEF Moved
  <2>3. CASE calls'[i] \in new
    BY <2>1, <2>3
  <2> QED  BY <2>1, <2>2, <2>3 DEF Moved
<1>2. ASSUME NEW i \in DOMAIN calls, i > d, calls[i].cmd \in cmds
      PROVE  Outstanding(cmds)'
  <2>1. i - d \in 1 .. Len(calls) - d /\ calls[(i - d) + d] = calls[i]
    BY <1>2
  <2> QED  BY <1>2, <2>1 DEF Moved, Outstanding
<1>3. ASSUME NEW c \in new, c.cmd \in cmds
      PROVE  Outstanding(cmds)'
  BY <1>3 DEF Moved, Outstanding
<1> QED  BY <1>1, <1>2, <1>3

(* What such a step does to each part of the invariant.                     *)
Groups == {{"write_config", "reload_config"}, {"service_enable", "service_disable"}, {"read_app_rules"}}

LEMMA TurnKept ==
  ASSUME calls \in Seq(Calls), CallsInTurn, NEW d \in {0, 1}, NEW new, Moved(d, new),
         \A c \in new : c.cmd # "get_settings",
         \A c \in new : \A cmds \in Groups :
           c.cmd \in cmds => \A i \in DOMAIN calls : i > d => calls[i].cmd \notin cmds,
         d = 0 /\ toast'.applied => toast.applied,
         \A i \in DOMAIN calls : i > d /\ calls[i].cmd = "read_app_rules" => listed' = "asked",
         \A c \in new : c.cmd = "read_app_rules" => listed' = "asked"
  PROVE  CallsInTurn'
<1> DEFINE n == Len(calls) - d
<1>0. /\ Len(calls) \in Nat /\ DOMAIN calls = 1 .. Len(calls) /\ n \in Nat
      /\ DOMAIN calls' = 1 .. Len(calls') /\ Len(calls') \in Nat
  BY SeqOfCalls DEF Moved
<1>1. \A i \in DOMAIN calls' :
        \/ i <= n /\ i + d \in DOMAIN calls /\ i + d > d /\ calls'[i] = calls[i + d]
        \/ i = n + 1 /\ calls'[i] \in new /\ calls'[i].answer = Pending
  BY <1>0 DEF Moved
<1> HIDE DEF n
<1>2. ASSUME NEW i \in DOMAIN calls', NEW j \in DOMAIN calls', i < j, calls'[j].answer # Pending
      PROVE  calls'[i].answer # Pending
  <2>1. j <= n /\ j + d \in DOMAIN calls /\ calls'[j] = calls[j + d]
    BY <1>1, <1>2
  <2>2. i <= n /\ i # n + 1 /\ i + d < j + d
    BY <1>0, <1>2, <2>1
  <2>3. i + d \in DOMAIN calls /\ calls'[i] = calls[i + d]
    BY <1>1, <2>2
  <2> QED  BY <1>2, <2>1, <2>2, <2>3 DEF CallsInTurn
<1>3. ASSUME NEW i \in DOMAIN calls', NEW j \in DOMAIN calls', NEW cmds \in Groups,
             calls'[i].cmd \in cmds, calls'[j].cmd \in cmds
      PROVE  i = j
  <2>1. CASE i <= n /\ j <= n
    <3>1. /\ i + d \in DOMAIN calls /\ calls[i + d].cmd \in cmds
          /\ j + d \in DOMAIN calls /\ calls[j + d].cmd \in cmds
      <4>1. i # n + 1 /\ j # n + 1
        BY <1>0, <2>1
      <4> QED  BY <1>1, <1>3, <4>1
    <3>2. i + d = j + d
      BY <3>1 DEF CallsInTurn, Groups
    <3> QED  BY <1>0, <3>2
  <2>2. CASE i = n + 1 /\ j = n + 1
    BY <2>2
  <2>3. CASE i <= n /\ j = n + 1
    BY <1>0, <1>1, <1>3, <2>3
  <2>4. CASE i = n + 1 /\ j <= n
    BY <1>0, <1>1, <1>3, <2>4
  <2> QED  BY <1>0, <1>1, <2>1, <2>2, <2>3, <2>4
<1>4. ASSUME NEW i \in DOMAIN calls', calls'[i].cmd = "get_settings"
      PROVE  i = 1 /\ ~toast'.applied
  <2>1. i + d \in DOMAIN calls /\ i + d > d /\ calls[i + d].cmd = "get_settings"
    BY <1>1, <1>4
  <2>2. \A k \in DOMAIN calls : calls[k].cmd = "get_settings" => k = 1 /\ ~toast.applied
    BY DEF CallsInTurn
  <2>3. i + d = 1 /\ ~toast.applied
    BY <2>1, <2>2
  <2> QED  BY <1>0, <2>1, <2>3
<1>5. ASSUME NEW i \in DOMAIN calls', calls'[i].cmd = "read_app_rules"
      PROVE  listed' = "asked"
  BY <1>1, <1>5
<1> QED  BY <1>2, <1>3, <1>4, <1>5 DEF CallsInTurn, Groups

LEMMA ApplyKept ==
  ASSUME calls \in Seq(Calls), ApplyStands, NEW d \in {0, 1}, NEW new, Moved(d, new),
         UNCHANGED <<disk, live, up>>,
         \A c \in new : c.cmd = "reload_config" => disk.config = c.arg
  PROVE  ApplyStands'
<1>1. \A i \in DOMAIN calls' :
        \/ i + d \in DOMAIN calls /\ calls'[i] = calls[i + d]
        \/ calls'[i] \in new /\ calls'[i].answer = Pending
  BY SeqOfCalls DEF Moved
<1> QED  BY <1>1 DEF ApplyStands, Worked

LEMMA ReloadKept ==
  ASSUME calls \in Seq(Calls), ReloadStands, NEW d \in {0, 1}, NEW new, Moved(d, new),
         UNCHANGED <<disk, live, up>>,
         d = 1 /\ Tells(1) /\ toast'.saved => \E c \in new : c.cmd = "reload_rules",
         toast'.saved /\ ~toast.saved => d = 1 /\ calls[1].cmd = "reload_rules" /\ Worked(1)
  PROVE  ReloadStands'
<1>0. /\ Len(calls) \in Nat /\ DOMAIN calls = 1 .. Len(calls) /\ Len(calls) >= d
      /\ Len(calls') \in Nat /\ DOMAIN calls' = 1 .. Len(calls')
  BY SeqOfCalls DEF Moved
<1>1. \A i \in DOMAIN calls' :
        \/ i + d \in DOMAIN calls /\ calls'[i] = calls[i + d]
        \/ calls'[i] \in new /\ calls'[i].answer = Pending
  <2> SUFFICES ASSUME NEW i \in DOMAIN calls'
               PROVE  \/ i + d \in DOMAIN calls /\ calls'[i] = calls[i + d]
                      \/ calls'[i] \in new /\ calls'[i].answer = Pending
    OBVIOUS
  <2>1. CASE i <= Len(calls) - d
    <3>1. i \in 1 .. Len(calls) - d /\ i + d \in DOMAIN calls
      BY <1>0, <2>1
    <3> QED  BY <3>1 DEF Moved
  <2>2. CASE calls'[i] \in new
    BY <2>2 DEF Moved
  <2> QED  BY <2>1, <2>2 DEF Moved
<1>2. \A i \in DOMAIN calls : i > d => i - d \in DOMAIN calls' /\ calls'[i - d] = calls[i]
  <2> SUFFICES ASSUME NEW i \in DOMAIN calls, i > d
               PROVE  i - d \in DOMAIN calls' /\ calls'[i - d] = calls[i]
    OBVIOUS
  <2>1. i - d \in 1 .. Len(calls) - d /\ (i - d) + d = i
    BY <1>0
  <2> QED  BY <2>1 DEF Moved
<1> SUFFICES ASSUME up, live.rules # disk.rules
             PROVE  /\ toast'.saved => \E i \in DOMAIN calls' : Tells(i)'
                    /\ \A i \in DOMAIN calls' : calls'[i].cmd = "reload_rules" /\ Worked(i)' =>
                         \E j \in DOMAIN calls' : i < j /\ Tells(j)'
  BY DEF ReloadStands
<1>3. ASSUME NEW i \in DOMAIN calls', calls'[i].cmd = "reload_rules", Worked(i)'
      PROVE  \E j \in DOMAIN calls' : i < j /\ Tells(j)'
  <2>1. i + d \in DOMAIN calls /\ calls[i + d].cmd = "reload_rules" /\ Worked(i + d)
    BY <1>1, <1>3 DEF Worked
  <2>2. PICK j \in DOMAIN calls : i + d < j /\ Tells(j)
    BY <2>1 DEF ReloadStands
  <2>3. j > d /\ i < j - d
    BY <1>0, <2>2
  <2>4. Tells(j - d)'
    BY <1>2, <2>2, <2>3 DEF Tells, Worked
  <2> QED  BY <1>2, <2>3, <2>4
<1>4. ASSUME toast'.saved, NEW j \in DOMAIN calls, Tells(j)
      PROVE  \E i \in DOMAIN calls' : Tells(i)'
  <2>1. CASE j > d
    <3>1. Tells(j - d)'
      BY <1>2, <1>4, <2>1 DEF Tells, Worked
    <3> QED  BY <1>2, <2>1, <3>1
  <2>2. CASE j <= d
    <3>1. j = 1 /\ d = 1
      BY <1>0, <2>2
    <3>2. PICK c \in new : c.cmd = "reload_rules"
      BY <1>4, <3>1
    <3>3. PICK i \in DOMAIN calls' : calls'[i] = c /\ c.answer = Pending
      BY <3>2 DEF Moved
    <3>4. Tells(i)'
      BY <3>2, <3>3 DEF Tells, Worked
    <3> QED  BY <3>4
  <2> QED  BY <1>0, <2>1, <2>2
<1>5. ASSUME toast'.saved
      PROVE  \E i \in DOMAIN calls' : Tells(i)'
  <2>1. CASE toast.saved
    BY <1>4, <1>5, <2>1 DEF ReloadStands
  <2>2. CASE ~toast.saved
    <3>1. d = 1 /\ 1 \in DOMAIN calls /\ calls[1].cmd = "reload_rules" /\ Worked(1)
      BY <1>0, <1>5, <2>2
    <3>2. PICK j \in DOMAIN calls : 1 < j /\ Tells(j)
      BY <3>1 DEF ReloadStands
    <3> QED  BY <1>4, <1>5, <3>2
  <2> QED  BY <2>1, <2>2
<1> QED  BY <1>3, <1>5

LEMMA MovedIs ==
  ASSUME calls \in Seq(Calls), NEW d \in {0, 1}, NEW new, Moved(d, new)
  PROVE  /\ Len(calls) \in Nat /\ DOMAIN calls = 1 .. Len(calls) /\ Len(calls) >= d
         /\ Len(calls') \in Nat /\ DOMAIN calls' = 1 .. Len(calls')
         /\ \A i \in DOMAIN calls' :
              \/ i + d \in DOMAIN calls /\ i + d > d /\ calls'[i] = calls[i + d]
              \/ calls'[i] \in new /\ calls'[i].answer = Pending /\ \A j \in DOMAIN calls' : j <= i
         /\ \A i \in DOMAIN calls : i > d => i - d \in DOMAIN calls' /\ calls'[i - d] = calls[i]
<1>0. /\ Len(calls) \in Nat /\ DOMAIN calls = 1 .. Len(calls) /\ Len(calls) >= d
      /\ Len(calls') \in Nat /\ DOMAIN calls' = 1 .. Len(calls')
  BY SeqOfCalls DEF Moved
<1>1. ASSUME NEW i \in DOMAIN calls'
      PROVE  \/ i + d \in DOMAIN calls /\ i + d > d /\ calls'[i] = calls[i + d]
             \/ calls'[i] \in new /\ calls'[i].answer = Pending /\ \A j \in DOMAIN calls' : j <= i
  <2>1. CASE i <= Len(calls) - d
    <3>1. i \in 1 .. Len(calls) - d /\ i + d \in DOMAIN calls /\ i + d > d
      BY <1>0, <2>1
    <3> QED  BY <3>1 DEF Moved
  <2>2. CASE i = Len(calls) - d + 1 /\ calls'[i] \in new
    <3>1. \A j \in DOMAIN calls' : j <= i
      BY <1>0, <2>2 DEF Moved
    <3> QED  BY <2>2, <3>1 DEF Moved
  <2> QED  BY <2>1, <2>2 DEF Moved
<1>2. ASSUME NEW i \in DOMAIN calls, i > d
      PROVE  i - d \in DOMAIN calls' /\ calls'[i - d] = calls[i]
  <2>1. i - d \in 1 .. Len(calls) - d /\ (i - d) + d = i
    BY <1>0, <1>2
  <2> QED  BY <2>1 DEF Moved
<1> QED  BY <1>0, <1>1, <1>2

(* The flags follow the calls.                                              *)
Applies  == {"write_config", "reload_config"}
Toggles  == {"service_enable", "service_disable"}
Watchers == {"probe", "service_state", "service_enable", "service_disable"}

LEMMA FlagsKept ==
  ASSUME calls \in Seq(Calls), TypeOK, CallsInTurn, NEW d \in {0, 1}, NEW new, Moved(d, new),
         applying' \in BOOLEAN, busy' \in BOOLEAN,
         applying' <=> (\E c \in new : c.cmd \in Applies)
                         \/ (applying /\ ~(d = 1 /\ calls[1].cmd \in Applies)),
         busy' <=> (\E c \in new : c.cmd \in Toggles)
                     \/ (busy /\ ~(d = 1 /\ calls[1].cmd \in Toggles)),
         \/ beat' \/ locked' \/ (\E c \in new : c.cmd \in Watchers)
         \/ UNCHANGED <<beat, locked>> /\ ~(d = 1 /\ calls[1].cmd \in Watchers)
  PROVE  /\ applying' = Outstanding(Applies)' /\ busy' = Outstanding(Toggles)'
         /\ beat' \/ locked' \/ Outstanding(Watchers)'
<1>1. \A cmds : Outstanding(cmds)' <=>
        (\E i \in DOMAIN calls : i > d /\ calls[i].cmd \in cmds) \/ (\E c \in new : c.cmd \in cmds)
  BY OutstandingIs
<1>2. /\ Len(calls) \in Nat /\ DOMAIN calls = 1 .. Len(calls) /\ Len(calls) >= d
      /\ \A i \in DOMAIN calls : i > d \/ (i = 1 /\ d = 1)
      /\ d = 1 => 1 \in DOMAIN calls
  BY SeqOfCalls DEF Moved
<1>3. \A cmds \in {Applies, Toggles} :
        (\E i \in DOMAIN calls : i > d /\ calls[i].cmd \in cmds)
          <=> Outstanding(cmds) /\ ~(d = 1 /\ calls[1].cmd \in cmds)
  <2> SUFFICES ASSUME NEW cmds \in {Applies, Toggles}
               PROVE  (\E i \in DOMAIN calls : i > d /\ calls[i].cmd \in cmds)
                        <=> Outstanding(cmds) /\ ~(d = 1 /\ calls[1].cmd \in cmds)
    OBVIOUS
  <2>1. \A i, j \in DOMAIN calls : calls[i].cmd \in cmds /\ calls[j].cmd \in cmds => i = j
    BY DEF CallsInTurn, Applies, Toggles
  <2> QED  BY <1>2, <2>1 DEF Outstanding
<1>4. applying' = Outstanding(Applies)'
  <2>1. applying <=> Outstanding(Applies)
    BY DEF TypeOK, Applies
  <2>2. applying' <=> Outstanding(Applies)'
    BY <1>1, <1>3, <2>1
  <2> QED  BY <2>2 DEF Outstanding
<1>5. busy' = Outstanding(Toggles)'
  <2>1. busy <=> Outstanding(Toggles)
    BY DEF TypeOK, Toggles
  <2>2. busy' <=> Outstanding(Toggles)'
    BY <1>1, <1>3, <2>1
  <2> QED  BY <2>2 DEF Outstanding
<1>6. beat' \/ locked' \/ Outstanding(Watchers)'
  <2>1. beat \/ locked \/ Outstanding(Watchers)
    BY DEF TypeOK, Watchers
  <2>2. ASSUME NEW i \in DOMAIN calls, calls[i].cmd \in Watchers, ~(d = 1 /\ calls[1].cmd \in Watchers)
        PROVE  Outstanding(Watchers)'
    <3>1. i > d
      BY <1>2, <2>2
    <3> QED  BY <1>1, <2>2, <3>1
  <2>3. Outstanding(Watchers) /\ ~(d = 1 /\ calls[1].cmd \in Watchers) => Outstanding(Watchers)'
    BY <2>2 DEF Outstanding
  <2>4. (\E c \in new : c.cmd \in Watchers) => Outstanding(Watchers)'
    BY <1>1
  <2> QED  BY <2>1, <2>3, <2>4
<1> QED  BY <1>4, <1>5, <1>6

(* Saves go on, as long as neither the rules nor the timer change.          *)
Saves == {"write_app_rules", "reload_rules"}

LEMMA SaveKept ==
  ASSUME calls \in Seq(Calls), SaveStands, NEW d \in {0, 1}, NEW new, Moved(d, new),
         UNCHANGED <<disk, broken, rules, saveTimer, listed, early>>,
         d = 1 => calls[1].answer # Pending,
         toast'.saved => toast.saved \/ Outstanding(Saves),
         \A c \in new : /\ c.cmd # "write_app_rules" /\ c.cmd # "read_app_rules"
                        /\ c.cmd = "reload_rules" => Outstanding(Saves)
  PROVE  SaveStands'
<1> SUFFICES ASSUME ~early PROVE SaveStands'
  BY DEF SaveStands
<1>1. /\ Len(calls) \in Nat /\ DOMAIN calls = 1 .. Len(calls)
      /\ DOMAIN calls' = 1 .. Len(calls') /\ Len(calls') \in Nat
      /\ \A i \in DOMAIN calls' :
           \/ i + d \in DOMAIN calls /\ i + d > d /\ calls'[i] = calls[i + d]
           \/ calls'[i] \in new /\ calls'[i].answer = Pending
      /\ \A i \in DOMAIN calls : i > d => i - d \in DOMAIN calls' /\ calls'[i - d] = calls[i]
  BY MovedIs
<1>2. ASSUME listed # "yes"
      PROVE  ~saveTimer /\ ~toast'.saved /\ ~Outstanding(Saves)'
  <2>1. ~saveTimer /\ ~toast.saved /\ ~Outstanding(Saves)
    BY <1>2 DEF SaveStands, Saves
  <2>2. ~Outstanding(Saves)'
    BY <1>1, <2>1 DEF Outstanding, Saves
  <2> QED  BY <2>1, <2>2
<1>3. \A i \in DOMAIN calls' : calls'[i].cmd = "read_app_rules" /\ Worked(i)' => calls'[i].answer = disk.rules
  BY <1>1 DEF SaveStands, Worked
<1>4. ASSUME ~saveTimer, NEW i \in DOMAIN calls', calls'[i].cmd = "write_app_rules",
             calls'[i].answer = Pending,
             \A j \in DOMAIN calls' : calls'[j].cmd = "write_app_rules" => j <= i
      PROVE  calls'[i].arg = rules
  <2>1. i + d \in DOMAIN calls /\ i + d > d /\ calls'[i] = calls[i + d]
    BY <1>1, <1>4
  <2>2. ASSUME NEW j \in DOMAIN calls, calls[j].cmd = "write_app_rules"
        PROVE  j <= i + d
    <3>1. CASE j > d
      <4>1. j - d <= i
        BY <1>1, <1>4, <2>2, <3>1
      <4> QED  BY <1>1, <4>1
    <3>2. CASE ~(j > d)
      BY <1>1, <2>1, <3>2
    <3> QED  BY <3>1, <3>2
  <2> QED  BY <1>4, <2>1, <2>2 DEF SaveStands
<1>5. ASSUME ~saveTimer, ~broken, listed = "yes", disk.rules # rules
      PROVE  \E i \in DOMAIN calls' : calls'[i].cmd = "write_app_rules" /\ calls'[i].answer = Pending
  <2>1. PICK i \in DOMAIN calls : calls[i].cmd = "write_app_rules" /\ calls[i].answer = Pending
    BY <1>5 DEF SaveStands
  <2>2. i > d
    BY <1>1, <2>1
  <2> QED  BY <1>1, <2>1, <2>2
<1> QED  BY <1>2, <1>3, <1>4, <1>5 DEF SaveStands, Saves

-----------------------------------------------------------------------------
(* The types that do not depend on the calls.                               *)
Shapes ==
  /\ {current, applied, shown} \subseteq Values \cup {Null}
  /\ context \in Apps \cup {Global}
  /\ {queued, online, pressed, locked, wizard, saveTimer, up, unit, broken, early} \subseteq BOOLEAN
  /\ listed \in {"no", "asked", "yes"}
  /\ toast \in [applied : BOOLEAN, saved : BOOLEAN]
  /\ disk \in Files /\ live \in Files /\ rules \in Ruleset
  /\ edits \in Nat /\ faults \in Nat

LEMMA TypedIs ==
  ASSUME IInv
  PROVE  /\ TypeOK /\ Shapes /\ calls \in Seq(Calls) /\ CallsInTurn
         /\ applying \in BOOLEAN /\ busy \in BOOLEAN
         /\ applying <=> Outstanding(Applies)
         /\ busy <=> Outstanding(Toggles)
<1>1. TypeOK /\ calls \in Seq(Calls) /\ CallsInTurn
  BY CallsTyped DEF IInv
<1>2. Shapes
  BY <1>1 DEF TypeOK, Shapes
<1>3. applying \in BOOLEAN /\ busy \in BOOLEAN
  BY <1>1 DEF TypeOK, Outstanding
<1>4. (applying <=> Outstanding(Applies)) /\ (busy <=> Outstanding(Toggles))
  BY <1>1 DEF TypeOK, Applies, Toggles
<1> QED  BY <1>1, <1>2, <1>3, <1>4

(* A step of the interface keeps the invariant.                             *)
LEMMA StepKeeps ==
  ASSUME IInv, Shapes', NEW d \in {0, 1}, NEW new, Moved(d, new),
         UNCHANGED <<disk, live, up>>,
         \A c \in new : c.cmd # "get_settings",
         \A c \in new : \A cmds \in Groups :
           c.cmd \in cmds => \A i \in DOMAIN calls : i > d => calls[i].cmd \notin cmds,
         d = 0 /\ toast'.applied => toast.applied,
         \/ listed' = listed
         \/ \A i \in DOMAIN calls : i > d => calls[i].cmd # "read_app_rules",
         \A c \in new : c.cmd = "read_app_rules" => listed' = "asked",
         applying' \in BOOLEAN, busy' \in BOOLEAN,
         applying' <=> (\E c \in new : c.cmd \in Applies)
                         \/ (applying /\ ~(d = 1 /\ calls[1].cmd \in Applies)),
         busy' <=> (\E c \in new : c.cmd \in Toggles)
                     \/ (busy /\ ~(d = 1 /\ calls[1].cmd \in Toggles)),
         \/ beat' \/ locked' \/ (\E c \in new : c.cmd \in Watchers)
         \/ UNCHANGED <<beat, locked>> /\ ~(d = 1 /\ calls[1].cmd \in Watchers),
         \A c \in new : c.cmd = "reload_config" => disk.config = c.arg,
         d = 1 /\ Tells(1) /\ toast'.saved => \E c \in new : c.cmd = "reload_rules",
         toast'.saved /\ ~toast.saved => d = 1 /\ calls[1].cmd = "reload_rules" /\ Worked(1),
         AppliedIsInForce', SaveStands'
  PROVE  IInv'
<1>1. calls \in Seq(Calls) /\ TypeOK /\ CallsInTurn /\ ApplyStands /\ ReloadStands
  BY TypedIs DEF IInv
<1>2. TypeOK'
  <2>1. /\ applying' = Outstanding(Applies)' /\ busy' = Outstanding(Toggles)'
        /\ beat' \/ locked' \/ Outstanding(Watchers)'
    BY <1>1, FlagsKept
  <2>2. calls' \in Seq(Calls)
    BY DEF Moved
  <2>3. /\ Len(calls') \in Nat /\ calls' = [i \in 1 .. Len(calls') |-> calls'[i]]
        /\ \A i \in DOMAIN calls' : calls'[i].cmd \in Commands /\ calls'[i] \in CallsOf(calls'[i].cmd)
    BY <2>2, SeqOfCalls
  <2> QED  BY <2>1, <2>3 DEF TypeOK, Shapes, Applies, Toggles, Watchers
<1>3. CallsInTurn'
  <2>1. \A i \in DOMAIN calls : calls[i].cmd = "read_app_rules" => listed = "asked"
    BY <1>1 DEF CallsInTurn
  <2>2. \A i \in DOMAIN calls : i > d /\ calls[i].cmd = "read_app_rules" => listed' = "asked"
    BY <2>1
  <2> QED  BY <1>1, <2>2, TurnKept
<1>4. ApplyStands'
  BY <1>1, ApplyKept
<1>5. ReloadStands'
  BY <1>1, ReloadKept
<1> QED  BY <1>2, <1>3, <1>4, <1>5 DEF IInv

(* One that changes no call and tells nothing.                              *)
LEMMA QuietStep ==
  ASSUME IInv, Shapes', UNCHANGED <<disk, live, up, calls, listed, toast, applying, busy,
                                    beat, locked>>,
         AppliedIsInForce', SaveStands'
  PROVE  IInv'
<1>1. Moved(0, {})
  BY TypedIs, NoneMoved
<1> QED  BY <1>1, TypedIs, StepKeeps

LEMMA AppliedKept ==
  ASSUME AppliedIsInForce, UNCHANGED <<disk, live, up>>,
         toast'.applied /\ ~applying' => toast.applied /\ ~applying /\ applied' = applied
  PROVE  AppliedIsInForce'
  BY DEF AppliedIsInForce

LEMMA SwitchContextInv ==
  ASSUME IInv, NEW c \in Apps \cup {Global}, SwitchContext(c)
  PROVE  IInv'
<1>1. UNCHANGED <<current, applied, applying, queued, online, pressed, busy, beat, locked,
                  wizard, rules, saveTimer, listed, calls, disk, live, up, unit, toast,
                  broken, early, edits, faults>>
  BY DEF SwitchContext, button, chips, world, told
<1>2. Shapes'
  BY <1>1, TypedIs DEF SwitchContext, Shapes
<1>3. SaveStands'
  BY <1>1 DEF IInv, SaveStands, Outstanding, Worked
<1>4. AppliedIsInForce'
  BY <1>1 DEF IInv, AppliedIsInForce
<1> QED  BY <1>1, <1>2, <1>3, <1>4, QuietStep

LEMMA ChangeRuleInv ==
  ASSUME IInv, NEW a \in Apps, NEW o \in Overrides, ChangeRule(a, o)
  PROVE  IInv'
<1>1. /\ UNCHANGED <<current, applied, context, applying, queued, online, pressed, busy, beat,
                     locked, wizard, listed, calls, disk, live, up, unit, toast, broken,
                     faults>>
      /\ saveTimer' = TRUE /\ early' = (early \/ listed # "yes")
      /\ rules' = [rules EXCEPT ![a] = o] /\ edits' = edits + 1
      /\ shown' = Synced
  BY DEF ChangeRule, button, world, scheduleSave
<1>2. Shapes'
  <2>1. Shapes /\ rules' \in Ruleset
    BY <1>1, TypedIs DEF Shapes, Ruleset
  <2> QED  BY <1>1, <2>1 DEF Shapes, Synced
<1>3. SaveStands'
  BY <1>1 DEF IInv, SaveStands, Worked
<1>4. AppliedIsInForce'
  BY <1>1 DEF IInv, AppliedIsInForce
<1> QED  BY <1>1, <1>2, <1>3, <1>4, QuietStep

LEMMA DeleteRuleInv ==
  ASSUME IInv, NEW a \in Apps, DeleteRule(a)
  PROVE  IInv'
<1>1. /\ UNCHANGED <<current, applied, applying, queued, online, pressed, busy, beat, locked,
                     wizard, listed, calls, disk, live, up, unit, toast, broken, faults>>
      /\ saveTimer' = TRUE /\ early' = (early \/ listed # "yes")
      /\ rules' = [rules EXCEPT ![a] = NoRule] /\ edits' = edits + 1
  BY DEF DeleteRule, button, world, scheduleSave
<1>2. Shapes'
  <2>1. Shapes /\ rules' \in Ruleset
    BY <1>1, TypedIs DEF Shapes, Ruleset
  <2>2. OrDefault(current) \in Values
    BY <2>1, FrontendAssumption DEF Shapes, OrDefault
  <2> QED  BY <1>1, <2>1, <2>2 DEF DeleteRule, Shapes, Synced
<1>3. SaveStands'
  BY <1>1 DEF IInv, SaveStands, Worked
<1>4. AppliedIsInForce'
  BY <1>1 DEF IInv, AppliedIsInForce
<1> QED  BY <1>1, <1>2, <1>3, <1>4, QuietStep

-----------------------------------------------------------------------------
(* An apply that is declined, put off or begun, after the answer of another *)
(* call (d = 1) or on its own.                                              *)
LEMMA ApplyIs ==
  ASSUME IInv, NEW now \in Values \cup {Null}, NEW reachable \in BOOLEAN, NEW queue \in BOOLEAN, NEW others,
         applyCurrentSettings(now, reachable, queue, others)
  PROVE  /\ queued' \in BOOLEAN /\ toast' \in [applied : BOOLEAN, saved : BOOLEAN]
         /\ toast'.saved = toast.saved /\ (toast'.applied => toast.applied)
         /\ \/ calls' = others /\ applying' = applying
            \/ /\ ~applying /\ applying' = TRUE
               /\ \E v \in Values : calls' = Append(others, Call("write_config", v))
<1>1. toast \in [applied : BOOLEAN, saved : BOOLEAN]
  BY TypedIs DEF Shapes
<1>2. OrDefault(now) \in Values
  BY FrontendAssumption DEF OrDefault
<1>3. CASE Declines(now)
  BY <1>1, <1>3 DEF applyCurrentSettings
<1>4. CASE ~Declines(now) /\ ~reachable
  BY <1>1, <1>4 DEF applyCurrentSettings
<1>5. CASE ~Declines(now) /\ reachable
  BY <1>1, <1>2, <1>5 DEF applyCurrentSettings, Declines
<1> QED  BY <1>3, <1>4, <1>5

LEMMA ApplyStep ==
  ASSUME IInv, Shapes', NEW d \in {0, 1}, NEW others,
         d = 0 => others = calls,
         d = 1 => /\ others = Rest /\ calls # <<>>
                  /\ calls[1].cmd \in Watchers /\ calls[1].answer # Pending,
         \/ calls' = others /\ applying' = applying
         \/ /\ ~applying /\ applying' = TRUE
            /\ \E v \in Values : calls' = Append(others, Call("write_config", v)),
         toast'.saved = toast.saved, toast'.applied => toast.applied,
         UNCHANGED <<disk, live, up, broken, rules, saveTimer, listed, early, applied>>,
         busy' \in BOOLEAN, busy' <=> (busy /\ ~(d = 1 /\ calls[1].cmd \in Toggles)),
         beat' \/ locked' \/ (UNCHANGED <<beat, locked>> /\ d = 0)
  PROVE  IInv'
<1>1. calls \in Seq(Calls) /\ CallsInTurn /\ applying \in BOOLEAN /\ (applying <=> Outstanding(Applies))
  BY TypedIs
<1>2. AppliedIsInForce'
  BY AppliedKept DEF IInv
<1>3. d = 1 => /\ calls[1].cmd \notin Applies /\ calls[1].cmd # "write_app_rules"
               /\ calls[1].cmd # "reload_rules" /\ ~Tells(1)
  BY DEF Watchers, Applies, Tells
<1>4. CASE calls' = others /\ applying' = applying
  <2>1. Moved(d, {})
    BY <1>1, <1>4, NoneMoved, PopMoved
  <2>2. SaveStands'
    BY <1>1, <2>1, SaveKept DEF IInv
  <2>3. beat' \/ locked' \/ (UNCHANGED <<beat, locked>> /\ ~(d = 1 /\ calls[1].cmd \in Watchers))
    OBVIOUS
  <2> QED  BY <1>1, <1>2, <1>3, <1>4, <2>1, <2>2, <2>3, StepKeeps
<1>5. CASE /\ ~applying /\ applying' = TRUE
           /\ \E v \in Values : calls' = Append(others, Call("write_config", v))
  <2>1. PICK v \in Values : calls' = Append(others, Call("write_config", v))
    BY <1>5
  <2> DEFINE c == Call("write_config", v)
  <2>2. c \in Calls /\ c.cmd = "write_config" /\ c.answer = Pending
    BY CallIs DEF Commands, Taken
  <2>3. calls' = Append(others, c)
    BY <2>1
  <2> HIDE DEF c
  <2>4. Moved(d, {c})
    BY <1>1, <2>2, <2>3, PushMoved, SwapMoved
  <2>5. \A i \in DOMAIN calls : calls[i].cmd \notin Applies
    BY <1>1, <1>5 DEF Outstanding
  <2>6. \A e \in {c} : \A cmds \in Groups :
          e.cmd \in cmds => \A i \in DOMAIN calls : i > d => calls[i].cmd \notin cmds
    BY <2>2, <2>5 DEF Groups, Applies
  <2>7. SaveStands'
    BY <1>1, <2>2, <2>4, SaveKept DEF IInv
  <2>8. "write_config" \in Applies /\ "write_config" \notin Toggles /\ "write_config" \notin Watchers
    BY DEF Applies, Toggles, Watchers
  <2>9. /\ applying' <=> (\E e \in {c} : e.cmd \in Applies) \/ (applying /\ ~(d = 1 /\ calls[1].cmd \in Applies))
        /\ busy' <=> (\E e \in {c} : e.cmd \in Toggles) \/ (busy /\ ~(d = 1 /\ calls[1].cmd \in Toggles))
        /\ \/ beat' \/ locked' \/ (\E e \in {c} : e.cmd \in Watchers)
           \/ (UNCHANGED <<beat, locked>> /\ ~(d = 1 /\ calls[1].cmd \in Watchers))
    BY <1>5, <2>2, <2>8
  <2>10. /\ \A e \in {c} : e.cmd # "get_settings" /\ e.cmd # "reload_config" /\ e.cmd # "read_app_rules"
         /\ applying' \in BOOLEAN
    BY <1>5, <2>2
  <2> QED  BY <1>2, <1>3, <2>4, <2>6, <2>7, <2>9, <2>10, StepKeeps
<1> QED  BY <1>4, <1>5

LEMMA EditInv ==
  ASSUME IInv, NEW v \in Values, Edit(v)
  PROVE  IInv'
<1>1. /\ applyCurrentSettings(v, online, queued, calls)
      /\ UNCHANGED <<applied, context, online, pressed, busy, beat, locked, wizard, rules,
                     saveTimer, listed, disk, live, up, unit, broken, early, faults>>
      /\ shown' = v /\ current' = v /\ edits' = edits + 1
  BY DEF Edit, button, chips, world
<1>2. Shapes /\ busy \in BOOLEAN
  BY TypedIs
<1>3. v \in Values \cup {Null} /\ queued \in BOOLEAN /\ online \in BOOLEAN
  BY <1>2 DEF Shapes
<1>4. /\ queued' \in BOOLEAN /\ toast' \in [applied : BOOLEAN, saved : BOOLEAN]
      /\ toast'.saved = toast.saved /\ (toast'.applied => toast.applied)
      /\ \/ calls' = calls /\ applying' = applying
         \/ /\ ~applying /\ applying' = TRUE
            /\ \E w \in Values : calls' = Append(calls, Call("write_config", w))
  <2>1. toast \in [applied : BOOLEAN, saved : BOOLEAN]
    BY <1>2 DEF Shapes
  <2>2. CASE Declines(v)
    BY <1>1, <1>3, <2>1, <2>2 DEF applyCurrentSettings
  <2>3. CASE ~Declines(v) /\ ~online
    BY <1>1, <1>3, <2>1, <2>3 DEF applyCurrentSettings
  <2>4. CASE ~Declines(v) /\ online
    <3>1. OrDefault(v) \in Values
      BY FrontendAssumption DEF OrDefault
    <3>2. /\ applying' = TRUE /\ queued' = queued /\ toast' = toast
          /\ calls' = Append(calls, Call("write_config", OrDefault(v)))
      BY <1>1, <2>4 DEF applyCurrentSettings
    <3> QED  BY <1>3, <2>1, <2>4, <3>1, <3>2 DEF Declines
  <2> QED  BY <2>2, <2>3, <2>4
<1>5. Shapes'
  BY <1>1, <1>2, <1>4 DEF Shapes
<1>6. 0 \in {0, 1} /\ (busy' <=> (busy /\ ~(0 = 1 /\ calls[1].cmd \in Toggles))) /\ UNCHANGED <<beat,
                                                                                                locked>>
  BY <1>1
<1> QED
  <2> DEFINE d == 0
             others == calls
  <2>1. d \in {0, 1} /\ d = 0 /\ d # 1 /\ others = calls
    OBVIOUS
  <2> HIDE DEF d, others
  <2> QED  BY <1>1, <1>2, <1>4, <1>5, <2>1, ApplyStep

(* The first call and its answer.                                           *)
LEMMA HeadIs ==
  ASSUME IInv, calls # <<>>
  PROVE  /\ 1 \in DOMAIN calls /\ Head(calls) = calls[1]
         /\ calls[1].cmd \in Commands
         /\ calls[1].arg \in Taken(calls[1].cmd)
         /\ calls[1].answer \in Given(calls[1].cmd) \cup {Pending}
<1>1. calls \in Seq(Calls) /\ 1 \in DOMAIN calls /\ Head(calls) = calls[1]
  BY TypedIs
<1>2. calls[1].cmd \in Commands /\ calls[1] \in CallsOf(calls[1].cmd)
  BY <1>1, SeqOfCalls
<1> QED  BY <1>1, <1>2 DEF CallsOf

LEMMA NotifyIs ==
  ASSUME IInv, NEW on, notifyDaemonOnlineChange(on, Rest)
  PROVE  /\ online' = on /\ queued' \in BOOLEAN /\ toast' \in [applied : BOOLEAN, saved : BOOLEAN]
         /\ toast'.saved = toast.saved /\ (toast'.applied => toast.applied)
         /\ \/ calls' = Rest /\ applying' = applying
            \/ /\ ~applying /\ applying' = TRUE
               /\ \E v \in Values : calls' = Append(Rest, Call("write_config", v))
<1>1. Shapes
  BY TypedIs
<1>2. CASE Rises(on)
  <2>1. applyCurrentSettings(current, TRUE, FALSE, Rest) /\ online' = on
    BY <1>2 DEF notifyDaemonOnlineChange
  <2>2. current \in Values \cup {Null}
    BY <1>1 DEF Shapes
  <2> QED  BY <2>1, <2>2, ApplyIs
<1>3. CASE ~Rises(on)
  BY <1>1, <1>3 DEF notifyDaemonOnlineChange, Shapes
<1> QED  BY <1>2, <1>3

LEMMA BeatAnsweredInv ==
  ASSUME IInv, calls # <<>>, Head(calls).answer # Pending, BeatAnswered
  PROVE  IInv'
<1> DEFINE on == Head(calls).answer
<1>1. /\ UNCHANGED <<current, applied, shown, context, busy, rules, saveTimer, listed, disk,
                     live, up, unit, broken, early, edits, faults>>
      /\ calls[1].cmd \in {"probe", "service_state"} /\ calls[1].answer # Pending
  BY HeadIs DEF BeatAnswered, chips, world
<1>2. on \in BOOLEAN \cup {Failed}
  BY <1>1, HeadIs DEF Given
<1>3. /\ {online', pressed', queued', locked', wizard'} \subseteq BOOLEAN /\ (beat' \/ locked')
      /\ toast' \in [applied : BOOLEAN, saved : BOOLEAN]
      /\ toast'.saved = toast.saved /\ (toast'.applied => toast.applied)
      /\ \/ calls' = Rest /\ applying' = applying
         \/ /\ ~applying /\ applying' = TRUE
            /\ \E v \in Values : calls' = Append(Rest, Call("write_config", v))
  <2>1. CASE on # Failed
    <3>1. /\ on \in BOOLEAN /\ notifyDaemonOnlineChange(on, Rest) /\ pressed' = on
          /\ beat' = TRUE /\ wizard' = FALSE /\ locked' = locked
      BY <1>2, <2>1 DEF BeatAnswered, schedule
    <3> HIDE DEF on
    <3>2. /\ online' = on /\ queued' \in BOOLEAN /\ toast' \in [applied : BOOLEAN, saved : BOOLEAN]
          /\ toast'.saved = toast.saved /\ (toast'.applied => toast.applied)
          /\ \/ calls' = Rest /\ applying' = applying
             \/ /\ ~applying /\ applying' = TRUE
                /\ \E v \in Values : calls' = Append(Rest, Call("write_config", v))
      BY <3>1, NotifyIs
    <3> QED  BY <3>1, <3>2, TypedIs DEF Shapes
  <2>2. CASE on = Failed
    BY <2>2, TypedIs DEF BeatAnswered, Shapes
  <2> QED  BY <2>1, <2>2
<1> HIDE DEF on
<1>4. Shapes'
  BY <1>1, <1>3, TypedIs DEF Shapes
<1>5. calls[1].cmd \in Watchers /\ calls[1].cmd \notin Toggles /\ busy \in BOOLEAN
  BY <1>1, TypedIs DEF Watchers, Toggles
<1> QED
  <2> DEFINE d == 1
             others == Rest
  <2>1. d \in {0, 1} /\ d # 0 /\ d = 1 /\ others = Rest
    OBVIOUS
  <2> HIDE DEF d, others
  <2> QED  BY <1>1, <1>3, <1>4, <1>5, <2>1, ApplyStep

LEMMA ToggleAnsweredInv ==
  ASSUME IInv, calls # <<>>, Head(calls).answer # Pending, ToggleAnswered
  PROVE  IInv'
<1> DEFINE on == Head(calls).answer
<1>1. /\ beat' = TRUE /\ busy' = FALSE
      /\ UNCHANGED <<current, applied, shown, context, locked, wizard, rules, saveTimer,
                     listed, disk, live, up, unit, broken, early, edits, faults>>
      /\ calls[1].cmd \in {"service_enable", "service_disable"} /\ calls[1].answer # Pending
  BY HeadIs DEF ToggleAnswered, chips, world, schedule
<1>2. on \in BOOLEAN \cup {Failed}
  BY <1>1, HeadIs DEF Given
<1>3. /\ {online', pressed', queued'} \subseteq BOOLEAN
      /\ toast' \in [applied : BOOLEAN, saved : BOOLEAN]
      /\ toast'.saved = toast.saved /\ (toast'.applied => toast.applied)
      /\ \/ calls' = Rest /\ applying' = applying
         \/ /\ ~applying /\ applying' = TRUE
            /\ \E v \in Values : calls' = Append(Rest, Call("write_config", v))
  <2>1. CASE on # Failed
    <3>1. on \in BOOLEAN /\ notifyDaemonOnlineChange(on, Rest) /\ pressed' = on
      BY <1>2, <2>1 DEF ToggleAnswered
    <3> HIDE DEF on
    <3>2. /\ online' = on /\ queued' \in BOOLEAN /\ toast' \in [applied : BOOLEAN, saved : BOOLEAN]
          /\ toast'.saved = toast.saved /\ (toast'.applied => toast.applied)
          /\ \/ calls' = Rest /\ applying' = applying
             \/ /\ ~applying /\ applying' = TRUE
                /\ \E v \in Values : calls' = Append(Rest, Call("write_config", v))
      BY <3>1, NotifyIs
    <3> QED  BY <3>1, <3>2
  <2>2. CASE on = Failed
    BY <2>2, TypedIs DEF ToggleAnswered, Shapes
  <2> QED  BY <2>1, <2>2
<1> HIDE DEF on
<1>4. Shapes'
  BY <1>1, <1>3, TypedIs DEF Shapes
<1>5. calls[1].cmd \in Watchers /\ calls[1].cmd \in Toggles
  BY <1>1 DEF Watchers, Toggles
<1> QED
  <2> DEFINE d == 1
             others == Rest
  <2>1. d \in {0, 1} /\ d # 0 /\ d = 1 /\ others = Rest
    OBVIOUS
  <2> HIDE DEF d, others
  <2> QED  BY <1>1, <1>3, <1>4, <1>5, <2>1, ApplyStep

(* The answer of the first call, and no new one.                            *)
LEMMA PopStep ==
  ASSUME IInv, Shapes', calls # <<>>, calls' = Rest, calls[1].answer # Pending,
         UNCHANGED <<disk, live, up>>,
         listed' = listed \/ calls[1].cmd = "read_app_rules",
         applying' \in BOOLEAN, busy' = busy, UNCHANGED <<beat, locked>>,
         applying' <=> (applying /\ calls[1].cmd \notin Applies),
         calls[1].cmd \notin Watchers,
         Tells(1) => ~toast'.saved,
         toast'.saved /\ ~toast.saved => calls[1].cmd = "reload_rules" /\ Worked(1),
         AppliedIsInForce', SaveStands'
  PROVE  IInv'
<1>1. Moved(1, {})
  BY TypedIs, PopMoved
<1>2. \A i \in DOMAIN calls : calls[1].cmd = "read_app_rules" /\ i > 1 => calls[i].cmd # "read_app_rules"
  <2>1. \A i, j \in DOMAIN calls : calls[i].cmd = "read_app_rules" /\ calls[j].cmd = "read_app_rules" => i = j
    BY TypedIs DEF CallsInTurn
  <2> QED  BY <2>1, HeadIs
<1>3. busy' \in BOOLEAN /\ calls[1].cmd \notin Toggles
  BY TypedIs DEF Watchers, Toggles
<1> QED  BY <1>1, <1>2, <1>3, StepKeeps

LEMMA ConfigWrittenInv ==
  ASSUME IInv, calls # <<>>, Head(calls).answer # Pending, ConfigWritten
  PROVE  IInv'
<1> DEFINE v == Head(calls).arg
<1>1. /\ UNCHANGED <<current, applied, shown, context, online, pressed, busy, beat, locked,
                     wizard, rules, saveTimer, listed, disk, live, up, unit, broken, early,
                     edits, faults>>
      /\ 1 \in DOMAIN calls /\ calls[1].cmd = "write_config" /\ calls[1].answer # Pending
      /\ calls[1].arg = v /\ v \in Values
  BY HeadIs DEF ConfigWritten, button, chips, world, Taken
<1>2. applying /\ calls \in Seq(Calls) /\ CallsInTurn /\ busy \in BOOLEAN
  BY <1>1, TypedIs DEF Outstanding, Applies
<1>3. CASE Head(calls).answer # Failed
  <2> DEFINE c == Call("reload_config", v)
  <2>1. calls' = Append(Rest, c) /\ UNCHANGED <<applying, queued, toast>>
    BY <1>3 DEF ConfigWritten
  <2>2. c \in Calls /\ c.cmd = "reload_config" /\ c.answer = Pending /\ c.arg = v
    BY <1>1, CallIs DEF Commands, Taken
  <2>3. disk.config = v
    BY <1>1, <1>3, HeadIs DEF IInv, ApplyStands, Worked
  <2> HIDE DEF c, v
  <2>4. Moved(1, {c})
    BY <1>2, <2>1, <2>2, SwapMoved
  <2>5. \A i \in DOMAIN calls : i > 1 => calls[i].cmd \notin Applies
    <3>1. \A i, j \in DOMAIN calls : calls[i].cmd \in Applies /\ calls[j].cmd \in Applies => i = j
      BY <1>2 DEF CallsInTurn, Applies
    <3>2. calls[1].cmd \in Applies
      BY <1>1 DEF Applies
    <3> QED  BY <1>1, <3>1, <3>2
  <2>6. \A e \in {c} : \A cmds \in Groups :
          e.cmd \in cmds => \A i \in DOMAIN calls : i > 1 => calls[i].cmd \notin cmds
    BY <2>2, <2>5 DEF Groups, Applies
  <2>7. Shapes'
    BY <1>1, <2>1, TypedIs DEF Shapes
  <2>8. SaveStands'
    BY <1>1, <1>2, <2>1, <2>2, <2>4, SaveKept DEF IInv
  <2>9. AppliedIsInForce'
    BY <1>1, <2>1, AppliedKept DEF IInv
  <2>10. /\ \E e \in {c} : e.cmd \in Applies
         /\ \A e \in {c} : e.cmd \notin Toggles
         /\ calls[1].cmd \notin Toggles /\ calls[1].cmd \notin Watchers /\ ~Tells(1)
         /\ calls[1].cmd # "reload_rules"
    BY <1>1, <2>2 DEF Applies, Toggles, Watchers, Tells
  <2>11. \A e \in {c} : /\ e.cmd # "get_settings" /\ e.cmd # "read_app_rules"
                        /\ e.cmd = "reload_config" => disk.config = e.arg
    BY <2>2, <2>3
  <2> QED  BY <1>1, <1>2, <2>1, <2>4, <2>6, <2>7, <2>8, <2>9, <2>10, <2>11, StepKeeps
<1>4. CASE Head(calls).answer = Failed
  <2>1. /\ calls' = Rest /\ queued' = TRUE /\ applying' = FALSE
        /\ toast' = [toast EXCEPT !.applied = FALSE]
    BY <1>4 DEF ConfigWritten, Caught
  <2>2. Shapes' /\ ~toast'.applied /\ toast'.saved = toast.saved
    BY <1>1, <2>1, TypedIs DEF Shapes
  <2>3. SaveStands'
    <3>1. Moved(1, {})
      BY <1>2, <2>1, PopMoved
    <3> QED  BY <1>1, <1>2, <2>2, <3>1, SaveKept DEF IInv
  <2>4. AppliedIsInForce'
    BY <2>2 DEF AppliedIsInForce
  <2>5. calls[1].cmd \in Applies /\ calls[1].cmd \notin Watchers /\ ~Tells(1)
    BY <1>1 DEF Applies, Watchers, Tells
  <2> QED  BY <1>1, <2>1, <2>2, <2>3, <2>4, <2>5, PopStep
<1> QED  BY <1>3, <1>4

LEMMA ConfigReloadedInv ==
  ASSUME IInv, calls # <<>>, Head(calls).answer # Pending, ConfigReloaded
  PROVE  IInv'
<1> DEFINE v == Head(calls).arg
<1>1. /\ UNCHANGED <<shown, context, queued, online, pressed, busy, beat, locked, wizard,
                     rules, saveTimer, listed, disk, live, up, unit, broken, early, edits,
                     faults>>
      /\ 1 \in DOMAIN calls /\ calls[1].cmd = "reload_config" /\ calls[1].answer # Pending
      /\ calls[1].arg = v /\ v \in Values /\ calls' = Rest /\ applying' = FALSE
  BY HeadIs DEF ConfigReloaded, button, chips, world, Taken
<1>2. Moved(1, {})
  BY <1>1, TypedIs, PopMoved
<1>3. calls[1].cmd \in Applies /\ calls[1].cmd \notin Watchers /\ ~Tells(1)
  BY <1>1 DEF Applies, Watchers, Tells
<1>4. /\ toast' \in [applied : BOOLEAN, saved : BOOLEAN] /\ toast'.saved = toast.saved
      /\ {current', applied'} \subseteq Values \cup {Null}
      /\ toast'.applied => (calls[1].answer # Failed /\ applied' = v)
  <2>1. Head(calls).answer = calls[1].answer /\ Shapes
    BY HeadIs, TypedIs
  <2>2. CASE Head(calls).answer # Failed
    <3>1. current' = v /\ applied' = v /\ toast' = [toast EXCEPT !.applied = TRUE]
      BY <2>2 DEF ConfigReloaded, Confirmed
    <3> QED  BY <1>1, <2>1, <2>2, <3>1 DEF Shapes
  <2>3. CASE Head(calls).answer = Failed
    <3>1. toast' = [toast EXCEPT !.applied = FALSE] /\ UNCHANGED <<current, applied>>
      BY <2>3 DEF ConfigReloaded
    <3> QED  BY <2>1, <3>1 DEF Shapes
  <2> QED  BY <2>2, <2>3
<1>5. Shapes'
  BY <1>1, <1>4, TypedIs DEF Shapes
<1>6. AppliedIsInForce'
  <2>1. Worked(1) => disk.config = v /\ (up => live.config = v)
    BY <1>1 DEF IInv, ApplyStands
  <2> QED  BY <1>1, <1>4, <2>1 DEF AppliedIsInForce, Worked
<1>7. SaveStands'
  BY <1>1, <1>2, <1>4, TypedIs, SaveKept DEF IInv
<1> HIDE DEF v
<1> QED  BY <1>1, <1>3, <1>4, <1>5, <1>6, <1>7, PopStep

LEMMA SettingsFetchedInv ==
  ASSUME IInv, calls # <<>>, Head(calls).answer # Pending, SettingsFetched
  PROVE  IInv'
<1>1. /\ UNCHANGED <<context, applying, queued, online, pressed, busy, beat, locked, wizard,
                     rules, saveTimer, listed, disk, live, up, unit, toast, broken, early,
                     edits, faults>>
      /\ 1 \in DOMAIN calls /\ calls[1].cmd = "get_settings" /\ calls[1].answer # Pending
      /\ calls' = Rest
  BY HeadIs DEF SettingsFetched, button, chips, world, told
<1>2. calls[1].answer \in Values \cup {Failed}
  BY <1>1, HeadIs DEF Given
<1>3. {current', applied', shown'} \subseteq Values
  BY <1>2, HeadIs, FrontendAssumption DEF SettingsFetched
<1>4. Shapes'
  BY <1>1, <1>3, TypedIs DEF Shapes
<1>5. ~toast.applied
  <2>1. \A i \in DOMAIN calls : calls[i].cmd = "get_settings" => ~toast.applied
    BY TypedIs DEF CallsInTurn
  <2> QED  BY <1>1, <2>1
<1>6. AppliedIsInForce'
  BY <1>1, <1>5 DEF AppliedIsInForce
<1>7. Moved(1, {})
  BY <1>1, TypedIs, PopMoved
<1>8. SaveStands'
  BY <1>1, <1>7, TypedIs, SaveKept DEF IInv
<1>9. calls[1].cmd \notin Applies /\ calls[1].cmd \notin Watchers /\ ~Tells(1) /\ applying \in BOOLEAN
  BY <1>1, TypedIs DEF Applies, Watchers, Tells
<1> QED  BY <1>1, <1>4, <1>6, <1>8, <1>9, PopStep

(* The answer of a save, of a reload of the rules and of their listing.     *)
LEMMA RulesWrittenInv ==
  ASSUME IInv, calls # <<>>, Head(calls).answer # Pending, RulesWritten
  PROVE  IInv'
<1>1. /\ UNCHANGED <<current, applied, shown, context, applying, queued, online, pressed,
                     busy, beat, locked, wizard, rules, saveTimer, listed, disk, live, up,
                     unit, broken, early, edits, faults>>
      /\ 1 \in DOMAIN calls /\ calls[1].cmd = "write_app_rules" /\ calls[1].answer # Pending
  BY HeadIs DEF RulesWritten, panel, button, chips, world
<1>2. /\ calls \in Seq(Calls) /\ applying \in BOOLEAN /\ busy \in BOOLEAN /\ Shapes /\ SaveStands
      /\ Outstanding(Saves)
  BY <1>1, TypedIs DEF Outstanding, Saves, IInv
<1>3. calls[1].cmd \notin Applies /\ calls[1].cmd \notin Toggles /\ calls[1].cmd \notin Watchers
  BY <1>1 DEF Applies, Toggles, Watchers
<1>4. CASE Head(calls).answer # Failed
  <2> DEFINE c == Call("reload_rules", Null)
  <2>1. calls' = Append(Rest, c) /\ UNCHANGED toast
    BY <1>4 DEF RulesWritten
  <2>2. c \in Calls /\ c.cmd = "reload_rules" /\ c.answer = Pending
    BY CallIs DEF Commands, Taken
  <2> HIDE DEF c
  <2>3. Moved(1, {c})
    BY <1>2, <2>1, <2>2, SwapMoved
  <2>4. Shapes'
    BY <1>1, <1>2, <2>1 DEF Shapes
  <2>5. SaveStands'
    BY <1>1, <1>2, <2>1, <2>2, <2>3, SaveKept
  <2>6. AppliedIsInForce'
    BY <1>1, <2>1, AppliedKept DEF IInv
  <2>7. \A e \in {c} : /\ e.cmd # "get_settings" /\ e.cmd # "read_app_rules" /\ e.cmd # "reload_config"
                       /\ e.cmd \notin Applies /\ e.cmd \notin Toggles
                       /\ \A cmds \in Groups : e.cmd \notin cmds
    BY <2>2 DEF Applies, Toggles, Groups
  <2>8. \E e \in {c} : e.cmd = "reload_rules"
    BY <2>2
  <2> QED  BY <1>1, <1>2, <1>3, <2>1, <2>3, <2>4, <2>5, <2>6, <2>7, <2>8, StepKeeps
<1>5. CASE Head(calls).answer = Failed
  <2>1. calls' = Rest /\ toast' = [toast EXCEPT !.saved = FALSE]
    BY <1>5 DEF RulesWritten
  <2>2. Shapes' /\ ~toast'.saved /\ toast'.applied = toast.applied
    BY <1>1, <1>2, <2>1 DEF Shapes
  <2>3. Moved(1, {})
    BY <1>1, <1>2, <2>1, PopMoved
  <2>4. SaveStands'
    BY <1>1, <1>2, <2>2, <2>3, SaveKept
  <2>5. AppliedIsInForce'
    BY <1>1, <2>2, AppliedKept DEF IInv
  <2> QED  BY <1>1, <1>2, <1>3, <2>1, <2>2, <2>4, <2>5, PopStep
<1> QED  BY <1>4, <1>5

LEMMA RulesReloadedInv ==
  ASSUME IInv, calls # <<>>, Head(calls).answer # Pending, RulesReloaded
  PROVE  IInv'
<1>1. /\ UNCHANGED <<current, applied, shown, context, applying, queued, online, pressed,
                     busy, beat, locked, wizard, rules, saveTimer, listed, disk, live, up,
                     unit, broken, early, edits, faults>>
      /\ 1 \in DOMAIN calls /\ calls[1].cmd = "reload_rules" /\ calls[1].answer # Pending
      /\ calls' = Rest /\ toast' = [toast EXCEPT !.saved = (calls[1].answer # Failed)]
  BY HeadIs DEF RulesReloaded, panel, button, chips, world
<1>2. /\ calls \in Seq(Calls) /\ applying \in BOOLEAN /\ Shapes /\ SaveStands /\ Outstanding(Saves)
  BY <1>1, TypedIs DEF Outstanding, Saves, IInv
<1>3. /\ Shapes' /\ (toast'.saved => Worked(1)) /\ toast'.applied = toast.applied
  BY <1>1, <1>2 DEF Shapes, Worked
<1>4. Moved(1, {})
  BY <1>1, <1>2, PopMoved
<1>5. SaveStands'
  BY <1>1, <1>2, <1>4, SaveKept
<1>6. AppliedIsInForce'
  BY <1>1, <1>3, AppliedKept DEF IInv
<1>7. /\ calls[1].cmd \notin Applies /\ calls[1].cmd \notin Watchers
      /\ Tells(1) => ~toast'.saved
  BY <1>1, <1>3 DEF Applies, Watchers, Tells
<1> QED  BY <1>1, <1>2, <1>3, <1>5, <1>6, <1>7, PopStep

LEMMA RulesListedInv ==
  ASSUME IInv, calls # <<>>, Head(calls).answer # Pending, RulesListed
  PROVE  IInv'
<1>1. /\ UNCHANGED <<current, applied, context, applying, queued, online, pressed, busy, beat,
                     locked, wizard, saveTimer, disk, live, up, unit, toast, broken, edits,
                     faults>>
      /\ 1 \in DOMAIN calls /\ calls[1].cmd = "read_app_rules" /\ calls[1].answer # Pending
      /\ calls' = Rest /\ listed' = "yes" /\ shown' = Synced
      /\ \/ /\ calls[1].answer # Failed /\ rules' = calls[1].answer /\ early' = early
         \/ early' = TRUE /\ rules' = rules
  BY HeadIs DEF RulesListed, button, world
<1>2. calls[1].answer \in Ruleset \cup {Failed}
  BY <1>1, HeadIs DEF Given
<1>3. /\ calls \in Seq(Calls) /\ CallsInTurn /\ applying \in BOOLEAN /\ Shapes /\ SaveStands
  BY TypedIs DEF IInv
<1>4. Shapes'
  BY <1>1, <1>2, <1>3 DEF Shapes, Synced
<1>5. Moved(1, {})
  BY <1>1, <1>3, PopMoved
<1>6. SaveStands'
  <2> SUFFICES ASSUME ~early' PROVE SaveStands'
    BY DEF SaveStands
  <2>1. ~early /\ calls[1].answer # Failed /\ rules' = calls[1].answer
    BY <1>1
  <2>2. listed = "asked"
    BY <1>1, <1>3 DEF CallsInTurn
  <2>3. ~Outstanding(Saves) /\ \A i \in DOMAIN calls : calls[i].cmd = "read_app_rules" /\ Worked(i)
                                                        => calls[i].answer = disk.rules
    BY <2>1, <2>2, <1>3 DEF SaveStands, Saves
  <2>4. rules' = disk.rules
    BY <1>1, <2>1, <2>3 DEF Worked
  <2>5. \A i \in DOMAIN calls' : i + 1 \in DOMAIN calls /\ calls'[i] = calls[i + 1]
    BY <1>3, <1>5, MovedIs
  <2>6. \A i \in DOMAIN calls' : calls'[i].cmd # "write_app_rules"
    BY <2>3, <2>5 DEF Outstanding, Saves
  <2>7. \A i \in DOMAIN calls' : calls'[i].cmd = "read_app_rules" /\ Worked(i)'
                                  => calls'[i].answer = disk.rules
    BY <2>3, <2>5 DEF Worked
  <2> QED  BY <1>1, <2>4, <2>6, <2>7 DEF SaveStands
<1>7. AppliedIsInForce'
  BY <1>1, AppliedKept DEF IInv
<1>8. calls[1].cmd \notin Applies /\ calls[1].cmd \notin Watchers /\ ~Tells(1)
  BY <1>1 DEF Applies, Watchers, Tells
<1> QED  BY <1>1, <1>3, <1>4, <1>6, <1>7, <1>8, PopStep

(* A new call, and no answer.                                               *)
LEMMA PushStep ==
  ASSUME IInv, Shapes', NEW c \in Calls, c.answer = Pending, calls' = Append(calls, c),
         UNCHANGED <<applied, applying, disk, live, up, toast>>,
         c.cmd \notin {"get_settings", "write_config", "reload_config"},
         \A cmds \in Groups : c.cmd \in cmds => ~Outstanding(cmds),
         listed' = listed \/ ~Outstanding({"read_app_rules"}),
         c.cmd = "read_app_rules" => listed' = "asked",
         busy' \in BOOLEAN, busy' <=> (busy \/ c.cmd \in Toggles),
         UNCHANGED <<beat, locked>> \/ c.cmd \in Watchers,
         SaveStands'
  PROVE  IInv'
<1>1. Moved(0, {c})
  BY TypedIs, PushMoved
<1>2. AppliedIsInForce'
  BY AppliedKept DEF IInv
<1>3. \A e \in {c} : \A cmds \in Groups : e.cmd \in cmds => \A i \in DOMAIN calls : i > 0 => calls[i].cmd \notin cmds
  BY DEF Outstanding
<1>4. \/ listed' = listed
      \/ \A i \in DOMAIN calls : i > 0 => calls[i].cmd # "read_app_rules"
  BY DEF Outstanding
<1>5. \A e \in {c} : /\ e.cmd # "get_settings" /\ e.cmd # "reload_config" /\ e.cmd \notin Applies
                     /\ e.cmd = "read_app_rules" => listed' = "asked"
  BY DEF Applies
<1>6. applying' \in BOOLEAN /\ applying' = applying /\ toast' = toast
  BY TypedIs
<1> QED
  <2> DEFINE d == 0
             new == {c}
  <2>1. /\ Moved(d, new) /\ d \in {0, 1} /\ d = 0 /\ d # 1
        /\ \A e \in new : e = c
        /\ c \in new
    BY <1>1
  <2>2. \A e \in new : \A cmds \in Groups : e.cmd \in cmds => \A i \in DOMAIN calls : i > d => calls[i].cmd \notin cmds
    BY <1>3
  <2>3. \/ listed' = listed
        \/ \A i \in DOMAIN calls : i > d => calls[i].cmd # "read_app_rules"
    BY <1>4
  <2>4. \A e \in new : /\ e.cmd # "get_settings" /\ e.cmd # "reload_config" /\ e.cmd \notin Applies
                       /\ e.cmd = "read_app_rules" => listed' = "asked"
    BY <1>5
  <2>5. /\ d = 0 /\ toast'.applied => toast.applied
        /\ d = 1 /\ Tells(1) /\ toast'.saved => \E e \in new : e.cmd = "reload_rules"
        /\ toast'.saved /\ ~toast.saved => d = 1 /\ calls[1].cmd = "reload_rules" /\ Worked(1)
    BY <1>6, <2>1
  <2> HIDE DEF d, new
  <2>6. /\ ~(\E e \in new : e.cmd \in Applies)
        /\ (\E e \in new : e.cmd \in Toggles) <=> c.cmd \in Toggles
        /\ (\E e \in new : e.cmd \in Watchers) <=> c.cmd \in Watchers
    <3>1. ~(\E e \in new : e.cmd \in Applies)
      BY <2>4
    <3>2. (\E e \in new : e.cmd \in Toggles) <=> c.cmd \in Toggles
      BY <2>1
    <3>3. (\E e \in new : e.cmd \in Watchers) <=> c.cmd \in Watchers
      BY <2>1
    <3> QED  BY <3>1, <3>2, <3>3
  <2>7. applying' <=> (\E e \in new : e.cmd \in Applies)
                        \/ (applying /\ ~(d = 1 /\ calls[1].cmd \in Applies))
    BY <1>6, <2>1, <2>6
  <2>8. busy' <=> (\E e \in new : e.cmd \in Toggles)
                    \/ (busy /\ ~(d = 1 /\ calls[1].cmd \in Toggles))
    BY <2>1, <2>6
  <2>9. \/ beat' \/ locked' \/ (\E e \in new : e.cmd \in Watchers)
        \/ UNCHANGED <<beat, locked>> /\ ~(d = 1 /\ calls[1].cmd \in Watchers)
    BY <2>1, <2>6
  <2> QED  BY <1>2, <1>6, <2>1, <2>2, <2>3, <2>4, <2>5, <2>7, <2>8, <2>9, StepKeeps

(* A new call that is not about the rules leaves the saves as they were.    *)
LEMMA PushSaves ==
  ASSUME IInv, NEW c \in Calls, c.answer = Pending, calls' = Append(calls, c),
         c.cmd \notin {"write_app_rules", "read_app_rules", "reload_rules"},
         UNCHANGED <<toast, disk, broken, rules, saveTimer, listed, early>>
  PROVE  SaveStands'
<1> DEFINE d == 0
           new == {c}
<1>1. calls \in Seq(Calls) /\ SaveStands
  BY TypedIs DEF IInv
<1>2. /\ Moved(d, new) /\ d \in {0, 1} /\ d # 1
      /\ \A e \in new : e = c
  BY <1>1, PushMoved
<1> HIDE DEF d, new
<1> QED  BY <1>1, <1>2, SaveKept

LEMMA BeatInv ==
  ASSUME IInv, Beat
  PROVE  IInv'
<1> DEFINE c == Call("service_state", Null)
<1>1. /\ UNCHANGED <<current, applied, shown, context, applying, queued, online, pressed,
                     busy, locked, wizard, rules, saveTimer, listed, disk, live, up, unit,
                     toast, broken, early, edits, faults>>
      /\ calls' = Append(calls, c)
  BY DEF Beat, panel, chips, world, told
<1>2. c \in Calls /\ c.cmd = "service_state" /\ c.answer = Pending
  BY CallIs DEF Commands, Taken
<1> HIDE DEF c
<1>3. Shapes' /\ busy \in BOOLEAN
  BY <1>1, TypedIs DEF Shapes
<1>4. SaveStands'
  BY <1>1, <1>2, PushSaves
<1>5. c.cmd \in Watchers /\ c.cmd \notin Toggles /\ \A cmds \in Groups : c.cmd \notin cmds
  BY <1>2 DEF Watchers, Toggles, Groups
<1> QED  BY <1>1, <1>2, <1>3, <1>4, <1>5, PushStep

LEMMA ClickToggleInv ==
  ASSUME IInv, ClickToggle
  PROVE  IInv'
<1> DEFINE c == Call(IF pressed THEN "service_disable" ELSE "service_enable", Null)
<1>1. /\ UNCHANGED <<current, applied, shown, context, applying, queued, online, locked, wizard, rules,
                     saveTimer, listed, disk, live, up, unit, toast, broken, early, faults>>
      /\ calls' = Append(calls, c) /\ ~busy /\ busy' = TRUE /\ pressed' = FALSE /\ edits' = edits + 1
  BY DEF ClickToggle, panel, chips, world, told
<1>2. c \in Calls /\ c.cmd \in Toggles /\ c.answer = Pending
  <2> DEFINE cmd == IF pressed THEN "service_disable" ELSE "service_enable"
  <2>1. cmd \in Toggles /\ cmd \in Commands /\ Null \in Taken(cmd)
    BY DEF Toggles, Commands, Taken
  <2>2. c = Call(cmd, Null)
    OBVIOUS
  <2> HIDE DEF cmd, c
  <2> QED  BY <2>1, <2>2, CallIs
<1> HIDE DEF c
<1>3. Shapes'
  <2>1. Shapes
    BY TypedIs
  <2>2. pressed' = FALSE /\ edits' \in Nat
    BY <1>1, <2>1 DEF Shapes
  <2> QED  BY <1>1, <2>1, <2>2 DEF Shapes
<1>4. /\ c.cmd \in Watchers /\ "read_app_rules" \notin Toggles
      /\ c.cmd \notin {"get_settings", "write_config", "reload_config"}
      /\ c.cmd \notin {"write_app_rules", "read_app_rules", "reload_rules"}
  BY <1>2 DEF Watchers, Toggles
<1>5. SaveStands'
  BY <1>1, <1>2, <1>4, PushSaves
<1>6. ~Outstanding(Toggles)
  BY <1>1, TypedIs
<1>7. \A cmds \in Groups : c.cmd \in cmds => ~Outstanding(cmds)
  <2>1. \A cmds \in Groups : c.cmd \in cmds => cmds = Toggles
    BY <1>4 DEF Groups, Toggles
  <2> QED  BY <1>6, <2>1
<1>8. busy' \in BOOLEAN /\ (busy' <=> (busy \/ c.cmd \in Toggles))
  BY <1>1, <1>2
<1>9. c.cmd # "read_app_rules"
  BY <1>4
<1> QED  BY <1>1, <1>2, <1>3, <1>4, <1>5, <1>7, <1>8, <1>9, PushStep

(* A save that is begun carries the rules shown.                            *)
LEMMA SaveNowInv ==
  ASSUME IInv, SaveNow
  PROVE  IInv'
<1> DEFINE c == Call("write_app_rules", rules)
<1>1. /\ UNCHANGED <<current, applied, shown, context, applying, queued, online, pressed,
                     busy, beat, locked, wizard, rules, listed, disk, live, up, unit, toast,
                     broken, early, edits, faults>>
      /\ calls' = Append(calls, c) /\ saveTimer /\ saveTimer' = FALSE
  BY DEF SaveNow, Save, panel, button, world, told
<1>2. Shapes /\ busy \in BOOLEAN /\ calls \in Seq(Calls) /\ SaveStands
  BY TypedIs DEF IInv
<1>3. c \in Calls /\ c.cmd = "write_app_rules" /\ c.answer = Pending /\ c.arg = rules
  BY <1>2, CallIs DEF Commands, Taken, Shapes
<1> HIDE DEF c
<1>4. Shapes'
  BY <1>1, <1>2 DEF Shapes
<1>5. /\ c.cmd \notin Watchers /\ c.cmd \notin Toggles
      /\ \A cmds \in Groups : c.cmd \notin cmds
  BY <1>3 DEF Watchers, Toggles, Groups
<1>6. SaveStands'
  <2> SUFFICES ASSUME ~early PROVE SaveStands'
    BY <1>1 DEF SaveStands
  <2>1. listed = "yes"
    BY <1>1, <1>2 DEF SaveStands
  <2>2. /\ Len(calls) \in Nat /\ DOMAIN calls = 1 .. Len(calls) /\ DOMAIN calls' = 1 .. Len(calls) + 1
        /\ \A i \in DOMAIN calls : calls'[i] = calls[i]
        /\ calls'[Len(calls) + 1] = c
    BY <1>1, <1>2, <1>3
  <2>3. \A i \in DOMAIN calls' : calls'[i].cmd = "read_app_rules" /\ Worked(i)'
                                  => calls'[i].answer = disk.rules
    <3>1. \A i \in DOMAIN calls' : i \in DOMAIN calls \/ calls'[i] = c
      BY <2>2
    <3> QED  BY <1>2, <1>3, <2>2, <3>1 DEF SaveStands, Worked
  <2>4. \A i \in DOMAIN calls' :
          (\A j \in DOMAIN calls' : calls'[j].cmd = "write_app_rules" => j <= i) => calls'[i].arg = rules
    <3>1. Len(calls) + 1 \in DOMAIN calls' /\ calls'[Len(calls) + 1].cmd = "write_app_rules"
      BY <1>3, <2>2
    <3>2. \A i \in DOMAIN calls' : Len(calls) + 1 <= i => i = Len(calls) + 1
      BY <2>2
    <3> QED  BY <1>3, <2>2, <3>1, <3>2
  <2>5. \E i \in DOMAIN calls' : calls'[i].cmd = "write_app_rules" /\ calls'[i].answer = Pending
    BY <1>3, <2>2
  <2> QED  BY <1>1, <2>1, <2>3, <2>4, <2>5 DEF SaveStands
<1> QED  BY <1>1, <1>2, <1>3, <1>4, <1>5, <1>6, PushStep

LEMMA AskRulesInv ==
  ASSUME IInv, AskRules
  PROVE  IInv'
<1> DEFINE c == Call("read_app_rules", Null)
<1>1. /\ UNCHANGED <<current, applied, shown, context, applying, queued, online, pressed,
                     busy, beat, locked, wizard, rules, saveTimer, disk, live, up, unit,
                     toast, broken, early, edits, faults>>
      /\ calls' = Append(calls, c) /\ listed = "no" /\ listed' = "asked"
  BY DEF AskRules, panel, button, world, told
<1>2. Shapes /\ busy \in BOOLEAN /\ calls \in Seq(Calls) /\ SaveStands /\ CallsInTurn
  BY TypedIs DEF IInv
<1>3. c \in Calls /\ c.cmd = "read_app_rules" /\ c.answer = Pending
  BY CallIs DEF Commands, Taken
<1> HIDE DEF c
<1>4. Shapes'
  BY <1>1, <1>2 DEF Shapes
<1>5. ~Outstanding({"read_app_rules"})
  BY <1>1, <1>2 DEF CallsInTurn, Outstanding
<1>6. /\ c.cmd \notin Watchers /\ c.cmd \notin Toggles
      /\ \A cmds \in Groups : c.cmd \in cmds => ~Outstanding(cmds)
  <2>1. \A cmds \in Groups : c.cmd \in cmds => cmds = {"read_app_rules"}
    BY <1>3 DEF Groups
  <2>2. c.cmd \notin Watchers /\ c.cmd \notin Toggles
    BY <1>3 DEF Watchers, Toggles
  <2> QED  BY <1>5, <2>1, <2>2
<1>7. SaveStands'
  <2> SUFFICES ASSUME ~early PROVE SaveStands'
    BY <1>1 DEF SaveStands
  <2>1. ~saveTimer /\ ~toast.saved /\ ~Outstanding(Saves)
    BY <1>1, <1>2 DEF SaveStands, Saves
  <2>2. \A i \in DOMAIN calls' : calls'[i] = c \/ (i \in DOMAIN calls /\ calls'[i] = calls[i])
    BY <1>1, <1>2, <1>3
  <2>3. ~Outstanding(Saves)'
    BY <1>3, <2>1, <2>2 DEF Outstanding, Saves
  <2>4. \A i \in DOMAIN calls' : calls'[i].cmd = "read_app_rules" /\ Worked(i)'
                                  => calls'[i].answer = disk.rules
    BY <1>2, <1>3, <2>2 DEF SaveStands, Worked
  <2>5. \A i \in DOMAIN calls' : calls'[i].cmd # "write_app_rules"
    BY <2>3 DEF Outstanding, Saves
  <2> QED  BY <1>1, <2>1, <2>3, <2>4, <2>5 DEF SaveStands, Saves
<1> QED  BY <1>1, <1>2, <1>3, <1>4, <1>5, <1>6, <1>7, PushStep

-----------------------------------------------------------------------------
(* The back end answers call i, the first it has not run.                   *)
Answered(i, a) ==
  /\ i \in DOMAIN calls
  /\ calls' \in Seq(Calls) /\ DOMAIN calls' = DOMAIN calls
  /\ \A j \in DOMAIN calls : /\ calls'[j].cmd = calls[j].cmd /\ calls'[j].arg = calls[j].arg
                             /\ j # i => calls'[j].answer = calls[j].answer
  /\ calls[i].answer = Pending /\ calls'[i].answer = a
  /\ \A j \in DOMAIN calls : j < i => calls[j].answer # Pending
  /\ \A j \in DOMAIN calls : i < j => calls[j].answer = Pending

LEMMA AnswerIs ==
  ASSUME IInv, NEW i \in DOMAIN calls, Turn(i), NEW a \in Given(calls[i].cmd), Answer(i, a)
  PROVE  Answered(i, a)
<1>1. calls \in Seq(Calls) /\ CallsInTurn
  BY TypedIs
<1>2. /\ Len(calls) \in Nat /\ DOMAIN calls = 1 .. Len(calls)
      /\ calls[i].cmd \in Commands /\ calls[i] \in CallsOf(calls[i].cmd)
  BY <1>1, SeqOfCalls
<1> DEFINE c == [calls[i] EXCEPT !.answer = a]
<1>3. /\ c \in CallsOf(calls[i].cmd) /\ c.cmd = calls[i].cmd /\ c.arg = calls[i].arg /\ c.answer = a
  BY <1>2 DEF CallsOf
<1>4. c \in Calls
  BY <1>2, <1>3 DEF Calls
<1>5. calls' = [calls EXCEPT ![i] = c]
  BY DEF Answer
<1> HIDE DEF c
<1>6. /\ calls' \in Seq(Calls) /\ DOMAIN calls' = DOMAIN calls
      /\ calls'[i] = c /\ \A j \in DOMAIN calls : j # i => calls'[j] = calls[j]
  BY <1>1, <1>4, <1>5
<1>7. /\ calls[i].answer = Pending
      /\ \A j \in DOMAIN calls : j < i => calls[j].answer # Pending
  BY <1>2 DEF Turn, Waiting
<1>8. \A j \in DOMAIN calls : i < j => calls[j].answer = Pending
  BY <1>1, <1>7 DEF CallsInTurn
<1> QED  BY <1>3, <1>6, <1>7, <1>8 DEF Answered

LEMMA OutstandingStays ==
  ASSUME NEW i, NEW a, Answered(i, a)
  PROVE  \A cmds : Outstanding(cmds)' <=> Outstanding(cmds)
  BY DEF Answered, Outstanding

LEMMA WorkedIs ==
  ASSUME NEW i, NEW a, Answered(i, a)
  PROVE  /\ \A j \in DOMAIN calls : j # i => (Worked(j)' <=> Worked(j))
         /\ ~Worked(i) /\ (Worked(i)' <=> a \notin {Pending, Failed})
  BY DEF Answered, Worked

(* Nothing of the interface moves.                                          *)
Still == UNCHANGED <<current, applied, shown, context, applying, queued, online, pressed,
                     busy, beat, locked, wizard, rules, saveTimer, listed, toast, early,
                     edits>>

LEMMA TypesAnswered ==
  ASSUME IInv, NEW i, NEW a, Answered(i, a), Still,
         disk' \in Files, live' \in Files, up' \in BOOLEAN, unit' \in BOOLEAN, broken' \in BOOLEAN,
         faults' \in Nat
  PROVE  TypeOK' /\ CallsInTurn'
<1>1. TypeOK /\ Shapes /\ CallsInTurn
  BY TypedIs
<1>2. /\ Len(calls') \in Nat /\ calls' = [j \in 1 .. Len(calls') |-> calls'[j]]
      /\ \A j \in DOMAIN calls' : calls'[j].cmd \in Commands /\ calls'[j] \in CallsOf(calls'[j].cmd)
  BY SeqOfCalls DEF Answered
<1>3. /\ applying' = Outstanding(Applies)'
      /\ busy' = Outstanding(Toggles)'
      /\ beat' \/ locked' \/ Outstanding(Watchers)'
  <2>1. /\ applying = Outstanding(Applies) /\ busy = Outstanding(Toggles) /\ (beat \/ locked \/ Outstanding(Watchers))
    BY <1>1 DEF TypeOK, Applies, Toggles, Watchers
  <2>2. /\ Outstanding(Applies)' <=> Outstanding(Applies)
        /\ Outstanding(Toggles)' <=> Outstanding(Toggles)
        /\ Outstanding(Watchers)' <=> Outstanding(Watchers)
    BY OutstandingStays
  <2>3. Outstanding(Applies)' = Outstanding(Applies) /\ Outstanding(Toggles)' = Outstanding(Toggles)
    BY <2>2 DEF Outstanding
  <2> QED  BY <2>1, <2>2, <2>3 DEF Still
<1>4. Shapes'
  BY <1>1 DEF Shapes, Still
<1>5. TypeOK'
  BY <1>2, <1>3, <1>4 DEF TypeOK, Shapes, Applies, Toggles, Watchers
<1>6. CallsInTurn'
  <2>1. ASSUME NEW j \in DOMAIN calls', NEW k \in DOMAIN calls', j < k, calls'[k].answer # Pending
        PROVE  calls'[j].answer # Pending
    <3>1. j \in DOMAIN calls /\ k \in DOMAIN calls /\ i \in DOMAIN calls /\ DOMAIN calls = 1 .. Len(calls)
          /\ Len(calls) \in Nat
      BY TypedIs, SeqOfCalls DEF Answered
    <3>2. k <= i
      BY <2>1, <3>1 DEF Answered
    <3> QED  BY <2>1, <3>1, <3>2 DEF Answered
  <2>2. \A j, k \in DOMAIN calls' : \A cmds \in Groups :
          calls'[j].cmd \in cmds /\ calls'[k].cmd \in cmds => j = k
    BY <1>1 DEF Answered, CallsInTurn, Groups
  <2>3. \A j \in DOMAIN calls' : /\ calls'[j].cmd = "get_settings" => j = 1 /\ ~toast'.applied
                                 /\ calls'[j].cmd = "read_app_rules" => listed' = "asked"
    BY <1>1 DEF Answered, CallsInTurn, Still
  <2> QED  BY <2>1, <2>2, <2>3 DEF CallsInTurn, Groups
<1> QED  BY <1>5, <1>6

(* A call that does not write the rules.                                    *)
LEMMA SavesAnswered ==
  ASSUME IInv, NEW i, NEW a, Answered(i, a), Still,
         disk'.rules = disk.rules, broken' = broken, calls[i].cmd # "write_app_rules",
         calls[i].cmd = "read_app_rules" => a \in {disk.rules, Failed}
  PROVE  SaveStands'
<1> SUFFICES ASSUME ~early PROVE SaveStands'
  BY DEF SaveStands, Still
<1>1. SaveStands
  BY DEF IInv
<1>2. Outstanding(Saves)' <=> Outstanding(Saves)
  BY OutstandingStays
<1>3. listed # "yes" => ~saveTimer /\ ~toast.saved /\ ~Outstanding(Saves)'
  BY <1>1, <1>2 DEF SaveStands, Saves
<1>4. \A j \in DOMAIN calls' : calls'[j].cmd = "read_app_rules" /\ Worked(j)' => calls'[j].answer = disk.rules
  BY <1>1, WorkedIs DEF SaveStands, Answered
<1>5. ASSUME ~saveTimer, NEW j \in DOMAIN calls', calls'[j].cmd = "write_app_rules", calls'[j].answer = Pending,
             \A k \in DOMAIN calls' : calls'[k].cmd = "write_app_rules" => k <= j
      PROVE  calls'[j].arg = rules
  BY <1>1, <1>5 DEF SaveStands, Answered
<1>6. ASSUME ~saveTimer, ~broken, listed = "yes", disk.rules # rules
      PROVE  \E j \in DOMAIN calls' : calls'[j].cmd = "write_app_rules" /\ calls'[j].answer = Pending
  BY <1>1, <1>6 DEF SaveStands, Answered
<1> QED  BY <1>3, <1>4, <1>5, <1>6 DEF SaveStands, Saves, Still

(* One that neither changes what is to be told nor tells it.                *)
LEMMA ReloadsAnswered ==
  ASSUME IInv, NEW i, NEW a, Answered(i, a), Still,
         up' => up, disk'.rules = disk.rules, live'.rules = live.rules,
         calls[i].cmd \in {"write_app_rules", "reload_rules"} => a = Failed
  PROVE  ReloadStands'
<1>1. ReloadStands
  BY DEF IInv
<1>2. \A j \in DOMAIN calls : Tells(j) => Tells(j)'
  BY WorkedIs DEF Tells, Answered
<1>3. \A j \in DOMAIN calls' : calls'[j].cmd = "reload_rules" /\ Worked(j)'
                                => calls[j].cmd = "reload_rules" /\ Worked(j)
  BY WorkedIs DEF Answered
<1>4. DOMAIN calls' = DOMAIN calls /\ toast' = toast
  BY DEF Answered, Still
<1> QED  BY <1>1, <1>2, <1>3, <1>4 DEF ReloadStands

(* What the commands may answer.                                            *)
LEMMA GivenIs ==
  /\ Given("get_settings") = Values \cup {Failed}
  /\ Given("read_app_rules") = Ruleset \cup {Failed}
  /\ \A cmd \in {"probe", "service_state", "service_enable", "service_disable"} :
       Given(cmd) = BOOLEAN \cup {Failed}
  /\ \A cmd \in {"write_config", "reload_config", "write_app_rules", "reload_rules"} :
       Given(cmd) = {"ok", Failed}
  BY DEF Given

(* A query changes nothing but the call.                                    *)
LEMMA QueryInv ==
  ASSUME IInv, NEW i \in DOMAIN calls, Turn(i), NEW a, Answer(i, a), a \in Given(calls[i].cmd), Still,
         calls[i].cmd \in {"get_settings", "read_app_rules", "probe", "service_state"},
         calls[i].cmd = "read_app_rules" => a \in {disk.rules, Failed},
         UNCHANGED <<disk, live, up, unit, broken>>, faults' \in Nat
  PROVE  IInv'
<1>1. Answered(i, a) /\ Shapes
  BY AnswerIs, TypedIs
<1>2. TypeOK' /\ CallsInTurn'
  BY <1>1, TypesAnswered DEF Shapes
<1>3. ApplyStands'
  BY <1>1, WorkedIs DEF IInv, ApplyStands, Answered
<1>4. AppliedIsInForce'
  BY DEF IInv, AppliedIsInForce, Still
<1>5. SaveStands'
  BY <1>1, SavesAnswered
<1>6. ReloadStands'
  BY <1>1, ReloadsAnswered
<1> QED  BY <1>2, <1>3, <1>4, <1>5, <1>6 DEF IInv

LEMMA UnansweredIs ==
  ASSUME IInv, UNCHANGED faults \/ Unanswered \/ (faults < MaxFaults /\ faults' = faults + 1)
  PROVE  faults' \in Nat
  BY TypedIs DEF Shapes, Unanswered

LEMMA GetSettingsInv ==
  ASSUME IInv, NEW i \in DOMAIN calls, Turn(i), Still, get_settings(i)
  PROVE  IInv'
<1>1. /\ calls[i].cmd = "get_settings" /\ UNCHANGED <<disk, live, up, unit, broken>>
      /\ UNCHANGED faults \/ Unanswered
      /\ Answer(i, live.config) \/ Answer(i, Failed)
  BY DEF get_settings, world
<1>2. live.config \in Given(calls[i].cmd) /\ Failed \in Given(calls[i].cmd)
  BY <1>1, TypedIs, GivenIs DEF Shapes, Files
<1>3. faults' \in Nat
  BY <1>1, UnansweredIs
<1>4. PICK a \in Given(calls[i].cmd) : Answer(i, a)
  BY <1>1, <1>2
<1> QED  BY <1>1, <1>3, <1>4, QueryInv

LEMMA ReadRulesInv ==
  ASSUME IInv, NEW i \in DOMAIN calls, Turn(i), Still, read_app_rules(i)
  PROVE  IInv'
<1>1. /\ calls[i].cmd = "read_app_rules" /\ UNCHANGED <<disk, live, up, unit, broken>>
      /\ UNCHANGED faults \/ (faults < MaxFaults /\ faults' = faults + 1)
      /\ Answer(i, disk.rules) \/ Answer(i, Failed)
  BY DEF read_app_rules, world
<1>2. disk.rules \in Given(calls[i].cmd) /\ Failed \in Given(calls[i].cmd)
  BY <1>1, TypedIs, GivenIs DEF Shapes, Files
<1>3. faults' \in Nat
  BY <1>1, UnansweredIs
<1>4. PICK a \in {disk.rules, Failed} : Answer(i, a) /\ a \in Given(calls[i].cmd)
  BY <1>1, <1>2
<1> QED  BY <1>1, <1>3, <1>4, QueryInv

LEMMA ServiceStateInv ==
  ASSUME IInv, NEW i \in DOMAIN calls, Turn(i), Still, service_state(i)
  PROVE  IInv'
<1>1. /\ calls[i].cmd \in {"probe", "service_state"} /\ UNCHANGED <<disk, live, up, unit, broken>>
      /\ UNCHANGED faults \/ (faults < MaxFaults /\ faults' = faults + 1)
      /\ \E a \in {unit, FALSE, Failed} : Answer(i, a)
  BY DEF service_state, world
<1>2. {unit, FALSE, Failed} \subseteq Given(calls[i].cmd)
  BY <1>1, TypedIs, GivenIs DEF Shapes
<1>3. faults' \in Nat
  BY <1>1, UnansweredIs
<1>4. calls[i].cmd # "read_app_rules"
  BY <1>1
<1>5. PICK a \in Given(calls[i].cmd) : Answer(i, a)
  BY <1>1, <1>2
<1> QED  BY <1>1, <1>3, <1>4, <1>5, QueryInv

(* The daemon may go down with its unit, and nothing is behind then.        *)
LEMMA ServiceSwitchInv ==
  ASSUME IInv, NEW i \in DOMAIN calls, Turn(i), Still, service_switch(i)
  PROVE  IInv'
<1>1. /\ calls[i].cmd \in {"service_enable", "service_disable"} /\ UNCHANGED <<disk, live, broken>>
      /\ UNCHANGED faults \/ (faults < MaxFaults /\ faults' = faults + 1)
      /\ unit' \in BOOLEAN /\ up' \in BOOLEAN /\ (up' => up)
      /\ \E a \in BOOLEAN \cup {Failed} : Answer(i, a)
  <2>1. up \in BOOLEAN /\ unit \in BOOLEAN
    BY TypedIs DEF Shapes
  <2> DEFINE on == calls[i].cmd = "service_enable"
  <2>2. /\ calls[i].cmd \in {"service_enable", "service_disable"} /\ UNCHANGED <<disk, live, broken>>
        /\ \/ /\ unit' = on /\ up' = (up /\ on)
              /\ \E a \in {on, FALSE} : Answer(i, a)
              /\ UNCHANGED faults \/ (faults < MaxFaults /\ faults' = faults + 1)
           \/ /\ faults < MaxFaults /\ faults' = faults + 1
              /\ Answer(i, Failed) /\ UNCHANGED <<unit, up>>
    BY DEF service_switch
  <2>3. on \in BOOLEAN
    OBVIOUS
  <2> HIDE DEF on
  <2>4. CASE /\ unit' = on /\ up' = (up /\ on)
             /\ \E a \in {on, FALSE} : Answer(i, a)
             /\ UNCHANGED faults \/ (faults < MaxFaults /\ faults' = faults + 1)
    BY <2>1, <2>2, <2>3, <2>4
  <2>5. CASE /\ faults < MaxFaults /\ faults' = faults + 1
             /\ Answer(i, Failed) /\ UNCHANGED <<unit, up>>
    BY <2>1, <2>2, <2>5
  <2> QED  BY <2>2, <2>4, <2>5
<1>2. PICK a \in BOOLEAN \cup {Failed} : Answer(i, a)
  BY <1>1
<1>3. a \in Given(calls[i].cmd)
  BY <1>1, <1>2, GivenIs
<1>4. Answered(i, a) /\ Shapes
  BY <1>2, <1>3, AnswerIs, TypedIs
<1>5. faults' \in Nat
  BY <1>1, UnansweredIs
<1>6. TypeOK' /\ CallsInTurn'
  BY <1>1, <1>4, <1>5, TypesAnswered DEF Shapes
<1>7. ApplyStands'
  BY <1>1, <1>4, WorkedIs DEF IInv, ApplyStands, Answered
<1>8. AppliedIsInForce'
  BY <1>1 DEF IInv, AppliedIsInForce, Still
<1>9. SaveStands'
  BY <1>1, <1>4, SavesAnswered
<1>10. ReloadStands'
  BY <1>1, <1>4, ReloadsAnswered
<1> QED  BY <1>6, <1>7, <1>8, <1>9, <1>10 DEF IInv

(* A reload leaves nothing behind; one that nobody waits for any more may   *)
(* still do so.                                                             *)
LEMMA ReloadInv ==
  ASSUME IInv, NEW i \in DOMAIN calls, Turn(i), Still, reload(i)
  PROVE  IInv'
<1>1. /\ calls[i].cmd \in {"reload_config", "reload_rules"} /\ UNCHANGED <<disk, up, unit, broken>>
      /\ UNCHANGED faults \/ Unanswered
      /\ live' \in {live, disk}
      /\ \E a \in {"ok", Failed} : Answer(i, a) /\ (a = Failed \/ live' = disk)
  BY DEF reload
<1>2. PICK a \in {"ok", Failed} : Answer(i, a) /\ (a = Failed \/ live' = disk)
  BY <1>1
<1>3. a \in Given(calls[i].cmd)
  BY <1>1, <1>2, GivenIs
<1>4. Answered(i, a) /\ Shapes /\ CallsInTurn
  BY <1>2, <1>3, AnswerIs, TypedIs
<1>5. faults' \in Nat
  BY <1>1, UnansweredIs
<1>6. TypeOK' /\ CallsInTurn'
  BY <1>1, <1>4, <1>5, TypesAnswered DEF Shapes
<1>7. ApplyStands'
  <2>1. ASSUME NEW j \in DOMAIN calls, calls[j].cmd = "write_config", Worked(j)'
        PROVE  disk'.config = calls'[j].arg
    BY <1>1, <1>4, <2>1, WorkedIs DEF IInv, ApplyStands, Answered
  <2>2. ASSUME NEW j \in DOMAIN calls, calls[j].cmd = "reload_config"
        PROVE  disk'.config = calls'[j].arg /\ (Worked(j)' /\ up' => live'.config = calls'[j].arg)
    <3>1. disk.config = calls[j].arg /\ (Worked(j) /\ up => live.config = calls[j].arg)
      BY <2>2 DEF IInv, ApplyStands
    <3>2. CASE j # i
      BY <1>1, <1>4, <3>1, <3>2, WorkedIs DEF Answered
    <3>3. CASE j = i
      BY <1>1, <1>2, <1>4, <3>1, <3>3, WorkedIs DEF Answered
    <3> QED  BY <3>2, <3>3
  <2> QED  BY <1>4, <2>1, <2>2 DEF ApplyStands, Answered
<1>8. AppliedIsInForce'
  BY <1>1 DEF IInv, AppliedIsInForce, Still
<1>9. SaveStands'
  BY <1>1, <1>4, SavesAnswered
<1>10. ReloadStands'
  <2>1. CASE live' = disk
    BY <1>1, <2>1 DEF ReloadStands
  <2>2. CASE live' # disk
    BY <1>1, <1>2, <1>4, <2>2, ReloadsAnswered
  <2> QED  BY <2>1, <2>2
<1> QED  BY <1>6, <1>7, <1>8, <1>9, <1>10 DEF IInv

(* While the settings are written nothing is reported as applied.           *)
LEMMA WriteConfigInv ==
  ASSUME IInv, NEW i \in DOMAIN calls, Turn(i), Still, write_config(i)
  PROVE  IInv'
<1>1. /\ calls[i].cmd = "write_config" /\ UNCHANGED <<live, up, unit, broken>>
      /\ UNCHANGED faults \/ (faults < MaxFaults /\ faults' = faults + 1)
      /\ \/ disk' = [disk EXCEPT !.config = calls[i].arg] /\ Answer(i, "ok")
         \/ disk' = disk /\ Answer(i, Failed)
  BY DEF write_config
<1>2. PICK a \in {"ok", Failed} :
        /\ Answer(i, a)
        /\ \/ disk' = [disk EXCEPT !.config = calls[i].arg]
           \/ disk' = disk /\ a = Failed
  BY <1>1
<1>3. a \in Given(calls[i].cmd)
  BY <1>1, <1>2, GivenIs
<1>4. Answered(i, a) /\ Shapes /\ CallsInTurn /\ calls \in Seq(Calls) /\ (applying <=> Outstanding(Applies))
  BY <1>2, <1>3, AnswerIs, TypedIs
<1>5. faults' \in Nat
  BY <1>1, UnansweredIs
<1>6. calls[i].arg \in Values
  BY <1>1, <1>4, SeqOfCalls DEF CallsOf, Taken
<1>7. disk' \in Files /\ disk'.rules = disk.rules /\ (a = Failed \/ disk'.config = calls[i].arg)
  BY <1>2, <1>4, <1>6 DEF Shapes, Files
<1>8. TypeOK' /\ CallsInTurn'
  BY <1>1, <1>4, <1>5, <1>7, TypesAnswered DEF Shapes
<1>9. \A j \in DOMAIN calls : calls[j].cmd \in Applies => j = i
  BY <1>1, <1>4 DEF CallsInTurn, Applies
<1>10. ApplyStands'
  BY <1>1, <1>4, <1>7, <1>9, WorkedIs DEF ApplyStands, Answered, Applies
<1>11. AppliedIsInForce'
  BY <1>1, <1>4 DEF AppliedIsInForce, Outstanding, Applies, Still
<1>12. SaveStands'
  BY <1>1, <1>4, <1>7, SavesAnswered
<1>13. ReloadStands'
  BY <1>1, <1>4, <1>7, ReloadsAnswered
<1> QED  BY <1>8, <1>10, <1>11, <1>12, <1>13 DEF IInv

(* The last save to be run writes the rules shown, unless another is due;   *)
(* one that succeeds makes the daemon behind, and has not been told yet.    *)
LEMMA WriteRulesInv ==
  ASSUME IInv, NEW i \in DOMAIN calls, Turn(i), Still, write_app_rules(i)
  PROVE  IInv'
<1>1. /\ calls[i].cmd = "write_app_rules" /\ UNCHANGED <<live, up, unit>>
      /\ UNCHANGED faults \/ (faults < MaxFaults /\ faults' = faults + 1)
      /\ \/ disk' = [disk EXCEPT !.rules = calls[i].arg] /\ Answer(i, "ok") /\ broken' = FALSE
         \/ disk' = disk /\ Answer(i, Failed) /\ broken' = TRUE
  BY DEF write_app_rules
<1>2. PICK a \in {"ok", Failed} :
        /\ Answer(i, a)
        /\ \/ disk' = [disk EXCEPT !.rules = calls[i].arg] /\ a = "ok" /\ broken' = FALSE
           \/ disk' = disk /\ a = Failed /\ broken' = TRUE
  BY <1>1
<1>3. a \in Given(calls[i].cmd)
  BY <1>1, <1>2, GivenIs
<1>4. /\ Answered(i, a) /\ Shapes /\ CallsInTurn /\ calls \in Seq(Calls) /\ SaveStands /\ ReloadStands
      /\ ApplyStands
  BY <1>2, <1>3, AnswerIs, TypedIs DEF IInv
<1>5. faults' \in Nat
  BY <1>1, UnansweredIs
<1>6. calls[i].arg \in Ruleset
  BY <1>1, <1>4, SeqOfCalls DEF CallsOf, Taken
<1>7. /\ disk' \in Files /\ disk'.config = disk.config /\ broken' \in BOOLEAN
      /\ \/ disk'.rules = calls[i].arg /\ a = "ok" /\ broken' = FALSE
         \/ disk' = disk /\ a = Failed /\ broken' = TRUE
  BY <1>2, <1>4, <1>6 DEF Shapes, Files
<1>8. TypeOK' /\ CallsInTurn'
  BY <1>1, <1>4, <1>5, <1>7, TypesAnswered DEF Shapes
<1>9. ApplyStands'
  BY <1>1, <1>4, <1>7, WorkedIs DEF ApplyStands, Answered
<1>10. AppliedIsInForce'
  BY <1>1, <1>7 DEF IInv, AppliedIsInForce, Still
<1>11. SaveStands'
  <2> SUFFICES ASSUME ~early PROVE SaveStands'
    BY DEF SaveStands, Still
  <2>1. listed = "yes"
    BY <1>1, <1>4 DEF SaveStands, Outstanding
  <2>2. \A j \in DOMAIN calls' : calls'[j].cmd # "read_app_rules"
    BY <1>4, <2>1 DEF CallsInTurn, Answered
  <2>3. ASSUME ~saveTimer, NEW j \in DOMAIN calls, calls[j].cmd = "write_app_rules", calls[j].answer = Pending,
               \A k \in DOMAIN calls : calls[k].cmd = "write_app_rules" => k <= j
        PROVE  calls[j].arg = rules
    BY <1>4, <2>3 DEF SaveStands
  <2>4. ASSUME ~saveTimer, NEW j \in DOMAIN calls', calls'[j].cmd = "write_app_rules", calls'[j].answer = Pending,
               \A k \in DOMAIN calls' : calls'[k].cmd = "write_app_rules" => k <= j
        PROVE  calls'[j].arg = rules
    BY <1>4, <2>3, <2>4 DEF Answered
  <2>5. ASSUME ~saveTimer, ~broken', disk'.rules # rules
        PROVE  \E j \in DOMAIN calls' : calls'[j].cmd = "write_app_rules" /\ calls'[j].answer = Pending
    <3>1. calls[i].arg # rules
      BY <1>7, <2>5
    <3>2. PICK k \in DOMAIN calls : calls[k].cmd = "write_app_rules" /\ ~(k <= i)
      BY <1>1, <1>4, <2>3, <2>5, <3>1 DEF Answered
    <3>3. i < k /\ k # i
      BY <1>4, <3>2, SeqOfCalls DEF Answered
    <3> QED  BY <1>4, <3>2, <3>3 DEF Answered
  <2> QED  BY <2>1, <2>2, <2>4, <2>5 DEF SaveStands, Still
<1>12. ReloadStands'
  <2>1. CASE a = Failed /\ disk' = disk
    BY <1>1, <1>4, <2>1, ReloadsAnswered
  <2>2. CASE a = "ok"
    <3>1. Tells(i)' /\ i \in DOMAIN calls'
      BY <1>1, <1>4, <2>2, WorkedIs, FrontendAssumption DEF Tells, Answered
    <3>2. ASSUME NEW j \in DOMAIN calls', calls'[j].cmd = "reload_rules", Worked(j)'
          PROVE  j < i
      <4>1. /\ j \in DOMAIN calls /\ j # i /\ Worked(j) /\ DOMAIN calls = 1 .. Len(calls)
            /\ Len(calls) \in Nat /\ i \in DOMAIN calls
        BY <1>1, <1>4, <3>2, WorkedIs, SeqOfCalls DEF Answered
      <4>2. ~(i < j)
        BY <1>4, <4>1 DEF Answered, Worked
      <4> QED  BY <4>1, <4>2
    <3> QED  BY <3>1, <3>2 DEF ReloadStands
  <2> QED  BY <1>7, <2>1, <2>2
<1> QED  BY <1>8, <1>9, <1>10, <1>11, <1>12 DEF IInv

LEMMA ExecuteInv ==
  ASSUME IInv, Execute
  PROVE  IInv'
<1>1. Still
  BY DEF Execute, Still, panel, button, chips
<1>2. PICK i \in DOMAIN calls :
        /\ Turn(i)
        /\ \/ get_settings(i) \/ reload(i) \/ write_config(i) \/ write_app_rules(i)
           \/ read_app_rules(i) \/ service_state(i) \/ service_switch(i)
  BY DEF Execute
<1> QED  BY <1>1, <1>2, GetSettingsInv, ReloadInv, WriteConfigInv, WriteRulesInv, ReadRulesInv,
            ServiceStateInv, ServiceSwitchInv

-----------------------------------------------------------------------------
(* Outside the interface: nothing moves but the daemon and its unit.        *)
LEMMA OutsideInv ==
  ASSUME IInv, DaemonStarts \/ UnitSwitched
  PROVE  IInv'
<1>1. UNCHANGED <<current, applied, shown, context, applying, queued, online, pressed, busy,
                  beat, locked, wizard, rules, saveTimer, listed, calls, disk, toast, broken,
                  early, edits>>
  BY DEF DaemonStarts, UnitSwitched, panel, button, chips, told
<1>2. Shapes /\ TypeOK /\ CallsInTurn
  BY TypedIs
<1>3. /\ live' \in {live, disk} /\ up' \in BOOLEAN /\ unit' \in BOOLEAN /\ faults' \in Nat
      /\ live' = disk \/ (live' = live /\ (up' => up))
  <2>1. CASE DaemonStarts
    BY <1>2, <2>1 DEF DaemonStarts, Shapes
  <2>2. CASE UnitSwitched
    <3>1. /\ live' = live /\ faults' = faults + 1 /\ unit' \in BOOLEAN
          /\ up' = FALSE \/ up' = (up /\ unit')
      BY <2>2 DEF UnitSwitched
    <3>2. up' \in BOOLEAN /\ (up' => up)
      BY <3>1
    <3> QED  BY <1>2, <3>1, <3>2 DEF Shapes
  <2> QED  BY <2>1, <2>2
<1>4. TypeOK'
  <2>1. \A cmds : Outstanding(cmds)' = Outstanding(cmds)
    BY <1>1 DEF Outstanding
  <2> QED  BY <1>1, <1>2, <1>3, <2>1 DEF TypeOK, Shapes
<1>5. CallsInTurn'
  BY <1>1, <1>2 DEF CallsInTurn
<1>6. ApplyStands'
  BY <1>1, <1>3 DEF IInv, ApplyStands, Worked
<1>7. AppliedIsInForce'
  BY <1>1, <1>3 DEF IInv, AppliedIsInForce
<1>8. SaveStands'
  BY <1>1 DEF IInv, SaveStands, Worked, Outstanding
<1>9. ReloadStands'
  BY <1>1, <1>3 DEF IInv, ReloadStands, Tells, Worked
<1> QED  BY <1>4, <1>5, <1>6, <1>7, <1>8, <1>9 DEF IInv

LEMMA InitInv ==
  ASSUME Init
  PROVE  IInv
<1>1. /\ calls = <<Call("get_settings", Null), Call("probe", Null)>>
      /\ toast = [applied |-> FALSE, saved |-> FALSE] /\ listed = "no" /\ live = disk
      /\ ~applying /\ ~busy /\ ~beat /\ ~saveTimer
      /\ applying \in BOOLEAN /\ busy \in BOOLEAN
  BY DEF Init
<1>2. /\ Len(calls) = 2 /\ calls \in Seq(Calls) /\ DOMAIN calls = {1, 2}
      /\ calls[1].cmd = "get_settings" /\ calls[2].cmd = "probe"
      /\ calls[1].answer = Pending /\ calls[2].answer = Pending
  <2>1. Call("get_settings", Null) \in Calls /\ Call("probe", Null) \in Calls
    BY CallIs DEF Commands, Taken
  <2>2. /\ Call("get_settings", Null).cmd = "get_settings" /\ Call("probe", Null).cmd = "probe"
        /\ Call("get_settings", Null).answer = Pending /\ Call("probe", Null).answer = Pending
    BY DEF Call
  <2> QED  BY <1>1, <2>1, <2>2
<1>3. TypeOK
  <2>1. Shapes
    BY FrontendAssumption DEF Init, Shapes, Files, Ruleset
  <2>2. /\ Len(calls) \in Nat /\ calls = [i \in 1 .. Len(calls) |-> calls[i]]
        /\ \A i \in DOMAIN calls : calls[i].cmd \in Commands /\ calls[i] \in CallsOf(calls[i].cmd)
    BY <1>2, SeqOfCalls
  <2>3. /\ ~Outstanding(Applies) /\ ~Outstanding(Toggles) /\ Outstanding(Watchers)
    BY <1>2 DEF Outstanding, Applies, Toggles, Watchers
  <2>4. applying = Outstanding(Applies) /\ busy = Outstanding(Toggles)
    BY <1>1, <2>3 DEF Outstanding
  <2> QED  BY <2>1, <2>2, <2>3, <2>4 DEF TypeOK, Shapes, Applies, Toggles, Watchers
<1>4. CallsInTurn
  BY <1>1, <1>2 DEF CallsInTurn
<1>5. ApplyStands /\ AppliedIsInForce /\ SaveStands /\ ReloadStands
  BY <1>1, <1>2 DEF ApplyStands, AppliedIsInForce, SaveStands, ReloadStands, Outstanding
<1> QED  BY <1>3, <1>4, <1>5 DEF IInv

LEMMA NextInv ==
  ASSUME IInv, [Next]_vars
  PROVE  IInv'
<1>1. CASE User
  BY <1>1, EditInv, SwitchContextInv, ChangeRuleInv, DeleteRuleInv, ClickToggleInv DEF User
<1>2. CASE Continue
  <2>1. calls # <<>> /\ Head(calls).answer # Pending
    BY <1>2 DEF Continue
  <2> QED  BY <1>2, <2>1, ConfigWrittenInv, ConfigReloadedInv, SettingsFetchedInv, BeatAnsweredInv,
              ToggleAnsweredInv, RulesWrittenInv, RulesReloadedInv, RulesListedInv DEF Continue
<1>3. CASE Execute
  BY <1>3, ExecuteInv
<1>4. CASE Beat \/ SaveNow \/ AskRules
  BY <1>4, BeatInv, SaveNowInv, AskRulesInv
<1>5. CASE DaemonStarts \/ UnitSwitched
  BY <1>5, OutsideInv
<1>6. CASE UNCHANGED vars
  <2>1. UNCHANGED <<current, applied, shown, context, applying, queued, online, pressed, busy,
                    beat, locked, wizard, rules, saveTimer, listed, calls, disk, live, up,
                    unit, toast, broken, early, edits, faults>>
    BY <1>6 DEF vars, panel, button, chips, world, told
  <2>2. Shapes'
    BY <2>1, TypedIs DEF Shapes
  <2>3. SaveStands'
    BY <2>1 DEF IInv, SaveStands, Outstanding, Worked
  <2>4. AppliedIsInForce'
    BY <2>1 DEF IInv, AppliedIsInForce
  <2> QED  BY <2>1, <2>2, <2>3, <2>4, QuietStep
<1> QED  BY <1>1, <1>2, <1>3, <1>4, <1>5, <1>6 DEF Next

-----------------------------------------------------------------------------
(* The calls, the flags and the files stay together, whatever is edited,    *)
(* saved, switched or lost.                                                 *)
THEOREM FrontendInvariant == Spec => []IInv
<1>1. Init => IInv
  BY InitInv
<1>2. IInv /\ [Next]_vars => IInv'
  BY NextInv
<1> QED  BY <1>1, <1>2, PTL DEF Spec

(* What applyCurrentSettings has reported as applied is in config.json, and *)
(* in use by any daemon that runs.                                          *)
THEOREM AppliedAlwaysInForce == Spec => []AppliedIsInForce
<1>1. IInv => AppliedIsInForce
  BY DEF IInv
<1> QED  BY <1>1, FrontendInvariant, PTL

(* What saveNow has reported as saved, with no save due or under way, is in *)
(* use by the daemon.                                                       *)
THEOREM SavedAlwaysInForce == Spec => []SavedIsInForce
<1>1. IInv => SavedIsInForce
  <2> SUFFICES ASSUME IInv, toast.saved, up, ~saveTimer, ~Outstanding({"write_app_rules", "reload_rules"}),
                      ~broken, ~early
               PROVE  live.rules = rules
    BY DEF SavedIsInForce
  <2>1. \A i \in DOMAIN calls : calls[i].cmd \notin {"write_app_rules", "reload_rules"}
    BY DEF Outstanding
  <2>2. listed = "yes" /\ disk.rules = rules
    BY <2>1 DEF IInv, SaveStands
  <2>3. live.rules = disk.rules
    BY <2>1 DEF IInv, ReloadStands, Tells
  <2> QED  BY <2>2, <2>3
<1> QED  BY <1>1, FrontendInvariant, PTL
=============================================================================
