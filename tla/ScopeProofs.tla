---------------------------- MODULE ScopeProofs ----------------------------
(* Theorems about ScopeListener: what get_active_app can see of a focus     *)
(* change that is being published, what Plasma's slots hold, and that the   *)
(* hash catches up with the focus on every backend.                         *)
EXTENDS ScopeListener, SequenceTheorems, FiniteSetTheorems, WellFoundedInduction, TLAPS

(* The name is written first, so it is never behind the hash, nor behind a  *)
(* hash that was loaded earlier; while the hash is still to be written, the *)
(* name is already the one being published.                                 *)
NameAhead  == name.n \in Nat /\ hash.n \in Nat /\ hash.n <= name.n
NameIsSaid == pc = "hash" => name.app = say
AskedBefore == asked # Nothing => asked[1].n \in Nat /\ asked[1].n <= name.n

PublishInv == NameAhead /\ NameIsSaid /\ AskedBefore

(* A step that neither publishes nor asks, and does not interfere with a    *)
(* publication under way.                                                   *)
Aside ==
  /\ UNCHANGED <<name, hash, asked>>
  /\ pc' # "hash" \/ UNCHANGED <<pc, say>>

LEMMA AsideKeeps == PublishInv /\ Aside => PublishInv'
BY DEF PublishInv, NameAhead, NameIsSaid, AskedBefore, Aside, Nothing

LEMMA ThreadAside ==
  Thread => Aside \/ PublishName \/ PublishHash
<1> SUFFICES ASSUME Thread, ~PublishName, ~PublishHash
             PROVE  Aside
  OBVIOUS
<1> USE DEF Aside, spoken, reader
<1>1. CASE Connect
  BY <1>1 DEF Connect
<1>2. CASE PassOver
  BY <1>2 DEF PassOver
<1>3. CASE X11Fails \/ GiveUp \/ Sleep
  BY <1>3 DEF X11Fails, GiveUp, Sleep
<1>4. CASE Select \/ Quit \/ Selected
  BY <1>4 DEF Select, Quit, Selected
<1>5. CASE HandleSaid \/ HandleChanged
  BY <1>5 DEF HandleSaid, HandleChanged
<1>6. CASE Fetch
  BY <1>6 DEF Fetch
<1>7. CASE FetchClass
  BY <1>7 DEF FetchClass
<1>8. CASE plw_register_window
  BY <1>8 DEF plw_register_window, Handling
<1>9. CASE Orphan
  BY <1>9 DEF Orphan, Handling
<1>10. ASSUME NEW s \in Slots, plw_app_id_changed(s)
       PROVE  Aside
  BY <1>10 DEF plw_app_id_changed, Handling
<1>11. ASSUME NEW s \in Slots, plw_state_changed(s)
       PROVE  Aside
  BY <1>11 DEF plw_state_changed, Handling
<1>12. ASSUME NEW s \in Slots, plw_unmapped(s)
       PROVE  Aside
  BY <1>12 DEF plw_unmapped, Handling
<1> QED
  BY <1>1, <1>2, <1>3, <1>4, <1>5, <1>6, <1>7, <1>8, <1>9, <1>10, <1>11, <1>12 DEF Thread

LEMMA OthersAside ==
  World \/ Heartbeat \/ Stop \/ Wake \/ Join \/ UNCHANGED vars => Aside
<1> USE DEF Aside, spoken, reader
<1>1. World => Aside
  BY DEF World, Focus, Map, Rename, Unmap, Change, Appear, Vanish
<1>2. Heartbeat => Aside
  BY DEF Heartbeat
<1>3. Stop \/ Wake \/ Join => Aside
  BY DEF Stop, Wake, Join
<1>4. UNCHANGED vars => Aside
  BY DEF vars
<1> QED
  BY <1>1, <1>2, <1>3, <1>4

(* Publishing: the number goes up with the name and the hash catches up.    *)
LEMMA PublicationIsLater ==
  ASSUME PublishInv
  PROVE  /\ Publication.app = say
         /\ Publication.n \in Nat /\ name.n <= Publication.n
         /\ say = name.app => Publication.n = name.n
BY DEF PublishInv, NameAhead, Publication

LEMMA PublishKeeps == PublishInv /\ (PublishName \/ PublishHash) => PublishInv'
<1> SUFFICES ASSUME PublishInv, PublishName \/ PublishHash
             PROVE  PublishInv'
  OBVIOUS
<1> USE DEF PublishInv, NameAhead, NameIsSaid, AskedBefore, Nothing
<1>1. /\ Publication.app = say
      /\ Publication.n \in Nat /\ name.n <= Publication.n
  BY PublicationIsLater
<1>2. CASE PublishName
  <2>1. name' = Publication /\ hash' = hash /\ asked' = asked /\ say' = say
    BY <1>2 DEF PublishName, WriteFirst, reader
  <2> QED
    BY <1>1, <2>1
<1>3. CASE PublishHash
  <2>1. /\ name' = Publication /\ hash' = Publication /\ asked' = asked
        /\ pc' = "top"
    BY <1>3 DEF PublishHash, reader
  <2> QED
    BY <1>1, <2>1
<1> QED
  BY <1>2, <1>3

LEMMA AskKeeps == PublishInv /\ (LoadHash \/ CopyName) => PublishInv'
BY DEF PublishInv, NameAhead, NameIsSaid, AskedBefore, Nothing, LoadHash, CopyName, spoken

LEMMA PublishInvInitially == Init => PublishInv
BY DEF Init, PublishInv, NameAhead, NameIsSaid, AskedBefore

LEMMA PublishInvKept == PublishInv /\ [Next]_vars => PublishInv'
<1> SUFFICES ASSUME PublishInv, [Next]_vars
             PROVE  PublishInv'
  OBVIOUS
<1>1. CASE Thread
  BY <1>1, ThreadAside, AsideKeeps, PublishKeeps
<1>2. CASE World \/ Heartbeat \/ Stop \/ Wake \/ Join \/ UNCHANGED vars
  BY <1>2, OthersAside, AsideKeeps
<1>3. CASE LoadHash \/ CopyName
  BY <1>3, AskKeeps
<1> QED
  BY <1>1, <1>2, <1>3 DEF Next, Main

(* publish_and_log writes the name before the hash, get_active_app reads    *)
(* the hash before the name: whatever the listener does in between, for any *)
(* number of windows, slots and apps, the name reported is never older.     *)
THEOREM NameNeverOlder == Spec => NameNotOlder
<1>1. PublishInv /\ [Next]_vars =>
        [asked # Nothing /\ asked' = Nothing => asked[1].n <= name.n]_asked
  BY DEF PublishInv, AskedBefore
<1> QED
  BY <1>1, PublishInvInitially, PublishInvKept, PTL DEF Spec, NameNotOlder

(* ------------------------------------------------------------------------ *)
(* The hash follows the focus on the backends that are told of every focus  *)
(* change: hypr and kwin, whose messages name the app, and x11, which asks. *)
(* Plasma, which reports windows instead, comes after them.                 *)
Told    == backend \in {"hypr", "kwin", "x11"}
Message == [kind : {"says", "changed"}, win : {NoWindow}, app : Apps \cup {NoApp}, on : {FALSE}]

WorldOK ==
  /\ open \subseteq Windows /\ app \in [Windows -> Apps \cup {NoApp}]
  /\ active \in open \cup {NoWindow}
  /\ up \subseteq Offered

(* Before it is connected the thread has published nothing, and only x11    *)
(* makes round trips.                                                       *)
Stages ==
  /\ backend \in {"hypr", "kwin", "wayland", "x11", NoLink}
  /\ pc \in {"probe", "sleep"} => backend = NoLink
  /\ backend = NoLink => pc \in {"probe", "sleep", "ended"} /\ hash.n = 0
  /\ pc \in {"fetch", "class"} => backend = "x11"
  /\ pc = "select" => queue = <<>>

MessagesOK == Told => queue \in Seq(Message) /\ inbox \in Seq(Message)

(* What the hash becomes once everything sent so far is worked off.         *)
Publishing == pc \in {"name", "hash"}
NoNews     == queue = <<>> /\ inbox = <<>>
Coming ==
  IF inbox # <<>> THEN inbox[Len(inbox)].app
  ELSE IF queue # <<>> THEN queue[Len(queue)].app
  ELSE IF Publishing THEN say ELSE hash.app
Informed == ~NoNews \/ Publishing \/ hash.n > 0

HyprInTime == backend = "hypr" /\ ~eof /\ Informed => Coming = AppOf(active)
KWinInTime == backend = "kwin" /\ ~eof /\ Informed /\ active # NoWindow => Coming = AppOf(active)

(* x11 asks again unless its last question was answered with what is so.    *)
X11InTime ==
  backend = "x11" /\ ~eof /\ NoNews =>
    /\ pc = "class" => target = active
    /\ Publishing => say = AppOf(active)
    /\ pc \in {"top", "select"} => hash.app = AppOf(active)

FocusInv == WorldOK /\ Stages /\ MessagesOK /\ HyprInTime /\ KWinInTime /\ X11InTime

LEMMA LastOfTail ==
  ASSUME NEW S, NEW s \in Seq(S), s # <<>>
  PROVE  IF Tail(s) = <<>> THEN s[Len(s)] = Head(s)
         ELSE Tail(s)[Len(Tail(s))] = s[Len(s)]
<1>1. /\ Len(s) \in Nat /\ Len(s) > 0
      /\ Tail(s) \in Seq(S) /\ Len(Tail(s)) = Len(s) - 1
      /\ \A i \in 1 .. Len(Tail(s)) : Tail(s)[i] = s[i + 1]
  BY HeadTailProperties, EmptySeq, LenProperties
<1>2. CASE Tail(s) = <<>>
  <2>1. Len(s) = 1
    BY <1>1, <1>2
  <2> QED
    BY <1>2, <2>1
<1>3. CASE Tail(s) # <<>>
  <2>1. Len(Tail(s)) \in Nat \ {0}
    BY <1>1, <1>3, EmptySeq
  <2> QED
    BY <1>1, <1>3, <2>1
<1> QED
  BY <1>2, <1>3

LEMMA LastOfConcat ==
  ASSUME NEW S, NEW s \in Seq(S), NEW e \in S
  PROVE  /\ s \o <<e>> \in Seq(S) /\ s \o <<e>> # <<>>
         /\ (s \o <<e>>)[Len(s \o <<e>>)] = e
<1>1. <<e>> \in Seq(S) /\ Len(<<e>>) = 1 /\ <<e>>[1] = e
  OBVIOUS
<1>2. Len(s) \in Nat
  BY LenProperties
<1>3. /\ s \o <<e>> \in Seq(S)
      /\ Len(s \o <<e>>) = Len(s) + 1
      /\ (s \o <<e>>)[Len(s) + 1] = <<e>>[Len(s) + 1 - Len(s)]
  BY <1>1, <1>2, ConcatProperties
<1> QED
  BY <1>1, <1>2, <1>3, EmptySeq

(* A step that leaves alone what FocusInv speaks of, or moves on within a   *)
(* publication.                                                             *)
Standing ==
  /\ UNCHANGED <<open, app, active, up, backend, inbox, queue, eof, target, say, hash>>
  /\ pc' = pc \/ (pc = "name" /\ pc' = "hash")

LEMMA StandingKeeps == FocusInv /\ Standing => FocusInv'
<1> SUFFICES ASSUME FocusInv, Standing
             PROVE  FocusInv'
  OBVIOUS
<1> USE DEF FocusInv, Standing
<1>1. WorldOK' /\ Stages' /\ MessagesOK'
  BY DEF WorldOK, Stages, MessagesOK, Told
<1>2. Coming' = Coming /\ (NoNews' <=> NoNews) /\ (Publishing' <=> Publishing)
  BY DEF Coming, NoNews, Publishing
<1>3. HyprInTime' /\ KWinInTime' /\ X11InTime'
  BY <1>2 DEF HyprInTime, KWinInTime, X11InTime, Informed, AppOf, Publishing
<1> QED
  BY <1>1, <1>3

LEMMA MainStands ==
  PublishName \/ LoadHash \/ CopyName \/ Stop \/ Wake \/ Join \/ UNCHANGED vars => Standing
<1> USE DEF Standing, world, link, tables, spoken
<1>1. PublishName => Standing
  BY DEF PublishName, WriteFirst
<1>2. LoadHash \/ CopyName => Standing
  BY DEF LoadHash, CopyName
<1>3. Stop \/ Wake \/ Join => Standing
  BY DEF Stop, Wake, Join
<1>4. UNCHANGED vars => Standing
  BY DEF vars
<1> QED
  BY <1>1, <1>2, <1>3, <1>4

LEMMA ProbeKeeps ==
  ASSUME FocusInv, PassOver \/ X11Fails \/ GiveUp \/ Sleep \/ \E b \in Offered : Appear(b)
  PROVE  FocusInv'
<1> USE DEF FocusInv, Stages
<1>1. /\ UNCHANGED <<open, app, active, backend, inbox, queue, eof, say, hash>>
      /\ backend = NoLink
      /\ pc' \in {"probe", "sleep", "ended"}
      /\ up' \subseteq Offered
  BY DEF PassOver, X11Fails, GiveUp, Sleep, Appear, world, link, tables, spoken, WorldOK
<1>2. WorldOK' /\ Stages' /\ MessagesOK'
  BY <1>1, ListenerAssumption DEF WorldOK, MessagesOK, Told, NoLink
<1>3. HyprInTime' /\ KWinInTime' /\ X11InTime'
  BY <1>1 DEF HyprInTime, KWinInTime, X11InTime, NoLink
<1> QED
  BY <1>2, <1>3

LEMMA ConnectKeeps ==
  ASSUME FocusInv, Connect
  PROVE  FocusInv'
<1> USE DEF FocusInv
<1>1. /\ UNCHANGED <<open, app, active, say, hash>>
      /\ backend' \in up /\ up' = {backend'} /\ inbox' = <<>>
      /\ queue' \in Seeds(backend')
      /\ pc' = IF backend' = "x11" THEN "fetch" ELSE "top"
      /\ hash.n = 0
  BY DEF Connect, spoken, Stages
<1>2. backend' \in {"hypr", "kwin", "wayland", "x11"} /\ backend' # NoLink
  <2>1. DOMAIN Backends = 1 .. 4
    BY DEF Backends
  <2>2. {Backends[1], Backends[2], Backends[3], Backends[4]} = {"hypr", "kwin", "wayland", "x11"}
    BY DEF Backends
  <2>3. \A i \in DOMAIN Backends : Backends[i] \in {"hypr", "kwin", "wayland", "x11"}
    BY <2>1, <2>2
  <2>4. up \subseteq {Backends[i] : i \in DOMAIN Backends}
    BY ListenerAssumption DEF WorldOK
  <2>5. PICK i \in DOMAIN Backends : backend' = Backends[i]
    BY <1>1, <2>4
  <2> QED
    BY <2>3, <2>5 DEF NoLink
<1>3. WorldOK' /\ Stages'
  BY <1>1, <1>2 DEF WorldOK, Stages
<1>4. Told' => \/ queue' = <<>>
               \/ backend' = "kwin" /\ active # NoWindow /\ queue' = <<Says(app[active])>>
  BY <1>1 DEF Told, Seeds
<1>5. active # NoWindow => Says(app[active]) \in Message /\ Says(app[active]).app = app[active]
  BY ListenerAssumption DEF Message, Says, WorldOK
<1>6. MessagesOK'
  <2>1. <<>> \in Seq(Message) /\ \A m \in Message : <<m>> \in Seq(Message)
    OBVIOUS
  <2> QED
    BY <1>1, <1>4, <1>5, <2>1 DEF MessagesOK
<1>7. HyprInTime' /\ KWinInTime'
  BY <1>1, <1>4, <1>5 DEF HyprInTime, KWinInTime, Informed, NoNews, Publishing, Coming, AppOf, Told
<1>8. X11InTime'
  BY <1>1 DEF X11InTime, Publishing
<1> QED
  BY <1>3, <1>6, <1>7, <1>8

(* What happens to the windows: the thread stands still, and if the focused *)
(* app changes, a message saying so joins the socket.                       *)
ThreadStill == UNCHANGED <<backend, queue, eof, pc, target, say, hash>>
News(m) == IF eof THEN inbox' = inbox ELSE inbox' = inbox \o <<m>>

LEMMA WorldKeeps ==
  ASSUME FocusInv, ThreadStill, WorldOK', backend # NoLink,
         \/ inbox' = inbox /\ AppOf(active)' = AppOf(active) /\ active' = active
         \/ inbox' = inbox /\ backend = "kwin" /\ active' = NoWindow
         \/ backend \in {"hypr", "kwin"} /\ News(Says(AppOf(active)'))
         \/ backend = "x11" /\ News(Changed)
         \/ backend = "wayland"
  PROVE  FocusInv'
<1> USE DEF FocusInv, ThreadStill
<1>1. Stages'
  BY DEF Stages
<1>2. CASE inbox' = inbox /\ AppOf(active)' = AppOf(active) /\ active' = active
  <2>1. Coming' = Coming /\ (NoNews' <=> NoNews) /\ (Publishing' <=> Publishing)
    BY <1>2 DEF Coming, NoNews, Publishing
  <2>2. MessagesOK'
    BY <1>2 DEF MessagesOK, Told
  <2>3. HyprInTime' /\ KWinInTime' /\ X11InTime'
    BY <1>2, <2>1 DEF HyprInTime, KWinInTime, X11InTime, Informed, Publishing
  <2> QED
    BY <1>1, <2>2, <2>3
<1>3. CASE inbox' = inbox /\ backend = "kwin" /\ active' = NoWindow
  BY <1>1, <1>3 DEF MessagesOK, Told, HyprInTime, KWinInTime, X11InTime
<1>4. CASE backend \in {"hypr", "kwin"} /\ News(Says(AppOf(active)'))
  <2> DEFINE m == Says(AppOf(active)')
  <2>1. AppOf(active)' \in Apps \cup {NoApp}
    BY DEF AppOf, WorldOK
  <2>2. m \in Message /\ m.app = AppOf(active)'
    BY <2>1 DEF Says, Message
  <2> HIDE DEF m
  <2>3. queue \in Seq(Message) /\ inbox \in Seq(Message)
    BY <1>4 DEF MessagesOK, Told
  <2>4. CASE eof
    BY <1>1, <1>4, <2>3, <2>4 DEF News, MessagesOK, HyprInTime, KWinInTime, X11InTime
  <2>5. CASE ~eof
    <3>1. inbox' = inbox \o <<m>>
      BY <1>4, <2>5 DEF News, m
    <3>2. inbox' \in Seq(Message) /\ inbox' # <<>> /\ inbox'[Len(inbox')] = m
      BY <2>2, <2>3, <3>1, LastOfConcat
    <3>3. Coming' = AppOf(active)'
      BY <2>2, <3>2 DEF Coming
    <3>4. MessagesOK'
      BY <2>3, <3>2 DEF MessagesOK
    <3>5. HyprInTime' /\ KWinInTime' /\ X11InTime'
      BY <1>4, <3>3 DEF HyprInTime, KWinInTime, X11InTime
    <3> QED
      BY <1>1, <3>4, <3>5
  <2> QED
    BY <2>4, <2>5
<1>5. CASE backend = "x11" /\ News(Changed)
  <2>1. Changed \in Message
    BY DEF Changed, Message
  <2>2. queue \in Seq(Message) /\ inbox \in Seq(Message)
    BY <1>5 DEF MessagesOK, Told
  <2> DEFINE m == Changed
  <2> HIDE DEF m
  <2>3. inbox' \in Seq(Message) /\ (eof \/ inbox' # <<>>)
    <3>1. IF eof THEN inbox' = inbox ELSE inbox' = inbox \o <<m>>
      BY <1>5 DEF News, m
    <3>2. inbox \o <<m>> \in Seq(Message) /\ inbox \o <<m>> # <<>>
      BY <2>1, <2>2, LastOfConcat DEF m
    <3> QED
      BY <2>2, <3>1, <3>2
  <2>4. MessagesOK' /\ HyprInTime' /\ KWinInTime' /\ X11InTime'
    BY <1>5, <2>2, <2>3 DEF MessagesOK, HyprInTime, KWinInTime, X11InTime, NoNews
  <2> QED
    BY <1>1, <2>4
<1>6. CASE backend = "wayland"
  BY <1>1, <1>6 DEF MessagesOK, Told, HyprInTime, KWinInTime, X11InTime
<1> QED
  BY <1>2, <1>3, <1>4, <1>5, <1>6

LEMMA SentIs ==
  ASSUME FocusInv, Told
  PROVE  /\ Sent(<<>>) => inbox' = inbox
         /\ \A m : Sent(<<m>>) => News(m)
<1>1. inbox \in Seq(Message) /\ backend # NoLink
  BY DEF FocusInv, MessagesOK, Told, NoLink
<1>2. inbox \o <<>> = inbox
  BY <1>1, ConcatEmptySeq
<1> QED
  BY <1>1, <1>2 DEF Sent, News

LEMMA WorldActionsKeep ==
  ASSUME FocusInv, World \/ Heartbeat
  PROVE  FocusInv'
<1> USE DEF ThreadStill, link, probe, tables, spoken, world, reader
<1>1. /\ WorldOK
      /\ backend # NoLink => Told \/ backend = "wayland"
  BY DEF FocusInv, Stages, Told
<1>2. ASSUME NEW w \in Windows \cup {NoWindow}, Focus(w)
      PROVE  FocusInv'
  <2>1. ThreadStill /\ backend # NoLink /\ UNCHANGED <<open, app, up>> /\ active' = w
    BY <1>2 DEF Focus, Change, Followed
  <2>2. WorldOK'
    BY <1>1, <1>2, <2>1 DEF Focus, WorldOK
  <2>3. AppOf(active)' = AppOf(w)
    BY <2>1 DEF AppOf
  <2>4. CASE backend = "wayland"
    BY <2>1, <2>2, <2>4, WorldKeeps
  <2>5. CASE Told
    <3>1. Sent(FocusNews(w))
      BY <1>2 DEF Focus
    <3>2. backend = "x11" => News(Changed)
      BY <2>5, <3>1, SentIs DEF FocusNews
    <3>3. backend = "hypr" => News(Says(AppOf(active)'))
      BY <2>3, <2>5, <3>1, SentIs DEF FocusNews
    <3>4. backend = "kwin" => IF w = NoWindow THEN inbox' = inbox ELSE News(Says(AppOf(active)'))
      BY <2>3, <2>5, <3>1, SentIs DEF FocusNews
    <3> QED
      BY <2>1, <2>2, <2>5, <3>2, <3>3, <3>4, WorldKeeps DEF Told
  <2> QED
    BY <1>1, <2>1, <2>4, <2>5
<1>3. ASSUME NEW w \in Windows, NEW a \in Apps, Map(w, a)
      PROVE  FocusInv'
  <2>1. ThreadStill /\ backend # NoLink /\ UNCHANGED <<active, up>>
    BY <1>3 DEF Map, Change, Followed
  <2>2. WorldOK' /\ AppOf(active)' = AppOf(active)
    BY <1>1, <1>3, <2>1, ListenerAssumption DEF Map, WorldOK, AppOf
  <2>3. Told => inbox' = inbox
    BY <1>3, SentIs DEF Map, Told
  <2> QED
    BY <1>1, <2>1, <2>2, <2>3, WorldKeeps
<1>4. ASSUME NEW w \in Windows, NEW a \in Apps, Rename(w, a)
      PROVE  FocusInv'
  <2>1. ThreadStill /\ backend = "wayland" /\ backend # NoLink
    BY <1>4 DEF Rename, Change, NoLink
  <2>2. WorldOK'
    BY <1>1, <1>4 DEF Rename, WorldOK
  <2> QED
    BY <2>1, <2>2, WorldKeeps
<1>5. ASSUME NEW w \in Windows, Unmap(w)
      PROVE  FocusInv'
  <2>1. ThreadStill /\ backend # NoLink /\ UNCHANGED up
    BY <1>5 DEF Unmap, Change, Followed
  <2>2. WorldOK'
    BY <1>1, <1>5, <2>1 DEF Unmap, WorldOK
  <2>3. CASE backend = "wayland"
    BY <2>1, <2>2, <2>3, WorldKeeps
  <2>4. CASE Told /\ active # w
    <3>1. Sent(<<>>) /\ active' = active /\ AppOf(active)' = AppOf(active)
      BY <1>1, <1>5, <2>4, ListenerAssumption DEF Unmap, Told, AppOf, WorldOK
    <3> QED
      BY <2>1, <2>2, <2>4, <3>1, SentIs, WorldKeeps
  <2>5. CASE Told /\ active = w
    <3>1. Sent(FocusNews(NoWindow)) /\ active' = NoWindow
      BY <1>5, <2>5 DEF Unmap, Told
    <3>2. AppOf(active)' = NoApp /\ AppOf(NoWindow) = NoApp
      BY <3>1 DEF AppOf
    <3>3. backend = "x11" => News(Changed)
      BY <2>5, <3>1, SentIs DEF FocusNews
    <3>4. backend = "hypr" => News(Says(AppOf(active)'))
      BY <2>5, <3>1, <3>2, SentIs DEF FocusNews
    <3>5. backend = "kwin" => inbox' = inbox
      BY <2>5, <3>1, SentIs DEF FocusNews
    <3> QED
      BY <2>1, <2>2, <2>5, <3>1, <3>3, <3>4, <3>5, WorldKeeps DEF Told
  <2> QED
    BY <1>1, <2>1, <2>3, <2>4, <2>5
<1>6. ASSUME NEW b \in Offered, Vanish(b)
      PROVE  FocusInv'
  <2>1. /\ UNCHANGED <<open, app, active, backend, inbox, queue, pc, target, say, hash>>
        /\ eof' /\ up' \subseteq up
    BY <1>6 DEF Vanish
  <2>2. WorldOK' /\ Stages' /\ MessagesOK'
    BY <2>1 DEF FocusInv, WorldOK, Stages, MessagesOK, Told
  <2>3. HyprInTime' /\ KWinInTime' /\ X11InTime'
    BY <2>1 DEF HyprInTime, KWinInTime, X11InTime
  <2> QED
    BY <2>2, <2>3 DEF FocusInv
<1>7. CASE Heartbeat
  <2>1. /\ ThreadStill /\ UNCHANGED <<open, app, active, up>>
        /\ backend = "kwin" /\ active # NoWindow /\ Sent(<<Says(app[active])>>)
    BY <1>7 DEF Heartbeat
  <2>2. WorldOK' /\ AppOf(active)' = app[active]
    BY <1>1, <2>1 DEF WorldOK, AppOf
  <2>3. News(Says(AppOf(active)'))
    BY <2>1, <2>2, SentIs DEF Told
  <2> QED
    BY <2>1, <2>2, <2>3, WorldKeeps DEF NoLink
<1>8. ASSUME NEW b \in Offered, Appear(b)
      PROVE  FocusInv'
  BY <1>8, ProbeKeeps
<1> QED
  BY <1>2, <1>3, <1>4, <1>5, <1>6, <1>7, <1>8 DEF World

(* Working off messages leaves the windows and the connection alone.        *)
Working == UNCHANGED <<open, app, active, up, backend, eof>> /\ backend # NoLink

LEMMA WorkingStages ==
  ASSUME FocusInv, Working,
         pc' \in {"top", "name", "hash", "ended", "select"},
         pc' = "select" => queue' = <<>>
  PROVE  WorldOK' /\ Stages'
BY DEF FocusInv, Working, WorldOK, Stages

LEMMA SelectKeeps ==
  ASSUME FocusInv, Select \/ Quit \/ Selected
  PROVE  FocusInv'
<1> USE DEF FocusInv
<1>1. /\ Working /\ UNCHANGED <<target, say, hash>>
      /\ ~Publishing /\ ~Publishing' /\ pc' \notin {"class", "fetch"}
      /\ pc' \in {"top", "ended", "select"} /\ pc \in {"top", "select"}
      /\ pc' = "select" => queue' = <<>>
  BY DEF Select, Quit, Selected, Drained, Working, Publishing, world, tables, spoken, link, Stages
<1>2. \/ UNCHANGED <<inbox, queue>>
      \/ queue = <<>> /\ queue' = queue \o inbox /\ inbox' = <<>>
  BY DEF Select, Quit, Selected, link, Stages
<1>3. Told => \/ UNCHANGED <<inbox, queue>>
              \/ queue = <<>> /\ queue' = inbox /\ inbox' = <<>>
  <2>1. Told => <<>> \o inbox = inbox
    BY ConcatEmptySeq DEF MessagesOK
  <2> QED
    BY <1>2, <2>1
<1>4. Told => Coming' = Coming /\ (NoNews' <=> NoNews)
  BY <1>1, <1>3 DEF Coming, NoNews
<1>5. WorldOK' /\ Stages'
  BY <1>1, WorkingStages
<1>6. MessagesOK'
  BY <1>1, <1>3, EmptySeq DEF MessagesOK, Told, Working
<1>7. HyprInTime' /\ KWinInTime' /\ X11InTime'
  BY <1>1, <1>4 DEF HyprInTime, KWinInTime, X11InTime, Informed, Working, AppOf, Told
<1> QED
  BY <1>5, <1>6, <1>7

LEMMA HandleSaidKeeps ==
  ASSUME FocusInv, HandleSaid
  PROVE  FocusInv'
<1> USE DEF FocusInv
<1>1. /\ Working /\ UNCHANGED <<inbox, hash>>
      /\ backend \in {"hypr", "kwin"} /\ queue # <<>> /\ pc = "top" /\ pc' = "name"
      /\ queue' = Tail(queue) /\ say' = Head(queue).app
  BY DEF HandleSaid, Working, world, NoLink
<1>2. queue \in Seq(Message) /\ inbox \in Seq(Message) /\ queue' \in Seq(Message)
  BY <1>1, HeadTailProperties DEF MessagesOK, Told
<1>3. Coming' = Coming
  BY <1>1, <1>2, LastOfTail DEF Coming, Publishing
<1>4. WorldOK' /\ Stages'
  BY <1>1, WorkingStages
<1>5. MessagesOK'
  BY <1>1, <1>2 DEF MessagesOK
<1>6. HyprInTime' /\ KWinInTime' /\ X11InTime'
  BY <1>1, <1>3 DEF HyprInTime, KWinInTime, X11InTime, Informed, NoNews, Working, AppOf
<1> QED
  BY <1>4, <1>5, <1>6

LEMMA X11Keeps ==
  ASSUME FocusInv, HandleChanged \/ Fetch \/ FetchClass
  PROVE  FocusInv'
<1> USE DEF FocusInv
<1>1. Working /\ backend = "x11" /\ UNCHANGED hash
  BY DEF HandleChanged, Fetch, FetchClass, Working, Stages, NoLink, world, spoken
<1>2. queue \in Seq(Message) /\ inbox \in Seq(Message)
  BY <1>1 DEF MessagesOK, Told
<1>3. WorldOK' /\ Stages'
  BY <1>1 DEF HandleChanged, Fetch, FetchClass, Working, WorldOK, Stages
<1>4. HyprInTime' /\ KWinInTime'
  BY <1>1 DEF Working, HyprInTime, KWinInTime
<1>5. queue' \in Seq(Message) /\ inbox' \in Seq(Message)
  <2>1. queue \o inbox \in Seq(Message) /\ <<>> \in Seq(Message)
    BY <1>2, ConcatProperties, EmptySeq
  <2> QED
    BY <1>2, <2>1 DEF HandleChanged, Fetch, FetchClass
<1>6. HandleChanged => X11InTime'
  BY DEF HandleChanged, X11InTime, Publishing
<1>7. Fetch => X11InTime'
  BY DEF Fetch, X11InTime, Publishing, AppOf, world
<1>8. ASSUME FetchClass PROVE X11InTime'
  <2>1. queue \o inbox = <<>> => queue = <<>> /\ inbox = <<>>
    <3>1. Len(queue \o inbox) = Len(queue) + Len(inbox)
      BY <1>2, ConcatProperties
    <3> QED
      BY <1>2, <3>1, EmptySeq
  <2>2. NoNews' => NoNews
    BY <1>8, <2>1 DEF FetchClass, NoNews
  <2>3. ~eof /\ NoNews => target = active
    BY <1>1, <1>8 DEF FetchClass, X11InTime
  <2>4. ~eof /\ target = active => say' = AppOf(active)
    BY <1>8, ListenerAssumption DEF FetchClass, AppOf, WorldOK
  <2> QED
    BY <1>1, <1>8, <2>2, <2>3, <2>4 DEF FetchClass, X11InTime, Publishing, Working, AppOf
<1> QED
  BY <1>3, <1>4, <1>5, <1>6, <1>7, <1>8 DEF MessagesOK

LEMMA PlasmaKeeps ==
  ASSUME FocusInv,
         \/ plw_register_window \/ Orphan
         \/ \E s \in Slots : plw_app_id_changed(s) \/ plw_state_changed(s) \/ plw_unmapped(s)
  PROVE  FocusInv'
<1>1. Working /\ backend = "wayland" /\ UNCHANGED hash /\ pc' \in {"top", "name"}
  BY DEF plw_register_window, Orphan, plw_app_id_changed, plw_state_changed, plw_unmapped, Handling,
         Working, NoLink, world
<1>2. WorldOK' /\ Stages'
  BY <1>1, WorkingStages
<1>3. MessagesOK' /\ HyprInTime' /\ KWinInTime' /\ X11InTime'
  BY <1>1 DEF Working, MessagesOK, Told, HyprInTime, KWinInTime, X11InTime
<1> QED
  BY <1>2, <1>3 DEF FocusInv

LEMMA PublishHashKeeps ==
  ASSUME FocusInv, PublishInv, PublishHash
  PROVE  FocusInv'
<1> USE DEF FocusInv
<1>1. Working /\ UNCHANGED <<inbox, queue, say>> /\ pc = "hash" /\ pc' = "top"
  BY DEF PublishHash, Working, world, link, Stages
<1>2. hash'.app = say
  BY PublicationIsLater DEF PublishHash
<1>3. WorldOK' /\ Stages'
  BY <1>1, WorkingStages
<1>4. MessagesOK'
  BY <1>1 DEF MessagesOK, Told, Working
<1>5. Coming' = Coming /\ (NoNews' <=> NoNews)
  BY <1>1, <1>2 DEF Coming, Publishing, NoNews
<1>6. HyprInTime' /\ KWinInTime' /\ X11InTime'
  BY <1>1, <1>2, <1>5 DEF HyprInTime, KWinInTime, X11InTime, Informed, Publishing, Working, AppOf
<1> QED
  BY <1>3, <1>4, <1>6

LEMMA FocusInvInitially == Init => FocusInv
<1> SUFFICES ASSUME Init PROVE FocusInv
  OBVIOUS
<1>1. app \in [Windows -> Apps \cup {NoApp}]
  BY ListenerAssumption DEF Init
<1>2. backend = NoLink /\ pc = "probe" /\ hash.n = 0
  BY DEF Init
<1>3. up \subseteq Offered
  BY DEF Init
<1>4. WorldOK /\ Stages
  BY <1>1, <1>2, <1>3 DEF Init, WorldOK, Stages
<1>5. MessagesOK /\ HyprInTime /\ KWinInTime /\ X11InTime
  BY <1>2 DEF MessagesOK, Told, HyprInTime, KWinInTime, X11InTime, NoLink
<1> QED
  BY <1>4, <1>5 DEF FocusInv

LEMMA FocusInvKept == FocusInv /\ PublishInv /\ [Next]_vars => FocusInv'
<1> SUFFICES ASSUME FocusInv, PublishInv, [Next]_vars
             PROVE  FocusInv'
  OBVIOUS
<1>1. CASE World \/ Heartbeat
  BY <1>1, WorldActionsKeep
<1>2. CASE Connect \/ PassOver \/ X11Fails \/ GiveUp \/ Sleep
  BY <1>2, ConnectKeeps, ProbeKeeps
<1>3. CASE Select \/ Quit \/ Selected \/ HandleSaid
  BY <1>3, SelectKeeps, HandleSaidKeeps
<1>4. CASE HandleChanged \/ Fetch \/ FetchClass
  BY <1>4, X11Keeps
<1>5. CASE \/ plw_register_window \/ Orphan
           \/ \E s \in Slots : plw_app_id_changed(s) \/ plw_state_changed(s) \/ plw_unmapped(s)
  BY <1>5, PlasmaKeeps
<1>6. CASE PublishHash
  BY <1>6, PublishHashKeeps
<1>7. CASE PublishName \/ LoadHash \/ CopyName \/ Stop \/ Wake \/ Join \/ UNCHANGED vars
  BY <1>7, MainStands, StandingKeeps
<1> QED
  BY <1>1, <1>2, <1>3, <1>4, <1>5, <1>6, <1>7 DEF Next, Thread, Main

(* Asleep, the thread has nothing left to work off.                         *)
LEMMA FocusIsHash ==
  ASSUME FocusInv, Asleep
  PROVE  X11Follows /\ HyprFollows /\ KWinFollows
BY DEF FocusInv, Stages, HyprInTime, KWinInTime, X11InTime, Informed, NoNews, Coming, Publishing,
       Asleep, X11Follows, HyprFollows, KWinFollows

(* ------------------------------------------------------------------------ *)
(* Plasma: the messages under way are news of the windows, in order.  Told  *)
(* one after the other to whoever sees the windows as the slots show them,  *)
(* they lead to the windows as they are.                                    *)
PlasmaMessage ==
  [kind : {"window", "app_id", "state", "unmapped"}, win : Windows, app : Apps \cup {NoApp},
   on : BOOLEAN]

Snapshots ==
  {x \in [open : SUBSET Windows, app : [Windows -> Apps \cup {NoApp}],
          active : Windows \cup {NoWindow}] :
     /\ x.active \in x.open \cup {NoWindow}
     /\ \A w \in Windows \ x.open : x.app[w] = NoApp}

Nowhere == [open |-> {}, app |-> [w \in Windows |-> NoApp], active |-> NoWindow]
Now     == [open |-> open, app |-> app, active |-> active]

(* What message m makes of snapshot x, where it makes sense there.          *)
Leads(x, m, y) ==
  \/ /\ m.kind = "window" /\ m.win \notin x.open
     /\ y = [x EXCEPT !.open = x.open \cup {m.win}]
  \/ /\ m.kind = "app_id" /\ m.win \in x.open
     /\ y = [x EXCEPT !.app = [x.app EXCEPT ![m.win] = m.app]]
  \/ /\ m.kind = "state" /\ m.win \in x.open /\ m.on /\ x.active = NoWindow
     /\ y = [x EXCEPT !.active = m.win]
  \/ /\ m.kind = "state" /\ m.win \in x.open /\ ~m.on
     /\ y = [x EXCEPT !.active = IF x.active = m.win THEN NoWindow ELSE x.active]
  \/ /\ m.kind = "unmapped" /\ m.win \in x.open
     /\ y = [open |-> x.open \ {m.win}, app |-> [x.app EXCEPT ![m.win] = NoApp],
             active |-> IF x.active = m.win THEN NoWindow ELSE x.active]

Unfolds(x, u, y) ==
  \E tr \in [0 .. Len(u) -> Snapshots] :
    /\ tr[0] = x /\ tr[Len(u)] = y
    /\ \A i \in 1 .. Len(u) : Leads(tr[i - 1], u[i], tr[i])

LEMMA UnfoldsNothing ==
  ASSUME NEW x \in Snapshots, NEW y \in Snapshots
  PROVE  Unfolds(x, <<>>, y) <=> x = y
<1> USE EmptySeq
<1>1. Unfolds(x, <<>>, y) => x = y
  BY DEF Unfolds
<1>2. ASSUME x = y PROVE Unfolds(x, <<>>, y)
  <2> DEFINE tr == [i \in 0 .. 0 |-> x]
  <2>1. tr \in [0 .. Len(<<>>) -> Snapshots] /\ tr[0] = x /\ tr[Len(<<>>)] = y
    BY <1>2
  <2>2. \A i \in 1 .. Len(<<>>) : Leads(tr[i - 1], <<>>[i], tr[i])
    OBVIOUS
  <2> HIDE DEF tr
  <2> QED
    BY <2>1, <2>2 DEF Unfolds
<1> QED
  BY <1>1, <1>2

LEMMA UnfoldsMore ==
  ASSUME NEW u \in Seq(PlasmaMessage), NEW m \in PlasmaMessage,
         NEW x \in Snapshots, NEW y \in Snapshots, NEW z \in Snapshots,
         Unfolds(x, u, y), Leads(y, m, z)
  PROVE  Unfolds(x, u \o <<m>>, z)
<1>1. PICK tr \in [0 .. Len(u) -> Snapshots] :
        /\ tr[0] = x /\ tr[Len(u)] = y
        /\ \A i \in 1 .. Len(u) : Leads(tr[i - 1], u[i], tr[i])
  BY DEF Unfolds
<1> DEFINE v == u \o <<m>>
           to == [i \in 0 .. Len(u) + 1 |-> IF i <= Len(u) THEN tr[i] ELSE z]
<1>2. /\ Len(u) \in Nat /\ Len(v) = Len(u) + 1
      /\ \A i \in 1 .. Len(u) : v[i] = u[i]
      /\ v[Len(u) + 1] = m
  BY LenProperties, ConcatProperties
<1> HIDE DEF v
<1>3. /\ to \in [0 .. Len(v) -> Snapshots] /\ to[0] = x /\ to[Len(v)] = z
      /\ \A i \in 0 .. Len(u) : to[i] = tr[i]
  BY <1>1, <1>2
<1> HIDE DEF to
<1>4. ASSUME NEW i \in 1 .. Len(v)
      PROVE  Leads(to[i - 1], v[i], to[i])
  <2>1. CASE i <= Len(u)
    <3>1. i \in 1 .. Len(u) /\ i - 1 \in 0 .. Len(u) /\ i \in 0 .. Len(u)
      BY <1>2, <2>1
    <3>2. to[i - 1] = tr[i - 1] /\ to[i] = tr[i] /\ v[i] = u[i]
      BY <1>2, <1>3, <3>1
    <3> QED
      BY <1>1, <3>1, <3>2
  <2>2. CASE i = Len(u) + 1
    <3>1. to[i - 1] = y /\ to[i] = z /\ v[i] = m
      BY <1>1, <1>2, <1>3, <2>2
    <3> QED
      BY <3>1
  <2> QED
    BY <1>2, <2>1, <2>2
<1>5. Unfolds(x, v, z)
  BY <1>3, <1>4 DEF Unfolds
<1> QED
  BY <1>5 DEF v

LEMMA UnfoldsFirst ==
  ASSUME NEW u \in Seq(PlasmaMessage), u # <<>>,
         NEW x \in Snapshots, NEW y \in Snapshots, Unfolds(x, u, y)
  PROVE  \E z \in Snapshots : Leads(x, Head(u), z) /\ Unfolds(z, Tail(u), y)
<1>1. PICK tr \in [0 .. Len(u) -> Snapshots] :
        /\ tr[0] = x /\ tr[Len(u)] = y
        /\ \A i \in 1 .. Len(u) : Leads(tr[i - 1], u[i], tr[i])
  BY DEF Unfolds
<1> DEFINE v  == Tail(u)
           to == [i \in 0 .. Len(u) - 1 |-> tr[i + 1]]
<1>2. /\ Len(u) \in Nat \ {0} /\ Len(v) = Len(u) - 1 /\ Head(u) = u[1]
      /\ \A i \in 1 .. Len(v) : v[i] = u[i + 1]
  BY LenProperties, EmptySeq, HeadTailProperties
<1> HIDE DEF v
<1>3. /\ to \in [0 .. Len(v) -> Snapshots] /\ to[0] = tr[1] /\ to[Len(v)] = y
      /\ \A i \in 0 .. Len(v) : to[i] = tr[i + 1]
  BY <1>1, <1>2
<1> HIDE DEF to
<1>4. Leads(x, Head(u), tr[1]) /\ tr[1] \in Snapshots
  <2>1. 1 \in 1 .. Len(u) /\ 1 - 1 = 0 /\ 1 \in 0 .. Len(u)
    BY <1>2
  <2>2. Leads(tr[1 - 1], u[1], tr[1])
    BY <1>1, <2>1
  <2> QED
    BY <1>1, <1>2, <2>1, <2>2
<1>5. ASSUME NEW i \in 1 .. Len(v)
      PROVE  Leads(to[i - 1], v[i], to[i])
  <2>1. i + 1 \in 1 .. Len(u) /\ i - 1 \in 0 .. Len(v) /\ i \in 0 .. Len(v)
        /\ (i + 1) - 1 = i /\ (i - 1) + 1 = i
    BY <1>2
  <2>2. to[i - 1] = tr[i] /\ to[i] = tr[i + 1] /\ v[i] = u[i + 1]
    BY <1>2, <1>3, <2>1
  <2>3. Leads(tr[(i + 1) - 1], u[i + 1], tr[i + 1])
    BY <1>1, <2>1
  <2> QED
    BY <2>1, <2>2, <2>3
<1>6. Unfolds(tr[1], v, y)
  BY <1>3, <1>5 DEF Unfolds
<1> QED
  BY <1>4, <1>6 DEF v

(* What Plasma starts with: each window by its name, then its app, then     *)
(* whether it is focused.                                                   *)
LEMMA WindowsInARow ==
  ASSUME NEW S, IsFiniteSet(S)
  PROVE  LET s == SetToSeq(S)
         IN /\ s \in Seq(S) /\ Len(s) \in Nat /\ DOMAIN s = 1 .. Len(s)
            /\ \A i \in 1 .. Len(s) : s[i] \in S
            /\ \A i, j \in 1 .. Len(s) : s[i] = s[j] => i = j
            /\ \A w \in S : \E i \in 1 .. Len(s) : s[i] = w
<1> DEFINE n == Cardinality(S)
           s == SetToSeq(S)
<1>1. n \in Nat /\ ExistsBijection(1 .. n, S)
  BY FS_CardinalityType
<1>2. \E f \in [1 .. n -> S] : IsInjective(f)
  BY <1>1 DEF ExistsBijection, Bijection, Injection
<1>3. s \in [1 .. n -> S] /\ IsInjective(s)
  BY <1>2 DEF SetToSeq
<1>4. IsFiniteSet(1 .. n) /\ Cardinality(1 .. n) = n
  BY <1>1, FS_Interval
<1> HIDE DEF s
<1>5. s \in Surjection(1 .. n, S)
  <2>1. s \in Injection(1 .. n, S)
    BY <1>3 DEF Injection
  <2> QED
    BY <1>4, <2>1, FS_Injection
<1> HIDE DEF n
<1>6. s \in Seq(S) /\ Len(s) = n /\ DOMAIN s = 1 .. n
  BY <1>1, <1>3
<1>7. \A i, j \in 1 .. n : s[i] = s[j] => i = j
  BY <1>3 DEF IsInjective
<1>8. \A w \in S : \E i \in 1 .. n : s[i] = w
  BY <1>5 DEF Surjection
<1> QED
  BY <1>1, <1>3, <1>6, <1>7, <1>8 DEF s

LEMMA ConcatIs ==
  ASSUME NEW s \in Seq(PlasmaMessage), NEW t \in Seq(PlasmaMessage)
  PROVE  /\ s \o t \in Seq(PlasmaMessage) /\ Len(s \o t) = Len(s) + Len(t)
         /\ \A i \in 1 .. Len(s) : (s \o t)[i] = s[i]
         /\ \A i \in 1 .. Len(t) : (s \o t)[Len(s) + i] = t[i]
<1> DEFINE v == s \o t
           m == Len(s)
           n == Len(t)
<1>1. /\ v \in Seq(PlasmaMessage) /\ Len(v) = m + n
      /\ \A i \in 1 .. m + n : v[i] = IF i <= m THEN s[i] ELSE t[i - m]
      /\ m \in Nat /\ n \in Nat
  BY ConcatProperties, LenProperties
<1> HIDE DEF v, m, n
<1>2. \A i \in 1 .. m : i \in 1 .. m + n /\ i <= m
  BY <1>1
<1>3. \A i \in 1 .. m : v[i] = s[i]
  BY <1>1, <1>2
<1>4. ASSUME NEW i \in 1 .. n
      PROVE  v[m + i] = t[i]
  <2> DEFINE j == m + i
  <2>1. j - m = i /\ j \in 1 .. m + n /\ ~(j <= m)
    BY <1>1
  <2> HIDE DEF j
  <2>2. v[j] = t[j - m]
    BY <1>1, <2>1
  <2> QED
    BY <2>1, <2>2 DEF j
<1> QED
  BY <1>1, <1>3, <1>4 DEF v, m, n

PlasmaWorld == WorldOK /\ \A w \in Windows \ open : app[w] = NoApp

LEMMA NowIsSnapshot ==
  ASSUME PlasmaWorld
  PROVE  Now \in Snapshots
BY DEF PlasmaWorld, WorldOK, Now, Snapshots

LEMMA NextIsSnapshot ==
  ASSUME PlasmaWorld'
  PROVE  Now' \in Snapshots
BY DEF PlasmaWorld, WorldOK, Now, Snapshots

LEMMA NowhereIsSnapshot == Nowhere \in Snapshots
BY DEF Nowhere, Snapshots

LEMMA WindowlistUnfolds ==
  ASSUME PlasmaWorld
  PROVE  Windowlist \in Seq(PlasmaMessage) /\ Unfolds(Nowhere, Windowlist, Now)
<1> DEFINE s == SetToSeq(open)
           n == Len(s)
           A == [i \in DOMAIN s |-> Mapped(s[i])]
           B == [i \in DOMAIN s |-> AppId(s[i], app[s[i]])]
           C == [i \in DOMAIN s |-> State(s[i], s[i] = active)]
           u == (A \o B) \o C
<1>1. /\ n \in Nat /\ DOMAIN s = 1 .. n
      /\ \A i \in 1 .. n : s[i] \in open
      /\ \A i, j \in 1 .. n : s[i] = s[j] => i = j
      /\ \A w \in open : \E i \in 1 .. n : s[i] = w
  <2>1. IsFiniteSet(open)
    BY ListenerAssumption, FS_Subset DEF PlasmaWorld, WorldOK
  <2> QED
    BY <2>1, WindowsInARow
<1>2. /\ open \subseteq Windows /\ app \in [Windows -> Apps \cup {NoApp}]
      /\ active \in open \cup {NoWindow}
      /\ \A w \in Windows \ open : app[w] = NoApp
      /\ NoWindow \notin Windows
  BY ListenerAssumption DEF PlasmaWorld, WorldOK
<1>3. Windowlist = u
  BY DEF Windowlist
<1> HIDE DEF s
<1>4. \A i \in 1 .. n : s[i] \in Windows /\ app[s[i]] \in Apps \cup {NoApp}
  BY <1>1, <1>2
<1> HIDE DEF n
<1>5. A \in Seq(PlasmaMessage) /\ Len(A) = n /\ \A i \in 1 .. n : A[i] = Mapped(s[i])
  BY <1>1, <1>4 DEF PlasmaMessage, Mapped
<1>6. B \in Seq(PlasmaMessage) /\ Len(B) = n /\ \A i \in 1 .. n : B[i] = AppId(s[i], app[s[i]])
  BY <1>1, <1>4 DEF PlasmaMessage, AppId
<1>7. C \in Seq(PlasmaMessage) /\ Len(C) = n
      /\ \A i \in 1 .. n : C[i] = State(s[i], s[i] = active)
  BY <1>1, <1>4 DEF PlasmaMessage, State
<1> HIDE DEF A, B, C
<1>8. /\ u \in Seq(PlasmaMessage) /\ Len(u) = n + n + n
      /\ \A i \in 1 .. n : u[i] = Mapped(s[i])
      /\ \A i \in 1 .. n : u[n + i] = AppId(s[i], app[s[i]])
      /\ \A i \in 1 .. n : u[n + n + i] = State(s[i], s[i] = active)
  <2> DEFINE D == A \o B
  <2>1. /\ D \in Seq(PlasmaMessage) /\ Len(D) = n + n
        /\ \A i \in 1 .. n : D[i] = A[i]
        /\ \A i \in 1 .. n : D[n + i] = B[i]
    <3>1. /\ D \in Seq(PlasmaMessage) /\ Len(D) = Len(A) + Len(B)
          /\ \A i \in 1 .. Len(A) : D[i] = A[i]
          /\ \A i \in 1 .. Len(B) : D[Len(A) + i] = B[i]
      BY <1>5, <1>6, ConcatIs
    <3> QED
      BY <1>5, <1>6, <3>1
  <2> HIDE DEF D
  <2> DEFINE k == n + n
  <2>2. /\ k \in Nat /\ n \in Nat /\ Len(D) = k /\ Len(C) = n
        /\ D \in Seq(PlasmaMessage) /\ C \in Seq(PlasmaMessage)
    BY <1>1, <1>7, <2>1
  <2> HIDE DEF k
  <2>3. /\ D \o C \in Seq(PlasmaMessage) /\ Len(D \o C) = k + n
        /\ \A i \in 1 .. k : (D \o C)[i] = D[i]
        /\ \A i \in 1 .. n : (D \o C)[k + i] = C[i]
    <3>1. /\ D \o C \in Seq(PlasmaMessage) /\ Len(D \o C) = Len(D) + Len(C)
          /\ \A i \in 1 .. Len(D) : (D \o C)[i] = D[i]
          /\ \A i \in 1 .. Len(C) : (D \o C)[Len(D) + i] = C[i]
      BY <2>2, ConcatIs
    <3> QED
      BY <2>2, <3>1
  <2>4. u = D \o C
    BY DEF D
  <2> HIDE DEF u
  <2>5. ASSUME NEW i \in 1 .. n
        PROVE  /\ u[i] = Mapped(s[i])
               /\ u[n + i] = AppId(s[i], app[s[i]])
               /\ u[n + n + i] = State(s[i], s[i] = active)
    <3>1. i \in 1 .. k /\ n + i \in 1 .. k
      BY <1>1 DEF k
    <3>2. u[i] = D[i] /\ u[n + i] = D[n + i] /\ u[k + i] = C[i]
      BY <2>3, <2>4, <3>1
    <3>3. D[i] = A[i] /\ D[n + i] = B[i]
      BY <2>1
    <3>4. A[i] = Mapped(s[i]) /\ B[i] = AppId(s[i], app[s[i]]) /\ C[i] = State(s[i], s[i] = active)
      BY <1>5, <1>6, <1>7
    <3> QED
      BY <3>2, <3>3, <3>4 DEF k
  <2>6. Len(u) = n + n + n /\ u \in Seq(PlasmaMessage)
    BY <2>3, <2>4 DEF k
  <2> QED
    BY <2>5, <2>6
<1> HIDE DEF u
<1> DEFINE P(k) == {w \in open : \E j \in 1 .. n : j <= k /\ s[j] = w}
           at(i) == [open |-> P(i),
                     app |-> [w \in Windows |-> IF w \in P(i - n) THEN app[w] ELSE NoApp],
                     active |-> IF active \in P(i - (n + n)) THEN active ELSE NoWindow]
           tr == [i \in 0 .. Len(u) |-> at(i)]
<1>9. /\ \A k \in Int : k <= 0 => P(k) = {}
      /\ \A k \in Int : k >= n => P(k) = open
  BY <1>1
<1>10. ASSUME NEW i \in 1 .. n
       PROVE  P(i) = P(i - 1) \cup {s[i]} /\ s[i] \notin P(i - 1) /\ s[i] \in P(i)
  BY <1>1
<1>11. \A k \in Int : P(k) \subseteq open
  OBVIOUS
<1> HIDE DEF P
<1>12. ASSUME NEW i \in 0 .. n + n + n
       PROVE  at(i) \in Snapshots
  <2>1. i - n \in Int /\ i - (n + n) \in Int /\ i \in Int
    BY <1>1
  <2>2. P(i - n) \subseteq P(i) /\ P(i - (n + n)) \subseteq P(i)
    BY <1>1, <1>9, <1>11, <2>1
  <2>3. P(i) \subseteq open
    BY <1>11, <2>1
  <2> QED
    BY <1>2, <2>2, <2>3 DEF Snapshots
<1>13. at(0) = Nowhere
  <2>1. P(0) = {} /\ P(0 - n) = {} /\ P(0 - (n + n)) = {}
    BY <1>1, <1>9
  <2> QED
    BY <2>1 DEF Nowhere
<1>14. at(n + n + n) = Now
  <2>2. [w \in Windows |-> IF w \in open THEN app[w] ELSE NoApp] = app
    BY <1>2
  <2>3. (IF active \in open THEN active ELSE NoWindow) = active
    BY <1>2
  <2> DEFINE k == n + n + n
  <2>1. /\ k \in Int /\ k >= n /\ k - n \in Int /\ k - n >= n
        /\ k - (n + n) \in Int /\ k - (n + n) >= n
    BY <1>1
  <2>4. P(k) = open /\ P(k - n) = open /\ P(k - (n + n)) = open
    BY <1>9, <2>1
  <2> HIDE DEF k
  <2>5. at(k) = [open |-> open, app |-> app, active |-> active]
    BY <2>2, <2>3, <2>4
  <2> QED
    BY <2>5 DEF Now, k
<1>15. ASSUME NEW i \in 1 .. Len(u)
       PROVE  Leads(tr[i - 1], u[i], tr[i])
  <2> DEFINE x == at(i - 1)
             y == at(i)
             p == i - n
             q == i - (n + n)
  <2>1. /\ i \in 0 .. Len(u) /\ i - 1 \in 0 .. Len(u) /\ tr[i] = y /\ tr[i - 1] = x
        /\ i \in 1 .. n \/ p \in 1 .. n \/ q \in 1 .. n
        /\ p \in Int /\ q \in Int /\ (i - 1) - n = p - 1 /\ (i - 1) - (n + n) = q - 1
        /\ i = n + p /\ i = n + n + q
    BY <1>1, <1>8
  <2>2. /\ x.open = P(i - 1) /\ y.open = P(i)
        /\ x.app = [w \in Windows |-> IF w \in P(p - 1) THEN app[w] ELSE NoApp]
        /\ y.app = [w \in Windows |-> IF w \in P(p) THEN app[w] ELSE NoApp]
        /\ x.active = IF active \in P(q - 1) THEN active ELSE NoWindow
        /\ y.active = IF active \in P(q) THEN active ELSE NoWindow
        /\ x = [open |-> x.open, app |-> x.app, active |-> x.active]
        /\ y = [open |-> y.open, app |-> y.app, active |-> y.active]
    BY <2>1
  <2> HIDE DEF x, y, tr, at
  <2>3. CASE i \in 1 .. n
    <3> DEFINE m == u[i]
    <3> HIDE DEF m
    <3>9. m = Mapped(s[i])
      BY <1>8, <2>3 DEF m
    <3>1. m.kind = "window" /\ m.win = s[i]
      BY <3>9 DEF Mapped
    <3>2. P(p) = {} /\ P(p - 1) = {} /\ P(q) = {} /\ P(q - 1) = {}
      BY <1>1, <1>9, <2>3
    <3>3. y.app = x.app /\ y.active = x.active /\ y.open = x.open \cup {m.win}
          /\ m.win \notin x.open
      BY <1>10, <2>2, <2>3, <3>1, <3>2
    <3>4. y = [x EXCEPT !.open = x.open \cup {m.win}]
      BY <2>2, <3>3
    <3>5. Leads(x, m, y)
      BY <3>1, <3>3, <3>4 DEF Leads
    <3> QED
      BY <2>1, <3>5 DEF m
  <2>4. CASE p \in 1 .. n
    <3> DEFINE m == u[n + p]
    <3> HIDE DEF m
    <3>1. m = AppId(s[p], app[s[p]])
      BY <1>8, <2>4 DEF m
    <3>2. m.kind = "app_id" /\ m.win = s[p] /\ m.app = app[s[p]]
      BY <3>1 DEF AppId
    <3>3. P(i) = open /\ P(i - 1) = open /\ P(q) = {} /\ P(q - 1) = {}
      BY <1>1, <1>9, <2>1, <2>4
    <3>4. P(p) = P(p - 1) \cup {s[p]} /\ s[p] \in open /\ s[p] \in Windows
      BY <1>1, <1>4, <1>10, <2>4
    <3>5. y.app = [x.app EXCEPT ![m.win] = m.app]
      BY <2>2, <3>2, <3>4
    <3>6. y.open = x.open /\ y.active = x.active /\ m.win \in x.open
      BY <2>2, <3>2, <3>3, <3>4
    <3>7. y = [x EXCEPT !.app = [x.app EXCEPT ![m.win] = m.app]]
      BY <2>2, <3>5, <3>6
    <3>8. Leads(x, m, y)
      BY <3>2, <3>6, <3>7 DEF Leads
    <3> QED
      BY <2>1, <3>8 DEF m
  <2>5. CASE q \in 1 .. n
    <3> DEFINE m == u[n + n + q]
    <3> HIDE DEF m
    <3>1. m = State(s[q], s[q] = active)
      BY <1>8, <2>5 DEF m
    <3>2. m.kind = "state" /\ m.win = s[q] /\ m.on = (s[q] = active)
      BY <3>1 DEF State
    <3>3. P(i) = open /\ P(i - 1) = open /\ P(p) = open /\ P(p - 1) = open
      BY <1>1, <1>9, <2>1, <2>5
    <3>4. /\ P(q) = P(q - 1) \cup {s[q]} /\ s[q] \notin P(q - 1)
          /\ s[q] \in open /\ s[q] # NoWindow
      BY <1>1, <1>2, <1>4, <1>10, <2>5
    <3>5. y.open = x.open /\ y.app = x.app /\ m.win \in x.open
      BY <2>2, <3>2, <3>3, <3>4
    <3>6. CASE s[q] = active
      <4>1. m.kind = "state" /\ m.on /\ x.active = NoWindow /\ y.active = m.win
        BY <2>2, <3>2, <3>4, <3>6
      <4>2. y = [x EXCEPT !.active = m.win]
        BY <2>2, <3>5, <4>1
      <4>3. Leads(x, m, y)
        BY <3>5, <4>1, <4>2 DEF Leads
      <4> QED
        BY <2>1, <4>3 DEF m
    <3>7. CASE s[q] # active
      <4>1. m.kind = "state" /\ ~m.on /\ x.active # m.win /\ y.active = x.active
        BY <2>2, <3>2, <3>4, <3>7
      <4>2. y = [x EXCEPT !.active = IF x.active = m.win THEN NoWindow ELSE x.active]
        BY <2>2, <3>5, <4>1
      <4>3. Leads(x, m, y)
        BY <3>5, <4>1, <4>2 DEF Leads
      <4> QED
        BY <2>1, <4>3 DEF m
    <3> QED
      BY <3>6, <3>7
  <2> QED
    BY <2>1, <2>3, <2>4, <2>5
<1>16. tr \in [0 .. Len(u) -> Snapshots] /\ tr[0] = Nowhere /\ tr[Len(u)] = Now
  <2>1. /\ Len(u) \in Nat /\ \A i \in 0 .. Len(u) : at(i) \in Snapshots
        /\ at(Len(u)) = Now
    BY <1>1, <1>8, <1>12, <1>14
  <2> HIDE DEF at
  <2> QED
    BY <1>13, <2>1
<1> HIDE DEF tr
<1>17. Unfolds(Nowhere, u, Now)
  BY <1>15, <1>16 DEF Unfolds
<1> QED
  BY <1>3, <1>8, <1>17

(* A slot in use is right about its window in snapshot x.                   *)
Shows(s, x) ==
  /\ slots[s].win \in x.open
  /\ slots[s].app = x.app[slots[s].win]
  /\ slots[s].active <=> x.active = slots[s].win

(* The slots show snapshot x: no window twice; unless some window found no  *)
(* slot all of them, and the focused one's app is published.                *)
OneSlotEach ==
  \A s, t \in Slots : slots[s].win = slots[t].win /\ slots[s].win # NoWindow => s = t

Said == IF Publishing THEN say ELSE hash.app

Shown(x) ==
  /\ OneSlotEach
  /\ \A s \in Slots : slots[s].win # NoWindow => Shows(s, x)
  /\ ~crowded => \A w \in x.open : \E s \in Slots : slots[s].win = w
  /\ ~crowded /\ x.active # NoWindow => Said = x.app[x.active]

Underway == queue \o inbox

InTime ==
  \E x, y \in Snapshots : Shown(x) /\ Unfolds(x, Underway, y) /\ (~eof => y = Now)

PlasmaInv ==
  /\ PlasmaWorld
  /\ backend # "wayland" => crowded = FALSE /\ slots = [s \in Slots |-> FreeSlot]
  /\ backend = "wayland" =>
       queue \in Seq(PlasmaMessage) /\ inbox \in Seq(PlasmaMessage) /\ InTime

LEMMA TypeInitially == Init => TypeOK
<1> SUFFICES ASSUME Init PROVE TypeOK
  OBVIOUS
<1>1. /\ open \subseteq Windows /\ app \in [Windows -> Apps \cup {NoApp}]
      /\ active \in open \cup {NoWindow} /\ up \subseteq Offered
  BY ListenerAssumption DEF Init
<1>2. next \in DOMAIN Backends /\ attempt \in 1 .. Attempts
  BY ListenerAssumption DEF Init, Backends
<1>3. slots \in [Slots -> [win : Windows \cup {NoWindow}, active : BOOLEAN,
                           app : Apps \cup {NoApp}]]
  BY DEF Init, FreeSlot
<1>4. /\ backend \in Offered \cup {NoLink} /\ pc = "probe" /\ target = NoWindow /\ say = NoApp
      /\ stop = FALSE /\ wake = FALSE /\ eof = FALSE /\ main = "running"
  BY DEF Init
<1> QED
  BY <1>1, <1>2, <1>3, <1>4 DEF TypeOK

LEMMA TypeKept ==
  ASSUME TypeOK, FocusInv, PlasmaInv, WorldOK', [Next]_vars
  PROVE  TypeOK'
<1> USE DEF WorldOK
<1>1. CASE World \/ Heartbeat
  <2>1. /\ UNCHANGED <<backend, pc, next, attempt, target, slots, say, stop, wake, main>>
        /\ eof' \in BOOLEAN
    <3> USE DEF link, probe, tables, spoken, reader, TypeOK
    <3>1. CASE Heartbeat \/ \E b \in Offered : Appear(b) \/ Vanish(b)
      BY <3>1 DEF Heartbeat, Appear, Vanish
    <3>2. CASE \/ \E w \in Windows \cup {NoWindow} : Focus(w)
               \/ \E w \in Windows, a \in Apps : Map(w, a) \/ Rename(w, a)
               \/ \E w \in Windows : Unmap(w)
      <4>1. Change
        BY <3>2 DEF Focus, Map, Rename, Unmap
      <4> QED
        BY <4>1 DEF Change
    <3> QED
      BY <1>1, <3>1, <3>2 DEF World
  <2> QED
    BY <2>1 DEF TypeOK
<1>2. CASE Connect
  <2>1. /\ UNCHANGED <<next, attempt, target, slots, say, stop, wake, main>>
        /\ backend' \in up /\ eof' = FALSE /\ pc' \in {"fetch", "top"}
    BY <1>2 DEF Connect, probe, tables, spoken, reader
  <2> QED
    BY <2>1 DEF TypeOK
<1>3. CASE PassOver
  <2>1. /\ UNCHANGED <<backend, eof, attempt, target, slots, say, stop, wake, main>>
        /\ pc' \in {pc, "sleep"} /\ next' \in {1, next + 1} /\ next' <= Len(Backends)
    BY <1>3 DEF PassOver, world, link, probe, tables, spoken, reader, TypeOK, Backends
  <2>2. DOMAIN Backends = 1 .. Len(Backends) /\ Len(Backends) = 4
    BY DEF Backends
  <2>3. next' \in DOMAIN Backends
    BY <2>1, <2>2 DEF TypeOK
  <2> QED
    BY <2>1, <2>3 DEF TypeOK
<1>4. CASE X11Fails \/ GiveUp \/ Select \/ Quit \/ HandleChanged
  <2>1. /\ UNCHANGED <<backend, eof, next, attempt, target, slots, say, stop, wake, main>>
        /\ pc' \in {"ended", "select", "fetch"}
    BY <1>4 DEF X11Fails, GiveUp, Select, Quit, HandleChanged, world, link, probe, tables, spoken,
                reader
  <2> QED
    BY <2>1 DEF TypeOK
<1>5. CASE Sleep
  <2>1. /\ UNCHANGED <<backend, eof, next, target, slots, say, stop, main>>
        /\ wake' = FALSE /\ pc' \in {"ended", "probe"}
        /\ attempt' = attempt \/ (attempt' = attempt + 1 /\ attempt # Attempts)
    BY <1>5 DEF Sleep, LastAttempt, world, link, tables, spoken, reader
  <2>2. attempt' \in 1 .. Attempts
    BY <2>1, ListenerAssumption DEF TypeOK
  <2> QED
    BY <2>1, <2>2 DEF TypeOK
<1>6. CASE Selected
  <2>1. /\ UNCHANGED <<backend, eof, next, attempt, target, slots, say, stop, main>>
        /\ wake' = FALSE /\ pc' \in {"ended", "top"}
    BY <1>6 DEF Selected, world, probe, tables, spoken, reader
  <2> QED
    BY <2>1 DEF TypeOK
<1>7. CASE HandleSaid
  <2>1. /\ UNCHANGED <<backend, eof, next, attempt, target, slots, stop, wake, main>>
        /\ pc' = "name" /\ say' = Head(queue).app
        /\ queue \in Seq(Message) /\ queue # <<>>
    BY <1>7 DEF HandleSaid, world, probe, tables, reader, FocusInv, MessagesOK, Told
  <2>2. Head(queue) \in Message
    BY <2>1, HeadTailProperties
  <2>3. say' \in Apps \cup {NoApp}
    BY <2>1, <2>2 DEF Message
  <2> QED
    BY <2>1, <2>3 DEF TypeOK
<1>8. CASE Fetch
  <2>1. /\ UNCHANGED <<backend, eof, next, attempt, slots, stop, wake, main>>
        /\ pc' \in {"top", "name", "class"} /\ target' \in {target, active} /\ say' \in {say, NoApp}
    BY <1>8 DEF Fetch, world, probe, reader
  <2>2. target' \in Windows \cup {NoWindow}
    BY <2>1 DEF TypeOK
  <2> QED
    BY <2>1, <2>2 DEF TypeOK
<1>9. CASE FetchClass
  <2>1. /\ UNCHANGED <<backend, eof, next, attempt, target, slots, stop, wake, main>>
        /\ say' = NoApp \/ (target \in open /\ say' = app[target])
    BY <1>9 DEF FetchClass, world, probe, tables, reader
  <2>2. say' \in Apps \cup {NoApp}
    BY <2>1 DEF TypeOK
  <2> QED
    BY <1>9, <2>1, <2>2 DEF TypeOK, FetchClass
<1>10. ASSUME \/ plw_register_window \/ Orphan
              \/ \E s \in Slots : plw_app_id_changed(s) \/ plw_state_changed(s) \/ plw_unmapped(s)
       PROVE  TypeOK'
  <2>1. /\ UNCHANGED <<backend, eof, next, attempt, target, stop, wake, main>>
        /\ queue \in Seq(PlasmaMessage) /\ queue # <<>>
    BY <1>10 DEF plw_register_window, Orphan, plw_app_id_changed, plw_state_changed, plw_unmapped,
                 Handling, world, probe, reader, PlasmaInv
  <2>2. Head(queue) \in PlasmaMessage
    BY <2>1, HeadTailProperties
  <2> DEFINE m == Head(queue)
  <2>3. m.win \in Windows /\ m.app \in Apps \cup {NoApp} /\ m.on \in BOOLEAN
    BY <2>2 DEF PlasmaMessage
  <2> HIDE DEF m
  <2> DEFINE Slot == [win : Windows \cup {NoWindow}, active : BOOLEAN, app : Apps \cup {NoApp}]
  <2>4. slots \in [Slots -> Slot] /\ FreeSlot \in Slot
    BY DEF TypeOK, FreeSlot
  <2>5. /\ slots' \in [Slots -> Slot]
        /\ say' \in {say, m.app} \/ \E s \in Slots : say' = slots[s].app
        /\ pc' \in {pc, "name"}
    <3>1. CASE plw_register_window
      <4>1. [FreeSlot EXCEPT !.win = m.win] \in Slot
        BY <2>3 DEF FreeSlot
      <4>2. slots' \in [Slots -> Slot]
        BY <2>4, <3>1, <4>1 DEF plw_register_window, m
      <4> QED
        BY <3>1, <4>2 DEF plw_register_window
    <3>2. CASE Orphan
      BY <2>4, <3>2 DEF Orphan
    <3>3. ASSUME NEW s \in Slots, plw_app_id_changed(s)
          PROVE  slots' \in [Slots -> Slot] /\ say' \in {say, m.app} /\ pc' \in {pc, "name"}
      BY <2>3, <2>4, <3>3 DEF plw_app_id_changed, m
    <3>4. ASSUME NEW s \in Slots, plw_state_changed(s)
          PROVE  slots' \in [Slots -> Slot] /\ say' \in {say, slots[s].app} /\ pc' \in {pc, "name"}
      BY <2>3, <2>4, <3>4 DEF plw_state_changed, m
    <3>5. ASSUME NEW s \in Slots, plw_unmapped(s)
          PROVE  slots' \in [Slots -> Slot] /\ say' = say /\ pc' = pc
      BY <2>4, <3>5 DEF plw_unmapped, Freed
    <3> QED
      BY <1>10, <3>1, <3>2, <3>3, <3>4, <3>5
  <2>6. say' \in Apps \cup {NoApp}
    BY <2>3, <2>4, <2>5 DEF TypeOK
  <2>7. pc' \in {"probe", "sleep", "top", "select", "fetch", "class", "name", "hash", "ended"}
    BY <2>5 DEF TypeOK
  <2> QED
    BY <2>1, <2>5, <2>6, <2>7 DEF TypeOK
<1>11. CASE PublishName \/ PublishHash
  <2>1. /\ UNCHANGED <<backend, eof, next, attempt, target, slots, say, stop, wake, main>>
        /\ pc' \in {"hash", "top"}
    BY <1>11 DEF PublishName, PublishHash, world, link, probe, tables, reader
  <2> QED
    BY <2>1 DEF TypeOK
<1>12. CASE Main
  <2>1. /\ UNCHANGED <<backend, eof, pc, next, attempt, target, slots, say>>
        /\ stop' \in {stop, TRUE} /\ wake' \in {wake, TRUE}
        /\ main' \in {main, "stopping", "joining", "joined"}
    BY <1>12 DEF Main, LoadHash, CopyName, Stop, Wake, Woken, Join, world, link, probe, tables,
                 spoken, reader
  <2>2. stop' \in BOOLEAN /\ wake' \in BOOLEAN
    BY <2>1 DEF TypeOK
  <2>3. main' \in {"running", "stopping", "joining", "joined"}
    BY <2>1 DEF TypeOK
  <2>4. UNCHANGED <<backend, eof, pc, next, attempt, target, slots, say>>
    BY <2>1
  <2> QED
    BY <2>2, <2>3, <2>4 DEF TypeOK
<1>13. CASE UNCHANGED vars
  BY <1>13 DEF vars, world, link, probe, tables, spoken, reader, TypeOK
<1> QED
  BY <1>1, <1>2, <1>3, <1>4, <1>5, <1>6, <1>7, <1>8, <1>9, <1>10, <1>11, <1>12, <1>13
     DEF Next, Thread

LEMMA PlasmaInitially == Init => PlasmaInv
<1> SUFFICES ASSUME Init PROVE PlasmaInv
  OBVIOUS
<1>1. WorldOK
  BY FocusInvInitially DEF FocusInv
<1>2. \A w \in Windows \ open : app[w] = NoApp
  BY DEF Init
<1>3. backend = NoLink /\ crowded = FALSE /\ slots = [s \in Slots |-> FreeSlot]
  BY DEF Init
<1> QED
  BY <1>1, <1>2, <1>3 DEF PlasmaInv, PlasmaWorld, NoLink

(* Steps that leave the windows, the slots and what is said alone, and at   *)
(* most move messages on from the socket into the queue.                    *)
LEMMA PlasmaStands ==
  ASSUME PlasmaInv, WorldOK', UNCHANGED <<open, app, active, backend, slots, crowded>>,
         backend = "wayland" =>
           /\ queue' \in Seq(PlasmaMessage) /\ inbox' \in Seq(PlasmaMessage)
           /\ Underway' = Underway
           /\ Said' = Said
           /\ eof => eof'
  PROVE  PlasmaInv'
<1>1. PlasmaWorld'
  BY DEF PlasmaInv, PlasmaWorld
<1>2. CASE backend # "wayland"
  BY <1>1, <1>2 DEF PlasmaInv
<1>3. CASE backend = "wayland"
  <2>1. PICK x \in Snapshots, y \in Snapshots :
          Shown(x) /\ Unfolds(x, Underway, y) /\ (~eof => y = Now)
    BY <1>3 DEF PlasmaInv, InTime
  <2>2. Shown(x)'
    BY <1>3, <2>1 DEF Shown, Shows, OneSlotEach
  <2>3. Unfolds(x, Underway', y) /\ (~eof' => y = Now')
    BY <1>3, <2>1 DEF Now
  <2>4. InTime'
    BY <2>2, <2>3 DEF InTime
  <2> QED
    BY <1>1, <1>3, <2>4 DEF PlasmaInv
<1> QED
  BY <1>2, <1>3

(* On the other backends the slots stay free, whatever the windows do.      *)
LEMMA ElsewhereKeeps ==
  ASSUME PlasmaInv, PlasmaWorld', backend # "wayland", UNCHANGED <<backend, slots, crowded>>
  PROVE  PlasmaInv'
BY DEF PlasmaInv

LEMMA Associates ==
  ASSUME NEW q \in Seq(PlasmaMessage), NEW i \in Seq(PlasmaMessage), NEW ms \in Seq(PlasmaMessage)
  PROVE  (q \o i) \o ms = q \o (i \o ms)
<1> DEFINE a == Len(q)
           b == Len(i)
           c == Len(ms)
           f == q \o i
           g == i \o ms
           l == f \o ms
           r == q \o g
<1>1. a \in Nat /\ b \in Nat /\ c \in Nat /\ Len(q) = a /\ Len(i) = b /\ Len(ms) = c
  BY LenProperties
<1> DEFINE ab == a + b
           bc == b + c
<1>2. ab \in Nat /\ bc \in Nat
  BY <1>1
<1>3. /\ f \in Seq(PlasmaMessage) /\ Len(f) = ab
      /\ \A k \in 1 .. a : f[k] = q[k]
      /\ \A k \in 1 .. b : f[a + k] = i[k]
  BY ConcatIs
<1>4. /\ g \in Seq(PlasmaMessage) /\ Len(g) = bc
      /\ \A k \in 1 .. b : g[k] = i[k]
      /\ \A k \in 1 .. c : g[b + k] = ms[k]
  BY ConcatIs
<1> HIDE DEF f, g
<1>5. /\ l \in Seq(PlasmaMessage) /\ Len(l) = Len(f) + c
      /\ \A k \in 1 .. Len(f) : l[k] = f[k]
      /\ \A k \in 1 .. c : l[Len(f) + k] = ms[k]
  BY <1>3, ConcatIs
<1>6. /\ r \in Seq(PlasmaMessage) /\ Len(r) = a + Len(g)
      /\ \A k \in 1 .. a : r[k] = q[k]
      /\ \A k \in 1 .. Len(g) : r[a + k] = g[k]
  BY <1>4, ConcatIs
<1> HIDE DEF a, b, c, ab, bc, l, r
<1>7. Len(l) = Len(r) /\ Len(l) = a + b + c /\ Len(f) = ab /\ Len(g) = bc
  <2>1. Len(f) = ab /\ Len(l) = Len(f) + c
    BY <1>3, <1>5
  <2>2. Len(g) = bc /\ Len(r) = a + Len(g)
    BY <1>4, <1>6
  <2> QED
    BY <1>1, <2>1, <2>2 DEF ab, bc
<1>8. ASSUME NEW j \in 1 .. Len(l)
      PROVE  l[j] = r[j]
  <2>1. CASE j <= a
    <3>1. j \in 1 .. ab /\ j \in 1 .. a
      BY <1>1, <2>1 DEF ab
    <3> QED
      BY <1>3, <1>5, <1>6, <1>7, <3>1
  <2>2. CASE a < j /\ j <= a + b
    <3>1. PICK k \in 1 .. b : j = a + k
      BY <1>1, <2>2
    <3>2. j \in 1 .. ab /\ k \in 1 .. bc
      BY <1>1, <2>2 DEF ab, bc
    <3>3. l[j] = f[j] /\ f[a + k] = i[k] /\ r[a + k] = g[k] /\ g[k] = i[k]
      BY <1>3, <1>4, <1>5, <1>6, <1>7, <3>2
    <3> QED
      BY <3>1, <3>3
  <2>3. CASE a + b < j
    <3>1. PICK k \in 1 .. c : j = ab + k
      BY <1>1, <1>7, <2>3 DEF ab
    <3>2. b + k \in 1 .. bc /\ j = a + (b + k)
      BY <1>1, <3>1 DEF ab, bc
    <3>3. l[ab + k] = ms[k] /\ r[a + (b + k)] = g[b + k] /\ g[b + k] = ms[k]
      BY <1>4, <1>5, <1>6, <1>7, <3>2
    <3> QED
      BY <3>1, <3>2, <3>3
  <2> QED
    BY <1>1, <1>7, <2>1, <2>2, <2>3
<1>9. l = r
  BY <1>5, <1>6, <1>7, <1>8, SeqEqual
<1> QED
  BY <1>9 DEF l, r, f, g

LEMMA UnderwayGrows ==
  ASSUME queue \in Seq(PlasmaMessage), inbox \in Seq(PlasmaMessage), NEW ms \in Seq(PlasmaMessage),
         queue' = queue, inbox' = inbox \o ms
  PROVE  Underway' = Underway \o ms
<1>1. (queue \o inbox) \o ms = queue \o (inbox \o ms)
  BY Associates
<1> QED
  BY <1>1 DEF Underway

(* News of the windows joins the messages under way.                        *)
LEMMA SentKeeps ==
  ASSUME PlasmaInv, PlasmaWorld', backend = "wayland",
         NEW ms \in Seq(PlasmaMessage), Sent(ms),
         UNCHANGED <<backend, queue, eof, pc, say, hash, slots, crowded>>,
         \A x \in Snapshots, u \in Seq(PlasmaMessage) :
           Unfolds(x, u, Now) => Unfolds(x, u \o ms, Now')
  PROVE  PlasmaInv'
<1>1. PICK x \in Snapshots, y \in Snapshots :
        Shown(x) /\ Unfolds(x, Underway, y) /\ (~eof => y = Now)
  BY DEF PlasmaInv, InTime
<1>2. Shown(x)'
  BY <1>1 DEF Shown, Shows, OneSlotEach, Said, Publishing
<1>3. queue \in Seq(PlasmaMessage) /\ inbox \in Seq(PlasmaMessage)
  BY DEF PlasmaInv
<1>4. CASE eof
  <2>1. inbox' = inbox
    BY <1>4 DEF Sent
  <2>2. InTime'
    BY <1>1, <1>2, <1>4, <2>1 DEF InTime, Underway
  <2> QED
    BY <1>3, <2>1, <2>2 DEF PlasmaInv
<1>5. CASE ~eof
  <2>1. inbox' = inbox \o ms
    BY <1>5 DEF Sent, NoLink
  <2>2. Underway \in Seq(PlasmaMessage) /\ inbox' \in Seq(PlasmaMessage)
    BY <1>3, <2>1, ConcatProperties DEF Underway
  <2>3. Underway' = Underway \o ms
    BY <1>3, <2>1, UnderwayGrows
  <2>4. Unfolds(x, Underway', Now')
    BY <1>1, <1>5, <2>2, <2>3
  <2>5. Now' \in Snapshots
    BY NextIsSnapshot
  <2>6. InTime'
    BY <1>2, <2>4, <2>5 DEF InTime
  <2> QED
    BY <1>3, <2>2, <2>6 DEF PlasmaInv
<1> QED
  BY <1>4, <1>5

LEMMA TwoMessages ==
  ASSUME NEW m \in PlasmaMessage, NEW n \in PlasmaMessage
  PROVE  /\ <<m>> \in Seq(PlasmaMessage) /\ <<n>> \in Seq(PlasmaMessage)
         /\ <<m, n>> \in Seq(PlasmaMessage) /\ <<m>> \o <<n>> = <<m, n>>
<1>1. /\ <<m>> \in Seq(PlasmaMessage) /\ Len(<<m>>) = 1 /\ <<m>>[1] = m
      /\ <<n>> \in Seq(PlasmaMessage) /\ Len(<<n>>) = 1 /\ <<n>>[1] = n
      /\ <<m, n>> \in Seq(PlasmaMessage) /\ Len(<<m, n>>) = 2
      /\ <<m, n>>[1] = m /\ <<m, n>>[2] = n
  OBVIOUS
<1> DEFINE u == <<m>>
           v == <<n>>
           uv == <<m, n>>
<1> HIDE DEF u, v, uv
<1>2. /\ u \in Seq(PlasmaMessage) /\ Len(u) = 1 /\ u[1] = m
      /\ v \in Seq(PlasmaMessage) /\ Len(v) = 1 /\ v[1] = n
      /\ uv \in Seq(PlasmaMessage) /\ Len(uv) = 2 /\ uv[1] = m /\ uv[2] = n
  BY <1>1 DEF u, v, uv
<1>3. /\ u \o v \in Seq(PlasmaMessage) /\ Len(u \o v) = 2
      /\ (u \o v)[1] = m /\ (u \o v)[2] = n
  <2>1. /\ u \o v \in Seq(PlasmaMessage) /\ Len(u \o v) = Len(u) + Len(v)
        /\ \A i \in 1 .. Len(u) + Len(v) : (u \o v)[i] = IF i <= Len(u) THEN u[i] ELSE v[i - Len(u)]
    BY <1>2, ConcatProperties
  <2>2. 1 \in 1 .. 1 + 1 /\ 2 \in 1 .. 1 + 1 /\ 2 - 1 = 1
    OBVIOUS
  <2> QED
    BY <1>2, <2>1, <2>2
<1>4. u \o v = uv
  BY <1>2, <1>3, SeqEqual
<1> QED
  BY <1>1, <1>4 DEF u, v, uv

LEMMA UnfoldsTwo ==
  ASSUME NEW u \in Seq(PlasmaMessage), NEW m \in PlasmaMessage, NEW n \in PlasmaMessage,
         NEW x \in Snapshots, NEW v \in Snapshots, NEW y \in Snapshots, NEW z \in Snapshots,
         Unfolds(x, u, v), Leads(v, m, y), Leads(y, n, z)
  PROVE  Unfolds(x, u \o <<m, n>>, z)
<1>1. <<m>> \in Seq(PlasmaMessage) /\ <<n>> \in Seq(PlasmaMessage) /\ <<m>> \o <<n>> = <<m, n>>
  BY TwoMessages
<1>2. u \o <<m>> \in Seq(PlasmaMessage) /\ Unfolds(x, u \o <<m>>, y)
  BY <1>1, ConcatProperties, UnfoldsMore
<1>3. Unfolds(x, (u \o <<m>>) \o <<n>>, z)
  BY <1>2, UnfoldsMore
<1>4. (u \o <<m>>) \o <<n>> = u \o (<<m>> \o <<n>>)
  BY <1>1, ConcatAssociative
<1> QED
  BY <1>1, <1>3, <1>4

LEMMA PlasmaMessagesAre ==
  ASSUME NEW w \in Windows, NEW a \in Apps \cup {NoApp}, NEW on \in BOOLEAN
  PROVE  /\ Mapped(w) \in PlasmaMessage /\ AppId(w, a) \in PlasmaMessage
         /\ State(w, on) \in PlasmaMessage /\ Unmapped(w) \in PlasmaMessage
BY DEF PlasmaMessage, Mapped, AppId, State, Unmapped

LEMMA FocusUnfolds ==
  ASSUME PlasmaWorld, PlasmaWorld', backend = "wayland",
         NEW w \in Windows \cup {NoWindow}, Focus(w)
  PROVE  /\ FocusNews(w) \in Seq(PlasmaMessage)
         /\ \A x \in Snapshots, u \in Seq(PlasmaMessage) :
              Unfolds(x, u, Now) => Unfolds(x, u \o FocusNews(w), Now')
<1> DEFINE off == State(active, FALSE)
           on  == State(w, TRUE)
           mid == [open |-> open, app |-> app, active |-> NoWindow]
<1>1. /\ UNCHANGED <<open, app>> /\ active' = w /\ w \in open \cup {NoWindow} /\ w # active
      /\ open \subseteq Windows /\ active \in open \cup {NoWindow} /\ NoWindow \notin Windows
  BY ListenerAssumption DEF Focus, PlasmaWorld, WorldOK
<1>2. Now \in Snapshots /\ Now' \in Snapshots /\ mid \in Snapshots
  <2>1. Now \in Snapshots
    BY NowIsSnapshot
  <2>2. Now' \in Snapshots
    BY NextIsSnapshot
  <2>3. mid \in Snapshots
    BY DEF Snapshots, PlasmaWorld, WorldOK
  <2> QED
    BY <2>1, <2>2, <2>3
<1>3. active # NoWindow => off \in PlasmaMessage /\ Leads(Now, off, mid)
  <2> SUFFICES ASSUME active # NoWindow
               PROVE  off \in PlasmaMessage /\ Leads(Now, off, mid)
    OBVIOUS
  <2>1. off.kind = "state" /\ off.win = active /\ off.on = FALSE /\ off \in PlasmaMessage
    BY <1>1 DEF State, PlasmaMessage
  <2> HIDE DEF off
  <2>2. mid = [Now EXCEPT !.active = IF Now.active = off.win THEN NoWindow ELSE Now.active]
    BY <2>1 DEF Now
  <2>3. off.win \in Now.open
    BY <1>1, <2>1 DEF Now
  <2> HIDE DEF mid
  <2> QED
    BY <2>1, <2>2, <2>3 DEF Leads
<1>4. w # NoWindow => on \in PlasmaMessage /\ Leads(mid, on, Now')
  <2> SUFFICES ASSUME w # NoWindow
               PROVE  on \in PlasmaMessage /\ Leads(mid, on, Now')
    OBVIOUS
  <2>1. on.kind = "state" /\ on.win = w /\ on.on = TRUE /\ on \in PlasmaMessage
    BY <1>1 DEF State, PlasmaMessage
  <2> HIDE DEF on
  <2>2. Now' = [mid EXCEPT !.active = on.win]
    BY <1>1, <2>1 DEF Now
  <2>3. on.win \in mid.open /\ mid.active = NoWindow
    BY <1>1, <2>1
  <2> HIDE DEF mid
  <2> QED
    BY <2>1, <2>2, <2>3 DEF Leads
<1>5. active = NoWindow => mid = Now
  BY DEF Now
<1>6. w = NoWindow => mid = Now'
  BY <1>1 DEF Now
<1>7. /\ active = NoWindow => FocusNews(w) = <<on>>
      /\ active # NoWindow /\ w = NoWindow => FocusNews(w) = <<off>>
      /\ active # NoWindow /\ w # NoWindow => FocusNews(w) = <<off, on>>
  <2>1. FocusNews(w) = (IF active = NoWindow THEN <<>> ELSE <<off>>)
                         \o (IF w = NoWindow THEN <<>> ELSE <<on>>)
    BY DEF FocusNews
  <2> HIDE DEF on, off
  <2>2. active = NoWindow => <<>> \o <<on>> = <<on>>
    BY <1>1, <1>4, TwoMessages, ConcatEmptySeq
  <2>3. active # NoWindow => <<off>> \o <<>> = <<off>>
    BY <1>3, TwoMessages, ConcatEmptySeq
  <2>4. active # NoWindow /\ w # NoWindow => <<off>> \o <<on>> = <<off, on>>
    BY <1>3, <1>4, TwoMessages
  <2> QED
    BY <1>1, <2>1, <2>2, <2>3, <2>4
<1> HIDE DEF on, off, mid
<1>8. FocusNews(w) \in Seq(PlasmaMessage)
  BY <1>1, <1>3, <1>4, <1>7, TwoMessages
<1>9. ASSUME NEW x \in Snapshots, NEW u \in Seq(PlasmaMessage), Unfolds(x, u, Now)
      PROVE  Unfolds(x, u \o FocusNews(w), Now')
  <2>1. CASE active = NoWindow
    BY <1>1, <1>2, <1>4, <1>5, <1>7, <1>9, <2>1, UnfoldsMore
  <2>2. CASE active # NoWindow /\ w = NoWindow
    BY <1>2, <1>3, <1>6, <1>7, <1>9, <2>2, UnfoldsMore
  <2>3. CASE active # NoWindow /\ w # NoWindow
    BY <1>2, <1>3, <1>4, <1>7, <1>9, <2>3, UnfoldsTwo
  <2> QED
    BY <2>1, <2>2, <2>3
<1> QED
  BY <1>8, <1>9

LEMMA MapUnfolds ==
  ASSUME PlasmaWorld, PlasmaWorld',
         NEW w \in Windows, NEW a \in Apps, Map(w, a)
  PROVE  /\ <<Mapped(w), AppId(w, a)>> \in Seq(PlasmaMessage)
         /\ \A x \in Snapshots, u \in Seq(PlasmaMessage) :
              Unfolds(x, u, Now) => Unfolds(x, u \o <<Mapped(w), AppId(w, a)>>, Now')
<1> DEFINE m == Mapped(w)
           n == AppId(w, a)
           mid == [open |-> open \cup {w}, app |-> app, active |-> active]
<1>1. /\ w \notin open /\ open' = open \cup {w} /\ app' = [app EXCEPT ![w] = a] /\ active' = active
      /\ open \subseteq Windows /\ app \in [Windows -> Apps \cup {NoApp}]
      /\ active \in open \cup {NoWindow} /\ \A v \in Windows \ open : app[v] = NoApp
  BY DEF Map, PlasmaWorld, WorldOK
<1>2. Now \in Snapshots /\ Now' \in Snapshots
  BY NowIsSnapshot, NextIsSnapshot
<1>3. mid \in Snapshots
  BY <1>1 DEF Snapshots
<1>4. m \in PlasmaMessage /\ n \in PlasmaMessage
  BY PlasmaMessagesAre
<1>5. m.kind = "window" /\ m.win = w /\ n.kind = "app_id" /\ n.win = w /\ n.app = a
  BY DEF Mapped, AppId
<1> HIDE DEF m, n
<1>6. mid = [Now EXCEPT !.open = Now.open \cup {m.win}] /\ m.win \notin Now.open
  BY <1>1, <1>5 DEF Now
<1>7. Now' = [mid EXCEPT !.app = [mid.app EXCEPT ![n.win] = n.app]] /\ n.win \in mid.open
  BY <1>1, <1>5 DEF Now
<1> HIDE DEF mid
<1>8. Leads(Now, m, mid)
  BY <1>5, <1>6 DEF Leads
<1>9. Leads(mid, n, Now')
  BY <1>5, <1>7 DEF Leads
<1>10. \A x \in Snapshots, u \in Seq(PlasmaMessage) :
         Unfolds(x, u, Now) => Unfolds(x, u \o <<m, n>>, Now')
  BY <1>2, <1>3, <1>4, <1>8, <1>9, UnfoldsTwo
<1> QED
  BY <1>4, <1>10, TwoMessages DEF m, n

LEMMA RenameUnfolds ==
  ASSUME PlasmaWorld, PlasmaWorld',
         NEW w \in Windows, NEW a \in Apps, Rename(w, a)
  PROVE  /\ <<AppId(w, a)>> \in Seq(PlasmaMessage)
         /\ \A x \in Snapshots, u \in Seq(PlasmaMessage) :
              Unfolds(x, u, Now) => Unfolds(x, u \o <<AppId(w, a)>>, Now')
<1> DEFINE n == AppId(w, a)
<1>1. w \in open /\ app' = [app EXCEPT ![w] = a] /\ UNCHANGED <<open, active>>
  BY DEF Rename
<1>2. Now \in Snapshots /\ Now' \in Snapshots
  BY NowIsSnapshot, NextIsSnapshot
<1>3. n \in PlasmaMessage /\ n.kind = "app_id" /\ n.win = w /\ n.app = a
  BY PlasmaMessagesAre DEF AppId
<1> HIDE DEF n
<1>4. Now' = [Now EXCEPT !.app = [Now.app EXCEPT ![n.win] = n.app]] /\ n.win \in Now.open
  BY <1>1, <1>3 DEF Now
<1>5. Leads(Now, n, Now')
  BY <1>3, <1>4 DEF Leads
<1>6. \A x \in Snapshots, u \in Seq(PlasmaMessage) :
        Unfolds(x, u, Now) => Unfolds(x, u \o <<n>>, Now')
  BY <1>2, <1>3, <1>5, UnfoldsMore
<1> QED
  BY <1>3, <1>6, TwoMessages DEF n

LEMMA UnmapUnfolds ==
  ASSUME PlasmaWorld, PlasmaWorld', NEW w \in Windows, Unmap(w)
  PROVE  /\ <<Unmapped(w)>> \in Seq(PlasmaMessage)
         /\ \A x \in Snapshots, u \in Seq(PlasmaMessage) :
              Unfolds(x, u, Now) => Unfolds(x, u \o <<Unmapped(w)>>, Now')
<1> DEFINE n == Unmapped(w)
<1>1. /\ w \in open /\ open' = open \ {w} /\ app' = [app EXCEPT ![w] = NoApp]
      /\ active' = IF active = w THEN NoWindow ELSE active
  BY DEF Unmap
<1>2. Now \in Snapshots /\ Now' \in Snapshots
  BY NowIsSnapshot, NextIsSnapshot
<1>3. n \in PlasmaMessage
  BY PlasmaMessagesAre
<1>4. n.kind = "unmapped" /\ n.win = w
  BY DEF Unmapped
<1> HIDE DEF n
<1>5. /\ Now' = [open |-> Now.open \ {n.win}, app |-> [Now.app EXCEPT ![n.win] = NoApp],
                 active |-> IF Now.active = n.win THEN NoWindow ELSE Now.active]
      /\ n.win \in Now.open
  BY <1>1, <1>4 DEF Now
<1>6. Leads(Now, n, Now')
  BY <1>4, <1>5 DEF Leads
<1>7. \A x \in Snapshots, u \in Seq(PlasmaMessage) :
        Unfolds(x, u, Now) => Unfolds(x, u \o <<n>>, Now')
  BY <1>2, <1>3, <1>6, UnfoldsMore
<1> QED
  BY <1>3, <1>7, TwoMessages DEF n

LEMMA WindowsKeepPlasma ==
  ASSUME PlasmaInv, FocusInv, WorldOK', World \/ Heartbeat
  PROVE  PlasmaInv'
<1>1. PlasmaWorld /\ WorldOK
  BY DEF PlasmaInv, FocusInv
<1>2. ASSUME NEW w \in Windows \cup {NoWindow}, Focus(w)
      PROVE  PlasmaInv'
  <2>1. /\ UNCHANGED <<open, app, backend, queue, eof, pc, say, hash, slots, crowded>>
        /\ Sent(FocusNews(w))
    BY <1>2 DEF Focus, Change, tables, spoken
  <2>2. PlasmaWorld'
    BY <1>1, <2>1 DEF PlasmaWorld
  <2>3. backend = "wayland" => PlasmaInv'
    <3> SUFFICES ASSUME backend = "wayland" PROVE PlasmaInv'
      OBVIOUS
    <3>1. /\ FocusNews(w) \in Seq(PlasmaMessage)
          /\ \A x \in Snapshots, u \in Seq(PlasmaMessage) :
               Unfolds(x, u, Now) => Unfolds(x, u \o FocusNews(w), Now')
      BY <1>1, <1>2, <2>2, FocusUnfolds
    <3> QED
      BY <2>1, <2>2, <3>1, SentKeeps
  <2> QED
    BY <2>1, <2>2, <2>3, ElsewhereKeeps
<1>3. ASSUME NEW w \in Windows, NEW a \in Apps, Map(w, a)
      PROVE  PlasmaInv'
  <2>1. /\ UNCHANGED <<active, backend, queue, eof, pc, say, hash, slots, crowded>>
        /\ open' = open \cup {w} /\ app' = [app EXCEPT ![w] = a]
        /\ backend = "wayland" => Sent(<<Mapped(w), AppId(w, a)>>)
    BY <1>3 DEF Map, Change, tables, spoken
  <2>2. PlasmaWorld'
    BY <1>1, <2>1 DEF PlasmaWorld, WorldOK
  <2>3. backend = "wayland" => PlasmaInv'
    BY <1>1, <1>3, <2>1, <2>2, MapUnfolds, SentKeeps
  <2> QED
    BY <2>1, <2>2, <2>3, ElsewhereKeeps
<1>4. ASSUME NEW w \in Windows, NEW a \in Apps, Rename(w, a)
      PROVE  PlasmaInv'
  <2>1. /\ UNCHANGED <<open, active, backend, queue, eof, pc, say, hash, slots, crowded>>
        /\ app' = [app EXCEPT ![w] = a] /\ w \in open
        /\ backend = "wayland" /\ Sent(<<AppId(w, a)>>)
    BY <1>4 DEF Rename, Change, tables, spoken
  <2>2. PlasmaWorld'
    BY <1>1, <2>1 DEF PlasmaWorld, WorldOK
  <2> QED
    BY <1>1, <1>4, <2>1, <2>2, RenameUnfolds, SentKeeps
<1>5. ASSUME NEW w \in Windows, Unmap(w)
      PROVE  PlasmaInv'
  <2>1. /\ UNCHANGED <<backend, queue, eof, pc, say, hash, slots, crowded>>
        /\ open' = open \ {w} /\ app' = [app EXCEPT ![w] = NoApp]
        /\ backend = "wayland" => Sent(<<Unmapped(w)>>)
    BY <1>5 DEF Unmap, Change, tables, spoken
  <2>2. PlasmaWorld'
    BY <1>1, <2>1 DEF PlasmaWorld, WorldOK
  <2>3. backend = "wayland" => PlasmaInv'
    BY <1>1, <1>5, <2>1, <2>2, UnmapUnfolds, SentKeeps
  <2> QED
    BY <2>1, <2>2, <2>3, ElsewhereKeeps
<1>6. ASSUME NEW b \in Offered, Appear(b) \/ Vanish(b)
      PROVE  PlasmaInv'
  <2>1. /\ UNCHANGED <<open, app, active, backend, inbox, queue, pc, say, hash, slots, crowded>>
        /\ eof => eof'
    <3>1. CASE Appear(b)
      BY <3>1 DEF Appear, link, tables, spoken
    <3>2. CASE Vanish(b)
      BY <3>2 DEF Vanish, tables, spoken
    <3> QED
      BY <1>6, <3>1, <3>2
  <2>2. Said' = Said /\ Underway' = Underway
    BY <2>1 DEF Said, Publishing, Underway
  <2> QED
    BY <2>1, <2>2, PlasmaStands DEF PlasmaInv
<1>7. CASE Heartbeat
  <2>1. UNCHANGED <<open, app, active, backend, slots, crowded>> /\ backend # "wayland"
    BY <1>7 DEF Heartbeat, world, tables
  <2>2. PlasmaWorld'
    BY <1>1, <2>1 DEF PlasmaWorld
  <2> QED
    BY <2>1, <2>2, ElsewhereKeeps
<1> QED
  BY <1>2, <1>3, <1>4, <1>5, <1>6, <1>7 DEF World

LEMMA ConnectKeepsPlasma ==
  ASSUME PlasmaInv, FocusInv, WorldOK', Connect
  PROVE  PlasmaInv'
<1>1. /\ UNCHANGED <<open, app, active, slots, crowded>> /\ backend = NoLink
      /\ queue' \in Seeds(backend') /\ inbox' = <<>>
  BY DEF Connect, tables, FocusInv, Stages
<1>2. PlasmaWorld /\ PlasmaWorld'
  BY <1>1 DEF PlasmaInv, PlasmaWorld
<1>3. crowded' = FALSE /\ slots' = [s \in Slots |-> FreeSlot]
  BY <1>1 DEF PlasmaInv, NoLink
<1>4. ASSUME backend' = "wayland"
      PROVE  queue' \in Seq(PlasmaMessage) /\ inbox' \in Seq(PlasmaMessage) /\ InTime'
  <2>1. queue' = Windowlist /\ inbox' = <<>>
    BY <1>1, <1>4 DEF Seeds
  <2>2. queue' \in Seq(PlasmaMessage) /\ Unfolds(Nowhere, queue', Now)
    BY <1>2, <2>1, WindowlistUnfolds
  <2>3. Underway' = queue'
    BY <2>1, <2>2, ConcatEmptySeq DEF Underway
  <2>4. Now' = Now
    BY <1>1 DEF Now
  <2>5. Shown(Nowhere)'
    BY <1>3 DEF Shown, OneSlotEach, Nowhere, FreeSlot
  <2>6. Nowhere \in Snapshots /\ Now' \in Snapshots
    BY <1>2, NowhereIsSnapshot, NextIsSnapshot
  <2>7. InTime'
    BY <2>2, <2>3, <2>4, <2>5, <2>6 DEF InTime
  <2> QED
    BY <2>1, <2>2, <2>7
<1> QED
  BY <1>2, <1>3, <1>4 DEF PlasmaInv

(* The callbacks: what a message makes of the snapshot the slots show, it   *)
(* makes of the slots.                                                      *)
LEMMA LeastSlot ==
  ASSUME FreeSlots # {}
  PROVE  FirstFree \in FreeSlots
<1> DEFINE less == OpToRel(<, Nat)
<1>1. \A u, s \in Nat : u < s => <<u, s>> \in less
  BY DEF OpToRel
<1>2. IsWellFoundedOn(less, Nat)
  BY NatLessThanWellFounded
<1>3. FreeSlots \subseteq Nat
  BY ListenerAssumption DEF FreeSlots, Slots
<1> HIDE DEF less
<1>4. PICK m \in FreeSlots : \A n \in FreeSlots : ~(<<n, m>> \in less)
  BY <1>2, <1>3, WFMin, Zenon
<1>5. \A n \in FreeSlots : ~(n < m)
  BY <1>1, <1>3, <1>4, Zenon
<1>6. \A n \in FreeSlots : m <= n
  BY <1>3, <1>5
<1> QED
  BY <1>4, <1>6 DEF FirstFree

LEMMA FirstUnderway ==
  ASSUME queue \in Seq(PlasmaMessage), inbox \in Seq(PlasmaMessage), queue # <<>>,
         queue' = Tail(queue), inbox' = inbox
  PROVE  /\ Underway \in Seq(PlasmaMessage) /\ Underway # <<>>
         /\ Head(Underway) = Head(queue) /\ Tail(Underway) = Underway'
<1> DEFINE u == queue \o inbox
           h == Tail(queue)
           v == h \o inbox
           w == Tail(u)
<1>1. /\ u \in Seq(PlasmaMessage) /\ Len(u) = Len(queue) + Len(inbox)
      /\ \A i \in 1 .. Len(queue) : u[i] = queue[i]
      /\ \A i \in 1 .. Len(inbox) : u[Len(queue) + i] = inbox[i]
  BY ConcatIs
<1>2. /\ Len(queue) \in Nat \ {0} /\ Len(inbox) \in Nat
      /\ h \in Seq(PlasmaMessage) /\ Len(h) = Len(queue) - 1
      /\ \A i \in 1 .. Len(h) : h[i] = queue[i + 1]
  BY EmptySeq, LenProperties, HeadTailProperties
<1> HIDE DEF u, h
<1>3. u # <<>>
  BY <1>1, <1>2, EmptySeq
<1>4. /\ v \in Seq(PlasmaMessage) /\ Len(v) = Len(h) + Len(inbox)
      /\ \A i \in 1 .. Len(h) : v[i] = h[i]
      /\ \A i \in 1 .. Len(inbox) : v[Len(h) + i] = inbox[i]
  BY <1>2, ConcatIs
<1>5. /\ w \in Seq(PlasmaMessage) /\ Len(w) = Len(u) - 1
      /\ \A i \in 1 .. Len(w) : w[i] = u[i + 1]
  BY <1>1, <1>3, HeadTailProperties
<1>6. Head(u) = u[1] /\ Head(queue) = queue[1] /\ u[1] = queue[1]
  BY <1>1, <1>2, <1>3
<1> HIDE DEF v, w
<1>7. Len(w) = Len(v)
  BY <1>1, <1>2, <1>4, <1>5
<1>8. ASSUME NEW i \in 1 .. Len(w)
      PROVE  w[i] = v[i]
  <2>1. CASE i <= Len(h)
    <3>1. i \in 1 .. Len(h) /\ i + 1 \in 1 .. Len(queue)
      BY <1>2, <2>1
    <3>2. w[i] = u[i + 1] /\ u[i + 1] = queue[i + 1]
      BY <1>1, <1>5, <3>1
    <3>3. v[i] = h[i] /\ h[i] = queue[i + 1]
      BY <1>2, <1>4, <3>1
    <3> QED
      BY <3>2, <3>3
  <2>2. CASE i > Len(h)
    <3> DEFINE j == i - Len(h)
    <3>1. j \in 1 .. Len(inbox) /\ i = Len(h) + j /\ i + 1 = Len(queue) + j
      <4>1. /\ Len(w) = Len(h) + Len(inbox) /\ Len(h) = Len(queue) - 1
            /\ Len(queue) \in Nat /\ Len(inbox) \in Nat
        BY <1>2, <1>4, <1>7
      <4> QED
        BY <2>2, <4>1
    <3> HIDE DEF j
    <3>3. w[i] = u[Len(queue) + j] /\ v[i] = inbox[j]
      BY <1>4, <1>5, <3>1
    <3> QED
      BY <1>1, <3>1, <3>3
  <2> QED
    BY <1>2, <1>5, <1>1, <2>1, <2>2
<1>9. w = v
  BY <1>4, <1>5, <1>7, <1>8, SeqEqual
<1>10. Underway = u /\ Underway' = v
  BY DEF Underway, u, v, h
<1> QED
  BY <1>1, <1>3, <1>6, <1>9, <1>10 DEF w

(* The first message under way, and what becomes of the rest.               *)
LEMMA HandledKeeps ==
  ASSUME PlasmaInv, WorldOK', UNCHANGED <<open, app, active, backend, inbox, eof>>,
         backend = "wayland", queue # <<>>, queue' = Tail(queue),
         \A x, z \in Snapshots : Shown(x) /\ Leads(x, Head(queue), z) => Shown(z)'
  PROVE  PlasmaInv'
<1>1. PICK x \in Snapshots, y \in Snapshots :
        Shown(x) /\ Unfolds(x, Underway, y) /\ (~eof => y = Now)
  BY DEF PlasmaInv, InTime
<1>2. queue \in Seq(PlasmaMessage) /\ inbox \in Seq(PlasmaMessage)
  BY DEF PlasmaInv
<1>3. /\ Underway \in Seq(PlasmaMessage) /\ Underway # <<>>
      /\ Head(Underway) = Head(queue) /\ Tail(Underway) = Underway'
  BY <1>2, FirstUnderway
<1>4. PICK z \in Snapshots : Leads(x, Head(queue), z) /\ Unfolds(z, Underway', y)
  BY <1>1, <1>3, UnfoldsFirst
<1>5. Shown(z)'
  BY <1>1, <1>4
<1>6. ~eof' => y = Now'
  BY <1>1 DEF Now
<1>7. InTime'
  BY <1>4, <1>5, <1>6 DEF InTime
<1>8. queue' \in Seq(PlasmaMessage) /\ inbox' \in Seq(PlasmaMessage)
  BY <1>2, HeadTailProperties
<1>9. PlasmaWorld'
  BY DEF PlasmaInv, PlasmaWorld
<1> QED
  BY <1>7, <1>8, <1>9 DEF PlasmaInv

(* What TypeOK says of the slots and the snapshot of an open window.        *)
SlotsTyped ==
  slots \in [Slots -> [win : Windows \cup {NoWindow}, active : BOOLEAN, app : Apps \cup {NoApp}]]

LEMMA RegisterShows ==
  ASSUME SlotsTyped, plw_register_window, Head(queue) \in PlasmaMessage,
         NEW x \in Snapshots, NEW z \in Snapshots, Shown(x), Leads(x, Head(queue), z)
  PROVE  Shown(z)'
<1> DEFINE m == Head(queue)
<1>1. /\ m.kind = "window" /\ m.win \in Windows
      /\ UNCHANGED <<pc, say, hash>>
      /\ crowded' = (crowded \/ FreeSlots = {})
      /\ slots' = IF FreeSlots = {} THEN slots
                  ELSE [slots EXCEPT ![FirstFree] = [FreeSlot EXCEPT !.win = m.win]]
  BY DEF plw_register_window, Handling, PlasmaMessage
<1>2. /\ m.win \notin x.open /\ z.open = x.open \cup {m.win}
      /\ z.app = x.app /\ z.active = x.active
      /\ x.active # m.win /\ x.app[m.win] = NoApp /\ m.win # NoWindow
      /\ x.active # NoWindow => x.active \in x.open
  <2>1. m.win \notin x.open /\ z = [x EXCEPT !.open = x.open \cup {m.win}]
    BY <1>1 DEF Leads
  <2> QED
    BY <1>1, <2>1, ListenerAssumption DEF Snapshots
<1> HIDE DEF m
<1>3. Said' = Said
  BY <1>1 DEF Said, Publishing
<1>4. \A s \in Slots : slots[s].win # m.win
  BY <1>2 DEF Shown, Shows
<1>5. CASE FreeSlots = {}
  <2>1. crowded' = TRUE /\ slots' = slots
    BY <1>1, <1>5
  <2> QED
    BY <1>2, <2>1 DEF Shown, Shows, OneSlotEach
<1>6. CASE FreeSlots # {}
  <2> DEFINE f == FirstFree
  <2>1. f \in Slots /\ slots[f].win = NoWindow
    BY <1>6, LeastSlot DEF FreeSlots
  <2>2. /\ slots' = [slots EXCEPT ![f] = [FreeSlot EXCEPT !.win = m.win]]
        /\ crowded' <=> crowded
    BY <1>1, <1>6
  <2> HIDE DEF f
  <2>3. /\ slots'[f].win = m.win /\ slots'[f].active = FALSE /\ slots'[f].app = NoApp
        /\ \A s \in Slots \ {f} : slots'[s] = slots[s]
    BY <2>1, <2>2 DEF SlotsTyped, FreeSlot
  <2>4. OneSlotEach'
    BY <1>4, <2>3 DEF Shown, OneSlotEach
  <2>5. \A s \in Slots : slots'[s].win # NoWindow => Shows(s, z)'
    BY <1>2, <2>3 DEF Shown, Shows
  <2>6. ~crowded' => \A w \in z.open : \E s \in Slots : slots'[s].win = w
    BY <1>2, <2>1, <2>2, <2>3, ListenerAssumption DEF Shown, Snapshots
  <2>7. ~crowded' /\ z.active # NoWindow => Said' = z.app[z.active]
    BY <1>2, <1>3, <2>2 DEF Shown
  <2> QED
    BY <2>4, <2>5, <2>6, <2>7 DEF Shown
<1> QED
  BY <1>5, <1>6

LEMMA OrphanShows ==
  ASSUME Orphan, Head(queue) \in PlasmaMessage,
         NEW x \in Snapshots, NEW z \in Snapshots, Shown(x), Leads(x, Head(queue), z)
  PROVE  Shown(z)'
<1> DEFINE m == Head(queue)
<1>1. /\ m.kind # "window" /\ m.win \in Windows
      /\ UNCHANGED <<pc, say, hash, slots, crowded>>
      /\ \A s \in Slots : slots[s].win # m.win
  BY DEF Orphan, Handling, SlotOf, PlasmaMessage
<1>2. /\ m.win \in x.open
      /\ \A w \in x.open \ {m.win} : w \in z.open /\ z.app[w] = x.app[w]
      /\ \A w \in x.open \ {m.win} : z.active = w <=> x.active = w
  <2> DEFINE Same == /\ \A w \in x.open \ {m.win} : w \in z.open /\ z.app[w] = x.app[w]
                     /\ \A w \in x.open \ {m.win} : z.active = w <=> x.active = w
  <2>1. m.win \in x.open /\ m.win # NoWindow /\ NoWindow \notin x.open
    BY <1>1, ListenerAssumption DEF Leads, Snapshots
  <2>2. ASSUME z = [x EXCEPT !.app = [x.app EXCEPT ![m.win] = m.app]]
        PROVE  Same
    BY <2>2 DEF Snapshots
  <2>3. ASSUME x.active = NoWindow, z = [x EXCEPT !.active = m.win]
        PROVE  Same
    BY <2>1, <2>3 DEF Snapshots
  <2>4. ASSUME z = [x EXCEPT !.active = IF x.active = m.win THEN NoWindow ELSE x.active]
        PROVE  Same
    BY <2>1, <2>4 DEF Snapshots
  <2>5. ASSUME z = [open |-> x.open \ {m.win}, app |-> [x.app EXCEPT ![m.win] = NoApp],
                    active |-> IF x.active = m.win THEN NoWindow ELSE x.active]
        PROVE  Same
    BY <2>1, <2>5 DEF Snapshots
  <2> HIDE DEF Same
  <2>6. Same
    BY <1>1, <2>2, <2>3, <2>4, <2>5 DEF Leads
  <2> QED
    BY <2>1, <2>6 DEF Same
<1> HIDE DEF m
<1>3. crowded
  BY <1>1, <1>2 DEF Shown
<1> QED
  BY <1>1, <1>2, <1>3 DEF Shown, Shows, OneSlotEach

LEMMA AppIdShows ==
  ASSUME SlotsTyped, NEW s \in Slots, plw_app_id_changed(s), Head(queue) \in PlasmaMessage,
         NEW x \in Snapshots, NEW z \in Snapshots, Shown(x), Leads(x, Head(queue), z)
  PROVE  Shown(z)'
<1> DEFINE m == Head(queue)
<1>1. /\ m.kind = "app_id" /\ m.win \in Windows /\ slots[s].win = m.win /\ pc = "top"
      /\ slots' = [slots EXCEPT ![s].app = m.app] /\ UNCHANGED <<hash, crowded>>
      /\ IF slots[s].active THEN say' = m.app /\ pc' = "name" ELSE UNCHANGED <<say, pc>>
  BY DEF plw_app_id_changed, Handling, Republishes, PlasmaMessage
<1>2. /\ m.win \in x.open /\ z.open = x.open /\ z.active = x.active /\ z.app[m.win] = m.app
      /\ \A w \in x.open \ {m.win} : z.app[w] = x.app[w]
      /\ m.win # NoWindow /\ x.active \in x.open \cup {NoWindow}
  <2>1. m.win \in x.open /\ z = [x EXCEPT !.app = [x.app EXCEPT ![m.win] = m.app]]
    BY <1>1 DEF Leads
  <2> QED
    BY <1>1, <2>1, ListenerAssumption DEF Snapshots
<1> HIDE DEF m
<1>3. /\ \A t \in Slots : slots'[t].win = slots[t].win /\ slots'[t].active = slots[t].active
      /\ slots'[s].app = m.app /\ \A t \in Slots \ {s} : slots'[t] = slots[t]
  BY <1>1 DEF SlotsTyped
<1>4. OneSlotEach'
  BY <1>3 DEF Shown, OneSlotEach
<1>5. \A t \in Slots \ {s} : slots[t].win # m.win
  BY <1>1, <1>2 DEF Shown, OneSlotEach
<1>6. \A t \in Slots : slots'[t].win # NoWindow => Shows(t, z)'
  BY <1>1, <1>2, <1>3, <1>5 DEF Shown, Shows
<1>7. ~crowded' => \A w \in z.open : \E t \in Slots : slots'[t].win = w
  BY <1>1, <1>2, <1>3 DEF Shown
<1>8. slots[s].active <=> x.active = m.win
  BY <1>1, <1>2 DEF Shown, Shows
<1>9. ASSUME ~crowded', z.active # NoWindow
      PROVE  Said' = z.app[z.active]
  <2>1. CASE x.active = m.win
    BY <1>1, <1>2, <1>8, <2>1 DEF Said, Publishing
  <2>2. CASE x.active # m.win
    <3>1. Said' = Said
      BY <1>1, <1>8, <2>2 DEF Said, Publishing
    <3> QED
      BY <1>1, <1>2, <1>9, <2>2, <3>1 DEF Shown
  <2> QED
    BY <2>1, <2>2
<1> QED
  BY <1>4, <1>6, <1>7, <1>9 DEF Shown

LEMMA StateShows ==
  ASSUME SlotsTyped, NEW s \in Slots, plw_state_changed(s), Head(queue) \in PlasmaMessage,
         NEW x \in Snapshots, NEW z \in Snapshots, Shown(x), Leads(x, Head(queue), z)
  PROVE  Shown(z)'
<1> DEFINE m == Head(queue)
<1>1. /\ m.kind = "state" /\ m.win \in Windows /\ slots[s].win = m.win /\ pc = "top"
      /\ slots' = [slots EXCEPT ![s].active = m.on] /\ UNCHANGED <<hash, crowded>>
      /\ IF m.on /\ ~slots[s].active THEN say' = slots[s].app /\ pc' = "name"
         ELSE UNCHANGED <<say, pc>>
      /\ m.on \in BOOLEAN
  BY DEF plw_state_changed, Handling, PlasmaMessage
<1>2. /\ m.win \in x.open /\ z.open = x.open /\ z.app = x.app
      /\ m.on => x.active = NoWindow /\ z.active = m.win
      /\ ~m.on => z.active = IF x.active = m.win THEN NoWindow ELSE x.active
      /\ m.win # NoWindow
  <2>1. m.win # NoWindow
    BY <1>1, ListenerAssumption
  <2>2. CASE m.on
    <3>1. m.win \in x.open /\ x.active = NoWindow /\ z = [x EXCEPT !.active = m.win]
      BY <1>1, <2>2 DEF Leads
    <3> QED
      BY <2>1, <2>2, <3>1 DEF Snapshots
  <2>3. CASE ~m.on
    <3>1. /\ m.win \in x.open
          /\ z = [x EXCEPT !.active = IF x.active = m.win THEN NoWindow ELSE x.active]
      BY <1>1, <2>3 DEF Leads
    <3> QED
      BY <2>1, <2>3, <3>1 DEF Snapshots
  <2> QED
    BY <2>2, <2>3
<1> HIDE DEF m
<1>3. /\ \A t \in Slots : slots'[t].win = slots[t].win /\ slots'[t].app = slots[t].app
      /\ slots'[s].active = m.on /\ \A t \in Slots \ {s} : slots'[t] = slots[t]
  BY <1>1 DEF SlotsTyped
<1>4. OneSlotEach'
  BY <1>3 DEF Shown, OneSlotEach
<1>5. \A t \in Slots \ {s} : slots[t].win # m.win
  BY <1>1, <1>2 DEF Shown, OneSlotEach
<1>6. ASSUME NEW t \in Slots, slots'[t].win # NoWindow
      PROVE  Shows(t, z)'
  <2>1. Shows(t, x)
    BY <1>3, <1>6 DEF Shown
  <2>2. CASE t = s
    BY <1>1, <1>2, <1>3, <2>1, <2>2 DEF Shows
  <2>3. CASE t # s
    <3>1. slots'[t] = slots[t] /\ slots[t].win # m.win /\ slots[t].win # NoWindow
      BY <1>3, <1>5, <1>6, <2>3
    <3>2. z.active = slots[t].win <=> x.active = slots[t].win
      BY <1>2, <3>1
    <3> QED
      BY <1>2, <2>1, <3>1, <3>2 DEF Shows
  <2> QED
    BY <2>2, <2>3
<1>7. ~crowded' => \A w \in z.open : \E t \in Slots : slots'[t].win = w
  BY <1>1, <1>2, <1>3 DEF Shown
<1>8. Shows(s, x)
  BY <1>1, <1>2 DEF Shown
<1>9. ASSUME ~crowded', z.active # NoWindow
      PROVE  Said' = z.app[z.active]
  <2>1. CASE m.on
    <3>1. ~slots[s].active /\ slots[s].app = x.app[m.win]
      BY <1>1, <1>2, <1>8, <2>1 DEF Shows
    <3>2. say' = x.app[m.win] /\ pc' = "name"
      BY <1>1, <2>1, <3>1
    <3> QED
      BY <1>2, <2>1, <3>2 DEF Said, Publishing
  <2>2. CASE ~m.on
    <3>1. Said' = Said
      BY <1>1, <2>2 DEF Said, Publishing
    <3>2. z.active = x.active /\ x.active # NoWindow
      BY <1>2, <1>9, <2>2
    <3> QED
      BY <1>1, <1>2, <1>9, <3>1, <3>2 DEF Shown
  <2> QED
    BY <2>1, <2>2
<1> QED
  BY <1>4, <1>6, <1>7, <1>9 DEF Shown

LEMMA UnmappedShows ==
  ASSUME SlotsTyped, NEW s \in Slots, plw_unmapped(s), Head(queue) \in PlasmaMessage,
         NEW x \in Snapshots, NEW z \in Snapshots, Shown(x), Leads(x, Head(queue), z)
  PROVE  Shown(z)'
<1> DEFINE m == Head(queue)
<1>1. /\ m.kind = "unmapped" /\ m.win \in Windows /\ slots[s].win = m.win
      /\ slots' = [slots EXCEPT ![s] = FreeSlot] /\ UNCHANGED <<pc, say, hash, crowded>>
  BY DEF plw_unmapped, Freed, Handling, PlasmaMessage
<1>2. /\ m.win \in x.open /\ z.open = x.open \ {m.win}
      /\ \A w \in z.open : z.app[w] = x.app[w]
      /\ z.active = IF x.active = m.win THEN NoWindow ELSE x.active
      /\ m.win # NoWindow /\ x.active \in x.open \cup {NoWindow}
  <2>1. /\ m.win \in x.open
        /\ z = [open |-> x.open \ {m.win}, app |-> [x.app EXCEPT ![m.win] = NoApp],
                active |-> IF x.active = m.win THEN NoWindow ELSE x.active]
    BY <1>1 DEF Leads
  <2> QED
    BY <1>1, <2>1, ListenerAssumption DEF Snapshots
<1> HIDE DEF m
<1>3. slots'[s].win = NoWindow /\ \A t \in Slots \ {s} : slots'[t] = slots[t]
  BY <1>1 DEF SlotsTyped, FreeSlot
<1>4. OneSlotEach'
  BY <1>3 DEF Shown, OneSlotEach
<1>5. \A t \in Slots \ {s} : slots[t].win # m.win
  BY <1>1, <1>2 DEF Shown, OneSlotEach
<1>6. ASSUME NEW t \in Slots, slots'[t].win # NoWindow
      PROVE  Shows(t, z)'
  <2>1. t # s /\ slots'[t] = slots[t] /\ slots[t].win # m.win /\ slots[t].win # NoWindow
    BY <1>3, <1>5, <1>6
  <2>2. Shows(t, x)
    BY <2>1 DEF Shown
  <2>3. z.active = slots[t].win <=> x.active = slots[t].win
    BY <1>2, <2>1
  <2> QED
    BY <1>2, <2>1, <2>2, <2>3 DEF Shows
<1>7. ~crowded' => \A w \in z.open : \E t \in Slots : slots'[t].win = w
  BY <1>1, <1>2, <1>3 DEF Shown
<1>8. ~crowded' /\ z.active # NoWindow => Said' = z.app[z.active]
  <2>1. Said' = Said
    BY <1>1 DEF Said, Publishing
  <2>2. z.active # NoWindow => z.active = x.active /\ z.active \in z.open
    BY <1>2
  <2> QED
    BY <1>1, <1>2, <2>1, <2>2 DEF Shown
<1> QED
  BY <1>4, <1>6, <1>7, <1>8 DEF Shown

LEMMA CallbacksKeepPlasma ==
  ASSUME TypeOK, PlasmaInv, WorldOK',
         \/ plw_register_window \/ Orphan
         \/ \E s \in Slots : plw_app_id_changed(s) \/ plw_state_changed(s) \/ plw_unmapped(s)
  PROVE  PlasmaInv'
<1>1. /\ UNCHANGED <<open, app, active, backend, inbox, eof>>
      /\ backend = "wayland" /\ queue # <<>> /\ queue' = Tail(queue)
  BY DEF plw_register_window, Orphan, plw_app_id_changed, plw_state_changed, plw_unmapped,
         Handling, world
<1>2. Head(queue) \in PlasmaMessage
  BY <1>1, HeadTailProperties DEF PlasmaInv
<1>3. SlotsTyped
  BY DEF TypeOK, SlotsTyped
<1>4. ASSUME NEW x \in Snapshots, NEW z \in Snapshots, Shown(x), Leads(x, Head(queue), z)
      PROVE  Shown(z)'
  BY <1>2, <1>3, <1>4, RegisterShows, OrphanShows, AppIdShows, StateShows, UnmappedShows
<1> QED
  BY <1>1, <1>4, HandledKeeps

LEMMA PlasmaKept ==
  ASSUME TypeOK, FocusInv, PublishInv, PlasmaInv, WorldOK', [Next]_vars
  PROVE  PlasmaInv'
<1>1. CASE World \/ Heartbeat
  BY <1>1, WindowsKeepPlasma
<1>2. CASE Connect
  BY <1>2, ConnectKeepsPlasma
<1>3. CASE \/ PassOver \/ X11Fails \/ GiveUp \/ Sleep
          \/ HandleSaid \/ HandleChanged \/ Fetch \/ FetchClass
  <2>1. /\ UNCHANGED <<open, app, active, backend, slots, crowded>>
        /\ backend # "wayland"
    BY <1>3 DEF PassOver, X11Fails, GiveUp, Sleep, HandleSaid, HandleChanged, Fetch, FetchClass,
                world, link, tables, FocusInv, Stages, NoLink
  <2> QED
    BY <2>1, PlasmaStands
<1>4. CASE Select \/ Quit \/ Main \/ UNCHANGED vars
  <2>1. UNCHANGED <<open, app, active, backend, inbox, queue, eof, slots, crowded, say, hash>>
    BY <1>4 DEF Select, Quit, Main, LoadHash, CopyName, Stop, Wake, Join, vars, world, link, tables,
                spoken
  <2>2. Publishing' <=> Publishing
    BY <1>4 DEF Select, Quit, Main, LoadHash, CopyName, Stop, Wake, Join, vars, Publishing
  <2>3. Said' = Said /\ Underway' = Underway
    BY <2>1, <2>2 DEF Said, Underway
  <2> QED
    BY <2>1, <2>3, PlasmaStands DEF PlasmaInv
<1>5. CASE Selected
  <2>1. /\ UNCHANGED <<open, app, active, backend, eof, slots, crowded, say, hash>>
        /\ pc = "select" /\ pc' \in {"top", "ended"} /\ queue = <<>>
        /\ UNCHANGED <<inbox, queue>> \/ (queue' = queue \o inbox /\ inbox' = <<>>)
    BY <1>5 DEF Selected, world, tables, spoken, FocusInv, Stages
  <2>2. Said' = Said
    BY <2>1 DEF Said, Publishing
  <2>3. ASSUME backend = "wayland"
        PROVE  /\ queue' \in Seq(PlasmaMessage) /\ inbox' \in Seq(PlasmaMessage)
               /\ Underway' = Underway
    <3>1. inbox \in Seq(PlasmaMessage) /\ queue \in Seq(PlasmaMessage)
      BY <2>3 DEF PlasmaInv
    <3>2. <<>> \o inbox = inbox /\ inbox \o <<>> = inbox
      BY <3>1, ConcatEmptySeq
    <3> QED
      BY <2>1, <3>1, <3>2 DEF Underway
  <2> QED
    BY <2>1, <2>2, <2>3, PlasmaStands
<1>6. CASE \/ plw_register_window \/ Orphan
           \/ \E s \in Slots : plw_app_id_changed(s) \/ plw_state_changed(s) \/ plw_unmapped(s)
  BY <1>6, CallbacksKeepPlasma
<1>7. CASE PublishName \/ PublishHash
  <2>1. UNCHANGED <<open, app, active, backend, inbox, queue, eof, slots, crowded, say>>
    BY <1>7 DEF PublishName, PublishHash, world, link, tables
  <2>2. Said' = Said
    <3>1. CASE PublishName
      BY <3>1 DEF PublishName, WriteFirst, Said, Publishing
    <3>2. CASE PublishHash
      <4>1. pc = "hash" /\ pc' = "top" /\ hash'.app = say
        BY <3>2, PublicationIsLater DEF PublishHash
      <4> QED
        BY <4>1 DEF Said, Publishing
    <3> QED
      BY <1>7, <3>1, <3>2
  <2>3. Underway' = Underway
    BY <2>1 DEF Underway
  <2> QED
    BY <2>1, <2>2, <2>3, PlasmaStands DEF PlasmaInv
<1> QED
  BY <1>1, <1>2, <1>3, <1>4, <1>5, <1>6, <1>7 DEF Next, Thread

(* What every state of the listener keeps to: its parts hold each other up. *)
ListenerInv == TypeOK /\ PublishInv /\ FocusInv /\ PlasmaInv

LEMMA ListenerInvInitially == Init => ListenerInv
BY TypeInitially, PublishInvInitially, FocusInvInitially, PlasmaInitially DEF ListenerInv

LEMMA ListenerInvKept == ListenerInv /\ [Next]_vars => ListenerInv'
<1> SUFFICES ASSUME ListenerInv, [Next]_vars
             PROVE  ListenerInv'
  OBVIOUS
<1>1. TypeOK /\ PublishInv /\ FocusInv /\ PlasmaInv
  BY DEF ListenerInv
<1>2. PublishInv' /\ FocusInv'
  BY <1>1, PublishInvKept, FocusInvKept
<1>3. WorldOK'
  BY <1>2 DEF FocusInv
<1>4. TypeOK' /\ PlasmaInv'
  BY <1>1, <1>3, TypeKept, PlasmaKept
<1> QED
  BY <1>2, <1>4 DEF ListenerInv

(* The invariant behind the three theorems below: types, the publication in *)
(* order, the focus on the backends told of it, and Plasma's slots.         *)
THEOREM ListenerInvariant == Spec => []ListenerInv
BY ListenerInvInitially, ListenerInvKept, PTL DEF Spec

(* Every message a callback reads, every slot and every published app is    *)
(* one there is, and the probes stay within their table and their attempts. *)
THEOREM TypesHold == Spec => []TypeOK
<1>1. ListenerInv => TypeOK
  BY DEF ListenerInv
<1> QED
  BY <1>1, ListenerInvariant, PTL

(* While the thread sleeps on Plasma, the slots show the windows as they are*)
(* and the hash is the focused one's.                                       *)
LEMMA AsleepOnPlasma ==
  ASSUME ListenerInv, Asleep, backend = "wayland"
  PROVE  Shown(Now)
<1>1. /\ pc = "select" /\ queue = <<>> /\ inbox = <<>> /\ ~eof
  BY DEF ListenerInv, FocusInv, Stages, Asleep
<1>2. PICK x \in Snapshots, y \in Snapshots :
        Shown(x) /\ Unfolds(x, Underway, y) /\ (~eof => y = Now)
  BY DEF ListenerInv, PlasmaInv, InTime
<1>3. Underway = <<>>
  <2>1. <<>> \o <<>> = <<>>
    BY EmptySeq, ConcatEmptySeq
  <2> QED
    BY <1>1, <2>1 DEF Underway
<1>4. x = y /\ y = Now
  BY <1>1, <1>2, <1>3, UnfoldsNothing
<1> QED
  BY <1>2, <1>4

(* Plasma's slots: no window ever has two, and with every message read they *)
(* hold the open windows, all of them while none was turned away; for any   *)
(* number of windows, slots and messages on the way.                        *)
THEOREM SlotsHoldWindows == Spec => []SlotsAreWindows
<1>1. ASSUME ListenerInv PROVE SlotsAreWindows
  <2>1. OneSlotEach
    <3>1. CASE backend = "wayland"
      BY <1>1, <3>1 DEF ListenerInv, PlasmaInv, InTime, Shown
    <3>2. CASE backend # "wayland"
      <4>1. \A s \in Slots : slots[s].win = NoWindow
        BY <1>1, <3>2 DEF ListenerInv, PlasmaInv, FreeSlot
      <4> QED
        BY <4>1 DEF OneSlotEach
    <3> QED
      BY <3>1, <3>2
  <2> DEFINE held == {slots[s].win : s \in Slots} \ {NoWindow}
  <2>2. ASSUME Asleep, backend = "wayland"
        PROVE  held \subseteq open /\ (~crowded => open \subseteq held)
    <3>1. Shown(Now)
      BY <1>1, <2>2, AsleepOnPlasma
    <3>2. NoWindow \notin open
      BY <1>1, ListenerAssumption DEF ListenerInv, TypeOK
    <3> QED
      BY <3>1, <3>2 DEF Shown, Shows, Now
  <2>3. Asleep /\ backend = "wayland" => IF crowded THEN held \subseteq open ELSE held = open
    BY <2>2
  <2> QED
    BY <2>1, <2>3 DEF SlotsAreWindows, OneSlotEach
<1> QED
  BY <1>1, ListenerInvariant, PTL

(* No focus change is lost between the socket, a library's queue, the round *)
(* trips and the slots: for any number of windows, apps and messages,       *)
(* whenever the thread sleeps, the hash is that of the focused window.      *)
THEOREM HashFollowsFocus == Spec => []HashIsFocus
<1>1. ASSUME ListenerInv, Asleep
      PROVE  X11Follows /\ HyprFollows /\ KWinFollows
  BY <1>1, FocusIsHash DEF ListenerInv
<1>2. ASSUME ListenerInv, Asleep
      PROVE  PlasmaFollows
  <2>1. SUFFICES ASSUME backend = "wayland", ~crowded, active # NoWindow
                 PROVE  hash.app = AppOf(active)
    BY DEF PlasmaFollows
  <2>2. Shown(Now)
    BY <1>2, <2>1, AsleepOnPlasma
  <2>3. Said = hash.app
    BY <1>2 DEF Asleep, Said, Publishing
  <2> QED
    BY <2>1, <2>2, <2>3 DEF Shown, Now, AppOf
<1>3. ListenerInv => HashIsFocus
  BY <1>1, <1>2 DEF HashIsFocus
<1> QED
  BY <1>3, ListenerInvariant, PTL

=============================================================================
