---------------------------- MODULE DaemonProofs -----------------------------
(***************************************************************************)
(* Proofs about Daemon, for any number of connections, slots and ready     *)
(* descriptors, any buffer and any files: the slots are the connections,   *)
(* every reply answers a question, and the deferred ack of a reload goes   *)
(* to the client that asked.                                               *)
(***************************************************************************)
EXTENDS Daemon, FiniteSetTheorems, SequenceTheorems, WellFoundedInduction, TLAPS

LEMMA Kinds ==
  /\ Listen \notin Conns /\ Device \notin Conns
  /\ Part \notin Commands /\ NoCmd \notin Commands
  /\ Commands \subseteq Pieces /\ Part \in Pieces
  /\ NoFd \notin Fds /\ Fds \subseteq Nat
  /\ \A piece \in Pieces : piece # Part => piece \in Commands
  BY DaemonAssumption DEF Listen, Device, Part, NoCmd, Pieces, NoFd, Fds

LEMMA ConnsFinite ==
  /\ IsFiniteSet(Conns) /\ Cardinality(Conns) \in Nat
  /\ IsFiniteSet(Fds) /\ Cardinality(Fds) = Cardinality(Conns)
<1>1. IsFiniteSet(Conns) /\ Cardinality(Conns) \in Nat
  BY DaemonAssumption, FS_CardinalityType
<1>2. IsFiniteSet(Fds) /\ Cardinality(Fds) = Cardinality(Conns)
  BY <1>1, FS_Interval DEF Fds
<1> QED  BY <1>1, <1>2

(* A set of numbers that is not empty has a least one.                      *)
LEMMA LeastOf ==
  ASSUME NEW S, S \subseteq Nat, S # {}
  PROVE  \E m \in S : \A n \in S : m <= n
<1> DEFINE less == OpToRel(<, Nat)
<1>1. \A u, s \in Nat : u < s => <<u, s>> \in less  BY DEF OpToRel
<1>2. IsWellFoundedOn(less, Nat)  BY NatLessThanWellFounded
<1> HIDE DEF less
<1>3. PICK m \in S : \A n \in S : ~(<<n, m>> \in less)
  BY <1>2, WFMin, Zenon
<1>4. \A n \in S : ~(n < m)
  BY <1>1, <1>3, Zenon
<1> QED  BY <1>4

(* While a connection is not open some descriptor is free, so accept4 finds *)
(* one.                                                                     *)
LEMMA NewFdIsFree ==
  ASSUME NEW c \in Conns, ~Open(c)
  PROVE  NewFd \in Fds /\ OwnerOf(NewFd) = {}
<1> DEFINE Free == {fd \in Fds : OwnerOf(fd) = {}}
           Others == Conns \ {c}
<1>1. Free # {}
  <2> SUFFICES ASSUME \A fd \in Fds : OwnerOf(fd) # {}
               PROVE  FALSE
    OBVIOUS
  <2> DEFINE f == [fd \in Fds |-> CHOOSE k \in OwnerOf(fd) : TRUE]
  <2>1. \A fd \in Fds : f[fd] \in OwnerOf(fd)
    OBVIOUS
  <2>2. f \in [Fds -> Others]
    BY <2>1 DEF OwnerOf
  <2>3. IsFiniteSet(Others) /\ Cardinality(Others) < Cardinality(Fds)
    <3>1. IsFiniteSet(Others) /\ Cardinality(Others) = Cardinality(Conns) - 1
      BY ConnsFinite, FS_RemoveElement, Zenon
    <3> QED  BY <3>1, ConnsFinite
  <2> HIDE DEF f, Others
  <2>4. \E x, y \in Fds : x # y /\ f[x] = f[y]
    BY <2>2, <2>3, ConnsFinite, FS_PigeonHole
  <2> QED  BY <2>1, <2>4 DEF OwnerOf
<1>2. PICK m \in Free : \A n \in Free : m <= n
  BY <1>1, LeastOf, Kinds
<1>3. \A g \in Fds : g < m => OwnerOf(g) # {}
  BY <1>2, Kinds
<1> QED  BY <1>2, <1>3 DEF NewFd

LEMMA FirstFreeIsFree ==
  ASSUME FreeSlots # {}
  PROVE  FirstFree \in FreeSlots
<1>1. FreeSlots \subseteq Nat  BY DaemonAssumption DEF FreeSlots, Slots
<1>2. \E s \in FreeSlots : \A t \in FreeSlots : s <= t  BY <1>1, LeastOf
<1> QED  BY <1>2 DEF FirstFree

(* An open connection has one slot.                                         *)
LEMMA SlotOfOpen ==
  ASSUME SlotsAreConnections, LoopIsSound, NEW c \in Conns, Open(c)
  PROVE  /\ SlotOf(c) \in Slots /\ slots[SlotOf(c)].fd = conn[c].fd
         /\ conn[c].fd # NoFd
         /\ \A s \in Slots : slots[s].fd = conn[c].fd => s = SlotOf(c)
<1>1. conn[c].fd # NoFd  BY DEF LoopIsSound
<1>2. PICK s \in Slots : slots[s].fd = conn[c].fd
  BY DEF SlotsAreConnections
<1>3. SlotOf(c) \in Slots /\ slots[SlotOf(c)].fd = conn[c].fd
  BY <1>2 DEF SlotOf
<1> QED  BY <1>1, <1>3 DEF SlotsAreConnections, FreeSlots

LEMMA InitInv == Init => IInv
<1> SUFFICES ASSUME Init PROVE IInv
  OBVIOUS
<1> USE DEF Init
<1>1. Idle \in Connections /\ conn \in [Conns -> Connections]
  BY DEF Idle, Connections, Versions, NoFiles
<1>2. TypeOK
  <2>1. disk \in Versions /\ live \in Versions
    BY DEF Versions
  <2>2. slots \in [Slots -> [fd : Fds \cup {NoFd}, recv_len : 0 .. RecvBuf]]
    BY DaemonAssumption DEF FreeSlot
  <2>3. chunk \in Seq(Pieces) /\ backlog \in Seq(Conns)
    OBVIOUS
  <2>4. /\ pc = "test" /\ batch = {} /\ cur = Listen /\ stop \in BOOLEAN /\ reload \in BOOLEAN
        /\ torn \in BOOLEAN /\ pending = NoFd /\ mouse = "quiet"
    OBVIOUS
  <2> HIDE DEF Init
  <2> QED  BY <1>1, <2>1, <2>2, <2>3, <2>4 DEF TypeOK
<1>3. \A c \in Conns : conn[c] = Idle /\ ~Open(c)
  BY DEF Open, Idle
<1>4. SlotsAreConnections
  BY <1>3 DEF SlotsAreConnections, FreeSlots, FreeSlot
<1>5. LoopIsSound /\ QueueIsSound
  BY <1>3 DEF LoopIsSound, QueueIsSound, Idle
<1>6. Speech /\ QuestionsFirst /\ RepliesMatch /\ DoneMeansLive
  BY <1>3 DEF Speech, LastWord, QuestionsFirst, RepliesMatch, DoneMeansLive, Unanswered, Idle
<1>7. AckIsDue
  BY DEF AckIsDue
<1> QED  BY <1>2, <1>4, <1>5, <1>6, <1>7 DEF IInv

-----------------------------------------------------------------------------
(* Steps that neither touch a connection nor read from one.                 *)

LEMMA Untouched ==
  ASSUME IInv, UNCHANGED <<slots, conn, cur, chunk>>,
         disk' \in Versions, disk.config <= disk'.config, disk.rules <= disk'.rules
  PROVE  SlotsAreConnections' /\ Speech' /\ QuestionsFirst' /\ RepliesMatch' /\ DoneMeansLive'
<1>1. SlotsAreConnections'
  BY DEF IInv, SlotsAreConnections, FreeSlots, Open
<1>2. Speech'
  BY DEF IInv, Speech, LastWord
<1>3. RepliesMatch' /\ DoneMeansLive'
  BY DEF IInv, RepliesMatch, DoneMeansLive, Unanswered, InHand, Open
<1>4. QuestionsFirst'
  <2>1. \A c \in Conns : /\ conn[c].since.config \in Nat /\ conn[c].since.rules \in Nat
    BY DEF IInv, TypeOK, Connections, Versions
  <2>2. disk.config \in Nat /\ disk.rules \in Nat /\ disk'.config \in Nat /\ disk'.rules \in Nat
    BY DEF IInv, TypeOK, Versions
  <2> QED  BY <2>1, <2>2 DEF IInv, QuestionsFirst, InHand
<1> QED  BY <1>1, <1>2, <1>3, <1>4

LEMMA FilesInv == IInv /\ (Truncate \/ Fill \/ RenameRules) => IInv'
<1> SUFFICES ASSUME IInv, Truncate \/ Fill \/ RenameRules
             PROVE  IInv'
  OBVIOUS
<1> USE DEF loop, flags
<1>1. UNCHANGED <<pc, batch, cur, chunk, stop, reload, pending, slots, conn, backlog, mouse, live>>
  BY DEF Truncate, Fill, RenameRules
<1>2. disk' \in Versions /\ disk.config <= disk'.config /\ disk.rules <= disk'.rules
  BY DEF IInv, TypeOK, Versions, Truncate, Fill, RenameRules
<1>3. torn' \in BOOLEAN
  BY DEF IInv, TypeOK, Truncate, Fill, RenameRules
<1>4. TypeOK'
  BY <1>1, <1>2, <1>3 DEF IInv, TypeOK
<1>5. LoopIsSound' /\ QueueIsSound' /\ AckIsDue'
  BY <1>1 DEF IInv, LoopIsSound, QueueIsSound, AckIsDue, Requester, InHand, Open, Room, SlotOf
<1> QED  BY <1>1, <1>2, <1>4, <1>5, Untouched DEF IInv

(* The world's other moves, and those of the loop between its handlers.     *)
LEMMA MovesInv ==
  ASSUME IInv,
         \/ \E now \in MouseEvents : Mouse(now)
         \/ SigTerm \/ SigHup \/ EnterWait \/ EpollWait \/ EndBatch
         \/ ServeDevice \/ ServeListener \/ EndAccept
  PROVE  IInv'
<1> USE DEF loop, flags, files
<1> DEFINE Step == \/ \E now \in MouseEvents : Mouse(now)
                   \/ SigTerm \/ SigHup \/ EnterWait \/ EpollWait \/ EndBatch
                   \/ ServeDevice \/ ServeListener \/ EndAccept
<1>0. Step
  OBVIOUS
<1>1. UNCHANGED <<cur, chunk, pending, slots, conn, backlog, disk, live, torn>>
  BY DEF Mouse, SigTerm, SigHup, EnterWait, EpollWait, EndBatch, ServeDevice, ServeListener,
         EndAccept
<1>2. SlotsAreConnections' /\ Speech' /\ QuestionsFirst' /\ RepliesMatch' /\ DoneMeansLive'
  <2>1. disk' = disk /\ disk \in Versions /\ disk.config \in Nat /\ disk.rules \in Nat
    BY <1>1 DEF IInv, TypeOK, Versions
  <2> QED  BY <1>1, <2>1, Untouched
<1>3. Ready \subseteq Conns \cup {Listen, Device} /\ \A c \in Ready \cap Conns : Open(c)
  BY Kinds DEF Ready, Readable
<1>4. pc = "wait" => \A b \in Batches : b \subseteq Ready
  BY DEF Batches
<1>5. /\ batch' \subseteq batch \/ (pc = "wait" /\ pc' = "batch" /\ batch' \subseteq Ready)
      /\ stop' \in BOOLEAN /\ reload' \in BOOLEAN /\ (reload => reload')
      /\ mouse' \in {"quiet", "moved", "gone"}
  BY <1>0, <1>4, DaemonAssumption DEF Mouse, SigTerm, SigHup, EnterWait, EpollWait, EndBatch, ServeDevice,
         ServeListener, EndAccept, IInv, TypeOK
<1>6. \/ pc' = pc
      \/ pc = "wait" /\ pc' \in {"test", "batch"}
      \/ pc = "enter" /\ pc' = "wait"
      \/ pc = "batch" /\ pc' = "test" /\ batch' = {}
      \/ pc = "batch" /\ pc' = "accept"
      \/ pc = "accept" /\ pc' = "batch"
  BY <1>0 DEF Mouse, SigTerm, SigHup, EnterWait, EpollWait, EndBatch, ServeDevice,
         ServeListener, EndAccept, Interrupted
<1>7. TypeOK'
  BY <1>1, <1>3, <1>5, <1>6 DEF IInv, TypeOK
<1>8. LoopIsSound'
  <2>1. \A c \in Conns : (Open(c))' = Open(c) /\ (Room(c))' = Room(c)
    BY <1>1 DEF Open, Room, SlotOf
  <2> HIDE DEF Step
  <2> QED  BY <1>1, <1>3, <1>5, <1>6, <2>1 DEF IInv, LoopIsSound
<1>9. QueueIsSound'
  BY <1>1, <1>6 DEF IInv, QueueIsSound
<1>10. AckIsDue'
  <2> SUFFICES ASSUME pending' # NoFd, pc' # "gone"
               PROVE  reload' /\ pc' \notin {"enter", "wait"} /\ (\E c \in Conns : Requester(c))'
    BY DEF AckIsDue
  <2>1. reload /\ pc \notin {"enter", "wait"} /\ \E c \in Conns : Requester(c)
    BY <1>1, <1>6 DEF IInv, AckIsDue
  <2>2. \A c \in Conns : Requester(c) => Requester(c)'
    BY <1>1, <1>5, <2>1 DEF Requester, InHand, Open
  <2> QED  BY <1>5, <1>6, <2>1, <2>2
<1> QED  BY <1>2, <1>7, <1>8, <1>9, <1>10 DEF IInv

-----------------------------------------------------------------------------
(* Steps that leave descriptors and slots as they are.                      *)

LEMMA SameSeats ==
  ASSUME SlotsAreConnections, slots' = slots,
         \A c \in Conns : (conn'[c].state = "open" <=> conn[c].state = "open")
                          /\ conn'[c].fd = conn[c].fd
  PROVE  /\ SlotsAreConnections'
         /\ \A c \in Conns : (Open(c))' = Open(c) /\ (SlotOf(c))' = SlotOf(c) /\ (Room(c))' = Room(c)
<1>1. \A c \in Conns : (Open(c))' = Open(c) /\ (SlotOf(c))' = SlotOf(c) /\ (Room(c))' = Room(c)
  BY DEF Open, SlotOf, Room
<1>2. FreeSlots' = FreeSlots
  BY DEF FreeSlots
<1>3. {conn'[c].fd : c \in {k \in Conns : (Open(k))'}} = {conn[c].fd : c \in {k \in Conns : Open(k)}}
  BY <1>1
<1> QED  BY <1>1, <1>2, <1>3 DEF SlotsAreConnections

LEMMA ConnectInv == ASSUME IInv, NEW c \in Conns, Connect(c) PROVE IInv'
<1> USE DEF loop, flags, files
<1> DEFINE k == [Idle EXCEPT !.state = "queued"]
<1>1. /\ UNCHANGED <<pc, batch, cur, chunk, stop, reload, pending, slots, mouse, disk, live, torn>>
      /\ backlog' = Append(backlog, c) /\ backlog \in Seq(Conns)
      /\ pc # "gone"
  BY DEF Connect, IInv, TypeOK
<1>2. conn[c] = Idle /\ conn \in [Conns -> Connections]
  BY DEF Connect, IInv, QueueIsSound, TypeOK
<1>3. conn' = [conn EXCEPT ![c] = k]
  BY <1>2 DEF Connect
<1>4. k \in Connections /\ conn' \in [Conns -> Connections]
  BY <1>2, <1>3 DEF Idle, Connections, Versions, NoFiles
<1>5. /\ conn'[c] = k /\ k.state = "queued" /\ k.fd = NoFd /\ ~k.hung /\ k.wire = <<>>
      /\ k.cmd = NoCmd /\ k.reply = NoCmd
      /\ \A d \in Conns \ {c} : conn'[d] = conn[d]
  BY <1>2, <1>3 DEF Idle
<1>6. conn[c].state = "idle" /\ conn[c].fd = NoFd
  BY <1>2 DEF Idle
<1> HIDE DEF k
<1>7. TypeOK'
  BY <1>1, <1>4 DEF IInv, TypeOK
<1>8. /\ SlotsAreConnections'
      /\ \A d \in Conns : (Open(d))' = Open(d) /\ (Room(d))' = Room(d)
  BY <1>1, <1>5, <1>6, SameSeats DEF IInv
<1>9. LoopIsSound'
  BY <1>1, <1>5, <1>6, <1>8 DEF IInv, LoopIsSound
<1>10. QueueIsSound'
  <2>1. \A i \in DOMAIN backlog : backlog[i] # c /\ backlog[i] \in Conns
    BY <1>1, <1>6 DEF IInv, QueueIsSound
  <2>2. /\ DOMAIN backlog' = 1 .. Len(backlog) + 1 /\ Len(backlog) \in Nat
        /\ DOMAIN backlog = 1 .. Len(backlog)
        /\ \A i \in DOMAIN backlog : backlog'[i] = backlog[i]
        /\ backlog'[Len(backlog) + 1] = c
    BY <1>1
  <2> QED  BY <1>1, <1>5, <2>1, <2>2 DEF IInv, QueueIsSound
<1>11. Speech' /\ QuestionsFirst' /\ RepliesMatch' /\ DoneMeansLive'
  <2>1. Speech'
    BY <1>1, <1>5, <1>6, <1>9, Kinds DEF IInv, Speech, LastWord, LoopIsSound, Open
  <2>2. QuestionsFirst'
    BY <1>1, <1>5 DEF IInv, QuestionsFirst, InHand
  <2>3. RepliesMatch' /\ DoneMeansLive'
    BY <1>1, <1>5 DEF IInv, RepliesMatch, DoneMeansLive, Unanswered, InHand, Open, NoCmd
  <2> QED  BY <2>1, <2>2, <2>3
<1>12. AckIsDue'
  BY <1>1, <1>5, <1>6 DEF IInv, AckIsDue, Requester, InHand, Open
<1> QED  BY <1>7, <1>8, <1>9, <1>10, <1>11, <1>12 DEF IInv

LEMMA ReceiveInv == ASSUME IInv, NEW c \in Conns, Receive(c) PROVE IInv'
<1> USE DEF loop, flags, files
<1> DEFINE k == Forgetful(conn[c])
<1>1. UNCHANGED <<pc, batch, cur, chunk, stop, reload, pending, slots, backlog, mouse, disk, live, torn>>
  BY DEF Receive
<1>2. conn \in [Conns -> Connections] /\ conn[c] \in Connections /\ conn[c].reply # NoCmd
  BY DEF Receive, IInv, TypeOK
<1>3. conn' = [conn EXCEPT ![c] = k]
  BY DEF Receive
<1>4. k \in Connections /\ conn' \in [Conns -> Connections]
  BY <1>2, <1>3 DEF Forgetful, Connections, Versions, NoFiles
<1>5. /\ conn'[c] = k /\ k.state = conn[c].state /\ k.fd = conn[c].fd /\ k.hung = conn[c].hung
      /\ k.wire = conn[c].wire /\ k.cmd = NoCmd /\ k.reply = NoCmd
      /\ \A d \in Conns \ {c} : conn'[d] = conn[d]
  BY <1>2, <1>3 DEF Forgetful, Connections
<1>6. conn[c].state # "idle"
  BY <1>2 DEF IInv, QueueIsSound, Idle
<1> HIDE DEF k
<1>7. TypeOK'
  BY <1>1, <1>4 DEF IInv, TypeOK
<1>8. /\ SlotsAreConnections'
      /\ \A d \in Conns : (Open(d))' = Open(d) /\ (Room(d))' = Room(d)
  BY <1>1, <1>5, SameSeats DEF IInv
<1>9. LoopIsSound'
  BY <1>1, <1>5, <1>8 DEF IInv, LoopIsSound
<1>10. QueueIsSound'
  BY <1>1, <1>5, <1>6 DEF IInv, QueueIsSound, TypeOK
<1>11. Speech' /\ QuestionsFirst' /\ RepliesMatch' /\ DoneMeansLive'
  <2>1. Speech'
    BY <1>1, <1>2, <1>5 DEF IInv, Speech, LastWord
  <2>2. QuestionsFirst'
    BY <1>1, <1>2, <1>5 DEF IInv, QuestionsFirst, InHand
  <2>3. RepliesMatch' /\ DoneMeansLive'
    BY <1>1, <1>5 DEF IInv, RepliesMatch, DoneMeansLive, Unanswered, InHand, Open, NoCmd
  <2> QED  BY <2>1, <2>2, <2>3
<1>12. AckIsDue'
  <2>1. \A d \in Conns : Requester(d) => Requester(d)'
    BY <1>1, <1>2, <1>5 DEF IInv, Speech, Requester, InHand, Open
  <2> QED  BY <1>1, <2>1 DEF IInv, AckIsDue
<1> QED  BY <1>7, <1>8, <1>9, <1>10, <1>11, <1>12 DEF IInv

LEMMA HangUpInv == ASSUME IInv, NEW c \in Conns, HangUp(c) PROVE IInv'
<1> USE DEF loop, flags, files
<1> DEFINE k == IF conn[c].state = "shut" THEN Idle ELSE [Forgetful(conn[c]) EXCEPT !.hung = TRUE]
<1>1. UNCHANGED <<pc, batch, cur, chunk, stop, reload, pending, slots, backlog, mouse, disk, live, torn>>
  BY DEF HangUp
<1>2. /\ conn \in [Conns -> Connections] /\ conn[c] \in Connections
      /\ conn[c].state # "idle" /\ ~conn[c].hung
  BY DEF HangUp, IInv, TypeOK
<1>3. conn' = [conn EXCEPT ![c] = k]
  BY DEF HangUp
<1>4. k \in Connections /\ conn' \in [Conns -> Connections]
  <2>1. Idle \in Connections
    BY DEF Idle, Connections, Versions, NoFiles
  <2>2. [Forgetful(conn[c]) EXCEPT !.hung = TRUE] \in Connections
    BY <1>2 DEF Forgetful, Connections, Versions, NoFiles
  <2> QED  BY <1>2, <1>3, <2>1, <2>2
<1>5. /\ conn'[c] = k /\ k.cmd = NoCmd /\ k.reply = NoCmd
      /\ \/ conn[c].state = "shut" /\ k = Idle /\ k.state = "idle" /\ k.fd = NoFd /\ k.wire = <<>>
         \/ /\ conn[c].state # "shut" /\ k.state = conn[c].state /\ k.fd = conn[c].fd /\ k.hung
            /\ k.wire = conn[c].wire
      /\ \A d \in Conns \ {c} : conn'[d] = conn[d]
  BY <1>2, <1>3 DEF Forgetful, Connections, Idle
<1>6. conn[c].state = "shut" => conn[c].fd = NoFd
  BY DEF IInv, LoopIsSound, Open
<1> HIDE DEF k
<1>7. TypeOK'
  BY <1>1, <1>4 DEF IInv, TypeOK
<1>8. /\ SlotsAreConnections'
      /\ \A d \in Conns : (Open(d))' = Open(d) /\ (Room(d))' = Room(d)
  BY <1>1, <1>5, <1>6, SameSeats DEF IInv
<1>9. LoopIsSound'
  BY <1>1, <1>5, <1>6, <1>8 DEF IInv, LoopIsSound
<1>10. QueueIsSound'
  <2>1. /\ conn'[c].state # "queued" => conn[c].state # "queued"
        /\ conn'[c].state = "idle" => conn'[c] = Idle
        /\ conn'[c].state # "shut"
        /\ pc = "gone" => conn'[c].state \in {"idle", "shut"}
    BY <1>2, <1>5 DEF IInv, QueueIsSound
  <2>2. \A i \in DOMAIN backlog : backlog[i] \in Conns
    BY DEF IInv, TypeOK
  <2>3. \A i \in DOMAIN backlog : conn'[backlog[i]].state = "queued"
    BY <1>5, <2>1, <2>2 DEF IInv, QueueIsSound
  <2>4. ASSUME NEW d \in Conns
        PROVE  /\ conn'[d].state = "idle" => conn'[d] = Idle
               /\ conn'[d].state = "shut" => conn'[d].wire = <<>> /\ ~conn'[d].hung
    BY <1>5, <2>1 DEF IInv, QueueIsSound
  <2>5. pc = "gone" => \A d \in Conns : conn'[d].state \in {"idle", "shut"}
    BY <1>5, <2>1 DEF IInv, QueueIsSound
  <2> QED  BY <1>1, <2>3, <2>4, <2>5 DEF IInv, QueueIsSound
<1>11. Speech' /\ QuestionsFirst' /\ RepliesMatch' /\ DoneMeansLive'
  <2>1. Speech'
    <3>1. conn[c].state = "shut" => cur # c
      BY Kinds DEF IInv, LoopIsSound, Open
    <3>2. conn[c].state = "shut" => ~k.hung
      BY <1>5 DEF Idle
    <3> QED  BY <1>1, <1>2, <1>5, <3>1, <3>2 DEF IInv, Speech, LastWord
  <2>2. QuestionsFirst'
    BY <1>1, <1>2, <1>5 DEF IInv, QuestionsFirst, InHand
  <2>3. RepliesMatch' /\ DoneMeansLive'
    BY <1>1, <1>5 DEF IInv, RepliesMatch, DoneMeansLive, Unanswered, InHand, Open, NoCmd
  <2> QED  BY <2>1, <2>2, <2>3
<1>12. AckIsDue'
  <2>1. \A d \in Conns : Requester(d) => Requester(d)'
    BY <1>1, <1>2, <1>5 DEF Requester, InHand, Open
  <2> QED  BY <1>1, <2>1 DEF IInv, AckIsDue
<1> QED  BY <1>7, <1>8, <1>9, <1>10, <1>11, <1>12 DEF IInv

(* What a client says next goes behind what it said, none of which is a     *)
(* command.                                                                 *)
LEMMA SendInv == ASSUME IInv, NEW c \in Conns, NEW piece \in Pieces, Send(c, piece) PROVE IInv'
<1> USE DEF loop, flags, files
<1> DEFINE wire == Append(conn[c].wire, piece)
           cmd  == IF piece \in Commands THEN piece ELSE NoCmd
           k    == Saying(conn[c], piece)
<1>1. UNCHANGED <<pc, batch, cur, chunk, stop, reload, pending, slots, backlog, mouse, disk, live, torn>>
  BY DEF Send
<1>2. /\ conn \in [Conns -> Connections] /\ conn[c] \in Connections
      /\ conn[c].state \in {"queued", "open"} /\ ~conn[c].hung /\ conn[c].cmd = NoCmd
      /\ disk \in Versions
  BY DEF Send, IInv, TypeOK
<1>3. conn' = [conn EXCEPT ![c] = k]
  BY DEF Send
<1>4. k \in Connections /\ conn' \in [Conns -> Connections]
  <2>1. Append(conn[c].wire, piece) \in Seq(Pieces)
    BY <1>2 DEF Connections
  <2>2. k \in Connections
    BY <1>2, <2>1 DEF Connections, Versions, Saying
  <2> QED  BY <1>2, <1>3, <2>2
<1>5. /\ conn'[c] = k /\ k.cmd = cmd /\ k.reply = conn[c].reply /\ k.seen = conn[c].seen
      /\ k.state = conn[c].state /\ k.fd = conn[c].fd /\ k.hung = conn[c].hung /\ k.wire = wire
      /\ piece \in Commands => k.since = disk
      /\ \A d \in Conns \ {c} : conn'[d] = conn[d]
  BY <1>2, <1>3 DEF Connections, Saying
<1>6. conn[c].reply = NoCmd
  BY <1>2 DEF IInv, RepliesMatch
<1>7. /\ Len(conn[c].wire) \in Nat /\ DOMAIN conn[c].wire = 1 .. Len(conn[c].wire)
      /\ Len(wire) = Len(conn[c].wire) + 1 /\ DOMAIN wire = 1 .. Len(wire)
      /\ \A i \in DOMAIN conn[c].wire : wire[i] = conn[c].wire[i]
      /\ wire[Len(wire)] = piece
      /\ \A i \in DOMAIN wire : i \in DOMAIN conn[c].wire \/ i = Len(wire)
  BY <1>2 DEF Connections
<1>8. /\ \A i \in DOMAIN conn[c].wire : conn[c].wire[i] = Part
      /\ cur = c => \A i \in DOMAIN chunk : chunk[i] = Part
  <2>1. /\ \A i \in DOMAIN conn[c].wire : conn[c].wire[i] \in Pieces
        /\ \A i \in DOMAIN chunk : chunk[i] \in Pieces
    BY <1>2 DEF Connections, IInv, TypeOK
  <2> QED  BY <1>2, <2>1, Kinds DEF IInv, Speech, LastWord
<1> HIDE DEF k, wire, cmd
<1>9. TypeOK'
  BY <1>1, <1>4 DEF IInv, TypeOK
<1>10. /\ SlotsAreConnections'
       /\ \A d \in Conns : (Open(d))' = Open(d) /\ (Room(d))' = Room(d)
  BY <1>1, <1>5, SameSeats DEF IInv
<1>11. LoopIsSound'
  BY <1>1, <1>5, <1>10 DEF IInv, LoopIsSound
<1>12. QueueIsSound'
  <2>1. \A i \in DOMAIN backlog : backlog[i] \in Conns
    BY DEF IInv, TypeOK
  <2>2. \A d \in Conns : conn'[d].state = conn[d].state
    BY <1>5
  <2>3. \A d \in Conns : conn[d].state \in {"idle", "shut"} => conn'[d] = conn[d]
    BY <1>2, <1>5
  <2> QED  BY <1>1, <2>1, <2>2, <2>3 DEF IInv, QueueIsSound
<1>13. Speech'
  <2>1. LastWord(c, conn[c].wire)'
    <3>1. conn'[c].wire = wire /\ conn'[c].cmd = cmd /\ conn'[c].reply = NoCmd
      BY <1>5, <1>6
    <3>2. \A i \in DOMAIN wire : wire[i] # Part => i = Len(wire) /\ piece # Part
      BY <1>7, <1>8
    <3>3. piece # Part => cmd = piece
      BY Kinds DEF cmd
    <3> QED  BY <1>7, <3>1, <3>2, <3>3 DEF LastWord
  <2>2. cur = c => LastWord(c, chunk)' /\ \A i \in DOMAIN chunk : chunk[i] = Part
    BY <1>1, <1>8 DEF LastWord
  <2>3. \A d \in Conns \ {c} : /\ LastWord(d, conn[d].wire) => LastWord(d, conn[d].wire)'
                               /\ LastWord(d, chunk) => LastWord(d, chunk)'
    BY <1>1, <1>5 DEF LastWord
  <2> QED  BY <1>1, <1>2, <1>5, <2>1, <2>2, <2>3 DEF IInv, Speech
<1>14. cmd # NoCmd => InHand(c)'
  BY <1>5, <1>7 DEF InHand, cmd
<1>15. \A d \in Conns \ {c} : InHand(d)' = InHand(d)
  BY <1>1, <1>5 DEF InHand
<1>16. QuestionsFirst'
  <2>1. disk.config <= disk.config /\ disk.rules <= disk.rules
    BY <1>2 DEF Versions
  <2> QED  BY <1>1, <1>2, <1>5, <1>6, <1>14, <1>15, <2>1 DEF IInv, QuestionsFirst, cmd
<1>17. RepliesMatch' /\ DoneMeansLive'
  <2>1. RepliesMatch'
    BY <1>1, <1>5, <1>6, <1>14, <1>15 DEF IInv, RepliesMatch, Unanswered, Open
  <2>2. DoneMeansLive'
    BY <1>1, <1>5, <1>6 DEF IInv, DoneMeansLive, NoCmd
  <2> QED  BY <2>1, <2>2
<1>18. AckIsDue'
  <2>1. \A d \in Conns : Requester(d) => Requester(d)'
    BY <1>1, <1>2, <1>5, <1>15 DEF Requester, Open, NoCmd
  <2> QED  BY <1>1, <2>1 DEF IInv, AckIsDue
<1> QED  BY <1>9, <1>10, <1>11, <1>12, <1>13, <1>16, <1>17, <1>18 DEF IInv

-----------------------------------------------------------------------------
(* The loop's work.                                                         *)

(* An answer changes what the client got and nothing else, and is lost on   *)
(* one that hung up.                                                        *)
LEMMA AnswerIs ==
  ASSUME TypeOK, NEW c \in Conns, NEW reply \in {"done", "failed"}, NEW versions \in Versions,
         conn' = Answered(c, reply, versions)
  PROVE  /\ conn' \in [Conns -> Connections]
         /\ \A d \in Conns : /\ conn'[d].state = conn[d].state /\ conn'[d].fd = conn[d].fd
                             /\ conn'[d].hung = conn[d].hung /\ conn'[d].wire = conn[d].wire
                             /\ conn'[d].cmd = conn[d].cmd /\ conn'[d].since = conn[d].since
         /\ \A d \in Conns \ {c} : conn'[d] = conn[d]
         /\ conn[c].hung => conn' = conn
         /\ ~conn[c].hung => conn'[c].reply = reply /\ conn'[c].seen = versions
<1>1. conn \in [Conns -> Connections] /\ conn[c] \in Connections
  BY DEF TypeOK
<1>2. CASE conn[c].hung
  BY <1>1, <1>2 DEF Answered
<1>3. CASE ~conn[c].hung
  <2> DEFINE k == [conn[c] EXCEPT !.reply = reply, !.seen = versions]
  <2>1. conn' = [conn EXCEPT ![c] = k]
    BY <1>1, <1>3 DEF Answered, Connections
  <2>2. /\ k \in Connections
        /\ k.state = conn[c].state /\ k.fd = conn[c].fd /\ k.hung = conn[c].hung
        /\ k.wire = conn[c].wire /\ k.cmd = conn[c].cmd /\ k.since = conn[c].since
        /\ k.reply = reply /\ k.seen = versions
    BY <1>1 DEF Connections
  <2> HIDE DEF k
  <2> QED  BY <1>1, <1>3, <2>1, <2>2
<1> QED  BY <1>2, <1>3

(* The descriptor a reload waits on has one owner: the requester.           *)
LEMMA OwnerIsRequester ==
  ASSUME IInv, pending # NoFd, pc # "gone"
  PROVE  \E c \in Conns : Requester(c) /\ OwnerOf(pending) = {c}
<1>1. PICK c \in Conns : Requester(c)
  BY DEF IInv, AckIsDue
<1>2. OwnerOf(pending) = {c}
  BY <1>1 DEF OwnerOf, Requester, IInv, SlotsAreConnections
<1> QED  BY <1>1, <1>2

LEMMA NobodyOwnsNoFd == ASSUME LoopIsSound PROVE OwnerOf(NoFd) = {}
BY DEF LoopIsSound, OwnerOf

(* An answer to a command that is not on its way any more.                  *)
LEMMA AnswerKeeps ==
  ASSUME IInv, NEW c \in Conns, NEW reply \in {"done", "failed"}, NEW versions \in Versions,
         conn' = Answered(c, reply, versions), disk' = disk, cur' = cur,
         cur = c \/ (cur = Listen /\ chunk' = chunk),
         \/ conn[c].hung
         \/ /\ conn[c].cmd # NoCmd /\ Open(c)
            /\ chunk' = <<>> /\ \A i \in DOMAIN conn[c].wire : conn[c].wire[i] = Part,
         conn[c].cmd = "reload" /\ reply = "done" => versions = disk
  PROVE  Speech' /\ QuestionsFirst' /\ RepliesMatch' /\ DoneMeansLive'
<1>1. /\ conn' \in [Conns -> Connections]
      /\ \A d \in Conns : /\ conn'[d].state = conn[d].state /\ conn'[d].fd = conn[d].fd
                          /\ conn'[d].hung = conn[d].hung /\ conn'[d].wire = conn[d].wire
                          /\ conn'[d].cmd = conn[d].cmd /\ conn'[d].since = conn[d].since
      /\ \A d \in Conns \ {c} : conn'[d] = conn[d]
      /\ conn[c].hung => conn' = conn
      /\ ~conn[c].hung => conn'[c].reply = reply /\ conn'[c].seen = versions
  BY AnswerIs DEF IInv
<1>2. \A d \in Conns \ {c} : cur # d
  BY Kinds
<1>3. Speech'
  BY <1>1, <1>2 DEF IInv, Speech, LastWord
<1>4. \A d \in Conns \ {c} : InHand(d)' = InHand(d)
  BY <1>1, <1>2 DEF InHand
<1>5. conn[c].hung => conn[c].cmd = NoCmd /\ conn[c].reply = NoCmd /\ conn' = conn
  BY <1>1 DEF IInv, Speech
<1>6. QuestionsFirst'
  BY <1>1, <1>4, <1>5 DEF IInv, QuestionsFirst, Open
<1>7. RepliesMatch'
  BY <1>1, <1>4, <1>5, Kinds DEF IInv, RepliesMatch, Unanswered, Open, NoCmd
<1>8. DoneMeansLive'
  <2>1. \A d \in Conns \ {c} : conn'[d] = conn[d]
    BY <1>1
  <2>2. conn[c].hung => conn'[c] = conn[c]
    BY <1>1
  <2>3. ASSUME ~conn[c].hung, conn'[c].cmd = "reload", conn'[c].reply = "done"
        PROVE  /\ conn'[c].seen.config >= conn'[c].since.config
               /\ conn'[c].seen.rules >= conn'[c].since.rules
    <3>1. conn'[c].seen = disk /\ conn'[c].since = conn[c].since /\ conn[c].cmd # NoCmd
      BY <1>1, <2>3 DEF NoCmd
    <3>2. conn[c].since \in Versions /\ disk \in Versions
      BY DEF IInv, TypeOK, Connections
    <3> QED  BY <3>1, <3>2 DEF IInv, QuestionsFirst, Versions
  <2> QED  BY <2>1, <2>2, <2>3 DEF IInv, DoneMeansLive
<1> QED  BY <1>3, <1>6, <1>7, <1>8

LEMMA TestFlagsInv == ASSUME IInv, TestFlags PROVE IInv'
<1> USE DEF loop, flags, files
<1>1. /\ UNCHANGED <<batch, cur, chunk, stop, slots, backlog, mouse, disk, torn>>
      /\ pc = "test" /\ batch = {} /\ cur = Listen /\ chunk = <<>>
  BY DEF TestFlags, IInv, LoopIsSound
<1>2. Loaded \in Versions /\ (~torn => Loaded = disk)
  BY DEF IInv, TypeOK, Versions, Loaded
<1>3. disk' = disk /\ disk \in Versions /\ disk.config \in Nat /\ disk.rules \in Nat
  BY <1>1 DEF IInv, TypeOK, Versions
<1>4. CASE ~reload \/ Stopping
  <2>1. /\ UNCHANGED <<conn, live, pending>> /\ pc' \in {"leave", "enter"}
        /\ pc' = "leave" \/ (~reload /\ pc' = "enter")
        /\ reload' \in BOOLEAN /\ (pc' = "leave" => reload' = reload)
    BY <1>1, <1>4 DEF TestFlags, IInv, TypeOK
  <2>2. SlotsAreConnections' /\ Speech' /\ QuestionsFirst' /\ RepliesMatch' /\ DoneMeansLive'
    BY <1>1, <1>3, <2>1, Untouched
  <2>3. TypeOK'
    BY <1>1, <2>1 DEF IInv, TypeOK
  <2>4. LoopIsSound' /\ QueueIsSound'
    BY <1>1, <2>1 DEF IInv, LoopIsSound, QueueIsSound, Open
  <2>5. AckIsDue'
    BY <1>1, <2>1 DEF IInv, AckIsDue, Requester, InHand, Open
  <2> QED  BY <2>2, <2>3, <2>4, <2>5 DEF IInv
<1>5. CASE reload /\ ~Stopping
  <2> DEFINE verdict == IF torn THEN "failed" ELSE "done"
  <2>1. /\ pc' = "enter" /\ reload' = FALSE /\ live' = Loaded /\ pending' = NoFd
        /\ conn' = Acked(verdict)
    BY <1>5 DEF TestFlags, on_reload
  <2>2. verdict \in {"done", "failed"} /\ (verdict = "done" => Loaded = disk)
    BY <1>2
  <2> HIDE DEF verdict
  <2>3. AckIsDue'
    BY <2>1 DEF AckIsDue
  <2>4. CASE OwnerOf(pending) = {}
    <3>1. conn' = conn
      BY <2>1, <2>4 DEF Acked
    <3>2. SlotsAreConnections' /\ Speech' /\ QuestionsFirst' /\ RepliesMatch' /\ DoneMeansLive'
      BY <1>1, <1>3, <3>1, Untouched
    <3>3. TypeOK'
      BY <1>1, <1>2, <2>1, <3>1 DEF IInv, TypeOK
    <3>4. LoopIsSound' /\ QueueIsSound'
      BY <1>1, <2>1, <3>1 DEF IInv, LoopIsSound, QueueIsSound, Open
    <3> QED  BY <2>3, <3>2, <3>3, <3>4 DEF IInv
  <2>5. CASE OwnerOf(pending) # {}
    <3>1. pending # NoFd
      BY <2>5, NobodyOwnsNoFd DEF IInv
    <3>2. PICK c \in Conns : Requester(c) /\ OwnerOf(pending) = {c}
      BY <1>1, <3>1, OwnerIsRequester
    <3>3. conn' = Answered(c, verdict, Loaded)
      BY <2>1, <3>2 DEF Acked
    <3>4. /\ conn' \in [Conns -> Connections]
          /\ \A d \in Conns : /\ conn'[d].state = conn[d].state /\ conn'[d].fd = conn[d].fd
                              /\ conn'[d].hung = conn[d].hung /\ conn'[d].wire = conn[d].wire
          /\ \A d \in Conns \ {c} : conn'[d] = conn[d]
      BY <1>2, <2>2, <3>3, AnswerIs DEF IInv
    <3>5. SlotsAreConnections' /\ \A d \in Conns : (Open(d))' = Open(d)
      BY <1>1, <3>4, SameSeats DEF IInv
    <3>6. Open(c) /\ (conn[c].hung \/ (conn[c].cmd = "reload" /\ ~InHand(c)))
      BY <3>2 DEF Requester
    <3>7. conn[c].hung \/ \A i \in DOMAIN conn[c].wire : conn[c].wire[i] = Part
      BY <3>6 DEF IInv, Speech, LastWord, InHand
    <3>8. Speech' /\ QuestionsFirst' /\ RepliesMatch' /\ DoneMeansLive'
      BY <1>1, <1>2, <2>2, <3>3, <3>6, <3>7, AnswerKeeps DEF NoCmd
    <3>9. TypeOK'
      BY <1>1, <1>2, <2>1, <3>4 DEF IInv, TypeOK
    <3>10. LoopIsSound'
      BY <1>1, <2>1, <3>4, <3>5 DEF IInv, LoopIsSound
    <3>11. QueueIsSound'
      <4>1. conn[c].state = "open" /\ \A i \in DOMAIN backlog : backlog[i] \in Conns
        BY <3>6 DEF IInv, TypeOK, Open
      <4> QED  BY <1>1, <2>1, <3>4, <4>1 DEF IInv, QueueIsSound
    <3> QED  BY <2>3, <3>5, <3>8, <3>9, <3>10, <3>11 DEF IInv
  <2> QED  BY <2>4, <2>5
<1> QED  BY <1>4, <1>5

LEMMA EndLinesInv == ASSUME IInv, EndLines PROVE IInv'
<1> USE DEF loop, flags, files
<1>1. /\ UNCHANGED <<batch, chunk, stop, reload, pending, slots, conn, backlog, mouse, disk, live, torn>>
      /\ pc = "lines" /\ pc' = "batch" /\ chunk = <<>> /\ cur' = Listen /\ Listen \notin Conns
  BY Kinds DEF EndLines
<1>2. TypeOK' /\ SlotsAreConnections' /\ DoneMeansLive'
  <2>1. TypeOK'
    BY <1>1 DEF IInv, TypeOK
  <2>2. SlotsAreConnections'
    BY <1>1, SameSeats DEF IInv
  <2>3. DoneMeansLive'
    BY <1>1 DEF IInv, DoneMeansLive
  <2> QED  BY <2>1, <2>2, <2>3
<1>3. LoopIsSound' /\ QueueIsSound'
  BY <1>1 DEF IInv, LoopIsSound, QueueIsSound, Open
<1>4. Speech'
  BY <1>1 DEF IInv, Speech, LastWord
<1>5. \A c \in Conns : InHand(c)' = InHand(c)
  BY <1>1 DEF InHand
<1>6. QuestionsFirst' /\ RepliesMatch'
  BY <1>1, <1>5 DEF IInv, QuestionsFirst, RepliesMatch, Unanswered, Open
<1>7. AckIsDue'
  BY <1>1, <1>5 DEF IInv, AckIsDue, Requester, Open
<1> QED  BY <1>2, <1>3, <1>4, <1>6, <1>7 DEF IInv

(* One piece of what was read.                                              *)
LEMMA PieceInv == ASSUME IInv, Piece PROVE IInv'
<1> USE DEF loop, flags, files
<1> DEFINE p == Head(chunk)
           s == SlotOf(cur)
<1>1. /\ UNCHANGED <<pc, batch, cur, backlog, mouse, disk, live, torn>>
      /\ pc = "lines" /\ chunk # <<>> /\ chunk' = Tail(chunk) /\ cur \in Conns /\ Open(cur)
      /\ cur \notin batch /\ Len(chunk) <= Room(cur)
  BY DEF Piece, IInv, LoopIsSound
<1>2. /\ conn \in [Conns -> Connections] /\ conn[cur] \in Connections
      /\ chunk \in Seq(Pieces) /\ disk \in Versions /\ live \in Versions
      /\ slots \in [Slots -> [fd : Fds \cup {NoFd}, recv_len : 0 .. RecvBuf]] /\ RecvBuf \in Nat
  BY <1>1, DaemonAssumption DEF IInv, TypeOK
<1>3. /\ p \in Pieces /\ p = chunk[1] /\ 1 \in DOMAIN chunk /\ chunk' \in Seq(Pieces)
      /\ Len(chunk') = Len(chunk) - 1 /\ Len(chunk) \in Nat /\ Len(chunk) > 0
      /\ DOMAIN chunk = 1 .. Len(chunk) /\ DOMAIN chunk' = 1 .. Len(chunk')
      /\ \A i \in DOMAIN chunk' : i + 1 \in DOMAIN chunk /\ chunk'[i] = chunk[i + 1]
      /\ \A i \in DOMAIN chunk : i = 1 \/ (i - 1 \in DOMAIN chunk' /\ chunk'[i - 1] = chunk[i])
  BY <1>1, <1>2
<1>4. /\ s \in Slots /\ slots[s].fd = conn[cur].fd /\ conn[cur].fd # NoFd
      /\ Room(cur) = RecvBuf - slots[s].recv_len
  BY <1>1, SlotOfOpen DEF IInv, Room
<1>5. slots' = [slots EXCEPT ![s].recv_len = IF p = Part THEN @ + 1 ELSE 0]
  BY DEF Piece
<1> HIDE DEF s
<1>6. /\ slots' \in [Slots -> [fd : Fds \cup {NoFd}, recv_len : 0 .. RecvBuf]]
      /\ \A u \in Slots : slots'[u].fd = slots[u].fd
      /\ slots'[s].recv_len = IF p = Part THEN slots[s].recv_len + 1 ELSE 0
  <2>1. /\ slots[s].recv_len \in 0 .. RecvBuf
        /\ p = Part => slots[s].recv_len + 1 \in 0 .. RecvBuf
    BY <1>1, <1>2, <1>3, <1>4
  <2> QED  BY <1>2, <1>4, <1>5, <2>1
(* What the piece does.                                                     *)
<1>7. \/ p = Part /\ UNCHANGED <<stop, reload, pending, conn>>
      \/ /\ p \in Commands /\ p # "reload" /\ conn' = Answered(cur, "done", live)
         /\ stop' \in BOOLEAN /\ UNCHANGED <<reload, pending>>
      \/ /\ p = "reload" /\ p \in Commands /\ reload' = TRUE /\ pending' = conn[cur].fd
         /\ UNCHANGED <<stop, conn>>
  BY <1>3, DaemonAssumption DEF Piece, handle_reload, handle_quit, Pieces, Part, IInv, TypeOK
<1> HIDE DEF p
(* A command comes last, and its client waits for the answer.               *)
<1>8. p \in Commands =>
        \/ conn[cur].hung /\ conn[cur].cmd = NoCmd
        \/ /\ ~conn[cur].hung /\ conn[cur].cmd = p /\ conn[cur].reply = NoCmd /\ chunk' = <<>>
           /\ conn[cur].wire = <<>>
  <2> SUFFICES ASSUME p \in Commands
               PROVE  \/ conn[cur].hung /\ conn[cur].cmd = NoCmd
                      \/ /\ ~conn[cur].hung /\ conn[cur].cmd = p /\ conn[cur].reply = NoCmd
                         /\ chunk' = <<>> /\ conn[cur].wire = <<>>
    OBVIOUS
  <2>1. p # Part
    BY Kinds
  <2>2. CASE conn[cur].hung
    BY <1>1, <2>2 DEF IInv, Speech
  <2>3. CASE ~conn[cur].hung
    <3>1. LastWord(cur, chunk) /\ conn[cur].wire = <<>>
      BY <1>1, <1>3, <2>1, <2>3 DEF IInv, Speech
    <3>2. conn[cur].cmd = p /\ conn[cur].reply = NoCmd /\ 1 = Len(chunk)
      BY <1>3, <2>1, <3>1 DEF LastWord
    <3>3. chunk' = <<>>
      BY <1>1, <1>2, <3>2, EmptySeq
    <3> QED  BY <2>3, <3>1, <3>2, <3>3
  <2> QED  BY <2>2, <2>3
<1>9. /\ conn' \in [Conns -> Connections]
      /\ \A d \in Conns : /\ conn'[d].state = conn[d].state /\ conn'[d].fd = conn[d].fd
                          /\ conn'[d].hung = conn[d].hung /\ conn'[d].wire = conn[d].wire
                          /\ conn'[d].cmd = conn[d].cmd
      /\ \A d \in Conns \ {cur} : conn'[d] = conn[d]
      /\ p \notin Commands \/ p = "reload" => conn' = conn
  BY <1>1, <1>2, <1>7, AnswerIs, Kinds DEF IInv
<1>10. TypeOK'
  <2>1. pending' \in Fds \cup {NoFd} /\ stop' \in BOOLEAN /\ reload' \in BOOLEAN
    BY <1>2, <1>7 DEF IInv, TypeOK, Connections
  <2> QED  BY <1>1, <1>2, <1>3, <1>6, <1>9, <2>1 DEF IInv, TypeOK
<1>11. \A d \in Conns : (Open(d))' = Open(d) /\ (SlotOf(d))' = SlotOf(d)
  BY <1>6, <1>9 DEF Open, SlotOf
<1>12. SlotsAreConnections'
  <2>1. FreeSlots' = FreeSlots
    BY <1>6 DEF FreeSlots
  <2>2. {conn'[c].fd : c \in {k \in Conns : (Open(k))'}} = {conn[c].fd : c \in {k \in Conns : Open(k)}}
    BY <1>9, <1>11
  <2>3. {slots'[u].fd : u \in Slots \ FreeSlots} = {slots[u].fd : u \in Slots \ FreeSlots}
    BY <1>6
  <2>4. \A u, v \in Slots \ FreeSlots : slots'[u].fd = slots'[v].fd => u = v
    BY <1>6 DEF IInv, SlotsAreConnections
  <2>5. \A c, d \in Conns : (Open(c))' /\ (Open(d))' /\ conn'[c].fd = conn'[d].fd => c = d
    BY <1>9, <1>11 DEF IInv, SlotsAreConnections
  <2> QED  BY <2>1, <2>2, <2>3, <2>4, <2>5 DEF IInv, SlotsAreConnections
<1>13. LoopIsSound'
  <2>1. Len(chunk') <= Room(cur)'
    <3>1. Room(cur)' = RecvBuf - slots'[s].recv_len
      BY <1>1, <1>11 DEF Room, s
    <3>2. slots[s].recv_len \in 0 .. RecvBuf
      BY <1>2, <1>4
    <3> QED  BY <1>1, <1>2, <1>3, <1>4, <1>6, <3>1, <3>2
  <2> QED  BY <1>1, <1>9, <1>11, <2>1 DEF IInv, LoopIsSound
<1>14. QueueIsSound'
  <2>1. conn[cur].state = "open" /\ \A i \in DOMAIN backlog : backlog[i] \in Conns
    BY <1>1 DEF IInv, TypeOK, Open
  <2> QED  BY <1>1, <1>9, <2>1 DEF IInv, QueueIsSound
<1>15. \A d \in Conns \ {cur} : InHand(d)' = InHand(d)
  BY <1>1, <1>9 DEF InHand
(* Part of a line is kept.                                                  *)
<1>16. CASE p = Part
  <2>1. conn' = conn /\ UNCHANGED <<reload, pending>>
    BY <1>7, <1>16, Kinds DEF Part
  <2>2. Speech'
    <3>1. ASSUME ~conn[cur].hung
          PROVE  /\ LastWord(cur, chunk')
                 /\ conn[cur].wire # <<>> => \A i \in DOMAIN chunk' : chunk'[i] = Part
      BY <1>1, <1>3, <3>1 DEF IInv, Speech, LastWord
    <3> QED  BY <1>1, <2>1, <3>1 DEF IInv, Speech, LastWord
  <2>3. conn[cur].cmd # NoCmd => InHand(cur)' = InHand(cur)
    <3>1. conn[cur].cmd # NoCmd => conn[cur].cmd # p
      BY <1>2, <1>16, Kinds DEF Connections
    <3>2. ASSUME NEW i \in DOMAIN chunk, conn[cur].cmd = chunk[i], conn[cur].cmd # p
          PROVE  \E j \in DOMAIN chunk' : conn[cur].cmd = chunk'[j]
      BY <1>3, <3>2
    <3>3. ASSUME NEW j \in DOMAIN chunk', conn[cur].cmd = chunk'[j]
          PROVE  \E i \in DOMAIN chunk : conn[cur].cmd = chunk[i]
      BY <1>3, <3>3
    <3> QED  BY <1>1, <2>1, <3>1, <3>2, <3>3 DEF InHand
  <2>4. QuestionsFirst'
    BY <1>1, <1>15, <2>1 DEF IInv, QuestionsFirst, Open
  <2>5. RepliesMatch' /\ DoneMeansLive'
    BY <1>1, <1>15, <2>1, <2>3 DEF IInv, RepliesMatch, DoneMeansLive, Unanswered, Open
  <2>6. AckIsDue'
    BY <1>1, <1>15, <2>1, <2>3 DEF IInv, AckIsDue, Requester, Open, NoCmd
  <2> QED  BY <1>10, <1>12, <1>13, <1>14, <2>2, <2>4, <2>5, <2>6 DEF IInv
(* Every command but reload is answered at once.                            *)
<1>17. CASE p \in Commands /\ p # "reload"
  <2>1. conn' = Answered(cur, "done", live) /\ UNCHANGED <<reload, pending>>
    BY <1>7, <1>17, Kinds
  <2>2. \/ conn[cur].hung
        \/ /\ conn[cur].cmd # NoCmd /\ Open(cur)
           /\ chunk' = <<>> /\ \A i \in DOMAIN conn[cur].wire : conn[cur].wire[i] = Part
    BY <1>1, <1>8, <1>17, Kinds
  <2>3. ~(conn[cur].cmd = "reload" /\ "done" = "done")
    BY <1>8, <1>17 DEF NoCmd
  <2>4. Speech' /\ QuestionsFirst' /\ RepliesMatch' /\ DoneMeansLive'
    BY <1>1, <1>2, <2>1, <2>2, <2>3, AnswerKeeps
  <2>5. AckIsDue'
    <3> SUFFICES ASSUME pending # NoFd
                 PROVE  reload /\ \E c \in Conns : Requester(c)'
      BY <1>1, <2>1 DEF AckIsDue
    <3>1. PICK c \in Conns : reload /\ Requester(c)
      BY <1>1 DEF IInv, AckIsDue
    <3>2. CASE c = cur
      <4>1. conn[c].hung /\ conn' = conn
        BY <1>1, <1>2, <1>8, <1>17, <2>1, <3>1, <3>2, AnswerIs DEF Requester, IInv
      <4> QED  BY <1>1, <2>1, <3>1, <4>1 DEF Requester, Open
    <3>3. CASE c # cur
      BY <1>1, <1>9, <1>15, <2>1, <3>1, <3>3 DEF Requester, Open
    <3> QED  BY <3>1, <3>2, <3>3
  <2> QED  BY <1>10, <1>12, <1>13, <1>14, <2>4, <2>5 DEF IInv
(* reload is left to the loop.                                              *)
<1>18. CASE p \in Commands /\ p = "reload"
  <2>1. conn' = conn /\ reload' = TRUE /\ pending' = conn[cur].fd
    BY <1>7, <1>18, Kinds
  <2>2. Speech'
    BY <1>1, <1>8, <1>18, <2>1 DEF IInv, Speech, LastWord
  <2>3. QuestionsFirst'
    BY <1>1, <1>15, <2>1 DEF IInv, QuestionsFirst, Open
  <2>4. conn[cur].cmd \in {NoCmd, "reload"}
    BY <1>8, <1>18
  <2>5. RepliesMatch' /\ DoneMeansLive'
    BY <1>1, <1>15, <2>1, <2>4 DEF IInv, RepliesMatch, DoneMeansLive, Unanswered, Open
  <2>6. Requester(cur)'
    <3>1. ~conn[cur].hung => ~InHand(cur)'
      BY <1>1, <1>8, <1>18, <2>1 DEF InHand
    <3> QED  BY <1>1, <1>8, <1>11, <1>18, <2>1, <3>1 DEF Requester
  <2>7. AckIsDue'
    BY <1>1, <2>1, <2>6 DEF AckIsDue
  <2> QED  BY <1>10, <1>12, <1>13, <1>14, <2>2, <2>3, <2>5, <2>7 DEF IInv
<1> QED  BY <1>7, <1>16, <1>17, <1>18

(* A connection after the daemon closed its end.                            *)
LEMMA ClosedIs ==
  ASSUME TypeOK, NEW c \in Conns
  PROVE  /\ Closed(c) \in Connections
         /\ Closed(c).state \in {"idle", "shut"} /\ Closed(c).fd = NoFd
         /\ Closed(c).wire = <<>> /\ ~Closed(c).hung
         /\ Closed(c).state = "idle" => Closed(c) = Idle
         /\ ~conn[c].hung => /\ Closed(c).cmd = conn[c].cmd /\ Closed(c).reply = conn[c].reply
                             /\ Closed(c).since = conn[c].since /\ Closed(c).seen = conn[c].seen
         /\ conn[c].hung => Closed(c).cmd = NoCmd /\ Closed(c).reply = NoCmd
<1>1. conn[c] \in Connections
  BY DEF TypeOK
<1>2. CASE conn[c].hung
  BY <1>1, <1>2 DEF Closed, Idle, Connections, Versions, NoFiles
<1>3. CASE ~conn[c].hung
  <2> DEFINE k == [conn[c] EXCEPT !.state = "shut", !.fd = NoFd, !.wire = <<>>]
  <2>1. Closed(c) = k
    BY <1>3 DEF Closed
  <2>2. k \in Connections
    <3>1. <<>> \in Seq(Pieces)
      BY EmptySeq
    <3> QED  BY <1>1, <3>1 DEF Connections
  <2>3. /\ k.state = "shut" /\ k.fd = NoFd /\ k.wire = <<>> /\ ~k.hung
        /\ k.cmd = conn[c].cmd /\ k.reply = conn[c].reply
        /\ k.since = conn[c].since /\ k.seen = conn[c].seen
    BY <1>1, <1>3 DEF Connections
  <2> HIDE DEF k
  <2> QED  BY <1>3, <2>1, <2>2, <2>3
<1> QED  BY <1>2, <1>3

(* Closing one connection says nothing to anybody.                          *)
LEMMA CloseKeeps ==
  ASSUME IInv, NEW c \in Conns, conn' = [conn EXCEPT ![c] = Closed(c)],
         UNCHANGED <<cur, chunk, disk>>, cur # c
  PROVE  /\ conn' \in [Conns -> Connections]
         /\ conn'[c] = Closed(c) /\ \A d \in Conns \ {c} : conn'[d] = conn[d]
         /\ Speech' /\ QuestionsFirst' /\ RepliesMatch' /\ DoneMeansLive'
<1>1. /\ conn \in [Conns -> Connections] /\ Closed(c) \in Connections
      /\ Closed(c).state \in {"idle", "shut"}
      /\ Closed(c).wire = <<>> /\ ~Closed(c).hung
      /\ ~conn[c].hung => /\ Closed(c).cmd = conn[c].cmd /\ Closed(c).reply = conn[c].reply
                          /\ Closed(c).since = conn[c].since /\ Closed(c).seen = conn[c].seen
      /\ conn[c].hung => Closed(c).cmd = NoCmd /\ Closed(c).reply = NoCmd
  BY ClosedIs DEF IInv, TypeOK
<1>2. /\ conn' \in [Conns -> Connections]
      /\ conn'[c] = Closed(c) /\ \A d \in Conns \ {c} : conn'[d] = conn[d]
  BY <1>1
<1>3. Speech'
  BY <1>1, <1>2 DEF IInv, Speech, LastWord
<1>4. \A d \in Conns \ {c} : InHand(d)' = InHand(d)
  BY <1>2 DEF InHand
<1>5. QuestionsFirst'
  BY <1>1, <1>2, <1>4 DEF IInv, QuestionsFirst
<1>6. RepliesMatch'
  BY <1>1, <1>2, <1>4 DEF IInv, RepliesMatch, Unanswered, Open
<1>7. DoneMeansLive'
  BY <1>1, <1>2 DEF IInv, DoneMeansLive, NoCmd
<1> QED  BY <1>2, <1>3, <1>5, <1>6, <1>7

(* close_client: the slot and the descriptor come free together.            *)
LEMMA CloseInv ==
  ASSUME IInv, NEW c \in Conns, Open(c), c \in batch, pc = "batch", close_client(c),
         batch' = batch \ {c},
         UNCHANGED <<pc, cur, chunk, flags, pending, backlog, mouse, files>>
  PROVE  IInv'
<1> USE DEF flags, files
<1> DEFINE s == SlotOf(c)
<1>1. /\ s \in Slots /\ slots[s].fd = conn[c].fd /\ conn[c].fd # NoFd
      /\ \A u \in Slots : slots[u].fd = conn[c].fd => u = s
  BY SlotOfOpen DEF IInv
<1>2. cur # c /\ cur = Listen /\ chunk = <<>>
  BY Kinds DEF IInv, LoopIsSound
<1>3. conn' = [conn EXCEPT ![c] = Closed(c)] /\ slots' = [slots EXCEPT ![s] = FreeSlot]
  BY DEF close_client
<1> HIDE DEF s
<1>4. /\ conn' \in [Conns -> Connections]
      /\ conn'[c] = Closed(c) /\ \A d \in Conns \ {c} : conn'[d] = conn[d]
      /\ Speech' /\ QuestionsFirst' /\ RepliesMatch' /\ DoneMeansLive'
  BY <1>2, <1>3, CloseKeeps
<1>5. /\ Closed(c).state \in {"idle", "shut"} /\ Closed(c).fd = NoFd /\ Closed(c).wire = <<>>
      /\ ~Closed(c).hung /\ (Closed(c).state = "idle" => Closed(c) = Idle)
  BY ClosedIs DEF IInv
<1>6. /\ slots \in [Slots -> [fd : Fds \cup {NoFd}, recv_len : 0 .. RecvBuf]]
      /\ FreeSlot \in [fd : Fds \cup {NoFd}, recv_len : 0 .. RecvBuf] /\ FreeSlot.fd = NoFd
  BY DaemonAssumption DEF IInv, TypeOK, FreeSlot
<1>7. /\ slots' \in [Slots -> [fd : Fds \cup {NoFd}, recv_len : 0 .. RecvBuf]]
      /\ slots'[s].fd = NoFd /\ \A u \in Slots \ {s} : slots'[u] = slots[u]
  BY <1>1, <1>3, <1>6
<1>8. TypeOK'
  BY <1>4, <1>7 DEF IInv, TypeOK
<1>9. (Open(c))' = FALSE /\ \A d \in Conns \ {c} : (Open(d))' = Open(d)
  BY <1>4, <1>5 DEF Open
<1>10. SlotsAreConnections'
  <2>1. FreeSlots' = FreeSlots \cup {s}
    BY <1>1, <1>7 DEF FreeSlots
  <2>2. Slots \ FreeSlots' = (Slots \ FreeSlots) \ {s}
    BY <2>1
  <2>3. \A u \in (Slots \ FreeSlots) \ {s} :
          \E d \in Conns \ {c} : Open(d) /\ conn[d].fd = slots[u].fd
    BY <1>1 DEF IInv, SlotsAreConnections
  <2>4. \A d \in Conns \ {c} : Open(d) => conn[d].fd # conn[c].fd
    BY DEF IInv, SlotsAreConnections
  <2>5. \A d \in Conns \ {c} : Open(d) =>
          \E u \in (Slots \ FreeSlots) \ {s} : slots[u].fd = conn[d].fd
    BY <1>1, <2>4 DEF IInv, SlotsAreConnections
  <2>6. \A fd : fd \in {slots'[u].fd : u \in Slots \ FreeSlots'}
                  <=> fd \in {conn'[d].fd : d \in {k \in Conns : (Open(k))'}}
    BY <1>4, <1>7, <1>9, <2>2, <2>3, <2>5
  <2>7. {slots'[u].fd : u \in Slots \ FreeSlots'} = {conn'[d].fd : d \in {k \in Conns : (Open(k))'}}
    BY <2>6
  <2>8. \A u, v \in Slots \ FreeSlots' : slots'[u].fd = slots'[v].fd => u = v
    BY <1>7, <2>2 DEF IInv, SlotsAreConnections
  <2>9. \A d, e \in Conns : (Open(d))' /\ (Open(e))' /\ conn'[d].fd = conn'[e].fd => d = e
    BY <1>4, <1>9 DEF IInv, SlotsAreConnections
  <2> QED  BY <2>7, <2>8, <2>9 DEF SlotsAreConnections
<1>11. LoopIsSound'
  BY <1>2, <1>4, <1>5, <1>9 DEF IInv, LoopIsSound
<1>12. QueueIsSound'
  <2>1. conn[c].state = "open" /\ \A i \in DOMAIN backlog : backlog[i] \in Conns
    BY DEF IInv, TypeOK, Open
  <2> QED  BY <1>4, <1>5, <2>1 DEF IInv, QueueIsSound
<1>13. AckIsDue'
  <2>1. \A d \in Conns : Requester(d) => Requester(d)'
    BY <1>2, <1>4, <1>9 DEF Requester, InHand
  <2> QED  BY <2>1 DEF IInv, AckIsDue
<1> QED  BY <1>4, <1>8, <1>10, <1>11, <1>12, <1>13 DEF IInv

(* A read takes from the wire what the buffer has room for.                 *)
LEMMA ReadInv ==
  ASSUME IInv, NEW c \in Conns, ServeClient(c), Room(c) # 0, conn[c].wire # <<>>
  PROVE  IInv'
<1> USE DEF flags, files
<1> DEFINE n == Fits(c)
           k == [conn[c] EXCEPT !.wire = SubSeq(@, n + 1, Len(@))]
<1>1. /\ UNCHANGED <<slots, stop, reload, pending, backlog, mouse, disk, live, torn>>
      /\ pc = "batch" /\ pc' = "lines" /\ c \in batch /\ batch' = batch \ {c}
      /\ cur' = c /\ chunk' = SubSeq(conn[c].wire, 1, n) /\ conn' = [conn EXCEPT ![c] = k]
      /\ cur = Listen /\ chunk = <<>> /\ Listen \notin Conns /\ Open(c)
  BY Kinds DEF ServeClient, IInv, LoopIsSound
<1>2. conn \in [Conns -> Connections] /\ conn[c] \in Connections /\ conn[c].wire \in Seq(Pieces)
  BY DEF IInv, TypeOK, Connections
<1>3. Room(c) \in Nat
  <2>1. slots[SlotOf(c)].recv_len \in 0 .. RecvBuf
    BY <1>1, SlotOfOpen DEF IInv, TypeOK
  <2> QED  BY <2>1, DaemonAssumption DEF Room
<1>4. n \in 1 .. Len(conn[c].wire) /\ n <= Room(c) /\ Len(conn[c].wire) \in Nat
  BY <1>2, <1>3 DEF Fits
<1> HIDE DEF n
<1>5. /\ chunk' \in Seq(Pieces) /\ Len(chunk') = n /\ DOMAIN chunk' = 1 .. n
      /\ \A i \in 1 .. n : chunk'[i] = conn[c].wire[i]
  BY <1>1, <1>2, <1>4
<1> DEFINE rest == SubSeq(conn[c].wire, n + 1, Len(conn[c].wire))
<1>6. /\ rest \in Seq(Pieces) /\ Len(rest) = Len(conn[c].wire) - n
      /\ DOMAIN rest = 1 .. Len(conn[c].wire) - n
      /\ \A i \in 1 .. Len(conn[c].wire) - n : rest[i] = conn[c].wire[i + n]
  BY <1>2, <1>4
<1>7. /\ k \in Connections /\ k.state = conn[c].state /\ k.fd = conn[c].fd /\ k.hung = conn[c].hung
      /\ k.cmd = conn[c].cmd /\ k.reply = conn[c].reply /\ k.wire = rest
      /\ k.since = conn[c].since /\ k.seen = conn[c].seen
  BY <1>2, <1>6 DEF Connections
<1> HIDE DEF k, rest
<1>8. /\ conn' \in [Conns -> Connections] /\ conn'[c] = k
      /\ \A d \in Conns \ {c} : conn'[d] = conn[d]
  BY <1>1, <1>2, <1>7
<1>9. TypeOK'
  BY <1>1, <1>5, <1>8 DEF IInv, TypeOK
<1>10. /\ SlotsAreConnections'
       /\ \A d \in Conns : (Open(d))' = Open(d) /\ (Room(d))' = Room(d)
  BY <1>1, <1>7, <1>8, SameSeats DEF IInv
<1>11. LoopIsSound'
  BY <1>1, <1>4, <1>5, <1>7, <1>8, <1>10 DEF IInv, LoopIsSound
<1>12. QueueIsSound'
  <2>1. conn[c].state = "open" /\ \A i \in DOMAIN backlog : backlog[i] \in Conns
    BY <1>1 DEF IInv, TypeOK, Open
  <2> QED  BY <1>1, <1>7, <1>8, <2>1 DEF IInv, QueueIsSound
<1>13. Speech'
  <2>1. ASSUME ~conn[c].hung
        PROVE  /\ LastWord(c, conn[c].wire)' /\ LastWord(c, chunk)'
               /\ rest # <<>> => \A i \in DOMAIN chunk' : chunk'[i] = Part
    <3>1. LastWord(c, conn[c].wire) /\ DOMAIN conn[c].wire = 1 .. Len(conn[c].wire)
      BY <1>2, <2>1 DEF IInv, Speech
    <3>2. \A i \in DOMAIN chunk' : chunk'[i] # Part =>
            conn[c].cmd = chunk'[i] /\ i = Len(conn[c].wire) /\ conn[c].reply = NoCmd
      BY <1>4, <1>5, <3>1 DEF LastWord
    <3>3. LastWord(c, chunk)'
      BY <1>4, <1>5, <1>7, <1>8, <3>2 DEF LastWord
    <3>4. \A i \in DOMAIN rest : rest[i] # Part =>
            conn[c].cmd = rest[i] /\ i = Len(rest) /\ conn[c].reply = NoCmd
      <4> SUFFICES ASSUME NEW i \in DOMAIN rest, rest[i] # Part
                   PROVE  conn[c].cmd = rest[i] /\ i = Len(rest) /\ conn[c].reply = NoCmd
        OBVIOUS
      <4>1. i \in 1 .. Len(conn[c].wire) - n /\ i + n \in DOMAIN conn[c].wire
        BY <1>4, <1>6, <3>1
      <4>2. rest[i] = conn[c].wire[i + n]
        BY <1>6, <4>1
      <4>3. conn[c].cmd = rest[i] /\ i + n = Len(conn[c].wire) /\ conn[c].reply = NoCmd
        BY <3>1, <4>1, <4>2 DEF LastWord
      <4>4. i \in Nat /\ n \in Nat /\ Len(conn[c].wire) \in Nat
        BY <1>4, <4>1
      <4>5. i = Len(conn[c].wire) - n
        BY <4>3, <4>4
      <4> QED  BY <1>6, <4>3, <4>5
    <3>5. LastWord(c, conn[c].wire)'
      <4>1. conn'[c].wire = rest /\ conn'[c].cmd = conn[c].cmd /\ conn'[c].reply = conn[c].reply
        BY <1>7, <1>8
      <4> QED  BY <3>4, <4>1 DEF LastWord
    <3>6. rest # <<>> => n < Len(conn[c].wire)
      BY <1>4, <1>6, EmptySeq
    <3> QED  BY <1>4, <1>5, <3>2, <3>3, <3>5, <3>6
  <2>2. ASSUME conn[c].hung
        PROVE  conn'[c].hung /\ conn'[c].cmd = NoCmd /\ conn'[c].reply = NoCmd
    BY <1>7, <1>8, <2>2 DEF IInv, Speech
  <2>3. ~conn[c].hung => ~conn'[c].hung /\ conn'[c].wire = rest
    BY <1>7, <1>8
  <2>4. ASSUME NEW d \in Conns \ {c}
        PROVE  IF conn'[d].hung THEN conn'[d].cmd = NoCmd /\ conn'[d].reply = NoCmd
               ELSE LastWord(d, conn[d].wire)' /\ cur' # d
    BY <1>1, <1>8 DEF IInv, Speech, LastWord
  <2> QED  BY <1>1, <2>1, <2>2, <2>3, <2>4 DEF Speech
<1>14. \A d \in Conns : InHand(d)' = InHand(d)
  <2>1. \A d \in Conns \ {c} : InHand(d)' = InHand(d)
    BY <1>1, <1>8 DEF InHand
  <2>2. ASSUME NEW i \in DOMAIN conn[c].wire
        PROVE  \/ \E j \in DOMAIN chunk' : chunk'[j] = conn[c].wire[i]
               \/ \E j \in DOMAIN rest : rest[j] = conn[c].wire[i]
    <3>1. i \in 1 .. Len(conn[c].wire)
      BY <1>2
    <3>2. CASE i <= n
      <4>1. i \in DOMAIN chunk' /\ i \in 1 .. n
        BY <1>4, <1>5, <3>1, <3>2
      <4> QED  BY <1>5, <4>1
    <3>3. CASE i > n
      <4>1. i - n \in 1 .. Len(conn[c].wire) - n /\ (i - n) + n = i
        BY <1>4, <3>1, <3>3
      <4>2. i - n \in DOMAIN rest /\ rest[i - n] = conn[c].wire[(i - n) + n]
        BY <1>6, <4>1
      <4> QED  BY <4>1, <4>2
    <3> QED  BY <1>4, <3>1, <3>2, <3>3
  <2>3. /\ \A j \in DOMAIN chunk' : \E i \in DOMAIN conn[c].wire : chunk'[j] = conn[c].wire[i]
        /\ \A j \in DOMAIN rest : \E i \in DOMAIN conn[c].wire : rest[j] = conn[c].wire[i]
    <3>1. DOMAIN conn[c].wire = 1 .. Len(conn[c].wire)
      BY <1>2
    <3>2. \A j \in 1 .. n : j \in DOMAIN conn[c].wire
      BY <1>4, <3>1
    <3>3. \A j \in 1 .. Len(conn[c].wire) - n : j + n \in DOMAIN conn[c].wire
      BY <1>4, <3>1
    <3> QED  BY <1>5, <1>6, <3>2, <3>3
  <2>4. InHand(c)' = InHand(c)
    <3>1. conn'[c].wire = rest /\ conn'[c].cmd = conn[c].cmd
      BY <1>7, <1>8
    <3>2. InHand(c) <=> \E i \in DOMAIN conn[c].wire : conn[c].cmd = conn[c].wire[i]
      BY <1>1 DEF InHand
    <3>3. InHand(c)' <=> \/ \E i \in DOMAIN rest : conn[c].cmd = rest[i]
                         \/ \E i \in DOMAIN chunk' : conn[c].cmd = chunk'[i]
      BY <1>1, <3>1 DEF InHand
    <3> HIDE DEF InHand
    <3>4. InHand(c)' <=> InHand(c)
      BY <2>2, <2>3, <3>2, <3>3
    <3> QED  BY <3>4 DEF InHand
  <2> QED  BY <2>1, <2>4
<1>15. QuestionsFirst'
  BY <1>1, <1>7, <1>8, <1>14 DEF IInv, QuestionsFirst
<1>16. RepliesMatch' /\ DoneMeansLive'
  BY <1>1, <1>7, <1>8, <1>14 DEF IInv, RepliesMatch, DoneMeansLive, Unanswered, Open
<1>17. AckIsDue'
  <2>1. \A d \in Conns : Requester(d) => Requester(d)'
    BY <1>1, <1>7, <1>8, <1>14 DEF Requester, Open
  <2> QED  BY <1>1, <2>1 DEF IInv, AckIsDue
<1> QED  BY <1>9, <1>10, <1>11, <1>12, <1>13, <1>15, <1>16, <1>17 DEF IInv

LEMMA ServeClientInv == ASSUME IInv, NEW c \in Conns, ServeClient(c) PROVE IInv'
<1>1. Open(c)
  BY DEF ServeClient, IInv, LoopIsSound
<1>2. CASE Room(c) = 0 \/ conn[c].wire = <<>>
  BY <1>1, <1>2, CloseInv DEF ServeClient
<1>3. CASE ~(Room(c) = 0 \/ conn[c].wire = <<>>)
  BY <1>3, ReadInv
<1> QED  BY <1>2, <1>3

(* One connection from the backlog, accepted or, for want of a slot, closed.*)
LEMMA AcceptInv == ASSUME IInv, Accept PROVE IInv'
<1> USE DEF loop, flags, files
<1>1. /\ UNCHANGED <<pc, batch, cur, chunk, stop, reload, pending, mouse, disk, live, torn>>
      /\ pc = "accept" /\ backlog # <<>> /\ backlog' = Tail(backlog) /\ backlog \in Seq(Conns)
      /\ cur = Listen /\ chunk = <<>> /\ Listen \notin Conns
  BY Kinds DEF Accept, IInv, TypeOK, LoopIsSound
<1>0. PICK c \in Conns : c = Head(backlog)
  BY <1>1
<1>2. /\ c \in Conns /\ c = backlog[1] /\ 1 \in DOMAIN backlog /\ backlog' \in Seq(Conns)
      /\ DOMAIN backlog' = 1 .. Len(backlog) - 1 /\ DOMAIN backlog = 1 .. Len(backlog)
      /\ Len(backlog) \in Nat
      /\ \A i \in 1 .. Len(backlog) - 1 : backlog'[i] = backlog[i + 1]
  BY <1>0, <1>1
<1>3. conn[c].state = "queued" /\ ~Open(c) /\ conn[c].fd = NoFd
  BY <1>2 DEF IInv, QueueIsSound, LoopIsSound, Open
<1>4. \A i \in DOMAIN backlog' : i + 1 \in DOMAIN backlog /\ backlog'[i] = backlog[i + 1] /\ backlog'[i] # c
  <2> SUFFICES ASSUME NEW i \in DOMAIN backlog'
               PROVE  i + 1 \in DOMAIN backlog /\ backlog'[i] = backlog[i + 1] /\ backlog'[i] # c
    OBVIOUS
  <2>1. i + 1 \in DOMAIN backlog /\ backlog'[i] = backlog[i + 1] /\ i + 1 # 1
    BY <1>2
  <2> QED  BY <1>2, <2>1 DEF IInv, QueueIsSound
<1>5. conn \in [Conns -> Connections] /\ conn[c] \in Connections
  BY <1>2 DEF IInv, TypeOK
<1>6. \A k : conn' = [conn EXCEPT ![c] = k] =>
        conn'[c] = k /\ \A d \in Conns \ {c} : conn'[d] = conn[d]
  BY <1>2, <1>5
<1>7. ASSUME NEW k, conn' = [conn EXCEPT ![c] = k], k.state \in {"open", "idle", "shut"},
             k.state = "idle" => k = Idle, k.state = "shut" => k.wire = <<>> /\ ~k.hung
      PROVE  QueueIsSound'
  <2>1. conn'[c] = k /\ \A d \in Conns \ {c} : conn'[d] = conn[d]
    BY <1>6, <1>7
  <2>2. \A i \in DOMAIN backlog' : conn'[backlog'[i]].state = "queued"
    <3> SUFFICES ASSUME NEW i \in DOMAIN backlog'
                 PROVE  conn'[backlog'[i]].state = "queued"
      OBVIOUS
    <3>1. backlog'[i] \in Conns \ {c} /\ backlog'[i] = backlog[i + 1] /\ i + 1 \in DOMAIN backlog
      BY <1>2, <1>4
    <3> QED  BY <2>1, <3>1 DEF IInv, QueueIsSound
  <2>3. \A i, j \in DOMAIN backlog' : backlog'[i] = backlog'[j] => i = j
    <3> SUFFICES ASSUME NEW i \in DOMAIN backlog', NEW j \in DOMAIN backlog', backlog'[i] = backlog'[j]
                 PROVE  i = j
      OBVIOUS
    <3>1. i + 1 = j + 1
      BY <1>4 DEF IInv, QueueIsSound
    <3>2. i \in Nat /\ j \in Nat
      BY <1>2
    <3> QED  BY <3>1, <3>2
  <2> QED  BY <1>1, <1>7, <2>1, <2>2, <2>3 DEF IInv, QueueIsSound
<1>8. CASE FreeSlots = {}
  <2>1. conn' = [conn EXCEPT ![c] = Closed(c)] /\ slots' = slots
    BY <1>0, <1>8 DEF Accept
  <2>2. /\ conn' \in [Conns -> Connections]
        /\ conn'[c] = Closed(c) /\ \A d \in Conns \ {c} : conn'[d] = conn[d]
        /\ Speech' /\ QuestionsFirst' /\ RepliesMatch' /\ DoneMeansLive'
    BY <1>1, <1>2, <2>1, CloseKeeps
  <2>3. /\ Closed(c).state \in {"idle", "shut"} /\ Closed(c).fd = NoFd /\ Closed(c).wire = <<>>
        /\ ~Closed(c).hung /\ (Closed(c).state = "idle" => Closed(c) = Idle)
    BY <1>2, ClosedIs DEF IInv
  <2>4. /\ SlotsAreConnections'
        /\ \A d \in Conns : (Open(d))' = Open(d) /\ (Room(d))' = Room(d)
    BY <1>3, <2>1, <2>2, <2>3, SameSeats DEF IInv, Open
  <2>5. TypeOK'
    BY <1>1, <1>2, <2>1, <2>2 DEF IInv, TypeOK
  <2>6. LoopIsSound'
    BY <1>1, <1>3, <2>2, <2>3, <2>4 DEF IInv, LoopIsSound
  <2>7. QueueIsSound'
    BY <1>7, <2>1, <2>3
  <2>8. AckIsDue'
    <3>1. \A d \in Conns : Requester(d) => Requester(d)'
      BY <1>1, <1>3, <2>2 DEF Requester, InHand, Open
    <3> QED  BY <1>1, <3>1 DEF IInv, AckIsDue
  <2> QED  BY <2>2, <2>4, <2>5, <2>6, <2>7, <2>8 DEF IInv
<1>9. CASE FreeSlots # {}
  <2> DEFINE fd == NewFd
             s  == FirstFree
             k  == [conn[c] EXCEPT !.state = "open", !.fd = fd]
  <2>1. fd \in Fds /\ OwnerOf(fd) = {} /\ fd # NoFd
    BY <1>2, <1>3, NewFdIsFree, Kinds
  <2>2. s \in FreeSlots /\ s \in Slots /\ slots[s].fd = NoFd
    BY <1>9, FirstFreeIsFree DEF FreeSlots
  <2>3. /\ conn' = [conn EXCEPT ![c].state = "open", ![c].fd = fd]
        /\ slots' = [slots EXCEPT ![s] = [fd |-> fd, recv_len |-> 0]]
    BY <1>0, <1>9 DEF Accept
  <2> HIDE DEF fd, s
  <2>4. conn' = [conn EXCEPT ![c] = k]
    BY <1>2, <1>5, <2>3 DEF Connections
  <2>5. /\ k \in Connections /\ k.state = "open" /\ k.fd = fd /\ k.hung = conn[c].hung
        /\ k.wire = conn[c].wire /\ k.cmd = conn[c].cmd /\ k.reply = conn[c].reply
        /\ k.since = conn[c].since /\ k.seen = conn[c].seen
    BY <1>5, <2>1 DEF Connections
  <2> HIDE DEF k
  <2>6. /\ conn' \in [Conns -> Connections] /\ conn'[c] = k
        /\ \A d \in Conns \ {c} : conn'[d] = conn[d]
    BY <1>2, <1>5, <2>4, <2>5
  <2>7. /\ slots' \in [Slots -> [fd : Fds \cup {NoFd}, recv_len : 0 .. RecvBuf]]
        /\ slots'[s].fd = fd /\ \A u \in Slots \ {s} : slots'[u] = slots[u]
    <3>1. [fd |-> fd, recv_len |-> 0] \in [fd : Fds \cup {NoFd}, recv_len : 0 .. RecvBuf]
      BY <2>1, DaemonAssumption
    <3> QED  BY <2>2, <2>3, <3>1 DEF IInv, TypeOK
  <2>8. TypeOK'
    BY <1>1, <1>2, <2>6, <2>7 DEF IInv, TypeOK
  <2>9. (Open(c))' = TRUE /\ \A d \in Conns \ {c} : (Open(d))' = Open(d)
    BY <2>5, <2>6 DEF Open
  <2>10. SlotsAreConnections'
    <3>1. Slots \ FreeSlots' = (Slots \ FreeSlots) \cup {s} /\ s \notin Slots \ FreeSlots
      BY <2>1, <2>2, <2>7 DEF FreeSlots
    <3>2. \A d \in Conns : Open(d) => conn[d].fd # fd
      BY <2>1 DEF OwnerOf
    <3>3. /\ \A u \in Slots \ FreeSlots : \E d \in Conns \ {c} : Open(d) /\ conn[d].fd = slots[u].fd
          /\ \A d \in Conns \ {c} : Open(d) => \E u \in Slots \ FreeSlots : slots[u].fd = conn[d].fd
      BY <1>3 DEF IInv, SlotsAreConnections
    <3>4. \A u \in Slots \ FreeSlots : slots[u].fd # fd
      BY <3>2, <3>3
    <3>5. \A f : f \in {slots'[u].fd : u \in Slots \ FreeSlots'}
                   <=> f \in {conn'[d].fd : d \in {e \in Conns : (Open(e))'}}
      <4>1. \A u \in Slots \ FreeSlots' : \E d \in Conns : (Open(d))' /\ conn'[d].fd = slots'[u].fd
        <5>1. c \in Conns /\ (Open(c))' /\ conn'[c].fd = slots'[s].fd
          BY <2>5, <2>6, <2>7, <2>9
        <5>2. ASSUME NEW u \in Slots \ FreeSlots
              PROVE  \E d \in Conns : (Open(d))' /\ conn'[d].fd = slots'[u].fd
          <6>1. PICK d \in Conns \ {c} : Open(d) /\ conn[d].fd = slots[u].fd
            BY <3>3, <5>2
          <6>2. (Open(d))' /\ conn'[d].fd = conn[d].fd /\ slots'[u] = slots[u]
            BY <2>6, <2>7, <2>9, <3>1, <5>2, <6>1
          <6> QED  BY <6>1, <6>2
        <5>3. \A u \in Slots \ FreeSlots' : u = s \/ u \in Slots \ FreeSlots
          BY <3>1
        <5> QED  BY <5>1, <5>2, <5>3
      <4>2. \A d \in Conns : (Open(d))' => \E u \in Slots \ FreeSlots' : slots'[u].fd = conn'[d].fd
        <5>1. s \in Slots \ FreeSlots' /\ slots'[s].fd = conn'[c].fd
          BY <2>2, <2>5, <2>6, <2>7, <3>1
        <5>2. ASSUME NEW d \in Conns \ {c}, (Open(d))'
              PROVE  \E u \in Slots \ FreeSlots' : slots'[u].fd = conn'[d].fd
          <6>1. PICK u \in Slots \ FreeSlots : slots[u].fd = conn[d].fd
            BY <2>9, <3>3, <5>2
          <6> QED  BY <2>6, <2>7, <3>1, <6>1
        <5> QED  BY <5>1, <5>2
      <4> QED  BY <4>1, <4>2
    <3>6. {slots'[u].fd : u \in Slots \ FreeSlots'} = {conn'[d].fd : d \in {e \in Conns : (Open(e))'}}
      BY <3>5
    <3>7. \A u, v \in Slots \ FreeSlots' : slots'[u].fd = slots'[v].fd => u = v
      BY <2>7, <3>1, <3>4 DEF IInv, SlotsAreConnections
    <3>8. \A d, e \in Conns : (Open(d))' /\ (Open(e))' /\ conn'[d].fd = conn'[e].fd => d = e
      BY <2>5, <2>6, <2>9, <3>2 DEF IInv, SlotsAreConnections
    <3> QED  BY <3>6, <3>7, <3>8 DEF SlotsAreConnections
  <2>11. LoopIsSound'
    BY <1>1, <2>1, <2>5, <2>6, <2>9 DEF IInv, LoopIsSound
  <2>12. QueueIsSound'
    BY <1>7, <2>4, <2>5
  <2>13. \A d \in Conns : InHand(d)' = InHand(d)
    BY <1>1, <2>5, <2>6 DEF InHand
  <2>14. Speech'
    BY <1>1, <2>5, <2>6 DEF IInv, Speech, LastWord
  <2>15. QuestionsFirst'
    BY <1>1, <2>5, <2>6, <2>13 DEF IInv, QuestionsFirst
  <2>16. RepliesMatch'
    <3>1. Unanswered(c)' => conn'[c].cmd = "reload"
      BY <1>2, <1>3, <2>5, <2>6, <2>13 DEF IInv, QuestionsFirst, Unanswered
    <3>2. conn[c].reply # NoCmd => conn[c].cmd # NoCmd
      BY <1>2 DEF IInv, RepliesMatch
    <3> QED  BY <2>5, <2>6, <2>13, <3>1, <3>2 DEF IInv, RepliesMatch, Unanswered, Open
  <2>17. DoneMeansLive'
    BY <1>2, <2>5, <2>6 DEF IInv, DoneMeansLive
  <2>18. AckIsDue'
    <3>1. \A d \in Conns : Requester(d) => Requester(d)'
      BY <1>1, <1>3, <2>6, <2>9, <2>13 DEF Requester
    <3> QED  BY <1>1, <3>1 DEF IInv, AckIsDue
  <2> QED  BY <2>8, <2>10, <2>11, <2>12, <2>14, <2>15, <2>16, <2>17, <2>18 DEF IInv
<1> QED  BY <1>8, <1>9

LEMMA LeaveInv == ASSUME IInv, Leave PROVE IInv'
<1> USE DEF loop, flags, files
<1>1. /\ UNCHANGED <<batch, cur, chunk, stop, reload, pending, mouse, disk, live, torn>>
      /\ pc = "leave" /\ pc' = "gone" /\ backlog' = <<>> /\ slots' = [s \in Slots |-> FreeSlot]
      /\ conn' = [c \in Conns |-> IF conn[c].state = "idle" THEN Idle ELSE Closed(c)]
      /\ cur = Listen /\ chunk = <<>> /\ batch = {} /\ Listen \notin Conns
  BY Kinds DEF Leave, IInv, LoopIsSound
<1>2. /\ Idle \in Connections /\ Idle.state = "idle" /\ Idle.fd = NoFd /\ Idle.wire = <<>>
      /\ ~Idle.hung /\ Idle.cmd = NoCmd /\ Idle.reply = NoCmd
  BY DEF Idle, Connections, Versions, NoFiles
<1>3. ASSUME NEW c \in Conns
      PROVE  /\ conn'[c] \in Connections
             /\ conn'[c].state \in {"idle", "shut"} /\ conn'[c].fd = NoFd
             /\ conn'[c].wire = <<>> /\ ~conn'[c].hung
             /\ conn'[c].state = "idle" => conn'[c] = Idle
             /\ \/ conn'[c].cmd = NoCmd /\ conn'[c].reply = NoCmd
                \/ /\ conn'[c].cmd = conn[c].cmd /\ conn'[c].reply = conn[c].reply
                   /\ conn'[c].since = conn[c].since /\ conn'[c].seen = conn[c].seen
  BY <1>1, <1>2, ClosedIs DEF IInv
<1>4. TypeOK'
  <2>1. conn' \in [Conns -> Connections]
    BY <1>1, <1>3
  <2>2. slots' \in [Slots -> [fd : Fds \cup {NoFd}, recv_len : 0 .. RecvBuf]]
    BY <1>1, DaemonAssumption DEF FreeSlot
  <2>3. backlog' \in Seq(Conns)
    BY <1>1, EmptySeq
  <2> QED  BY <1>1, <2>1, <2>2, <2>3 DEF IInv, TypeOK
<1>5. \A c \in Conns : ~(Open(c))'
  BY <1>3 DEF Open
<1>6. SlotsAreConnections'
  <2>1. FreeSlots' = Slots
    BY <1>1 DEF FreeSlots, FreeSlot
  <2> QED  BY <1>5, <2>1 DEF SlotsAreConnections
<1>7. LoopIsSound' /\ QueueIsSound'
  BY <1>1, <1>3, <1>5 DEF LoopIsSound, QueueIsSound
<1>8. Speech'
  BY <1>1, <1>3 DEF Speech, LastWord
<1>9. QuestionsFirst'
  BY <1>1, <1>3 DEF IInv, QuestionsFirst
<1>10. RepliesMatch'
  BY <1>3, <1>5 DEF IInv, RepliesMatch, Unanswered
<1>11. DoneMeansLive'
  BY <1>3 DEF IInv, DoneMeansLive, NoCmd
<1>12. AckIsDue'
  BY <1>1 DEF AckIsDue
<1> QED  BY <1>4, <1>6, <1>7, <1>8, <1>9, <1>10, <1>11, <1>12 DEF IInv

-----------------------------------------------------------------------------

LEMMA NextInv == IInv /\ [Next]_vars => IInv'
<1> SUFFICES ASSUME IInv, [Next]_vars
             PROVE  IInv'
  OBVIOUS
<1>1. CASE Clients
  BY <1>1, ConnectInv, ReceiveInv, HangUpInv, SendInv DEF Clients
<1>2. CASE Truncate \/ Fill \/ RenameRules
  BY <1>2, FilesInv
<1>3. CASE (\E now \in MouseEvents : Mouse(now)) \/ SigTerm \/ SigHup
  BY <1>3, MovesInv
<1>4. CASE Loop
  BY <1>4, MovesInv, TestFlagsInv, AcceptInv, ServeClientInv, PieceInv, EndLinesInv, LeaveInv
     DEF Loop
<1>5. CASE UNCHANGED vars
  <2>1. disk \in Versions /\ disk.config \in Nat /\ disk.rules \in Nat
    BY DEF IInv, TypeOK, Versions
  <2>2. SlotsAreConnections' /\ Speech' /\ QuestionsFirst' /\ RepliesMatch' /\ DoneMeansLive'
    BY <1>5, <2>1, Untouched DEF vars
  <2>3. TypeOK'
    BY <1>5 DEF IInv, TypeOK, vars
  <2>4. LoopIsSound' /\ QueueIsSound' /\ AckIsDue'
    BY <1>5 DEF IInv, LoopIsSound, QueueIsSound, AckIsDue, Requester, InHand, Open, Room, SlotOf,
                vars
  <2> QED  BY <2>2, <2>3, <2>4 DEF IInv
<1> QED  BY <1>1, <1>2, <1>3, <1>4, <1>5 DEF Next

(* The daemon's inductive invariant, for any number of connections, slots,  *)
(* ready descriptors and pieces, and any files.                             *)
THEOREM DaemonInvariant == Spec => []IInv
<1> QED  BY InitInv, NextInv, PTL DEF Spec

(* accept, close and shutdown keep slots and descriptors in step: none      *)
(* leaks, none is shared.                                                   *)
THEOREM SlotsAlwaysConnections == Spec => []SlotsAreConnections
<1>1. IInv => SlotsAreConnections
  BY DEF IInv
<1> QED  BY <1>1, DaemonInvariant, PTL

(* send_reload_ack writes to the client that asked, however descriptors are *)
(* reused in between.                                                       *)
THEOREM AckAlwaysToRequester == Spec => []AckGoesToRequester
<1>1. IInv => AckGoesToRequester
  BY DEF IInv, AckIsDue, AckGoesToRequester, Requester, OwnerOf
<1> QED  BY <1>1, DaemonInvariant, PTL

(* A client told that its reload is done has its files in use.              *)
THEOREM DoneAlwaysMeansLive == Spec => []DoneMeansLive
<1>1. IInv => DoneMeansLive
  BY DEF IInv
<1> QED  BY <1>1, DaemonInvariant, PTL

(* Only reloads wait, and nobody gets a reply who did not ask.              *)
THEOREM RepliesAlwaysMatch == Spec => []RepliesMatch
<1>1. IInv => RepliesMatch
  BY DEF IInv
<1> QED  BY <1>1, DaemonInvariant, PTL
=============================================================================
