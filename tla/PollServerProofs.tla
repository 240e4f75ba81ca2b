-------------------------- MODULE PollServerProofs --------------------------
(* Proofs about PollServer, for any set of peers and any limits.           *)
EXTENDS PollServer, FiniteSetTheorems, TLAPS

-----------------------------------------------------------------------------
(* Lemmas on the slot array.                                               *)

\* Every array has at least max slots.
LEMMA AllocatedCovers ==
  \A m \in Nat : Allocated(m) \in Nat /\ m <= Allocated(m)
BY DEF Allocated

\* The index of every watched slot is inside the array.
LEMMA SlotInside ==
  ASSUME TypeOK, NEW s \in 0..(n - 1)
  PROVE  s \in DOMAIN slots /\ slots[s] \in Slot
<1> USE ConstantsAssumption
<1>1. DOMAIN slots = 0..(Allocated(max) - 1)
  BY DEF TypeOK, ArrayOK
<1>2. s \in 0..(Allocated(max) - 1)
  BY DEF TypeOK, ArrayOK, Allocated
<1> QED
  BY <1>1, <1>2 DEF TypeOK, ArrayOK

\* add_clients_to_poll keeps the array well formed and every earlier slot.
LEMMA AddKeepsSlots ==
  ASSUME TypeOK, NEW f \in {-1} \cup ClientFds, AddClientToPoll(f)
  PROVE  /\ max' \in Nat /\ InitMax <= max'
         /\ n' = n + 1 /\ n' \in 0..max'
         /\ slots' \in [0..(Allocated(max') - 1) -> Slot]
         /\ slots'[n].fd = f
         /\ \A s \in 0..(n - 1) : slots'[s] = slots[s]
<1> USE ConstantsAssumption
<1>1. PICK array \in Grown : slots' = [array EXCEPT ![n].fd = f]
  BY DEF AddClientToPoll
<1>2. /\ max' \in Nat /\ InitMax <= max'
      /\ n' = n + 1 /\ n' \in 0..max'
  BY DEF AddClientToPoll, TypeOK, ArrayOK
<1>3. /\ array \in [0..(Allocated(max') - 1) -> Slot]
      /\ \A s \in 0..(n - 1) : array[s] = slots[s]
  <2>1. CASE n < max
    BY <2>1, SlotInside DEF Grown, AddClientToPoll, TypeOK, ArrayOK
  <2>2. CASE ~(n < max)
    <3>1. /\ n = max /\ max' = 2 * max
          /\ Allocated(max') = 2 * max
          /\ DOMAIN slots = 0..(Allocated(max) - 1)
      BY <2>2 DEF TypeOK, ArrayOK, AddClientToPoll, Allocated
    <3>2. PICK junk \in SUBSET ((0..(2 * max - 1)) \ DOMAIN slots) :
            array = [s \in 0..(2 * max - 1) |->
                      IF s \in DOMAIN slots THEN slots[s]
                                            ELSE [fd |-> 0, in |-> s \in junk]]
      BY <1>1, <2>2, <3>1 DEF Grown
    <3>3. ASSUME NEW s \in 0..(2 * max - 1)
          PROVE  array[s] \in Slot
      <4>1. CASE s \in DOMAIN slots
        BY <4>1, <3>1, <3>2 DEF TypeOK, ArrayOK
      <4>2. CASE s \notin DOMAIN slots
        <5>1. array[s] = [fd |-> 0, in |-> s \in junk]
          BY <4>2, <3>2
        <5>2. (s \in junk) \in BOOLEAN
          OBVIOUS
        <5> QED
          BY <5>1, <5>2 DEF Slot
      <4> QED
        BY <4>1, <4>2
    <3>4. ASSUME NEW s \in 0..(n - 1)
          PROVE  array[s] = slots[s]
      <4>1. s \in DOMAIN slots
        BY SlotInside
      <4>2. s \in 0..(2 * max - 1)
        BY <3>1 DEF TypeOK, ArrayOK
      <4> QED
        BY <4>1, <4>2, <3>2
    <3> QED
      BY <3>1, <3>2, <3>3, <3>4
  <2> QED
    BY <2>1, <2>2
<1>4. n \in 0..(Allocated(max') - 1)
  <2>1. n \in Nat /\ n <= max /\ max \in Nat /\ max >= 1
    BY DEF TypeOK, ArrayOK
  <2>2. n < max'
    BY <2>1 DEF AddClientToPoll
  <2>3. Allocated(max') \in Nat /\ max' <= Allocated(max')
    BY <1>2, AllocatedCovers
  <2> QED
    BY <1>2, <2>1, <2>2, <2>3
<1>5. f \in {-1, 0, ServerFd} \cup ClientFds
  OBVIOUS
<1>6. /\ slots' \in [0..(Allocated(max') - 1) -> Slot]
      /\ slots'[n].fd = f
      /\ \A s \in 0..(n - 1) : slots'[s] = array[s]
  <2>1. array[n] \in Slot
    BY <1>3, <1>4
  <2>2. [array[n] EXCEPT !.fd = f] \in Slot
    BY <2>1, <1>5 DEF Slot
  <2>3. slots' = [array EXCEPT ![n] = [array[n] EXCEPT !.fd = f]]
    BY <1>1
  <2>4. slots'[n] = [array[n] EXCEPT !.fd = f]
    BY <2>3, <1>3, <1>4
  <2>5. slots'[n].fd = f
    BY <2>1, <2>4 DEF Slot
  <2> QED
    BY <1>3, <1>4, <2>2, <2>3, <2>5 DEF TypeOK, ArrayOK
<1> QED
  BY <1>2, <1>3, <1>6

\* del_client_from_poll keeps the array well formed and the listener in slot 0:
\* the index it overwrites is a client descriptor, which is above ServerFd.
LEMMA DelKeepsSlots ==
  ASSUME TypeOK, ListenerFirst, n >= 2,
         NEW f \in {-1} \cup ClientFds, DelClientFromPoll(f)
  PROVE  /\ max' = max /\ n' = n - 1 /\ n' \in 1..max
         /\ slots' \in [0..(Allocated(max) - 1) -> Slot]
         /\ slots'[0].fd = ServerFd
         /\ \A s \in 1..(n' - 1) : slots'[s].fd \in {-1} \cup ClientFds
<1> USE ConstantsAssumption
<1>1. /\ max' = max /\ n' = n - 1
      /\ f \in DOMAIN slots
      /\ slots' = [slots EXCEPT ![f] = slots[n - 1]]
  BY DEF DelClientFromPoll
<1>2. n' \in 1..max
  BY <1>1 DEF TypeOK, ArrayOK
<1>3. n - 1 \in 0..(n - 1) /\ n - 1 \in 1..(n - 1)
  BY DEF TypeOK, ArrayOK
<1>4. slots[n - 1] \in Slot /\ slots[n - 1].fd \in {-1} \cup ClientFds
  BY <1>3, SlotInside DEF ListenerFirst
<1>5. f # 0 /\ DOMAIN slots = 0..(Allocated(max) - 1)
  BY <1>1 DEF ClientFds, TypeOK, ArrayOK
<1>6. slots' \in [0..(Allocated(max) - 1) -> Slot]
  BY <1>1, <1>4 DEF TypeOK, ArrayOK
<1>7. 0 \in 0..(n - 1)
  BY DEF TypeOK, ArrayOK
<1>8. slots'[0].fd = ServerFd
  BY <1>1, <1>5, <1>7, SlotInside DEF ListenerFirst
<1>9. ASSUME NEW s \in 1..(n' - 1)
      PROVE  slots'[s].fd \in {-1} \cup ClientFds
  <2>1. s \in 1..(n - 1) /\ s \in 0..(n - 1)
    BY <1>1 DEF TypeOK, ArrayOK
  <2>2. s \in DOMAIN slots /\ slots[s].fd \in {-1} \cup ClientFds
    BY <2>1, SlotInside DEF ListenerFirst
  <2> QED
    BY <1>1, <1>4, <2>2
<1> QED
  BY <1>1, <1>2, <1>6, <1>8, <1>9

-----------------------------------------------------------------------------
(* The inductive invariant.                                                *)

\* The descriptor being broadcast from stays open: one thread closes them all.
SenderOpen == pc = "send" => chunk.fd \in Open

IndInv == TypeOK /\ ListenerFirst /\ SenderOpen

LEMMA InitIndInv == Init => IndInv
<1> SUFFICES ASSUME Init PROVE IndInv
  OBVIOUS
<1> USE ConstantsAssumption DEF Init, InitPollfd
<1>1. Allocated(max) = InitMax + 1
  BY DEF Allocated
<1>2. slots \in [0..(Allocated(max) - 1) -> Slot]
  BY <1>1 DEF Slot
<1>3. chunk \in [fd : {ServerFd} \cup ClientFds, lo : Nat, hi : Nat]
  BY DEF NoChunk
<1>4. TypeOK
  BY <1>2, <1>3 DEF TypeOK, ArrayOK, ThreadOK, PeersOK, HistoryOK
<1>5. ListenerFirst
  BY DEF ListenerFirst
<1> QED
  BY <1>4, <1>5 DEF IndInv, SenderOpen

\* Where the thread reads a client slot, the slot is not the listener's.
LEMMA AtClientSlot ==
  ASSUME TypeOK, ListenerFirst, AtClient
  PROVE  n >= 2 /\ i \in 1..(n - 1) /\ slots[i].fd \in {-1} \cup ClientFds
<1>1. i # 0 /\ i < n
  BY DEF AtClient, ListenerFirst
<1>2. i \in 1..(n - 1) /\ n >= 2
  BY <1>1 DEF TypeOK, ArrayOK, ThreadOK
<1> QED
  BY <1>2 DEF ListenerFirst

LEMMA NextIndInv == IndInv /\ [Next]_vars => IndInv'
<1> SUFFICES ASSUME IndInv, [Next]_vars PROVE IndInv'
  OBVIOUS
<1> USE ConstantsAssumption DEF IndInv, TypeOK
(* What an action leaves alone keeps its type. *)
<1>1. ASSUME UNCHANGED <<slots, n, max>> PROVE ArrayOK' /\ ListenerFirst'
  BY <1>1 DEF ArrayOK, Allocated, ListenerFirst
<1>2. ASSUME UNCHANGED peers PROVE PeersOK'
  BY <1>2 DEF peers, PeersOK
<1>3. ASSUME UNCHANGED <<got, leaked>> PROVE HistoryOK'
  BY <1>3 DEF HistoryOK
<1>3a. ASSUME UNCHANGED got, leaked' = leaked + 1 PROVE HistoryOK'
  <2>1. leaked' \in Nat
    BY <1>3a DEF HistoryOK
  <2> QED
    BY <1>3a, <2>1 DEF HistoryOK
<1>4. ASSUME NEW f \in {-1} \cup ClientFds, AddClientToPoll(f)
      PROVE  ArrayOK' /\ ListenerFirst'
  <2>1. /\ n' = n + 1 /\ slots'[n].fd = f
        /\ \A s \in 0..(n - 1) : slots'[s] = slots[s]
        /\ ArrayOK'
    BY <1>4, AddKeepsSlots DEF ArrayOK
  <2>2. n \in Nat /\ n >= 1
    BY DEF ArrayOK, ListenerFirst
  <2>3. ASSUME NEW s \in 1..(n' - 1)
        PROVE  slots'[s].fd \in {-1} \cup ClientFds
    <3>1. CASE s = n
      BY <3>1, <2>1
    <3>2. CASE s # n
      BY <3>2, <2>1, <2>2 DEF ListenerFirst
    <3> QED
      BY <3>1, <3>2
  <2> QED
    BY <2>1, <2>2, <2>3 DEF ListenerFirst
<1>5. ASSUME NEW f \in Free, Accepts(f)
      PROVE  /\ f \in {-1} \cup ClientFds
             /\ f \in ClientFds /\ f \notin Open
             /\ Head(backlog) \in Peers
             /\ backlog' \in Seq(Peers)
             /\ pc = "scan"
  BY <1>5 DEF Accepts, AtListener, Free, Open, PeersOK
(* The actions of main's loop. *)
<1>6. CASE Poll
  <2>1. ASSUME NEW s \in DOMAIN slots
        PROVE  Polled[s] \in Slot /\ Polled[s].fd = slots[s].fd
    <3>1. slots[s] \in Slot /\ PollIn(slots[s].fd) \in BOOLEAN
      BY <2>1 DEF ArrayOK, PollIn
    <3>2. [slots[s] EXCEPT !.in = PollIn(slots[s].fd)]
            = [fd |-> slots[s].fd, in |-> PollIn(slots[s].fd)]
      BY <3>1 DEF Slot
    <3>3. slots[s].fd \in {-1, 0, ServerFd} \cup ClientFds
      BY <3>1 DEF Slot
    <3>4. Polled[s] = IF s < n THEN [fd |-> slots[s].fd, in |-> PollIn(slots[s].fd)]
                               ELSE slots[s]
      BY <2>1, <3>2 DEF Polled
    <3> QED
      BY <3>1, <3>3, <3>4 DEF Slot
  <2>2. slots' = Polled /\ UNCHANGED <<n, max>>
    BY <1>6 DEF Poll
  <2>3. ArrayOK'
    BY <2>1, <2>2 DEF ArrayOK, Polled, Allocated
  <2>4. ListenerFirst'
    <3>1. \A s \in 0..(n - 1) : slots'[s].fd = slots[s].fd
      BY <2>1, <2>2, SlotInside
    <3> QED
      BY <2>2, <3>1 DEF ListenerFirst, ArrayOK
  <2>5. ThreadOK' /\ SenderOpen'
    BY <1>6 DEF Poll, ThreadOK, SenderOpen
  <2> QED
    BY <1>2, <1>3, <1>6, <2>3, <2>4, <2>5 DEF Poll
<1>7. CASE PollFails
  BY <1>1, <1>2, <1>3, <1>7 DEF PollFails, ThreadOK, SenderOpen
<1>8. CASE Skip
  BY <1>1, <1>2, <1>3, <1>8 DEF Skip, ThreadOK, SenderOpen
<1>9. CASE EndScan
  BY <1>1, <1>2, <1>3, <1>9 DEF EndScan, ThreadOK, SenderOpen
(* accept_connections. *)
<1>10. CASE Accept
  <2>1. PICK f \in Free : /\ Accepts(f) /\ AddClientToPoll(f)
                          /\ sock' = [sock EXCEPT ![f] = Head(backlog)]
                          /\ i' = i + 1
                          /\ UNCHANGED <<pc, j, chunk, link, sent, read, unread, got, leaked>>
    BY <1>10 DEF Accept
  <2>2. ArrayOK' /\ ListenerFirst'
    BY <1>4, <1>5, <2>1
  <2>3. ThreadOK' /\ SenderOpen'
    BY <1>5, <2>1 DEF ThreadOK, SenderOpen
  <2>4. PeersOK'
    BY <1>5, <2>1 DEF PeersOK
  <2> QED
    BY <1>3, <2>1, <2>2, <2>3, <2>4
<1>11. CASE AcceptReset
  <2>1. PICK f \in Free : /\ Accepts(f) /\ AddClientToPoll(f)
                          /\ leaked' = leaked + 1
                          /\ i' = i + 1
                          /\ UNCHANGED <<pc, j, chunk, sock, link, sent, read, unread, got>>
    BY <1>11 DEF AcceptReset
  <2>2. ArrayOK' /\ ListenerFirst'
    BY <1>4, <1>5, <2>1
  <2>3. ThreadOK' /\ SenderOpen'
    BY <1>5, <2>1 DEF ThreadOK, SenderOpen
  <2>4. PeersOK'
    BY <1>5, <2>1 DEF PeersOK
  <2>5. HistoryOK'
    BY <1>3a, <2>1
  <2> QED
    BY <2>2, <2>3, <2>4, <2>5
<1>12. CASE AcceptKilled
  <2>1. PICK f \in Free : /\ Accepts(f) /\ AddClientToPoll(f)
                          /\ sock' = [sock EXCEPT ![f] = Head(backlog)]
                          /\ pc' = "killed"
                          /\ UNCHANGED <<i, j, chunk, link, sent, read, unread, got, leaked>>
    BY <1>12 DEF AcceptKilled
  <2>2. ArrayOK' /\ ListenerFirst'
    BY <1>4, <1>5, <2>1
  <2>3. ThreadOK' /\ SenderOpen'
    BY <1>5, <2>1 DEF ThreadOK, SenderOpen
  <2>4. PeersOK'
    BY <1>5, <2>1 DEF PeersOK
  <2> QED
    BY <1>3, <2>1, <2>2, <2>3, <2>4
<1>13. CASE AcceptFails
  <2>1. ArrayOK' /\ ListenerFirst'
    BY <1>4, <1>13 DEF AcceptFails
  <2>2. ThreadOK' /\ SenderOpen'
    BY <1>13 DEF AcceptFails, AtListener, ThreadOK, SenderOpen
  <2>3. HistoryOK'
    BY <1>3a, <1>13 DEF AcceptFails
  <2> QED
    BY <1>2, <1>13, <2>1, <2>2, <2>3 DEF AcceptFails
(* read_from_client. *)
<1>14. CASE Recv
  <2> DEFINE f == slots[i].fd
             p == sock[f]
  <2>1. f \in ClientFds /\ f \in Open /\ p \in Peers
    BY <1>14 DEF Recv, Open, ThreadOK
  <2>2. PICK k \in (read[p] + 1)..sent[p] :
          /\ read' = [read EXCEPT ![p] = k]
          /\ chunk' = [fd |-> f, lo |-> read[p] + 1, hi |-> k]
    BY <1>14 DEF Recv
  <2>3. k \in 0..MaxMsgs /\ read[p] + 1 \in Nat
    BY <2>1, <2>2, SMTT(30) DEF PeersOK
  <2>4. UNCHANGED <<slots, n, max, i, sock, backlog, link, sent, unread, got, leaked>>
        /\ pc' = "send" /\ j' = 0
    BY <1>14 DEF Recv, FirstTarget
  <2>5. PeersOK'
    BY <2>1, <2>2, <2>3, <2>4 DEF PeersOK
  <2>6. chunk' \in [fd : {ServerFd} \cup ClientFds, lo : Nat, hi : Nat]
    BY <2>1, <2>2, <2>3
  <2>7. ThreadOK'
    BY <2>4, <2>6 DEF ThreadOK
  <2>8. SenderOpen'
    BY <2>1, <2>2, <2>4 DEF SenderOpen, Open
  <2> QED
    BY <1>1, <1>3, <2>4, <2>5, <2>7, <2>8
<1>15. CASE Hangup
  <2> DEFINE f == slots[i].fd
  <2>1. n >= 2 /\ f \in {-1} \cup ClientFds
    BY <1>15, AtClientSlot DEF Hangup
  <2>2. DelClientFromPoll(f)
    BY <1>15 DEF Hangup
  <2>3. /\ max' = max /\ n' = n - 1 /\ n' \in 1..max
        /\ slots' \in [0..(Allocated(max) - 1) -> Slot]
        /\ slots'[0].fd = ServerFd
        /\ \A s \in 1..(n' - 1) : slots'[s].fd \in {-1} \cup ClientFds
    BY <2>1, <2>2, DelKeepsSlots
  <2>4. ArrayOK'
    BY <2>3 DEF ArrayOK, Allocated
  <2>5. ListenerFirst'
    BY <2>3 DEF ListenerFirst
  <2>6. ThreadOK' /\ SenderOpen'
    BY <1>15 DEF Hangup, AtClient, ThreadOK, SenderOpen
  <2> QED
    BY <1>2, <1>3, <1>15, <2>4, <2>5, <2>6 DEF Hangup
<1>16. CASE HangupWild
  BY <1>1, <1>2, <1>3, <1>16 DEF HangupWild, ThreadOK, SenderOpen
(* The broadcast. *)
<1>17. CASE SendSkip
  BY <1>1, <1>2, <1>3, <1>17 DEF SendSkip, ThreadOK, SenderOpen, Open
<1>18. CASE SendFails
  BY <1>1, <1>2, <1>3, <1>18 DEF SendFails, Sending, ThreadOK, SenderOpen, Open
<1>19. CASE SendKilled
  BY <1>1, <1>2, <1>3, <1>19 DEF SendKilled, ThreadOK, SenderOpen
<1>20. CASE SendDelivers
  <2> DEFINE q == sock[Target]
             Chunks == [from : Peers, lo : Nat, hi : Nat]
  <2>1. /\ q \in Peers /\ pc = "send" /\ unread[q] < SndBuf
        /\ unread' = [unread EXCEPT ![q] = @ + 1]
        /\ got' = [got EXCEPT ![q] = Append(@, Chunk)]
        /\ j' = j + 1
        /\ UNCHANGED <<slots, n, max, pc, i, chunk, sock, backlog, link, sent, read, leaked>>
    BY <1>20 DEF SendDelivers, Sending, Open, ThreadOK
  <2>2. Chunk \in Chunks
    <3>1. Sender \in Peers
      BY <2>1 DEF Sender, SenderOpen, Open, ThreadOK
    <3>2. chunk.lo \in Nat /\ chunk.hi \in Nat
      BY DEF ThreadOK
    <3> QED
      BY <3>1, <3>2 DEF Chunk
  <2>3. HistoryOK'
    <3>1. Append(got[q], Chunk) \in Seq(Chunks)
      BY <2>1, <2>2 DEF HistoryOK
    <3> QED
      BY <2>1, <3>1 DEF HistoryOK
  <2>4. PeersOK'
    <3>1. unread[q] + 1 \in 0..SndBuf
      BY <2>1 DEF PeersOK
    <3>2. unread' \in [Peers -> 0..SndBuf]
      BY <2>1, <3>1 DEF PeersOK
    <3> QED
      BY <2>1, <3>2 DEF PeersOK
  <2>5. ThreadOK' /\ SenderOpen'
    BY <2>1 DEF ThreadOK, SenderOpen, Open
  <2> QED
    BY <1>1, <2>1, <2>3, <2>4, <2>5
<1>21. CASE SendLost
  BY <1>1, <1>2, <1>3, <1>21 DEF SendLost, Sending, ThreadOK, SenderOpen, Open
<1>22. CASE EndBroadcast
  <2>1. NoChunk \in [fd : {ServerFd} \cup ClientFds, lo : Nat, hi : Nat]
    BY DEF NoChunk
  <2> QED
    BY <1>1, <1>2, <1>3, <1>22, <2>1 DEF EndBroadcast, ThreadOK, SenderOpen
(* The peers. *)
<1>23. ASSUME UNCHANGED server PROVE ArrayOK' /\ ListenerFirst' /\ ThreadOK' /\ SenderOpen'
  BY <1>1, <1>23 DEF server, ThreadOK, SenderOpen, Open
<1>24. ASSUME NEW p \in Peers, Connect(p) PROVE IndInv'
  BY <1>3, <1>23, <1>24 DEF Connect, PeersOK
<1>25. ASSUME NEW p \in Peers, Write(p) PROVE IndInv'
  BY <1>3, <1>23, <1>25 DEF Write, PeersOK
<1>26. ASSUME NEW p \in Peers, Consume(p) PROVE IndInv'
  BY <1>3, <1>23, <1>26 DEF Consume, PeersOK
<1>27. ASSUME NEW p \in Peers, Close(p) \/ Reset(p) PROVE IndInv'
  <2>1. /\ UNCHANGED <<server, backlog, sent, read, got, leaked>>
        /\ \E l \in {"fin", "rst"} : link' = [link EXCEPT ![p] = l]
        /\ unread' = [unread EXCEPT ![p] = 0]
    BY <1>27 DEF Close, Reset
  <2>2. link' \in [Peers -> {"idle", "open", "fin", "rst"}]
    BY <2>1 DEF PeersOK
  <2>3. unread' \in [Peers -> 0..SndBuf]
    BY <2>1 DEF PeersOK
  <2> QED
    BY <1>3, <1>23, <2>1, <2>2, <2>3 DEF PeersOK
<1>28. CASE UNCHANGED vars
  BY <1>2, <1>3, <1>23, <1>28 DEF vars, server, peers
<1> QED
  BY <1>6, <1>7, <1>8, <1>9, <1>10, <1>11, <1>12, <1>13, <1>14, <1>15, <1>16, <1>17,
     <1>18, <1>19, <1>20, <1>21, <1>22, <1>24, <1>25, <1>26, <1>27, <1>28
  DEF Next, ServerStep, PeerStep

-----------------------------------------------------------------------------
(* The theorems.                                                           *)

\* The inductive invariant holds in every reachable state.
THEOREM Invariant == Spec => []IndInv
<1> QED
  BY InitIndInv, NextIndInv, PTL DEF Spec

\* The array is never indexed past what was allocated by the server's own
\* bookkeeping (n_pollfds stays within max_pollfds through every doubling), and
\* every variable has its type, for any number of peers and any limits.
THEOREM TypeCorrect == Spec => []TypeOK
<1> QED
  BY Invariant, PTL DEF IndInv

\* The listening socket is in slot 0, and only there, for ever: whatever index
\* del_client_from_poll is given, it is above ServerFd.
THEOREM ListenerStays == Spec => []ListenerFirst
<1> QED
  BY Invariant, PTL DEF IndInv

-----------------------------------------------------------------------------
(* Descriptors and peers.                                                  *)

\* A descriptor leads to one peer and a peer has one descriptor, however
\* descriptors are closed and reused; nobody is accepted twice.
OneDescriptorPerPeer ==
  /\ \A f, g \in Open : sock[f] = sock[g] => f = g
  /\ \A f \in Open, b \in 1..Len(backlog) : sock[f] # backlog[b]
  /\ \A b, c \in 1..Len(backlog) : backlog[b] = backlog[c] => b = c

\* Only peers that have connected wait in the backlog or have a descriptor.
KnownPeers ==
  /\ \A f \in Open : link[sock[f]] # "idle"
  /\ \A b \in 1..Len(backlog) : link[backlog[b]] # "idle"

PeersInv == IndInv /\ OneDescriptorPerPeer /\ KnownPeers

\* What an accept does to the backlog: the head leaves it.
LEMMA AcceptsTail ==
  ASSUME IndInv, NEW f \in Free, Accepts(f)
  PROVE  /\ Len(backlog) >= 1
         /\ backlog[1] = Head(backlog) /\ Head(backlog) \in Peers
         /\ Len(backlog') = Len(backlog) - 1
         /\ \A b \in 1..Len(backlog') : /\ backlog'[b] = backlog[b + 1]
                                        /\ b + 1 \in 1..Len(backlog)
                                        /\ b + 1 # 1
BY DEF Accepts, IndInv, TypeOK, PeersOK

\* The rest of the backlog is without repetition, and holds neither its head nor
\* a peer that has a descriptor.
LEMMA TailDistinct ==
  ASSUME IndInv, OneDescriptorPerPeer, NEW f \in Free, Accepts(f)
  PROVE  /\ \A b, c \in 1..Len(backlog') : backlog'[b] = backlog'[c] => b = c
         /\ \A b \in 1..Len(backlog') : Head(backlog) # backlog'[b]
         /\ \A g \in Open, b \in 1..Len(backlog') : sock[g] # backlog'[b]
<1>1. /\ 1 \in 1..Len(backlog) /\ Len(backlog') \in Nat
      /\ backlog[1] = Head(backlog)
  BY AcceptsTail DEF Accepts, IndInv, TypeOK, PeersOK
<1>2. ASSUME NEW b \in 1..Len(backlog'), NEW c \in 1..Len(backlog'),
             backlog'[b] = backlog'[c]
      PROVE  b = c
  <2>1. /\ b + 1 \in 1..Len(backlog) /\ backlog'[b] = backlog[b + 1]
        /\ c + 1 \in 1..Len(backlog) /\ backlog'[c] = backlog[c + 1]
    BY AcceptsTail
  <2>2. b + 1 = c + 1
    BY <1>2, <2>1 DEF OneDescriptorPerPeer
  <2> QED
    BY <1>1, <2>2
<1>3. ASSUME NEW b \in 1..Len(backlog')
      PROVE  /\ Head(backlog) # backlog'[b]
             /\ \A g \in Open : sock[g] # backlog'[b]
  <2>1. b + 1 \in 1..Len(backlog) /\ backlog'[b] = backlog[b + 1] /\ b + 1 # 1
    BY AcceptsTail
  <2> QED
    BY <1>1, <2>1 DEF OneDescriptorPerPeer
<1> QED
  BY <1>2, <1>3

LEMMA PeersStep == PeersInv /\ [Next]_vars => OneDescriptorPerPeer' /\ KnownPeers'
<1> SUFFICES ASSUME PeersInv, [Next]_vars
             PROVE  OneDescriptorPerPeer' /\ KnownPeers'
  OBVIOUS
<1> USE ConstantsAssumption DEF PeersInv
<1>1. sock \in [ClientFds -> Peers \cup {None}] /\ backlog \in Seq(Peers)
      /\ link \in [Peers -> {"idle", "open", "fin", "rst"}]
  BY DEF IndInv, TypeOK, ThreadOK, PeersOK
<1>2. CASE UNCHANGED <<sock, backlog>>
  <2>1. OneDescriptorPerPeer'
    BY <1>2 DEF OneDescriptorPerPeer, Open
  <2>2. \A p \in Peers : link[p] # "idle" => link'[p] # "idle"
    <3>1. CASE UNCHANGED link
      BY <3>1
    <3>2. CASE ServerStep
      BY <3>2, <1>1 DEF ServerStep, Poll, PollFails, Skip, EndScan, Accept, AcceptReset,
           AcceptKilled, AcceptFails, Recv, Hangup, HangupWild, SendSkip, SendFails,
           SendKilled, SendDelivers, SendLost, EndBroadcast, peers
    <3>3. CASE PeerStep
      BY <3>3, <1>1 DEF PeerStep, Connect, Write, Consume, Close, Reset
    <3> QED
      BY <3>1, <3>2, <3>3 DEF Next, vars
  <2>3. \A f \in Open : sock[f] \in Peers
    BY <1>1 DEF Open
  <2>4. \A b \in 1..Len(backlog) : backlog[b] \in Peers
    BY <1>1
  <2> QED
    BY <1>2, <2>1, <2>2, <2>3, <2>4 DEF KnownPeers, Open
<1>3. ASSUME NEW f \in Free, Accepts(f), UNCHANGED link
      PROVE  /\ \A b, c \in 1..Len(backlog') : backlog'[b] = backlog'[c] => b = c
             /\ \A b \in 1..Len(backlog') : Head(backlog) # backlog'[b]
             /\ \A g \in Open, b \in 1..Len(backlog') : sock[g] # backlog'[b]
             /\ \A b \in 1..Len(backlog') : link'[backlog'[b]] # "idle"
             /\ link[Head(backlog)] # "idle"
             /\ \A g \in Open : sock[g] # Head(backlog)
  <2>1. 1 \in 1..Len(backlog) /\ backlog[1] = Head(backlog)
    BY <1>1, <1>3, AcceptsTail
  <2>2. \A g \in Open : sock[g] # Head(backlog)
    BY <2>1 DEF OneDescriptorPerPeer
  <2>3. link[Head(backlog)] # "idle"
    BY <2>1 DEF KnownPeers
  <2>4. ASSUME NEW b \in 1..Len(backlog') PROVE link'[backlog'[b]] # "idle"
    <3>1. b + 1 \in 1..Len(backlog) /\ backlog'[b] = backlog[b + 1]
      BY <1>3, AcceptsTail
    <3> QED
      BY <1>3, <3>1 DEF KnownPeers
  <2> QED
    BY <1>3, <2>2, <2>3, <2>4, TailDistinct
<1>3a. ASSUME NEW f \in Free, Accepts(f), UNCHANGED link,
              sock' = [sock EXCEPT ![f] = Head(backlog)]
       PROVE  OneDescriptorPerPeer' /\ KnownPeers'
  <2>1. Head(backlog) \in Peers
    BY <1>3a, AcceptsTail
  <2>2. Open' = Open \cup {f} /\ f \notin Open
    BY <1>1, <1>3a, <2>1 DEF Open, Free
  <2>3. /\ sock'[f] = Head(backlog)
        /\ \A g \in Open : sock'[g] = sock[g]
    BY <1>1, <1>3a, <2>2 DEF Free, Open
  <2>4. \A g, h \in Open' : sock'[g] = sock'[h] => g = h
    BY <1>3, <1>3a, <2>2, <2>3 DEF OneDescriptorPerPeer
  <2>5. \A g \in Open', b \in 1..Len(backlog') : sock'[g] # backlog'[b]
    BY <1>3, <1>3a, <2>2, <2>3
  <2>6. \A g \in Open' : link'[sock'[g]] # "idle"
    BY <1>3, <1>3a, <2>2, <2>3 DEF KnownPeers
  <2> QED
    BY <1>3, <1>3a, <2>4, <2>5, <2>6 DEF OneDescriptorPerPeer, KnownPeers
<1>4. ASSUME NEW f \in Free, Accepts(f), UNCHANGED <<link, sock>>
      PROVE  OneDescriptorPerPeer' /\ KnownPeers'
  <2>1. UNCHANGED Open
    BY <1>4 DEF Open
  <2> QED
    BY <1>3, <1>4, <2>1 DEF OneDescriptorPerPeer, KnownPeers
<1>5. CASE Hangup \/ HangupWild
  <2>1. UNCHANGED <<backlog, link>>
        /\ sock' = [g \in ClientFds |-> IF g = slots[i].fd THEN None ELSE sock[g]]
    BY <1>5 DEF Hangup, HangupWild, peers
  <2>2. \A g \in Open' : g \in Open /\ sock'[g] = sock[g]
    BY <2>1 DEF Open
  <2> QED
    BY <2>1, <2>2, SMTT(30) DEF OneDescriptorPerPeer, KnownPeers
<1>6. ASSUME NEW p \in Peers, Connect(p)
      PROVE  OneDescriptorPerPeer' /\ KnownPeers'
  <2>1. /\ backlog' = Append(backlog, p) /\ UNCHANGED sock
        /\ link[p] = "idle" /\ link' = [link EXCEPT ![p] = "open"]
    BY <1>6 DEF Connect, server
  <2>2. /\ Len(backlog') = Len(backlog) + 1 /\ Len(backlog) \in Nat
        /\ backlog'[Len(backlog) + 1] = p
        /\ \A b \in 1..Len(backlog) : backlog'[b] = backlog[b] /\ backlog[b] \in Peers
    BY <1>1, <2>1
  <2>3. /\ \A b \in 1..Len(backlog) : backlog[b] # p
        /\ \A f \in Open : sock[f] # p /\ sock[f] \in Peers
    BY <1>1, <2>1 DEF KnownPeers, Open
  <2>4. \A b \in 1..Len(backlog') : b \in 1..Len(backlog) \/ b = Len(backlog) + 1
    BY <2>2
  <2>5. OneDescriptorPerPeer'
    BY <2>1, <2>2, <2>3, <2>4 DEF OneDescriptorPerPeer, Open
  <2>6. KnownPeers'
    BY <1>1, <2>1, <2>2, <2>3, <2>4 DEF KnownPeers, Open
  <2> QED
    BY <2>5, <2>6
<1>7. CASE Accept
  BY <1>3a, <1>7 DEF Accept
<1>8. CASE AcceptKilled
  BY <1>3a, <1>8 DEF AcceptKilled
<1>9. CASE AcceptReset
  BY <1>4, <1>9 DEF AcceptReset
<1>10. CASE Poll \/ PollFails \/ Skip \/ EndScan \/ AcceptFails \/ Recv
  BY <1>2, <1>10 DEF Poll, PollFails, Skip, EndScan, AcceptFails, Recv, peers
<1>11. CASE SendSkip \/ SendFails \/ SendKilled \/ SendDelivers \/ SendLost \/ EndBroadcast
  BY <1>2, <1>11
    DEF SendSkip, SendFails, SendKilled, SendDelivers, SendLost, EndBroadcast, peers
<1>12. ASSUME NEW p \in Peers, Write(p) \/ Consume(p) \/ Close(p) \/ Reset(p)
       PROVE  OneDescriptorPerPeer' /\ KnownPeers'
  BY <1>2, <1>12 DEF Write, Consume, Close, Reset, server
<1>13. CASE UNCHANGED vars
  BY <1>2, <1>13 DEF vars
<1> QED
  BY <1>5, <1>6, <1>7, <1>8, <1>9, <1>10, <1>11, <1>12, <1>13 DEF Next, ServerStep, PeerStep

\* Descriptors and peers correspond one to one, through every reuse of a number.
THEOREM DescriptorsDistinct == Spec => []OneDescriptorPerPeer
<1>1. Init => PeersInv
  BY InitIndInv DEF Init, PeersInv, OneDescriptorPerPeer, KnownPeers, Open
<1>2. PeersInv /\ [Next]_vars => PeersInv'
  BY PeersStep, NextIndInv DEF PeersInv
<1> QED
  BY <1>1, <1>2, PTL DEF Spec, PeersInv

\* Only send adds to what a peer was sent, at the end.
LEMMA GotSteps ==
  ASSUME IndInv, [Next]_vars
  PROVE  SendDelivers \/ UNCHANGED got
<1>1. CASE Accept \/ AcceptReset \/ AcceptKilled \/ AcceptFails \/ Recv \/ Hangup \/ HangupWild
  BY <1>1 DEF Accept, AcceptReset, AcceptKilled, AcceptFails, Recv, Hangup, HangupWild
<1>2. CASE Poll \/ PollFails \/ Skip \/ EndScan
  BY <1>2 DEF Poll, PollFails, Skip, EndScan
<1>3. CASE SendSkip \/ SendFails \/ SendKilled \/ SendLost \/ EndBroadcast
  BY <1>3 DEF SendSkip, SendFails, SendKilled, SendLost, EndBroadcast
<1>4. CASE PeerStep
  BY <1>4 DEF PeerStep, Connect, Write, Consume, Close, Reset
<1> QED
  BY <1>1, <1>2, <1>3, <1>4 DEF Next, ServerStep, vars

\* Nobody is sent a message of its own: the target's descriptor differs from the
\* sender's, and distinct descriptors lead to distinct peers.
THEOREM NobodyHearsItself == Spec => []NoEcho
<1>1. Init => PeersInv /\ NoEcho
  BY InitIndInv DEF Init, PeersInv, OneDescriptorPerPeer, KnownPeers, Open, NoEcho
<1>2. PeersInv /\ NoEcho /\ [Next]_vars => NoEcho'
  <2> SUFFICES ASSUME PeersInv, NoEcho, [Next]_vars PROVE NoEcho'
    OBVIOUS
  <2>1. CASE SendDelivers
    <3> DEFINE q == sock[Target]
    <3>1. /\ Target \in Open /\ Target # chunk.fd /\ pc = "send"
          /\ got' = [got EXCEPT ![q] = Append(@, Chunk)]
      BY <2>1 DEF SendDelivers, Sending
    <3>2. chunk.fd \in Open /\ q \in Peers
      BY <3>1 DEF PeersInv, IndInv, SenderOpen, TypeOK, ThreadOK, Open
    <3>3. Chunk.from # q
      BY <3>1, <3>2 DEF PeersInv, OneDescriptorPerPeer, Chunk, Sender
    <3>4. got \in [Peers -> Seq([from : Peers, lo : Nat, hi : Nat])]
      BY DEF PeersInv, IndInv, TypeOK, HistoryOK
    <3>5. ASSUME NEW p \in Peers, NEW k \in 1..Len(got'[p])
          PROVE  got'[p][k].from # p
      <4>1. CASE p # q
        BY <3>1, <3>4, <3>5, <4>1 DEF NoEcho
      <4>2. CASE p = q
        <5>1. got'[p] = Append(got[p], Chunk) /\ got[p] \in Seq([from : Peers, lo : Nat, hi : Nat])
          BY <3>1, <3>4, <4>2
        <5>2. CASE k = Len(got[p]) + 1
          BY <5>1, <5>2, <3>3, <4>2
        <5>3. CASE k \in 1..Len(got[p])
          BY <5>1, <5>3 DEF NoEcho
        <5> QED
          BY <5>1, <5>2, <5>3
      <4> QED
        BY <4>1, <4>2
    <3> QED
      BY <3>5 DEF NoEcho
  <2>2. CASE UNCHANGED got
    BY <2>2 DEF NoEcho
  <2>3. SendDelivers \/ UNCHANGED got
    BY GotSteps DEF PeersInv
  <2> QED
    BY <2>1, <2>2, <2>3
<1>3. PeersInv /\ [Next]_vars => PeersInv'
  BY PeersStep, NextIndInv DEF PeersInv
<1> QED
  BY <1>1, <1>2, <1>3, PTL DEF Spec

-----------------------------------------------------------------------------
(* The length of the watch list.                                           *)

\* Client descriptors lie between the listener's and the limit.
LEMMA OpenFinite ==
  /\ IsFiniteSet(Open)
  /\ Cardinality(Open) \in Nat
  /\ Cardinality(Open) <= FdLimit - 1 - ServerFd
<1>1. /\ IsFiniteSet(ClientFds)
      /\ Cardinality(ClientFds) = FdLimit - 1 - ServerFd
  BY FS_Interval, ConstantsAssumption DEF ClientFds
<1>2. Open \subseteq ClientFds
  BY DEF Open
<1> QED
  BY <1>1, <1>2, FS_Subset, FS_CardinalityType

CountInv == IndInv /\ WatchListBounded /\ EndsForCause

LEMMA CountStep == CountInv /\ [Next]_vars => WatchListBounded' /\ EndsForCause'
<1> SUFFICES ASSUME CountInv, [Next]_vars
             PROVE  WatchListBounded' /\ EndsForCause'
  OBVIOUS
<1> USE ConstantsAssumption DEF CountInv
<1>1. n \in Nat /\ leaked \in Nat /\ Cardinality(Open) \in Nat /\ IsFiniteSet(Open)
  BY OpenFinite DEF IndInv, TypeOK, ArrayOK, HistoryOK
<1>2. CASE /\ UNCHANGED <<n, sock, leaked>>
           /\ pc' = "wild" <=> pc = "wild"
           /\ pc' = "exited" => pc = "exited"
  BY <1>2 DEF WatchListBounded, EndsForCause, Open
<1>3. CASE Accept \/ AcceptKilled
  <2>1. PICK f \in Free : /\ sock' = [sock EXCEPT ![f] = Head(backlog)]
                          /\ Accepts(f) /\ AddClientToPoll(f)
    BY <1>3 DEF Accept, AcceptKilled
  <2>2. n' = n + 1 /\ leaked' = leaked /\ pc = "scan" /\ pc' \in {"scan", "killed"}
    BY <1>3, <2>1 DEF Accept, AcceptKilled, Accepts, AtListener, AddClientToPoll
  <2>3. Open' = Open \cup {f} /\ f \notin Open
    <3>1. Head(backlog) \in Peers /\ sock \in [ClientFds -> Peers \cup {None}]
      BY <2>1, AcceptsTail DEF IndInv, TypeOK, ThreadOK
    <3> QED
      BY <2>1, <3>1 DEF Open, Free
  <2>4. Cardinality(Open') = Cardinality(Open) + 1
    BY <1>1, <2>3, FS_AddElement
  <2> QED
    BY <1>1, <2>2, <2>4 DEF WatchListBounded, EndsForCause
<1>4. CASE AcceptReset \/ AcceptFails
  <2>1. n' = n + 1 /\ leaked' = leaked + 1 /\ UNCHANGED <<sock, pc>> /\ pc = "scan"
    BY <1>4 DEF AcceptReset, AcceptFails, Accepts, AtListener, AddClientToPoll
  <2> QED
    BY <1>1, <2>1 DEF WatchListBounded, EndsForCause, Open
<1>5. CASE Hangup
  <2> DEFINE f == slots[i].fd
  <2>1. /\ n' = n - 1 /\ UNCHANGED <<leaked, pc>> /\ pc = "scan"
        /\ sock' = [g \in ClientFds |-> IF g = f THEN None ELSE sock[g]]
    BY <1>5 DEF Hangup, AtClient, DelClientFromPoll
  <2>2. Open' = Open \ {f}
    BY <2>1 DEF Open
  <2>3. /\ Cardinality(Open') \in Nat
        /\ Cardinality(Open) <= Cardinality(Open') + 1
    <3>1. /\ IsFiniteSet(Open \ {f})
          /\ Cardinality(Open \ {f})
               = IF f \in Open THEN Cardinality(Open) - 1 ELSE Cardinality(Open)
      BY <1>1, FS_RemoveElement
    <3>2. Cardinality(Open \ {f}) \in Nat
      BY <3>1, FS_CardinalityType
    <3> QED
      BY <1>1, <2>2, <3>1, <3>2
  <2> QED
    BY <1>1, <2>1, <2>3 DEF WatchListBounded, EndsForCause
<1>6. CASE HangupWild
  BY <1>6 DEF HangupWild, AtClient, WatchListBounded, EndsForCause
<1>7. CASE PollFails
  <2>1. /\ pc = "poll" /\ pc' = "exited" /\ n > FdLimit
        /\ UNCHANGED <<n, sock, leaked>>
    BY <1>7 DEF PollFails
  <2>2. leaked > ServerFd
    <3>1. n <= 1 + Cardinality(Open) + leaked
      BY <2>1 DEF WatchListBounded
    <3> QED
      BY <1>1, <2>1, <3>1, OpenFinite
  <2> QED
    BY <2>1, <2>2 DEF WatchListBounded, EndsForCause, Open
<1>8. CASE Poll \/ Skip \/ EndScan \/ Recv
  <2>1. CASE Poll
    BY <1>2, <2>1 DEF Poll
  <2> QED
    BY <1>2, <1>8, <2>1 DEF Skip, EndScan, Recv, AtClient
<1>9. CASE SendSkip \/ SendFails \/ SendKilled \/ SendDelivers \/ SendLost \/ EndBroadcast
  BY <1>2, <1>9
    DEF SendSkip, SendFails, SendKilled, SendDelivers, SendLost, EndBroadcast, Sending
<1>10. CASE PeerStep
  BY <1>2, <1>10 DEF PeerStep, Connect, Write, Consume, Close, Reset, server
<1>11. CASE UNCHANGED vars
  BY <1>2, <1>11 DEF vars
<1> QED
  BY <1>3, <1>4, <1>5, <1>6, <1>7, <1>8, <1>9, <1>10, <1>11 DEF Next, ServerStep

LEMMA CountInvariant == Spec => []CountInv
<1>1. Init => CountInv
  BY InitIndInv, OpenFinite DEF Init, CountInv, WatchListBounded, EndsForCause
<1>2. CountInv /\ [Next]_vars => CountInv'
  BY CountStep, NextIndInv DEF CountInv
<1> QED
  BY <1>1, <1>2, PTL DEF Spec

\* The watch list is never longer than the listener, the open connections and
\* the slots failed accepts left: closing gives back the slot accepting took.
THEOREM WatchListStaysBounded == Spec => []WatchListBounded
<1> QED
  BY CountInvariant, PTL DEF CountInv

\* main returns from its loop only after more failed accepts and greetings than
\* the listener's descriptor number: a list too long for poll holds at most one slot
\* per client descriptor besides the listener's and those that accepts left dead.
THEOREM EndsOnlyForCause == Spec => []EndsForCause
<1> QED
  BY CountInvariant, PTL DEF CountInv

-----------------------------------------------------------------------------
(* Before the first disconnect.                                            *)

\* accept's descriptor goes in a slot of its own behind the others.
LEMMA AcceptSlots ==
  ASSUME IndInv, NEW f \in Free, Accepts(f), AddClientToPoll(f)
  PROVE  /\ n \in Nat /\ n' = n + 1 /\ slots'[n].fd = f
         /\ \A s \in 0..(n - 1) : slots'[s] = slots[s]
         /\ f \in ClientFds /\ f \notin Open
<1>1. f \in {-1} \cup ClientFds
  BY DEF Free
<1> QED
  BY <1>1, AddKeepsSlots DEF IndInv, TypeOK, ArrayOK, Free, Open

\* A hangup, a reset or a failed accept is never undone.
LEMMA QuietBefore ==
  ASSUME IndInv, [Next]_vars, NoDisconnectYet'
  PROVE  NoDisconnectYet
<1>1. /\ leaked \in Nat
      /\ link \in [Peers -> {"idle", "open", "fin", "rst"}]
  BY DEF IndInv, TypeOK, PeersOK, HistoryOK
<1>2. leaked' = 0 /\ \A p \in Peers : link'[p] \in {"idle", "open"}
  BY DEF NoDisconnectYet
<1>3. CASE UNCHANGED <<link, leaked>>
  BY <1>3 DEF NoDisconnectYet
<1>4. CASE AcceptReset \/ AcceptFails
  <2>1. leaked' = leaked + 1
    BY <1>4 DEF AcceptReset, AcceptFails
  <2> QED
    BY <1>1, <1>2, <2>1
<1>5. CASE \E p \in Peers : Connect(p)
  <2>1. PICK p \in Peers : /\ link[p] = "idle" /\ leaked' = leaked
                           /\ link' = [link EXCEPT ![p] = "open"]
    BY <1>5 DEF Connect
  <2> QED
    BY <1>1, <1>2, <2>1 DEF NoDisconnectYet
<1>6. ASSUME NEW p \in Peers, Close(p) \/ Reset(p)
      PROVE  NoDisconnectYet
  <2>1. link'[p] \in {"fin", "rst"}
    BY <1>1, <1>6 DEF Close, Reset
  <2> QED
    BY <1>2, <2>1
<1>7. CASE Poll \/ PollFails \/ Skip \/ EndScan \/ Accept \/ AcceptKilled
           \/ Recv \/ Hangup \/ HangupWild
  BY <1>3, <1>7 DEF Poll, PollFails, Skip, EndScan, Accept, AcceptKilled, Recv, Hangup,
    HangupWild, peers
<1>8. CASE SendSkip \/ SendFails \/ SendKilled \/ SendDelivers \/ SendLost \/ EndBroadcast
  BY <1>3, <1>8 DEF SendSkip, SendFails, SendKilled, SendDelivers, SendLost, EndBroadcast, peers
<1>9. CASE \E p \in Peers : Write(p) \/ Consume(p)
  BY <1>3, <1>9 DEF Write, Consume
<1>10. CASE UNCHANGED vars
  BY <1>3, <1>10 DEF vars
<1> QED
  BY <1>4, <1>5, <1>6, <1>7, <1>8, <1>9, <1>10 DEF Next, ServerStep, PeerStep

\* While the watch list is right the server only polls, accepts, receives and
\* delivers: no hangup is seen, no accept and no send fails.
LEMMA QuietSteps ==
  ASSUME IndInv, WatchListExact, [Next]_vars, NoDisconnectYet'
  PROVE  \/ Poll \/ PollFails \/ Skip \/ EndScan
         \/ Accept \/ Recv \/ SendSkip \/ SendDelivers \/ EndBroadcast
         \/ \E p \in Peers : Connect(p) \/ Write(p) \/ Consume(p)
         \/ UNCHANGED vars
<1>1. /\ NoDisconnectYet
      /\ leaked = 0 /\ leaked' = 0
      /\ \A p \in Peers : link[p] \in {"idle", "open"} /\ link'[p] \in {"idle", "open"}
  BY QuietBefore DEF NoDisconnectYet
<1>2. \A f \in Open : link[sock[f]] \in {"idle", "open"}
  BY <1>1, ConstantsAssumption DEF IndInv, TypeOK, ThreadOK, Open
<1>3. \A s \in 0..(n - 1) : slots[s].fd # ServerFd => slots[s].fd \in Open
  BY <1>1 DEF WatchListExact, Watched
<1>4. CASE Hangup \/ HangupWild
  <2>1. AtClient /\ HungUp(slots[i].fd)
    BY <1>4 DEF Hangup, HangupWild
  <2>2. i \in 0..(n - 1) /\ slots[i].fd # ServerFd
    BY <2>1 DEF AtClient, IndInv, TypeOK, ArrayOK, ThreadOK
  <2>3. slots[i].fd \in Open
    BY <1>3, <2>2
  <2> QED
    BY <1>2, <2>1, <2>3 DEF HungUp
<1>5. CASE SendFails \/ SendKilled \/ SendLost
  <2>1. Sending /\ (Target \in Open => link[sock[Target]] \in {"fin", "rst"})
    BY <1>5 DEF SendFails, SendKilled, SendLost
  <2>2. j \in 0..(n - 1) /\ slots[j].fd # ServerFd
    BY <2>1 DEF Sending, Target, IndInv, TypeOK, ArrayOK, ThreadOK
  <2> QED
    BY <1>2, <1>3, <2>1, <2>2 DEF Target
<1>6. CASE AcceptReset \/ AcceptFails
  BY <1>1, <1>6 DEF AcceptReset, AcceptFails
<1>7. CASE AcceptKilled
  <2>1. PICK f \in Free : Accepts(f) /\ link[Head(backlog)] = "rst"
    BY <1>7 DEF AcceptKilled
  <2>2. Head(backlog) \in Peers
    BY <2>1, AcceptsTail
  <2> QED
    BY <1>1, <2>1, <2>2
<1>8. ASSUME NEW p \in Peers, Close(p) \/ Reset(p)
      PROVE  FALSE
  <2>1. link'[p] \in {"fin", "rst"}
    BY <1>8 DEF Close, Reset, IndInv, TypeOK, PeersOK
  <2> QED
    BY <1>1, <2>1
<1> QED
  BY <1>4, <1>5, <1>6, <1>7, <1>8 DEF Next, ServerStep, PeerStep

\* What poll changes in a slot: its revents, and only of the watched ones.
LEMMA PollMarks ==
  ASSUME IndInv, Poll
  PROVE  /\ DOMAIN slots' = DOMAIN slots
         /\ \A s \in 0..(n - 1) : slots'[s].fd = slots[s].fd /\ slots'[s].in = PollIn(slots[s].fd)
         /\ \A s \in DOMAIN slots : s >= n => slots'[s] = slots[s]
<1>1. slots' = Polled
  BY DEF Poll
<1>2. ASSUME NEW s \in 0..(n - 1)
      PROVE  slots'[s].fd = slots[s].fd /\ slots'[s].in = PollIn(slots[s].fd)
  <2>1. s \in DOMAIN slots /\ slots[s] \in Slot
    BY SlotInside DEF IndInv
  <2>2. s < n
    BY DEF IndInv, TypeOK, ArrayOK
  <2>3. slots'[s] = [slots[s] EXCEPT !.in = PollIn(slots[s].fd)]
    BY <1>1, <2>1, <2>2 DEF Polled
  <2> QED
    BY <2>1, <2>3 DEF Slot
<1>3. ASSUME NEW s \in DOMAIN slots, s >= n
      PROVE  slots'[s] = slots[s]
  <2>1. ~(s < n)
    BY <1>3 DEF IndInv, TypeOK, ArrayOK
  <2> QED
    BY <1>1, <2>1 DEF Polled
<1> QED
  BY <1>1, <1>2, <1>3 DEF Polled

\* An accept adds one descriptor and one slot, and nothing takes either away before
\* the first disconnect.
LEMMA WatchStep == IndInv /\ WatchListExact /\ [Next]_vars => WatchListExact'
<1> SUFFICES ASSUME IndInv, WatchListExact, [Next]_vars, NoDisconnectYet'
             PROVE  /\ Watched' = {ServerFd} \cup Open'
                    /\ \A s, t \in 0..(n' - 1) : slots'[s].fd = slots'[t].fd => s = t
  BY DEF WatchListExact
<1>1. /\ Watched = {ServerFd} \cup Open
      /\ \A s, t \in 0..(n - 1) : slots[s].fd = slots[t].fd => s = t
  BY QuietBefore DEF WatchListExact
<1>2. CASE UNCHANGED <<slots, n, sock>>
  BY <1>1, <1>2 DEF Watched, Open
<1>3. CASE Poll
  <2>1. UNCHANGED <<n, sock>> /\ \A s \in 0..(n - 1) : slots'[s].fd = slots[s].fd
    BY <1>3, PollMarks DEF Poll
  <2> QED
    BY <1>1, <2>1 DEF Watched, Open
<1>4. CASE Accept
  <2>1. PICK f \in Free : /\ Accepts(f) /\ AddClientToPoll(f)
                          /\ sock' = [sock EXCEPT ![f] = Head(backlog)]
    BY <1>4 DEF Accept
  <2>2. /\ n \in Nat /\ n' = n + 1 /\ slots'[n].fd = f
        /\ \A s \in 0..(n - 1) : slots'[s] = slots[s]
        /\ f \in ClientFds /\ f \notin Open
    BY <2>1, AcceptSlots
  <2>3. 0..(n' - 1) = 0..(n - 1) \cup {n}
    BY <2>2
  <2>4. Watched' = Watched \cup {f}
    BY <2>2, <2>3 DEF Watched
  <2>5. Open' = Open \cup {f}
    <3>1. Head(backlog) \in Peers /\ sock \in [ClientFds -> Peers \cup {None}]
      BY <2>1, AcceptsTail DEF IndInv, TypeOK, ThreadOK
    <3> QED
      BY <2>1, <3>1, ConstantsAssumption DEF Open, Free
  <2>6. f # ServerFd
    BY <2>2, ConstantsAssumption DEF ClientFds
  <2>7. \A s \in 0..(n - 1) : slots[s].fd # f
    BY <1>1, <2>2, <2>6 DEF Watched
  <2>8. \A s, t \in 0..(n' - 1) : slots'[s].fd = slots'[t].fd => s = t
    BY <1>1, <2>2, <2>3, <2>7
  <2> QED
    BY <1>1, <2>4, <2>5, <2>8
<1>5. CASE PollFails \/ Skip \/ EndScan \/ Recv \/ SendSkip \/ SendDelivers \/ EndBroadcast
  BY <1>2, <1>5 DEF PollFails, Skip, EndScan, Recv, SendSkip, SendDelivers, EndBroadcast
<1>6. CASE \E p \in Peers : Connect(p) \/ Write(p) \/ Consume(p)
  BY <1>2, <1>6 DEF Connect, Write, Consume, server
<1>7. CASE UNCHANGED vars
  BY <1>2, <1>7 DEF vars
<1> QED
  BY <1>3, <1>4, <1>5, <1>6, <1>7, QuietSteps

\* The watch list with the facts on descriptors and peers.
WatchInv == PeersInv /\ WatchListExact

LEMMA InitWatchInv == Init => WatchInv
<1> SUFFICES ASSUME Init PROVE WatchInv
  OBVIOUS
<1>1. PeersInv
  BY InitIndInv DEF Init, PeersInv, OneDescriptorPerPeer, KnownPeers, Open
<1>2. Open = {}
  BY DEF Init, Open
<1>3. n = 1 /\ slots[0].fd = ServerFd
  BY ConstantsAssumption DEF Init, InitPollfd
<1>4. Watched = {ServerFd} \cup Open
  BY <1>2, <1>3 DEF Watched
<1> QED
  BY <1>1, <1>3, <1>4 DEF WatchInv, WatchListExact

LEMMA WatchInvStep == WatchInv /\ [Next]_vars => WatchInv'
  BY WatchStep, PeersStep, NextIndInv DEF WatchInv, PeersInv

LEMMA WatchInvariant == Spec => []WatchInv
  BY InitWatchInv, WatchInvStep, PTL DEF Spec

\* Until somebody disconnects or an accept fails, the server watches each open
\* descriptor in exactly one slot.
THEOREM WatchesEveryClient == Spec => []WatchListExact
<1> QED
  BY WatchInvariant, PTL DEF WatchInv
-----------------------------------------------------------------------------
(* revents that are not stale.                                             *)

\* The slots of this scan that main has still to look at.
Ahead(s) == s < n /\ (s > i \/ (pc = "scan" /\ s = i))

\* Until the first disconnect, and while the array is the one calloc cleared: the
\* slots not yet used have no revents, and a client slot still to be looked at has
\* POLLIN only if its peer can be received from.
Fresh ==
  NoDisconnectYet /\ max = InitMax =>
    /\ \A s \in n..InitMax : ~slots[s].in
    /\ pc \in {"scan", "send"} =>
         \A s \in 0..(n - 1) :
           Ahead(s) /\ slots[s].in /\ slots[s].fd \in Open => Readable(sock[slots[s].fd])

\* Data stays readable until it is received from that peer.
LEMMA ReadableStays ==
  ASSUME IndInv, NEW p \in Peers, Readable(p),
         \/ UNCHANGED <<read, link, sent>>
         \/ \E q \in Peers : Connect(q) \/ Write(q) \/ Consume(q)
  PROVE  Readable(p)'
<1>1. /\ link \in [Peers -> {"idle", "open", "fin", "rst"}]
      /\ read[p] \in Nat /\ sent[p] \in Nat /\ sent \in [Peers -> 0..MaxMsgs]
  BY ConstantsAssumption DEF IndInv, TypeOK, PeersOK
<1>2. CASE UNCHANGED <<read, link, sent>>
  BY <1>2 DEF Readable
<1>3. ASSUME NEW q \in Peers, Connect(q)
      PROVE  Readable(p)'
  BY <1>1, <1>3 DEF Connect, Readable
<1>4. ASSUME NEW q \in Peers, Write(q)
      PROVE  Readable(p)'
  <2>1. UNCHANGED <<read, link>> /\ sent' = [sent EXCEPT ![q] = @ + 1]
    BY <1>4 DEF Write
  <2>2. sent'[p] = sent[p] \/ sent'[p] = sent[p] + 1
    BY <1>1, <2>1
  <2> QED
    BY <1>1, <2>1, <2>2 DEF Readable
<1>5. ASSUME NEW q \in Peers, Consume(q)
      PROVE  Readable(p)'
  BY <1>5 DEF Consume, Readable
<1> QED
  BY <1>2, <1>3, <1>4, <1>5

\* A recv takes from one peer only, and no other slot of the scan leads to it.
LEMMA FreshStep == WatchInv /\ Fresh /\ [Next]_vars => Fresh'
<1> SUFFICES ASSUME WatchInv, Fresh, [Next]_vars, NoDisconnectYet', max' = InitMax
             PROVE  /\ \A s \in n'..InitMax : ~slots'[s].in
                    /\ pc' \in {"scan", "send"} =>
                         \A s \in 0..(n' - 1) :
                           Ahead(s)' /\ slots'[s].in /\ slots'[s].fd \in Open'
                             => Readable(sock[slots[s].fd])'
  BY DEF Fresh
<1> USE DEF WatchInv, PeersInv
<1>1. /\ n \in Nat /\ i \in Nat /\ max \in Nat /\ n <= max /\ InitMax <= max
      /\ InitMax \in Nat \ {0}
      /\ sock \in [ClientFds -> Peers \cup {None}] /\ None \notin Peers
  BY ConstantsAssumption DEF IndInv, TypeOK, ArrayOK, ThreadOK
<1>2. max = InitMax
  <2>1. CASE Accept
    <3>1. max' = IF n < max THEN max ELSE 2 * max
      BY <2>1 DEF Accept, AddClientToPoll
    <3> QED
      BY <1>1, <3>1
  <2>2. CASE Poll \/ PollFails \/ Skip \/ EndScan \/ Recv
             \/ SendSkip \/ SendDelivers \/ EndBroadcast
    BY <2>2 DEF Poll, PollFails, Skip, EndScan, Recv, SendSkip, SendDelivers, EndBroadcast
  <2>3. CASE \E p \in Peers : Connect(p) \/ Write(p) \/ Consume(p)
    BY <2>3 DEF Connect, Write, Consume, server
  <2>4. CASE UNCHANGED vars
    BY <2>4 DEF vars
  <2> QED
    BY <2>1, <2>2, <2>3, <2>4, QuietSteps
<1>3. /\ \A s \in n..InitMax : ~slots[s].in
      /\ pc \in {"scan", "send"} =>
           \A s \in 0..(n - 1) :
             Ahead(s) /\ slots[s].in /\ slots[s].fd \in Open => Readable(sock[slots[s].fd])
  BY <1>2, QuietBefore DEF Fresh
(* The steps that leave the array, the table and what was read alone. *)
<1>4. ASSUME UNCHANGED <<slots, n, sock>>,
             pc' \in {"scan", "send"} => pc \in {"scan", "send"},
             \A s \in 0..(n - 1) : pc' \in {"scan", "send"} /\ Ahead(s)' => Ahead(s),
             \/ UNCHANGED <<read, link, sent>>
             \/ \E q \in Peers : Connect(q) \/ Write(q) \/ Consume(q)
      PROVE  /\ \A s \in n'..InitMax : ~slots'[s].in
             /\ pc' \in {"scan", "send"} =>
                  \A s \in 0..(n' - 1) :
                    Ahead(s)' /\ slots'[s].in /\ slots'[s].fd \in Open'
                      => Readable(sock[slots[s].fd])'
  <2>1. ASSUME NEW s \in 0..(n - 1), pc' \in {"scan", "send"},
               Ahead(s)', slots[s].in, slots[s].fd \in Open
        PROVE  Readable(sock[slots[s].fd])'
    <3>1. Readable(sock[slots[s].fd]) /\ sock[slots[s].fd] \in Peers
      BY <1>1, <1>3, <1>4, <2>1 DEF Open
    <3>2. \A p \in Peers : Readable(p) => Readable(p)'
      BY <1>4, ReadableStays
    <3>3. UNCHANGED sock[slots[s].fd]
      BY <1>4
    <3> QED
      BY <3>1, <3>2, <3>3 DEF Readable
  <2>2. UNCHANGED Open
    BY <1>4 DEF Open
  <2> QED
    BY <1>3, <1>4, <2>1, <2>2
<1>5. CASE Poll
  <2>1. /\ \A s \in 0..(n - 1) : slots'[s].fd = slots[s].fd /\ slots'[s].in = PollIn(slots[s].fd)
        /\ \A s \in DOMAIN slots : s >= n => slots'[s] = slots[s]
        /\ UNCHANGED <<n, sock, peers>>
    BY <1>5, PollMarks DEF Poll
  <2>2. DOMAIN slots = 0..InitMax
    BY <1>2 DEF IndInv, TypeOK, ArrayOK, Allocated
  <2>3. \A s \in n'..InitMax : ~slots'[s].in
    BY <1>1, <1>3, <2>1, <2>2
  <2>4. ASSUME NEW s \in 0..(n - 1), slots'[s].in, slots'[s].fd \in Open'
        PROVE  Readable(sock[slots[s].fd])'
    <3>1. PollIn(slots[s].fd) /\ slots[s].fd \in Open
      BY <2>1, <2>4 DEF Open
    <3>2. Readable(sock[slots[s].fd])
      BY <3>1, ConstantsAssumption DEF PollIn, Open, ClientFds
    <3> QED
      BY <2>1, <3>2 DEF Readable, peers
  <2> QED
    BY <2>1, <2>3, <2>4
<1>6. CASE Accept
  <2>1. PICK f \in Free : /\ Accepts(f) /\ AddClientToPoll(f)
                          /\ sock' = [sock EXCEPT ![f] = Head(backlog)]
                          /\ i' = i + 1
                          /\ UNCHANGED <<pc, link, sent, read>>
    BY <1>6 DEF Accept
  <2>2. /\ n' = n + 1 /\ slots'[n].fd = f
        /\ \A s \in 0..(n - 1) : slots'[s] = slots[s]
        /\ f \in ClientFds /\ f \notin Open
    BY <2>1, AcceptSlots
  <2>3. n < max
    BY <1>1, <1>2, <2>1 DEF AddClientToPoll
  <2>4. slots' = [slots EXCEPT ![n].fd = f]
    BY <2>1, <2>3 DEF AddClientToPoll, Grown
  <2>5. DOMAIN slots = 0..InitMax /\ n \in 0..InitMax /\ slots[n] \in Slot
    BY <1>1, <1>2, <2>3 DEF IndInv, TypeOK, ArrayOK, Allocated
  <2>6. slots'[n].in = slots[n].in /\ \A s \in (n + 1)..InitMax : slots'[s] = slots[s]
    BY <1>1, <2>4, <2>5 DEF Slot
  <2>7. \A s \in n..InitMax : ~slots'[s].in
    BY <1>1, <1>3, <2>6
  <2>8. pc = "scan"
    BY <2>1 DEF Accepts, AtListener
  <2>9. ASSUME NEW s \in 0..(n' - 1), Ahead(s)', slots'[s].in, slots'[s].fd \in Open'
        PROVE  Readable(sock[slots[s].fd])'
    <3>1. s \in 0..(n - 1)
      BY <1>1, <2>2, <2>5, <2>7, <2>9
    <3>2. slots[s].in /\ slots[s].fd = slots'[s].fd
      BY <2>2, <2>9, <3>1
    <3>3. Ahead(s)
      BY <1>1, <2>1, <2>8, <2>9, <3>1 DEF Ahead
    <3>4. slots[s].fd \in Watched /\ Watched = {ServerFd} \cup Open
      BY <3>1, QuietBefore DEF WatchListExact, Watched
    <3>5. slots[s].fd # ServerFd
      BY <2>9, <3>2, ConstantsAssumption DEF Open, ClientFds
    <3>6. slots[s].fd \in Open /\ slots[s].fd # f
      BY <2>2, <3>4, <3>5
    <3>7. sock'[slots[s].fd] = sock[slots[s].fd]
      BY <1>1, <2>1, <3>6 DEF Open
    <3>8. Readable(sock[slots[s].fd])
      BY <1>3, <2>8, <2>9, <3>1, <3>2, <3>3, <3>6
    <3>9. sock'[slots'[s].fd] = sock[slots[s].fd]
      BY <2>2, <3>1, <3>7
    <3> QED
      BY <2>1, <3>8, <3>9 DEF Readable
  <2> QED
    BY <1>1, <2>2, <2>7, <2>9
<1>7. CASE Recv
  <2> DEFINE f == slots[i].fd
  <2>1. /\ AtClient /\ f \in Open /\ UNCHANGED <<slots, n, max, i, sock, link, sent>>
        /\ pc' = "send"
        /\ \E k \in Nat : read' = [read EXCEPT ![sock[f]] = k]
    <3>1. AtClient /\ f \in Open /\ UNCHANGED <<slots, n, max, i, sock, link, sent>> /\ pc' = "send"
      BY <1>7 DEF Recv
    <3>2. sock[f] \in Peers
      BY <1>1, <3>1 DEF Open
    <3>3. read[sock[f]] \in Nat /\ sent[sock[f]] \in Nat
      BY <3>2, ConstantsAssumption DEF IndInv, TypeOK, PeersOK
    <3>4. \E k \in (read[sock[f]] + 1)..sent[sock[f]] : read' = [read EXCEPT ![sock[f]] = k]
      BY <1>7 DEF Recv
    <3>5. (read[sock[f]] + 1)..sent[sock[f]] \subseteq Nat
      BY <3>3
    <3> QED
      BY <3>1, <3>4, <3>5
  <2>2. i \in 0..(n - 1) /\ pc = "scan"
    BY <1>1, <2>1 DEF AtClient
  <2>3. ASSUME NEW s \in 0..(n - 1), Ahead(s)', slots[s].in, slots[s].fd \in Open
        PROVE  Readable(sock[slots[s].fd])'
    <3>1. s > i /\ Ahead(s)
      BY <1>1, <2>1, <2>3 DEF Ahead
    <3>2. slots[s].fd # f
      BY <2>2, <3>1, QuietBefore DEF WatchListExact
    <3>3. sock[slots[s].fd] # sock[f] /\ sock[slots[s].fd] \in Peers
      BY <1>1, <2>1, <2>3, <3>2 DEF OneDescriptorPerPeer, Open
    <3>4. Readable(sock[slots[s].fd])
      BY <1>3, <2>2, <2>3, <3>1
    <3>5. read'[sock[slots[s].fd]] = read[sock[slots[s].fd]]
      BY <2>1, <3>3 DEF IndInv, TypeOK, PeersOK
    <3> QED
      BY <2>1, <3>4, <3>5 DEF Readable
  <2>4. UNCHANGED Open
    BY <2>1 DEF Open
  <2> QED
    BY <1>3, <2>1, <2>3, <2>4
<1>8. CASE Skip \/ EndScan \/ EndBroadcast \/ PollFails
  <2>1. /\ UNCHANGED <<slots, n, sock, read, link, sent>>
        /\ pc' \in {"scan", "send"} => pc \in {"scan", "send"} /\ i' = i + 1
    BY <1>8 DEF Skip, EndScan, EndBroadcast, PollFails, peers
  <2>2. ASSUME NEW s \in 0..(n - 1), pc' \in {"scan", "send"}, Ahead(s)'
        PROVE  Ahead(s)
    BY <1>1, <2>1, <2>2 DEF Ahead
  <2> QED
    BY <1>4, <2>1, <2>2
<1>9. CASE SendSkip \/ SendDelivers
  <2>1. UNCHANGED <<slots, n, sock, read, link, sent, pc, i>>
    BY <1>9 DEF SendSkip, SendDelivers, peers
  <2> QED
    BY <1>4, <2>1 DEF Ahead
<1>10. CASE \E p \in Peers : Connect(p) \/ Write(p) \/ Consume(p)
  <2>1. UNCHANGED <<slots, n, sock, pc, i>>
    BY <1>10 DEF Connect, Write, Consume, server
  <2> QED
    BY <1>4, <1>10, <2>1 DEF Ahead
<1>11. CASE UNCHANGED vars
  <2>1. UNCHANGED <<slots, n, sock, read, link, sent, pc, i>>
    BY <1>11 DEF vars
  <2> QED
    BY <1>4, <2>1 DEF Ahead
<1> QED
  BY <1>5, <1>6, <1>7, <1>8, <1>9, <1>10, <1>11, QuietSteps

\* A slot main reads while nobody has disconnected is one poll has just reported.
THEOREM NoStaleRead == Spec => []RecvNeverBlocks
<1>1. Init => WatchInv /\ Fresh
  <2> SUFFICES ASSUME Init PROVE Fresh
    BY InitWatchInv
  <2>1. \A s \in n..InitMax : ~slots[s].in
    BY ConstantsAssumption DEF Init, InitPollfd
  <2> QED
    BY <2>1 DEF Fresh, Init
<1>2. (WatchInv /\ Fresh) /\ [Next]_vars => (WatchInv /\ Fresh)'
  BY WatchInvStep, FreshStep
<1>3. WatchInv /\ Fresh => RecvNeverBlocks
  <2> SUFFICES ASSUME WatchInv, Fresh, NoDisconnectYet, max = InitMax, BlockedInRecv
               PROVE  FALSE
    BY DEF RecvNeverBlocks
  <2>1. pc = "scan" /\ i < n /\ slots[i].in /\ slots[i].fd \in Open
        /\ ~Readable(sock[slots[i].fd])
    BY DEF BlockedInRecv, AtClient
  <2>2. i \in 0..(n - 1)
    BY <2>1 DEF WatchInv, PeersInv, IndInv, TypeOK, ArrayOK, ThreadOK
  <2> QED
    BY <2>1, <2>2 DEF Fresh, Ahead
<1> QED
  BY <1>1, <1>2, <1>3, PTL DEF Spec

-----------------------------------------------------------------------------
(* What is received and what is sent.                                      *)

Chunks == [from : Peers, lo : Nat, hi : Nat]

\* Only recv reads, and it reads on.
LEMMA ReadSteps ==
  ASSUME IndInv, [Next]_vars
  PROVE  Recv \/ UNCHANGED read
<1>1. CASE Accept \/ AcceptReset \/ AcceptKilled \/ AcceptFails \/ Hangup \/ HangupWild
  BY <1>1 DEF Accept, AcceptReset, AcceptKilled, AcceptFails, Hangup, HangupWild, peers
<1>2. CASE Poll \/ PollFails \/ Skip \/ EndScan
  BY <1>2 DEF Poll, PollFails, Skip, EndScan, peers
<1>3. CASE SendSkip \/ SendFails \/ SendKilled \/ SendDelivers \/ SendLost \/ EndBroadcast
  BY <1>3 DEF SendSkip, SendFails, SendKilled, SendDelivers, SendLost, EndBroadcast, peers
<1>4. CASE PeerStep
  BY <1>4 DEF PeerStep, Connect, Write, Consume, Close, Reset
<1> QED
  BY <1>1, <1>2, <1>3, <1>4 DEF Next, ServerStep, vars, peers

\* recv takes the next data of the slot's peer and starts a broadcast of it.
LEMMA RecvReads ==
  ASSUME IndInv, Recv
  PROVE  LET f == slots[i].fd
             p == sock[f]
         IN  /\ f \in Open /\ p \in Peers /\ pc = "scan" /\ pc' = "send" /\ j' = 0
             /\ UNCHANGED <<slots, n, i, sock, link, backlog, got>>
             /\ read[p] \in Nat /\ read'[p] \in Nat /\ read[p] + 1 <= read'[p]
             /\ \A q \in Peers \ {p} : read'[q] = read[q]
             /\ chunk' = [fd |-> f, lo |-> read[p] + 1, hi |-> read'[p]]
<1> DEFINE f == slots[i].fd
           p == sock[f]
<1>1. /\ f \in Open /\ pc = "scan" /\ pc' = "send" /\ j' = 0
      /\ UNCHANGED <<slots, n, i, sock, link, backlog, got>>
  BY DEF Recv, AtClient, FirstTarget
<1>2. p \in Peers
  BY <1>1, ConstantsAssumption DEF IndInv, TypeOK, ThreadOK, Open
<1>3. read \in [Peers -> 0..MaxMsgs] /\ sent \in [Peers -> 0..MaxMsgs] /\ MaxMsgs \in Nat
  BY ConstantsAssumption DEF IndInv, TypeOK, PeersOK
<1>4. PICK k \in (read[p] + 1)..sent[p] :
          /\ read' = [read EXCEPT ![p] = k]
          /\ chunk' = [fd |-> f, lo |-> read[p] + 1, hi |-> k]
  BY DEF Recv
<1>5. read'[p] = k /\ \A q \in Peers \ {p} : read'[q] = read[q]
  BY <1>2, <1>3, <1>4
<1>6. read[p] \in Nat /\ sent[p] \in Nat
  BY <1>2, <1>3
<1>7. k \in Nat /\ read[p] + 1 <= k
  BY <1>4, <1>6
<1> QED
  BY <1>1, <1>2, <1>4, <1>5, <1>6, <1>7

\* A broadcast starts with a recv; until it ends the array, the table and what was
\* received stand still.
LEMMA InBroadcast ==
  ASSUME IndInv, [Next]_vars, pc' = "send"
  PROVE  \/ Recv
         \/ pc = "send" /\ UNCHANGED <<slots, n, chunk, sock, read>>
<1>1. CASE Accept \/ AcceptReset \/ AcceptKilled \/ AcceptFails \/ Hangup \/ HangupWild
  BY <1>1 DEF Accept, AcceptReset, AcceptKilled, AcceptFails, Hangup, HangupWild, Accepts,
    AtListener, AtClient
<1>2. CASE Poll \/ PollFails \/ Skip \/ EndScan \/ EndBroadcast
  BY <1>2 DEF Poll, PollFails, Skip, EndScan, EndBroadcast
<1>3. CASE SendSkip \/ SendFails \/ SendKilled \/ SendDelivers \/ SendLost
  BY <1>3 DEF SendSkip, SendFails, SendKilled, SendDelivers, SendLost, Sending, peers
<1>4. CASE PeerStep
  BY <1>4 DEF PeerStep, Connect, Write, Consume, Close, Reset, server
<1>5. CASE UNCHANGED vars
  BY <1>5 DEF vars
<1> QED
  BY <1>1, <1>2, <1>3, <1>4, <1>5 DEF Next, ServerStep

\* A send that succeeds appends the chunk to what one peer was sent.
LEMMA SendDeliversTo ==
  ASSUME IndInv, SendDelivers
  PROVE  LET q == sock[Target]
         IN  /\ pc = "send" /\ j \in 0..(n - 1) /\ j' = j + 1
             /\ Target = slots[j].fd /\ Target \in Open /\ Target # chunk.fd
             /\ q \in Peers /\ link[q] = "open"
             /\ chunk.fd \in Open /\ Sender \in Peers
             /\ got \in [Peers -> Seq(Chunks)] /\ Chunk \in Chunks
             /\ got' = [got EXCEPT ![q] = Append(got[q], Chunk)]
             /\ UNCHANGED <<slots, n, pc, chunk, sock, read, link, backlog>>
<1>1. /\ pc = "send" /\ j < n /\ j' = j + 1
      /\ Target = slots[j].fd /\ Target \in Open /\ Target # chunk.fd
      /\ link[sock[Target]] = "open"
      /\ got' = [got EXCEPT ![sock[Target]] = Append(got[sock[Target]], Chunk)]
      /\ UNCHANGED <<slots, n, pc, chunk, sock, read, link, backlog>>
  BY DEF SendDelivers, Sending, Target
<1>2. j \in 0..(n - 1)
  BY <1>1 DEF IndInv, TypeOK, ArrayOK, ThreadOK
<1>3. chunk.fd \in Open
  BY <1>1 DEF IndInv, SenderOpen
<1>4. sock[Target] \in Peers /\ Sender \in Peers
  BY <1>1, <1>3, ConstantsAssumption DEF IndInv, TypeOK, ThreadOK, Open, Sender
<1>5. got \in [Peers -> Seq(Chunks)]
  BY DEF IndInv, TypeOK, HistoryOK, Chunks
<1>6. chunk.lo \in Nat /\ chunk.hi \in Nat
  BY DEF IndInv, TypeOK, ThreadOK
<1>7. Chunk \in Chunks
  BY <1>4, <1>6 DEF Chunk, Chunks
<1> QED
  BY <1>1, <1>2, <1>3, <1>4, <1>5, <1>7

\* The elements of a sequence of chunks to which one was appended.
LEMMA Appended ==
  ASSUME NEW s \in Seq(Chunks), NEW c \in Chunks
  PROVE  /\ Len(s) \in Nat /\ Len(Append(s, c)) = Len(s) + 1
         /\ Append(s, c)[Len(s) + 1] = c
         /\ \A k \in 1..Len(s) : Append(s, c)[k] = s[k] /\ s[k] \in Chunks
OBVIOUS

\* Whatever a peer was sent had been received from its sender before, and the
\* chunk being broadcast is the last of it.
SentWasReceived ==
  /\ \A q \in Peers : \A k \in 1..Len(got[q]) : got[q][k].hi <= read[got[q][k].from]
  /\ pc = "send" => chunk.hi = read[Sender]

LEMMA ReceivedStep == IndInv /\ SentWasReceived /\ [Next]_vars => SentWasReceived'
<1> SUFFICES ASSUME IndInv, SentWasReceived, [Next]_vars PROVE SentWasReceived'
  OBVIOUS
<1>1. /\ got \in [Peers -> Seq(Chunks)]
      /\ \A p \in Peers : read[p] \in Nat /\ read'[p] \in Nat
  <2>1. got \in [Peers -> Seq(Chunks)] /\ read \in [Peers -> 0..MaxMsgs]
    BY DEF IndInv, TypeOK, PeersOK, HistoryOK, Chunks
  <2>2. IndInv'
    BY NextIndInv
  <2>3. read' \in [Peers -> 0..MaxMsgs]
    BY <2>2 DEF IndInv, TypeOK, PeersOK
  <2>4. 0..MaxMsgs \subseteq Nat
    BY ConstantsAssumption
  <2> QED
    BY <2>1, <2>3, <2>4
<1>2. \A p \in Peers : read[p] <= read'[p]
  <2>1. CASE Recv
    <3>1. \E q \in Peers : read[q] + 1 <= read'[q] /\ \A p \in Peers \ {q} : read'[p] = read[p]
      BY <2>1, RecvReads
    <3> QED
      BY <1>1, <3>1
  <2>2. CASE UNCHANGED read
    BY <1>1, <2>2
  <2> QED
    BY <2>1, <2>2, ReadSteps
<1>3. ASSUME NEW q \in Peers, NEW k \in 1..Len(got[q])
      PROVE  got[q][k].hi <= read'[got[q][k].from]
  <2>1. got[q][k] \in Chunks
    BY <1>1
  <2>2. got[q][k].from \in Peers /\ got[q][k].hi \in Nat
    BY <2>1 DEF Chunks
  <2>3. got[q][k].hi <= read[got[q][k].from]
    BY DEF SentWasReceived
  <2> QED
    BY <1>1, <1>2, <2>2, <2>3
<1>4. \A q \in Peers : \A k \in 1..Len(got'[q]) : got'[q][k].hi <= read'[got'[q][k].from]
  <2>1. CASE SendDelivers
    <3> DEFINE r == sock[Target]
    <3>1. /\ r \in Peers /\ Chunk \in Chunks /\ pc = "send" /\ UNCHANGED read
          /\ got' = [got EXCEPT ![r] = Append(got[r], Chunk)]
      BY <2>1, SendDeliversTo
    <3>2. Chunk.hi = read[Chunk.from] /\ Chunk.from \in Peers
      BY <3>1 DEF SentWasReceived, Chunk, Chunks
    <3>3. ASSUME NEW q \in Peers, NEW k \in 1..Len(got'[q])
          PROVE  got'[q][k].hi <= read'[got'[q][k].from]
      <4>1. CASE q # r
        <5>1. got'[q] = got[q]
          BY <1>1, <3>1, <4>1
        <5> QED
          BY <1>3, <3>3, <5>1
      <4>2. CASE q = r
        <5>1. got'[q] = Append(got[q], Chunk) /\ got[q] \in Seq(Chunks)
          BY <1>1, <3>1, <4>2
        <5>2. CASE k \in 1..Len(got[q])
          <6>1. got'[q][k] = got[q][k]
            BY <3>1, <5>1, <5>2, Appended
          <6> QED
            BY <1>3, <5>2, <6>1
        <5>3. CASE k = Len(got[q]) + 1
          <6>1. got'[q][k] = Chunk
            BY <3>1, <5>1, <5>3, Appended
          <6> QED
            BY <1>1, <3>1, <3>2, <6>1
        <5> QED
          BY <3>1, <3>3, <5>1, <5>2, <5>3, Appended
      <4> QED
        BY <4>1, <4>2
    <3> QED
      BY <3>3
  <2>2. CASE UNCHANGED got
    BY <1>3, <2>2
  <2> QED
    BY <2>1, <2>2, GotSteps
<1>5. ASSUME pc' = "send"
      PROVE  chunk'.hi = read'[sock'[chunk'.fd]]
  <2>1. CASE Recv
    BY <2>1, RecvReads
  <2>2. CASE pc = "send" /\ UNCHANGED <<slots, n, chunk, sock, read>>
    BY <2>2 DEF SentWasReceived, Sender
  <2> QED
    BY <1>5, <2>1, <2>2, InBroadcast
<1> QED
  BY <1>4, <1>5 DEF SentWasReceived, Sender

-----------------------------------------------------------------------------
(* The broadcast.                                                          *)

\* The places at which a peer was sent a chunk.
Copies(q, c) == {k \in 1..Len(got[q]) : got[q][k] = c}

\* Until the first disconnect, in the middle of a broadcast: the clients whose slot
\* was passed have the chunk once, the others not yet.
HalfSent ==
  NoDisconnectYet /\ pc = "send" =>
    \A s \in 0..(n - 1) :
      slots[s].fd \in Open \ {chunk.fd} =>
        /\ s < j => \E k \in Nat : Copies(sock[slots[s].fd], Chunk) = {k}
        /\ s >= j => Copies(sock[slots[s].fd], Chunk) = {}

\* recv's chunk ends beyond all that was sent of its sender, so nobody has it yet;
\* a send gives it to the peer of one slot, and no other slot leads to that peer.
LEMMA HalfSentStep ==
  WatchInv /\ SentWasReceived /\ HalfSent /\ [Next]_vars => HalfSent'
<1> SUFFICES ASSUME WatchInv, SentWasReceived, HalfSent, [Next]_vars,
                    NoDisconnectYet', pc' = "send",
                    NEW s \in 0..(n' - 1), slots'[s].fd \in Open' \ {chunk'.fd}
             PROVE  /\ s < j' => \E k \in Nat : Copies(sock[slots[s].fd], Chunk)' = {k}
                    /\ s >= j' => Copies(sock[slots[s].fd], Chunk)' = {}
  BY DEF HalfSent
<1> USE DEF WatchInv, PeersInv
<1>1. /\ NoDisconnectYet
      /\ got \in [Peers -> Seq(Chunks)]
      /\ n \in Nat /\ j \in Nat
  <2>1. NoDisconnectYet
    BY QuietBefore
  <2>2. got \in [Peers -> Seq(Chunks)]
    BY DEF IndInv, TypeOK, HistoryOK, Chunks
  <2>3. n \in Nat /\ j \in Nat
    BY DEF IndInv, TypeOK, ArrayOK, ThreadOK
  <2> QED
    BY <2>1, <2>2, <2>3
<1>2. CASE Recv
  <2> DEFINE p == sock[slots[i].fd]
  <2>1. /\ p \in Peers /\ j' = 0 /\ UNCHANGED <<slots, n, sock, got>>
        /\ read[p] \in Nat /\ read'[p] \in Nat /\ read[p] + 1 <= read'[p]
        /\ chunk' = [fd |-> slots[i].fd, lo |-> read[p] + 1, hi |-> read'[p]]
    BY <1>2, RecvReads
  <2>2. Chunk' = [from |-> p, lo |-> read[p] + 1, hi |-> read'[p]]
    BY <2>1 DEF Chunk, Sender
  <2>3. sock[slots[s].fd] \in Peers
    BY <2>1, ConstantsAssumption DEF IndInv, TypeOK, ThreadOK, Open
  <2>4. ASSUME NEW k \in 1..Len(got[sock[slots[s].fd]]),
               got[sock[slots[s].fd]][k] = Chunk'
        PROVE  FALSE
    <3>1. Chunk'.hi <= read[Chunk'.from]
      BY <2>3, <2>4 DEF SentWasReceived
    <3> QED
      BY <2>1, <2>2, <3>1
  <2>5. Copies(sock[slots[s].fd], Chunk)' = {}
    BY <2>1, <2>4 DEF Copies
  <2>6. s >= j' /\ ~(s < j')
    BY <1>1, <2>1
  <2> QED
    BY <2>5, <2>6
<1>3. CASE pc = "send" /\ UNCHANGED <<slots, n, chunk, sock, read>>
  <2> DEFINE q == sock[slots[s].fd]
  <2>1. /\ UNCHANGED <<Chunk, Open>> /\ q' = q
        /\ s \in 0..(n - 1) /\ slots[s].fd \in Open \ {chunk.fd}
    BY <1>3 DEF Chunk, Sender, Open
  <2>2. /\ s < j => \E k \in Nat : Copies(q, Chunk) = {k}
        /\ s >= j => Copies(q, Chunk) = {}
    BY <1>1, <1>3, <2>1 DEF HalfSent
  <2>3. q \in Peers
    BY <2>1, ConstantsAssumption DEF IndInv, TypeOK, ThreadOK, Open
  <2>4. CASE SendDelivers
    <3> DEFINE r == sock[Target]
    <3>1. /\ j' = j + 1 /\ j \in 0..(n - 1)
          /\ Target = slots[j].fd /\ Target \in Open
          /\ r \in Peers /\ Chunk \in Chunks
          /\ got' = [got EXCEPT ![r] = Append(got[r], Chunk)]
      BY <2>4, SendDeliversTo
    <3>2. CASE s = j
      <4>1. q = r /\ got'[q] = Append(got[q], Chunk) /\ got[q] \in Seq(Chunks)
        BY <1>1, <2>3, <3>1, <3>2
      <4>2. Copies(q, Chunk) = {}
        BY <1>1, <2>2, <3>2
      <4>3. Copies(sock[slots[s].fd], Chunk)' = {Len(got[q]) + 1}
        <5>1. /\ Len(got[q]) \in Nat /\ Len(got'[q]) = Len(got[q]) + 1
              /\ got'[q][Len(got[q]) + 1] = Chunk
              /\ \A k \in 1..Len(got[q]) : got'[q][k] # Chunk
          BY <3>1, <4>1, <4>2, Appended, SMTT(30) DEF Copies
        <5>2. {k \in 1..Len(got'[q]) : got'[q][k] = Chunk} = {Len(got[q]) + 1}
          BY <5>1
        <5> QED
          BY <1>3, <2>1, <5>2 DEF Copies
      <4>4. Len(got[q]) + 1 \in Nat /\ s < j' /\ ~(s >= j')
        BY <1>1, <3>1, <3>2, <4>1, SMTT(30)
      <4> QED
        BY <4>3, <4>4
    <3>3. CASE s # j
      <4>1. slots[s].fd # Target
        BY <1>1, <2>1, <3>1, <3>3 DEF WatchListExact
      <4>2. q # r
        BY <2>1, <3>1, <4>1 DEF OneDescriptorPerPeer
      <4>3. got'[q] = got[q]
        BY <1>1, <2>3, <3>1, <4>2
      <4>4. Copies(sock[slots[s].fd], Chunk)' = Copies(q, Chunk)
        BY <1>3, <2>1, <4>3 DEF Copies
      <4>5. (s < j' <=> s < j) /\ (s >= j' <=> s >= j)
        BY <1>1, <3>1, <3>3
      <4> QED
        BY <2>2, <4>4, <4>5
    <3> QED
      BY <3>2, <3>3
  <2>5. CASE UNCHANGED got /\ j' = j
    BY <1>3, <2>1, <2>2, <2>5 DEF Copies
  <2>6. CASE SendSkip
    <3>1. /\ j' = j + 1 /\ Target = slots[j].fd /\ UNCHANGED got
          /\ Target \in {chunk.fd, ServerFd}
      BY <2>6 DEF SendSkip, Target
    <3>2. s # j
      BY <2>1, <3>1, ConstantsAssumption DEF Open, ClientFds
    <3>3. (s < j' <=> s < j) /\ (s >= j' <=> s >= j)
      BY <1>1, <3>1, <3>2
    <3> QED
      BY <1>3, <2>1, <2>2, <3>1, <3>3 DEF Copies
  <2>7. CASE Poll \/ PollFails \/ Skip \/ EndScan \/ Accept \/ Recv \/ EndBroadcast
    BY <1>3, <2>7
      DEF Poll, PollFails, Skip, EndScan, Accept, Accepts, AtListener, Recv, AtClient, EndBroadcast
  <2>8. CASE \E p \in Peers : Connect(p) \/ Write(p) \/ Consume(p)
    BY <2>5, <2>8 DEF Connect, Write, Consume, server
  <2>9. CASE UNCHANGED vars
    BY <2>5, <2>9 DEF vars
  <2> QED
    BY <2>4, <2>6, <2>7, <2>8, <2>9, QuietSteps
<1> QED
  BY <1>2, <1>3, InBroadcast

\* Until the first disconnect a broadcast reaches every accepted peer but the
\* sender exactly once.
THEOREM BroadcastsExactly == Spec => []BroadcastExact
<1> DEFINE Inv == WatchInv /\ SentWasReceived /\ HalfSent
<1>1. Init => Inv
  BY InitWatchInv DEF Init, SentWasReceived, HalfSent
<1>2. Inv /\ [Next]_vars => Inv'
  BY WatchInvStep, ReceivedStep, HalfSentStep DEF WatchInv, PeersInv
<1>3. Inv => BroadcastExact
  <2> SUFFICES ASSUME Inv, pc = "send", j >= n, NoDisconnectYet,
                      NEW f \in Open \ {chunk.fd}
               PROVE  Cardinality({k \in 1..Len(got[sock[f]]) : got[sock[f]][k] = Chunk}) = 1
    BY DEF BroadcastExact
  <2>1. f \in Watched
    BY DEF WatchInv, WatchListExact
  <2>2. PICK s \in 0..(n - 1) : slots[s].fd = f
    BY <2>1 DEF Watched
  <2>3. s < j
    BY DEF WatchInv, PeersInv, IndInv, TypeOK, ArrayOK, ThreadOK
  <2>4. PICK k \in Nat : Copies(sock[f], Chunk) = {k}
    BY <2>2, <2>3 DEF HalfSent
  <2> QED
    BY <2>4, FS_Singleton DEF Copies
<1> QED
  BY <1>1, <1>2, <1>3, PTL DEF Spec

-----------------------------------------------------------------------------
(* The order of what is sent.                                              *)

\* A peer that was not accepted has been sent nothing.
Unheard ==
  /\ \A p \in Peers : link[p] = "idle" => got[p] = <<>>
  /\ \A b \in 1..Len(backlog) : got[backlog[b]] = <<>>

OrderInv == PeersInv /\ NoEcho /\ SentWasReceived /\ Unheard

\* Only peers with a descriptor are sent anything.
LEMMA UnheardStep == PeersInv /\ Unheard /\ [Next]_vars => Unheard'
<1> SUFFICES ASSUME PeersInv, Unheard, [Next]_vars PROVE Unheard'
  OBVIOUS
<1> USE DEF PeersInv
<1>1. /\ backlog \in Seq(Peers) /\ got \in [Peers -> Seq(Chunks)]
      /\ link \in [Peers -> {"idle", "open", "fin", "rst"}]
  BY DEF IndInv, TypeOK, PeersOK, HistoryOK, Chunks
<1>2. \A p \in Peers : link'[p] = "idle" => link[p] = "idle"
  <2>1. CASE UNCHANGED link
    BY <2>1
  <2>2. CASE ServerStep
    BY <2>2, <1>1 DEF ServerStep, Poll, PollFails, Skip, EndScan, Accept, AcceptReset,
         AcceptKilled, AcceptFails, Recv, Hangup, HangupWild, SendSkip, SendFails,
         SendKilled, SendDelivers, SendLost, EndBroadcast, peers
  <2>3. CASE PeerStep
    BY <2>3, <1>1 DEF PeerStep, Connect, Write, Consume, Close, Reset
  <2> QED
    BY <2>1, <2>2, <2>3 DEF Next, vars
<1>3. ASSUME NEW b \in 1..Len(backlog')
      PROVE  \/ \E c \in 1..Len(backlog) : backlog'[b] = backlog[c]
             \/ backlog'[b] \in Peers /\ link[backlog'[b]] = "idle"
  <2>1. CASE UNCHANGED backlog
    BY <1>3, <2>1
  <2>2. CASE Accept \/ AcceptReset \/ AcceptKilled
    <3>1. PICK f \in Free : Accepts(f)
      BY <2>2 DEF Accept, AcceptReset, AcceptKilled
    <3> QED
      BY <1>3, <3>1, AcceptsTail
  <2>3. ASSUME NEW p \in Peers, Connect(p)
        PROVE  \/ \E c \in 1..Len(backlog) : backlog'[b] = backlog[c]
               \/ backlog'[b] \in Peers /\ link[backlog'[b]] = "idle"
    <3>1. backlog' = Append(backlog, p) /\ link[p] = "idle"
      BY <2>3 DEF Connect
    <3>2. b \in 1..Len(backlog) \/ (b = Len(backlog) + 1 /\ backlog'[b] = p)
      BY <1>1, <1>3, <3>1
    <3>3. b \in 1..Len(backlog) => backlog'[b] = backlog[b]
      BY <1>1, <3>1
    <3> QED
      BY <3>1, <3>2, <3>3
  <2>4. CASE Poll \/ PollFails \/ Skip \/ EndScan \/ AcceptFails \/ Recv \/ Hangup \/ HangupWild
    BY <2>1, <2>4 DEF Poll, PollFails, Skip, EndScan, AcceptFails, Recv, Hangup, HangupWild, peers
  <2>5. CASE SendSkip \/ SendFails \/ SendKilled \/ SendDelivers \/ SendLost \/ EndBroadcast
    BY <2>1, <2>5
      DEF SendSkip, SendFails, SendKilled, SendDelivers, SendLost, EndBroadcast, peers
  <2>6. ASSUME NEW p \in Peers, Write(p) \/ Consume(p) \/ Close(p) \/ Reset(p)
        PROVE  \/ \E c \in 1..Len(backlog) : backlog'[b] = backlog[c]
               \/ backlog'[b] \in Peers /\ link[backlog'[b]] = "idle"
    BY <2>1, <2>6 DEF Write, Consume, Close, Reset
  <2>7. CASE UNCHANGED vars
    BY <2>1, <2>7 DEF vars
  <2> QED
    BY <2>2, <2>3, <2>4, <2>5, <2>6, <2>7 DEF Next, ServerStep, PeerStep
<1>4. CASE UNCHANGED got
  BY <1>2, <1>3, <1>4 DEF Unheard
<1>5. CASE SendDelivers
  <2> DEFINE r == sock[Target]
  <2>1. /\ Target \in Open /\ r \in Peers /\ link[r] = "open" /\ UNCHANGED <<link, backlog>>
        /\ got' = [got EXCEPT ![r] = Append(got[r], Chunk)]
    BY <1>5, SendDeliversTo
  <2>2. \A q \in Peers \ {r} : got'[q] = got[q]
    BY <1>1, <2>1
  <2>3. \A b \in 1..Len(backlog) : backlog[b] \in Peers \ {r}
    BY <1>1, <2>1 DEF OneDescriptorPerPeer
  <2> QED
    BY <2>1, <2>2, <2>3 DEF Unheard
<1> QED
  BY <1>4, <1>5, GotSteps

\* A slot that leads to a peer, and the peers a broadcast can still reach.
Holds(q, s) == slots[s].fd \in Open /\ sock[slots[s].fd] = q
Hears(q) == link[q] = "open" /\ \E s \in 0..(n - 1) : Holds(q, s)

\* The last chunk of a sender that a peer was sent.
LastOf(q, p, k) ==
  /\ got[q][k].from = p
  /\ \A m \in (k + 1)..Len(got[q]) : got[q][m].from # p

\* How far that chunk reaches: to the end of what was received, or, while a chunk
\* of that sender is being broadcast, to the start of it until the peer's first slot
\* is passed, and then it is that chunk.
UpTo(q, p, k) ==
  IF pc = "send" /\ p = Sender
  THEN IF \E s \in 0..(n - 1) : s < j /\ Holds(q, s)
       THEN got[q][k] = Chunk
       ELSE got[q][k].hi + 1 = chunk.lo
  ELSE got[q][k].hi = read[p]

\* A peer that can still be reached has missed nothing.
CaughtUp ==
  Running =>
    \A q, p \in Peers : Hears(q) =>
      \A k \in 1..Len(got[q]) : LastOf(q, p, k) => UpTo(q, p, k)

\* A peer out of reach stays out: its descriptor is not put back in the array.
LEMMA HearsBefore ==
  ASSUME OrderInv, [Next]_vars, Running', NEW q \in Peers, Hears(q)'
  PROVE  Running /\ (Hears(q) \/ (got[q] = <<>> /\ UNCHANGED got))
<1> USE DEF OrderInv, PeersInv
<1>1. /\ sock \in [ClientFds -> Peers \cup {None}] /\ None \notin Peers
      /\ link \in [Peers -> {"idle", "open", "fin", "rst"}]
      /\ n \in Nat /\ n >= 1
  BY ConstantsAssumption DEF IndInv, TypeOK, PeersOK, ThreadOK, ArrayOK, ListenerFirst
<1>2. PICK s \in 0..(n' - 1) : slots'[s].fd \in Open' /\ sock'[slots'[s].fd] = q
  BY DEF Hears, Holds
<1>3. CASE UNCHANGED <<slots, n, sock, link>> /\ Running
  BY <1>3, <1>2 DEF Hears, Holds, Open
<1>4. CASE Poll
  <2>1. /\ UNCHANGED <<n, sock, link>> /\ Running
        /\ slots'[s].fd = slots[s].fd
    BY <1>2, <1>4, PollMarks DEF Poll, peers, Running
  <2> QED
    BY <1>2, <2>1 DEF Hears, Holds, Open
<1>5. ASSUME NEW f \in {-1} \cup ClientFds, AddClientToPoll(f),
             f \in Open' /\ sock'[f] = q => got[q] = <<>>,
             \A g \in ClientFds \ {f} : sock'[g] = sock[g],
             UNCHANGED <<link, got>>, Running
      PROVE  Running /\ (Hears(q) \/ (got[q] = <<>> /\ UNCHANGED got))
  <2>1. /\ n' = n + 1 /\ slots'[n].fd = f
        /\ \A t \in 0..(n - 1) : slots'[t] = slots[t]
    BY <1>5, AddKeepsSlots DEF IndInv
  <2>2. CASE slots'[s].fd = f
    BY <1>2, <1>5, <2>2
  <2>3. CASE slots'[s].fd # f
    <3>1. s \in 0..(n - 1) /\ slots[s].fd = slots'[s].fd
      BY <1>1, <1>2, <2>1, <2>3
    <3>2. slots[s].fd \in Open /\ sock[slots[s].fd] = q
      BY <1>2, <1>5, <2>3, <3>1 DEF Open
    <3> QED
      BY <1>5, <3>1, <3>2 DEF Hears, Holds
  <2> QED
    BY <2>2, <2>3
<1>6. CASE Accept
  <2>1. PICK f \in Free : /\ Accepts(f) /\ AddClientToPoll(f)
                          /\ sock' = [sock EXCEPT ![f] = Head(backlog)]
                          /\ UNCHANGED <<link, got>>
    BY <1>6 DEF Accept
  <2>2. /\ f \in ClientFds /\ Running
        /\ 1 \in 1..Len(backlog) /\ backlog[1] = Head(backlog)
    BY <2>1, AcceptsTail DEF Accepts, AtListener, Running, Free, IndInv, TypeOK, PeersOK
  <2>3. got[Head(backlog)] = <<>>
    BY <2>2 DEF Unheard
  <2>4. sock'[f] = Head(backlog) /\ \A g \in ClientFds \ {f} : sock'[g] = sock[g]
    BY <1>1, <2>1, <2>2
  <2> QED
    BY <1>5, <2>1, <2>2, <2>3, <2>4
<1>7. CASE AcceptReset \/ AcceptFails
  <2>1. PICK f \in {-1} \cup ClientFds : /\ AddClientToPoll(f) /\ f \notin Open
                                         /\ UNCHANGED <<sock, link, got>> /\ pc = "scan"
    <3>1. CASE AcceptReset
      <4>1. PICK f \in Free : Accepts(f) /\ AddClientToPoll(f) /\ UNCHANGED <<sock, link, got>>
        BY <3>1 DEF AcceptReset
      <4>2. f \in {-1} \cup ClientFds /\ f \notin Open
        BY DEF Free, Open
      <4> QED
        BY <4>1, <4>2 DEF Accepts, AtListener
    <3>2. CASE AcceptFails
      <4>1. -1 \notin Open
        BY ConstantsAssumption DEF Open, ClientFds
      <4> QED
        BY <3>2, <4>1 DEF AcceptFails, AtListener, peers
    <3> QED
      BY <1>7, <3>1, <3>2
  <2>2. f \notin Open' /\ Running
    BY <2>1 DEF Open, Running
  <2> QED
    BY <1>5, <2>1, <2>2
<1>8. CASE Hangup
  <2> DEFINE f == slots[i].fd
  <2>1. /\ DelClientFromPoll(f) /\ UNCHANGED link /\ Running
        /\ sock' = [g \in ClientFds |-> IF g = f THEN None ELSE sock[g]]
        /\ AtClient
    BY <1>8 DEF Hangup, AtClient, peers, Running
  <2>2. n' = n - 1 /\ f \in DOMAIN slots /\ slots' = [slots EXCEPT ![f] = slots[n - 1]]
    BY <2>1 DEF DelClientFromPoll
  <2>3. n - 1 \in 0..(n - 1) /\ s \in 0..(n - 1)
    BY <1>1, <1>2, <2>2
  <2>4. slots'[s] = slots[s] \/ slots'[s] = slots[n - 1]
    BY <2>2, <2>3, SlotInside DEF IndInv
  <2>5. slots'[s].fd \in Open /\ sock[slots'[s].fd] = q
    BY <1>2, <2>1 DEF Open
  <2> QED
    BY <2>1, <2>3, <2>4, <2>5 DEF Hears, Holds
<1>9. CASE PollFails \/ AcceptKilled \/ HangupWild \/ SendKilled
  BY <1>9 DEF PollFails, AcceptKilled, HangupWild, SendKilled, Running
<1>10. CASE Skip \/ EndScan \/ Recv \/ SendSkip \/ SendFails \/ SendDelivers \/ SendLost
            \/ EndBroadcast
  BY <1>3, <1>10 DEF Skip, EndScan, Recv, AtClient, SendSkip, SendFails, SendDelivers, SendLost,
    Sending, EndBroadcast, Running, peers
<1>11. CASE \E p \in Peers : Write(p) \/ Consume(p)
  BY <1>3, <1>11 DEF Write, Consume, server
<1>12. ASSUME NEW p \in Peers, Connect(p) \/ Close(p) \/ Reset(p)
       PROVE  Running /\ (Hears(q) \/ (got[q] = <<>> /\ UNCHANGED got))
  <2>1. /\ UNCHANGED <<slots, n, sock, got>> /\ Running
        /\ \E l \in {"open", "fin", "rst"} : link' = [link EXCEPT ![p] = l]
        /\ link[p] = "idle" \/ link'[p] # "open"
    BY <1>1, <1>12 DEF Connect, Close, Reset, server
  <2>2. slots[s].fd \in Open /\ sock[slots[s].fd] = q /\ s \in 0..(n - 1)
    BY <1>2, <2>1 DEF Open
  <2>3. link[q] # "idle" /\ link'[q] = "open"
    BY <2>2 DEF KnownPeers, Hears
  <2>4. link[q] = "open"
    <3>1. CASE p = q
      BY <1>1, <2>1, <2>3, <3>1
    <3>2. CASE p # q
      <4>1. PICK l \in {"open", "fin", "rst"} : link' = [link EXCEPT ![p] = l]
        BY <2>1
      <4>2. link'[q] = link[q]
        BY <1>1, <3>2, <4>1
      <4> QED
        BY <2>3, <4>2
    <3> QED
      BY <3>1, <3>2
  <2> QED
    BY <2>1, <2>2, <2>4 DEF Hears, Holds
<1>13. CASE UNCHANGED vars
  <2>1. pc' = pc /\ UNCHANGED <<slots, n, sock, link>>
    BY <1>13 DEF vars
  <2> QED
    BY <1>3, <2>1 DEF Running
<1> QED
  BY <1>4, <1>6, <1>7, <1>8, <1>9, <1>10, <1>11, <1>12, <1>13 DEF Next, ServerStep, PeerStep

\* How a broadcast goes on: it ends, or delivers to the next slot, or passes a slot
\* that is the sender's, the listener's or out of reach, or the slots wait.
LEMMA BroadcastSteps ==
  ASSUME IndInv, [Next]_vars, pc = "send", Running'
  PROVE  \/ /\ pc' = "scan" /\ j >= n
            /\ UNCHANGED <<slots, n, sock, link, read, got>>
         \/ SendDelivers
         \/ /\ pc' = "send" /\ j' = j + 1 /\ j \in 0..(n - 1)
            /\ UNCHANGED <<slots, n, chunk, sock, link, read, got>>
            /\ Target \in Open => Target = chunk.fd \/ link[sock[Target]] # "open"
         \/ /\ pc' = "send" /\ j' = j
            /\ UNCHANGED <<slots, n, chunk, sock, read, got>>
<1>1. n \in Nat /\ j \in Nat
  BY DEF IndInv, TypeOK, ArrayOK, ThreadOK
<1>2. CASE Accept \/ AcceptReset \/ AcceptKilled \/ AcceptFails \/ Recv \/ Hangup \/ HangupWild
  BY <1>2 DEF Accept, AcceptReset, AcceptKilled, AcceptFails, Accepts, AtListener,
    Recv, Hangup, HangupWild, AtClient
<1>3. CASE Poll \/ PollFails \/ Skip \/ EndScan
  BY <1>3 DEF Poll, PollFails, Skip, EndScan
<1>4. CASE SendKilled
  BY <1>4 DEF SendKilled, Running
<1>5. CASE EndBroadcast
  BY <1>5 DEF EndBroadcast, peers
<1>6. CASE SendSkip
  <2>1. ServerFd \notin Open
    BY ConstantsAssumption DEF Open, ClientFds
  <2> QED
    BY <1>1, <1>6, <2>1 DEF SendSkip, peers
<1>7. CASE SendFails \/ SendLost
  BY <1>1, <1>7 DEF SendFails, SendLost, Sending, peers
<1>8. CASE PeerStep
  BY <1>8 DEF PeerStep, Connect, Write, Consume, Close, Reset, server
<1>9. CASE UNCHANGED vars
  BY <1>9 DEF vars
<1> QED
  BY <1>2, <1>3, <1>4, <1>5, <1>6, <1>7, <1>8, <1>9 DEF Next, ServerStep

\* The sender of a chunk does not hear it.
LEMMA NotItsOwn ==
  ASSUME OrderInv, NEW q \in Peers, NEW k \in 1..Len(got[q]), NEW p, LastOf(q, p, k)
  PROVE  p # q
BY DEF OrderInv, NoEcho, LastOf

\* A broadcast passes every slot that leads to a connected peer and delivers there.
LEMMA CaughtUpStep == OrderInv /\ CaughtUp /\ [Next]_vars => CaughtUp'
<1> SUFFICES ASSUME OrderInv, CaughtUp, [Next]_vars, Running',
                    NEW q \in Peers, NEW p \in Peers, Hears(q)',
                    NEW k \in 1..Len(got'[q]), LastOf(q, p, k)'
             PROVE  UpTo(q, p, k)'
  BY DEF CaughtUp
<1> IndInv
  BY DEF OrderInv, PeersInv
<1>1. /\ got \in [Peers -> Seq(Chunks)]
      /\ n \in Nat /\ j \in Nat
      /\ \A r \in Peers : read[r] \in Nat
  <2>1. got \in [Peers -> Seq(Chunks)]
    BY DEF IndInv, TypeOK, HistoryOK, Chunks
  <2>1a. n \in Nat /\ j \in Nat
    BY DEF IndInv, TypeOK, ArrayOK, ThreadOK
  <2>2. read \in [Peers -> 0..MaxMsgs] /\ 0..MaxMsgs \subseteq Nat
    BY ConstantsAssumption DEF IndInv, TypeOK, PeersOK
  <2> QED
    BY <2>1, <2>1a, <2>2
<1>2. Running /\ Hears(q)
  <2>1. Running /\ (Hears(q) \/ (got[q] = <<>> /\ UNCHANGED got))
    BY HearsBefore
  <2>2. ~(got[q] = <<>> /\ UNCHANGED got)
    <3>1. ASSUME got'[q] = <<>> PROVE FALSE
      <4>1. k \in 1..0
        BY <3>1
      <4> QED
        BY <4>1
    <3> QED
      BY <3>1
  <2> QED
    BY <2>1, <2>2
(* The last chunk was there before. *)
<1>3. ASSUME UNCHANGED got
      PROVE  /\ k \in 1..Len(got[q]) /\ LastOf(q, p, k)
             /\ UpTo(q, p, k) /\ p # q
  <2>1. k \in 1..Len(got[q]) /\ LastOf(q, p, k)
    BY <1>3 DEF LastOf
  <2> QED
    BY <1>2, <2>1, NotItsOwn DEF CaughtUp
<1>4. CASE pc # "send" /\ pc' # "send"
  <2>1. UNCHANGED <<got, read>>
    BY <1>4, GotSteps, ReadSteps, RecvReads, SendDeliversTo
  <2> QED
    BY <1>3, <1>4, <2>1 DEF UpTo
<1>5. CASE pc # "send" /\ pc' = "send"
  <2> DEFINE r == sock[slots[i].fd]
  <2>1. /\ r \in Peers /\ j' = 0 /\ UNCHANGED <<got, sock>> /\ Sender' = r
        /\ chunk'.lo = read[r] + 1
        /\ \A t \in Peers \ {r} : read'[t] = read[t]
    <3>1. Recv
      BY <1>5, InBroadcast
    <3> QED
      BY <3>1, RecvReads DEF Sender
  <2>2. got[q][k].hi = read[p]
    BY <1>3, <1>5, <2>1 DEF UpTo
  <2>3. \A s \in 0..(n' - 1) : ~(s < j')
    BY <2>1
  <2>4. CASE p = r
    BY <1>5, <2>1, <2>2, <2>3, <2>4 DEF UpTo
  <2>5. CASE p # r
    BY <1>5, <2>1, <2>2, <2>5 DEF UpTo
  <2> QED
    BY <2>4, <2>5
<1>6. CASE pc = "send" /\ pc' = "scan" /\ j >= n /\ UNCHANGED <<slots, n, sock, link, read, got>>
  <2>1. UpTo(q, p, k)
    BY <1>3, <1>6
  <2>2. CASE p = Sender
    <3>1. PICK s \in 0..(n - 1) : Holds(q, s)
      BY <1>2 DEF Hears
    <3>2. s < j
      BY <1>1, <1>6
    <3>3. got[q][k] = Chunk
      BY <1>6, <2>1, <2>2, <3>1, <3>2 DEF UpTo
    <3>4. got[q][k].hi = read[p]
      BY <1>6, <2>2, <3>3 DEF Chunk, OrderInv, SentWasReceived
    <3> QED
      BY <1>6, <3>4 DEF UpTo
  <2>3. CASE p # Sender
    BY <1>6, <2>1, <2>3 DEF UpTo
  <2> QED
    BY <2>2, <2>3
<1>7. CASE /\ pc = "send" /\ pc' = "send" /\ j' = j + 1 /\ j \in 0..(n - 1)
           /\ UNCHANGED <<slots, n, chunk, sock, link, read, got>>
           /\ Target \in Open => Target = chunk.fd \/ link[sock[Target]] # "open"
  <2>1. UpTo(q, p, k) /\ p # q
    BY <1>3, <1>7
  <2>2. UNCHANGED <<Sender, Chunk>> /\ \A s : Holds(q, s)' <=> Holds(q, s)
    BY <1>7 DEF Sender, Chunk, Holds, Open
  <2>3. p = Sender => ~Holds(q, j)
    BY <1>2, <1>7, <2>1 DEF Holds, Hears, Target, Sender
  <2>4. p = Sender => \A s \in 0..(n - 1) : (s < j' /\ Holds(q, s)') <=> (s < j /\ Holds(q, s))
    <3>1. \A s \in 0..(n - 1) : s < j + 1 <=> (s < j \/ s = j)
      BY <1>1
    <3> QED
      BY <1>7, <2>2, <2>3, <3>1
  <2> QED
    BY <1>7, <2>1, <2>2, <2>4 DEF UpTo
<1>8. CASE pc = "send" /\ pc' = "send" /\ j' = j /\ UNCHANGED <<slots, n, chunk, sock, read, got>>
  <2>1. UNCHANGED <<Sender, Chunk>> /\ \A s : Holds(q, s)' <=> Holds(q, s)
    BY <1>8 DEF Sender, Chunk, Holds, Open
  <2> QED
    BY <1>3, <1>8, <2>1 DEF UpTo
<1>9. CASE SendDelivers
  <2> DEFINE r == sock[Target]
  <2>1. /\ pc = "send" /\ j \in 0..(n - 1) /\ j' = j + 1
        /\ Target = slots[j].fd /\ Target \in Open
        /\ r \in Peers /\ Chunk \in Chunks
        /\ got' = [got EXCEPT ![r] = Append(got[r], Chunk)]
        /\ UNCHANGED <<slots, n, pc, chunk, sock, read>>
    BY <1>9, SendDeliversTo
  <2>2. UNCHANGED <<Sender, Chunk>> /\ \A s : Holds(q, s)' <=> Holds(q, s)
    BY <2>1 DEF Sender, Chunk, Holds, Open
  <2>3. CASE q # r
    <3>1. got'[q] = got[q] /\ ~Holds(q, j)
      BY <1>1, <2>1, <2>3 DEF Holds
    <3>2. k \in 1..Len(got[q]) /\ LastOf(q, p, k)
      BY <3>1 DEF LastOf
    <3>3. UpTo(q, p, k)
      BY <1>2, <3>2 DEF CaughtUp
    <3>4. \A s \in 0..(n - 1) : (s < j' /\ Holds(q, s)') <=> (s < j /\ Holds(q, s))
      <4>1. \A s \in 0..(n - 1) : s < j + 1 <=> (s < j \/ s = j)
        BY <1>1
      <4> QED
        BY <2>1, <2>2, <3>1, <4>1
    <3> QED
      BY <2>1, <2>2, <3>1, <3>3, <3>4 DEF UpTo
  <2>4. CASE q = r
    <3>1. /\ got'[q] = Append(got[q], Chunk) /\ got[q] \in Seq(Chunks)
          /\ Len(got[q]) \in Nat /\ Len(got'[q]) = Len(got[q]) + 1
          /\ got'[q][Len(got[q]) + 1] = Chunk
          /\ \A l \in 1..Len(got[q]) : got'[q][l] = got[q][l]
      BY <1>1, <2>1, <2>4, Appended, SMTT(30)
    <3>2. \E s \in 0..(n - 1) : s < j' /\ Holds(q, s)'
      <4>1. PICK s \in 0..(n - 1) : s < j' /\ Holds(q, s)
        BY <1>1, <2>1, <2>4 DEF Holds
      <4>2. Holds(q, s)'
        BY <2>2, <4>1
      <4> QED
        BY <4>1, <4>2
    <3>3. CASE k = Len(got[q]) + 1
      <4>1. got'[q][k] = Chunk /\ p = Sender
        BY <3>1, <3>3 DEF LastOf, Chunk
      <4> QED
        BY <2>1, <2>2, <3>2, <4>1 DEF UpTo
    <3>4. CASE k \in 1..Len(got[q])
      <4>1. p # Sender
        BY <3>1, <3>4 DEF LastOf, Chunk
      <4>2. got'[q][k] = got[q][k] /\ LastOf(q, p, k)
        BY <3>1, <3>4 DEF LastOf
      <4>3. UpTo(q, p, k)
        BY <1>2, <3>4, <4>2 DEF CaughtUp
      <4> QED
        BY <2>1, <2>2, <4>1, <4>2, <4>3 DEF UpTo
    <3> QED
      BY <3>1, <3>3, <3>4
  <2> QED
    BY <2>3, <2>4
<1> QED
  BY <1>4, <1>5, <1>6, <1>7, <1>8, <1>9, BroadcastSteps

\* What send appends continues the last chunk of its sender, or repeats it.
LEMMA SenderOrderStep == OrderInv /\ CaughtUp /\ SenderOrder /\ [Next]_vars => SenderOrder'
<1> SUFFICES ASSUME OrderInv, CaughtUp, SenderOrder, [Next]_vars
             PROVE  SenderOrder'
  OBVIOUS
<1> IndInv
  BY DEF OrderInv, PeersInv
<1>1. CASE UNCHANGED got
  BY <1>1 DEF SenderOrder
<1>2. CASE SendDelivers
  <2> DEFINE r == sock[Target]
  <2>1. /\ pc = "send" /\ j \in 0..(n - 1)
        /\ Target = slots[j].fd /\ Target \in Open
        /\ r \in Peers /\ link[r] = "open" /\ Sender \in Peers
        /\ got \in [Peers -> Seq(Chunks)] /\ Chunk \in Chunks
        /\ got' = [got EXCEPT ![r] = Append(got[r], Chunk)]
    BY <1>2, SendDeliversTo
  <2>2. Hears(r) /\ Running
    BY <2>1 DEF Hears, Holds, Running
  <2>3. /\ got'[r] = Append(got[r], Chunk) /\ got[r] \in Seq(Chunks)
        /\ Len(got[r]) \in Nat /\ Len(got'[r]) = Len(got[r]) + 1
        /\ got'[r][Len(got[r]) + 1] = Chunk
        /\ \A k \in 1..Len(got[r]) : got'[r][k] = got[r][k] /\ got[r][k] \in Chunks
    BY <2>1, Appended, SMTT(30)
  <2>4. ASSUME NEW k \in 1..Len(got[r]), LastOf(r, Sender, k)
        PROVE  Chunk = got[r][k] \/ Chunk.lo = got[r][k].hi + 1
    <3>1. UpTo(r, Sender, k)
      BY <2>1, <2>2, <2>4 DEF CaughtUp
    <3> QED
      BY <2>1, <3>1 DEF UpTo, Chunk
  <2>5. ASSUME NEW p \in Peers, NEW k \in 1..Len(got'[p]), NEW l \in 1..Len(got'[p]),
               k < l, got'[p][k].from = got'[p][l].from,
               \A m \in (k + 1)..(l - 1) : got'[p][m].from # got'[p][k].from
        PROVE  got'[p][l] = got'[p][k] \/ got'[p][l].lo = got'[p][k].hi + 1
    <3>1. CASE p # r
      <4>1. got'[p] = got[p]
        BY <2>1, <3>1
      <4> QED
        BY <2>5, <4>1 DEF SenderOrder
    <3>2. CASE p = r /\ l \in 1..Len(got[r])
      <4>1. k \in 1..Len(got[r])
        BY <2>3, <2>5, <3>2
      <4>2. \A m \in (k + 1)..(l - 1) : m \in 1..Len(got[r])
        BY <2>3, <3>2, <4>1
      <4>3. \A m \in (k + 1)..(l - 1) : got[r][m].from # got[r][k].from
        BY <2>3, <2>5, <3>2, <4>1, <4>2
      <4>4. got[r][k].from = got[r][l].from
        BY <2>3, <2>5, <3>2, <4>1
      <4>5. got[r][l] = got[r][k] \/ got[r][l].lo = got[r][k].hi + 1
        BY <2>1, <2>5, <3>2, <4>1, <4>3, <4>4, ZenonT(30) DEF SenderOrder
      <4> QED
        BY <2>3, <3>2, <4>1, <4>5
    <3>3. CASE p = r /\ l = Len(got[r]) + 1
      <4>1. k \in 1..Len(got[r]) /\ l - 1 = Len(got[r]) /\ got'[r][l] = Chunk
        BY <2>3, <2>5, <3>3
      <4>2. got'[r][k] = got[r][k] /\ got[r][k].from = Sender
        BY <2>3, <2>5, <3>3, <4>1, SMTT(30) DEF Chunk
      <4>3. ASSUME NEW m \in (k + 1)..Len(got[r])
            PROVE  got[r][m].from # Sender
        <5>1. m \in 1..Len(got[r])
          BY <2>3, <4>1
        <5>2. got'[r][m].from # got'[r][k].from
          BY <2>5, <3>3, <4>1
        <5> QED
          BY <2>3, <4>2, <5>1, <5>2
      <4>4. LastOf(r, Sender, k)
        BY <4>2, <4>3 DEF LastOf
      <4> QED
        BY <2>4, <3>3, <4>1, <4>2, <4>4
    <3> QED
      BY <2>3, <2>5, <3>1, <3>2, <3>3
  <2> QED
    BY <2>5 DEF SenderOrder
<1> QED
  BY <1>1, <1>2, GotSteps

LEMMA OrderInvariant == Spec => []OrderInv
<1>1. Init => PeersInv /\ SentWasReceived /\ Unheard
  <2> SUFFICES ASSUME Init PROVE PeersInv /\ SentWasReceived /\ Unheard
    OBVIOUS
  <2>1. PeersInv
    BY InitWatchInv DEF WatchInv
  <2> QED
    BY <2>1 DEF Init, SentWasReceived, Unheard
<1>2. (PeersInv /\ SentWasReceived /\ Unheard) /\ [Next]_vars
        => (PeersInv /\ SentWasReceived /\ Unheard)'
  BY PeersStep, NextIndInv, ReceivedStep, UnheardStep DEF PeersInv
<1> QED
  BY <1>1, <1>2, NobodyHearsItself, PTL DEF Spec, OrderInv

\* A peer that is still sent something has missed nothing of any sender.
THEOREM SentInOrder == Spec => []SenderOrder
<1>1. Init => CaughtUp /\ SenderOrder
  BY DEF Init, CaughtUp, SenderOrder
<1>2. OrderInv /\ (CaughtUp /\ SenderOrder) /\ [Next]_vars => (CaughtUp /\ SenderOrder)'
  BY CaughtUpStep, SenderOrderStep
<1> QED
  BY <1>1, <1>2, OrderInvariant, PTL DEF Spec
=============================================================================
