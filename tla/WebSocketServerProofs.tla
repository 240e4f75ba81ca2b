------------------------ MODULE WebSocketServerProofs ------------------------
(***************************************************************************)
(* Proofs about WebSocketServer, for any finite set of peers and any       *)
(* bounds: the types, the list of descriptors under the scan and under a   *)
(* broadcast, and whom a broadcast reaches. Finite sets of numbers get     *)
(* their least and greatest elements from the well-foundedness of strict   *)
(* inclusion, and a connection that waits finds a descriptor because two   *)
(* clients never share a peer.                                             *)
(***************************************************************************)
EXTENDS WebSocketServer, FiniteSetTheorems, SequenceTheorems, TLAPS

-----------------------------------------------------------------------------
(* Finite sets of integers, descriptors and the list.                      *)

\* A finite set of integers that is not empty has a least element.
LEMMA LeastExists ==
  ASSUME NEW S \in SUBSET Int, IsFiniteSet(S), S # {}
  PROVE  \E x \in S : \A y \in S : x <= y
<1> DEFINE Bad == { T \in SUBSET S : T # {} /\ ~\E x \in T : \A y \in T : x <= y }
<1> SUFFICES ASSUME Bad # {}
             PROVE  FALSE
  OBVIOUS
<1>1. Bad \subseteq FiniteSubsetsOf(S)
  BY FS_FiniteSubsetsOfFinite
<1>2. PICK T \in Bad : \A U \in Bad : ~ (<<U, T>> \in StrictSubsetOrdering(S))
  BY <1>1, FS_StrictSubsetOrderingWellFounded, WFMin
<1>3. PICK x \in T : TRUE
  OBVIOUS
<1>4. T \ {x} \notin Bad
  <2>1. <<T \ {x}, T>> \in StrictSubsetOrdering(S)
    BY <1>3 DEF StrictSubsetOrdering
  <2> QED
    BY <2>1, <1>2
<1>5. CASE T \ {x} = {}
  <2>1. T = {x} /\ x \in Int
    BY <1>5
  <2> QED
    BY <2>1
<1>6. CASE T \ {x} # {}
  <2>1. PICK m \in T \ {x} : \A y \in T \ {x} : m <= y
    BY <1>4, <1>6
  <2>2. m \in Int /\ x \in Int /\ T \subseteq Int
    OBVIOUS
  <2>3. CASE m <= x
    BY <2>1, <2>2, <2>3
  <2>4. CASE x <= m
    BY <2>1, <2>2, <2>4
  <2> QED
    BY <2>2, <2>3, <2>4
<1> QED
  BY <1>5, <1>6

\* A set of integers below a bound and above another has a greatest element.
LEMMA GreatestExists ==
  ASSUME NEW n \in Nat, NEW S \in SUBSET (1..n), S # {}
  PROVE  \E x \in S : \A y \in S : y <= x
<1> DEFINE T == { -x : x \in S }
<1>1. IsFiniteSet(T)
  <2>1. -n \in Int /\ -1 \in Int
    OBVIOUS
  <2>2. IsFiniteSet((-n)..(-1))
    BY <2>1, FS_Interval
  <2>3. T \subseteq (-n)..(-1)
    OBVIOUS
  <2> QED
    BY <2>2, <2>3, FS_Subset
<1>2. T \in SUBSET Int /\ T # {}
  <2>1. PICK x \in S : TRUE
    OBVIOUS
  <2>2. -x \in T
    BY <2>1
  <2>3. \A y \in 1..n : -y \in Int
    OBVIOUS
  <2> QED
    BY <2>2, <2>3
<1>3. PICK t \in T : \A u \in T : t <= u
  BY <1>1, <1>2, LeastExists
<1>4. PICK x \in S : t = -x
  OBVIOUS
<1>5. ASSUME NEW y \in S
      PROVE  y <= x
  <2>1. -x <= -y
    BY <1>3, <1>4
  <2>2. \A v, w \in Int : -v <= -w => w <= v
    OBVIOUS
  <2>3. x \in Int /\ y \in Int
    OBVIOUS
  <2> QED
    BY <2>1, <2>2, <2>3
<1> QED
  BY <1>5

\* The descriptors of the clients are above those of the listener, Redis and the
\* standard streams.
LEMMA Descriptors ==
  /\ ClientFds \subseteq Int /\ IsFiniteSet(ClientFds)
  /\ Cardinality(ClientFds) = Cardinality(Peers)
  /\ 0 \notin ClientFds /\ 1 \notin ClientFds /\ ServerFd \notin ClientFds /\ ServerFd # 1 /\ ServerFd # 0
  /\ None \notin Peers
<1>1. IsFiniteSet(Peers) /\ Cardinality(Peers) \in Nat
  BY WebSocketAssumption, FS_CardinalityType
<1> DEFINE c == Cardinality(Peers)
           b == 4 + c
<1>2. IsFiniteSet(5..b) /\ Cardinality(5..b) = c
  <2>1. 5 \in Int /\ b \in Int
    BY <1>1
  <2> HIDE DEF b
  <2>2. IsFiniteSet(5..b) /\ Cardinality(5..b) = IF 5 > b THEN 0 ELSE b - 5 + 1
    BY <2>1, FS_Interval
  <2> QED
    BY <2>2, <1>1 DEF b
<1> QED
  BY <1>1, <1>2, WebSocketAssumption DEF ClientFds, ServerFd

\* A slot of the list.
Slot == [fd : {ServerFd} \cup ClientFds, in : BOOLEAN]

\* The first element of a sequence with a property has an index.
LEMMA FirstIndex ==
  ASSUME NEW S, NEW s \in Seq(S), NEW K \in SUBSET (1..Len(s)), K # {}
  PROVE  \E k \in K : \A l \in 1..k - 1 : l \notin K
<1>1. Len(s) \in Nat
  BY LenProperties
<1>2. IsFiniteSet(1..Len(s)) /\ 1..Len(s) \subseteq Int
  BY <1>1, FS_Interval
<1>3. IsFiniteSet(K)
  BY <1>2, FS_Subset
<1>4. PICK k \in K : \A y \in K : k <= y
  BY <1>2, <1>3, LeastExists
<1>5. \A l \in 1..k - 1 : ~(k <= l)
  BY <1>1
<1> QED
  BY <1>4, <1>5

\* del_client_from_poll takes one slot with the descriptor out and shifts those
\* behind it, or leaves the list when there is none.
LEMMA Deleted ==
  ASSUME NEW s \in Seq(Slot), NEW f
  PROVE  /\ DelClientFromPoll(s, f) \in Seq(Slot)
         /\ \/ /\ \A k \in 1..Len(s) : s[k].fd # f
               /\ DelClientFromPoll(s, f) = s
            \/ \E k \in 1..Len(s) :
                 /\ s[k].fd = f
                 /\ \A l \in 1..k - 1 : s[l].fd # f
                 /\ Len(DelClientFromPoll(s, f)) = Len(s) - 1
                 /\ \A l \in 1..Len(s) - 1 :
                      DelClientFromPoll(s, f)[l] = IF l < k THEN s[l] ELSE s[l + 1]
<1>0. Len(s) \in Nat /\ DOMAIN s = 1..Len(s)
  BY LenProperties
<1>1. CASE \E k \in 1..Len(s) : s[k].fd = f
  <2> DEFINE K == { k \in 1..Len(s) : s[k].fd = f }
             k == CHOOSE k \in DOMAIN s : s[k].fd = f /\ \A l \in 1..k - 1 : s[l].fd # f
             a == SubSeq(s, 1, k - 1)
             b == SubSeq(s, k + 1, Len(s))
  <2>1. \E x \in DOMAIN s : s[x].fd = f /\ \A l \in 1..x - 1 : s[l].fd # f
    <3>1. PICK x \in K : \A l \in 1..x - 1 : l \notin K
      BY <1>1, FirstIndex
    <3>2. \A l \in 1..x - 1 : l \in 1..Len(s)
      BY <1>0
    <3> QED
      BY <1>0, <3>1, <3>2
  <2>2. k \in 1..Len(s) /\ s[k].fd = f /\ \A l \in 1..k - 1 : s[l].fd # f
    BY <2>1, <1>0
  <2>3. DelClientFromPoll(s, f) = a \o b
    BY <1>1, <1>0 DEF DelClientFromPoll, RemoveAt
  <2> HIDE DEF k
  <2>4. /\ a \in Seq(Slot) /\ Len(a) = k - 1
        /\ \A l \in 1..k - 1 : a[l] = s[l]
    <3>1. \A l \in 1..k - 1 : s[l] \in Slot
      BY <2>2, <1>0, ElementOfSeq
    <3>2. 1 \in Int /\ k - 1 \in Int
      BY <2>2, <1>0
    <3>3. /\ a \in Seq(Slot)
          /\ Len(a) = IF 1 <= k - 1 THEN k - 1 - 1 + 1 ELSE 0
          /\ \A l \in 1 .. k - 1 - 1 + 1 : a[l] = s[1 + l - 1]
      BY <3>1, <3>2, SubSeqProperties
    <3> QED
      BY <3>3, <2>2, <1>0
  <2>5. /\ b \in Seq(Slot) /\ Len(b) = Len(s) - k
        /\ \A l \in 1..Len(s) - k : b[l] = s[k + l]
    <3>1. \A l \in k + 1..Len(s) : s[l] \in Slot
      BY <2>2, <1>0, ElementOfSeq
    <3>2. k + 1 \in Int /\ Len(s) \in Int
      BY <2>2, <1>0
    <3>3. /\ b \in Seq(Slot)
          /\ Len(b) = IF k + 1 <= Len(s) THEN Len(s) - (k + 1) + 1 ELSE 0
          /\ \A l \in 1 .. Len(s) - (k + 1) + 1 : b[l] = s[k + 1 + l - 1]
      BY <3>1, <3>2, SubSeqProperties
    <3>4. Len(b) = Len(s) - k
      <4>1. \A m \in Nat : \A y \in 1..m : (IF y + 1 <= m THEN m - (y + 1) + 1 ELSE 0) = m - y
        OBVIOUS
      <4> QED
        BY <4>1, <3>3, <2>2, <1>0
    <3>5. ASSUME NEW l \in 1..Len(s) - k
          PROVE  b[l] = s[k + l]
      <4>1. l \in 1 .. Len(s) - (k + 1) + 1 /\ k + 1 + l - 1 = k + l
        BY <2>2, <1>0
      <4> QED
        BY <4>1, <3>3
    <3> QED
      BY <3>3, <3>4, <3>5
  <2>6. /\ a \o b \in Seq(Slot)
        /\ Len(a \o b) = Len(a) + Len(b)
        /\ \A l \in 1..Len(a) + Len(b) : (a \o b)[l] = IF l <= Len(a) THEN a[l] ELSE b[l - Len(a)]
    BY <2>4, <2>5, ConcatProperties
  <2> HIDE DEF a, b
  <2>7. Len(a \o b) = Len(s) - 1
    BY <2>4, <2>5, <2>6, <2>2, <1>0
  <2>8. ASSUME NEW l \in 1..Len(s) - 1
        PROVE  (a \o b)[l] = IF l < k THEN s[l] ELSE s[l + 1]
    <3>1. (a \o b)[l] = IF l <= k - 1 THEN a[l] ELSE b[l - (k - 1)]
      BY <2>4, <2>5, <2>6, <2>2, <1>0
    <3>2. CASE l < k
      BY <3>1, <3>2, <2>4, <2>2, <1>0
    <3>3. CASE ~(l < k)
      <4>1. l - (k - 1) \in 1..Len(s) - k /\ k + (l - (k - 1)) = l + 1
        BY <3>3, <2>2, <1>0
      <4>2. b[l - (k - 1)] = s[k + (l - (k - 1))]
        BY <4>1, <2>5
      <4> QED
        BY <3>1, <3>3, <4>1, <4>2, <2>2, <1>0
    <3> QED
      BY <3>2, <3>3
  <2> QED
    BY <2>2, <2>3, <2>6, <2>7, <2>8
<1>2. CASE \A k \in 1..Len(s) : s[k].fd # f
  BY <1>2, <1>0 DEF DelClientFromPoll
<1> QED
  BY <1>1, <1>2

-----------------------------------------------------------------------------
(* The invariant of the list and the sockets.                              *)

\* What is kept of a message that was relayed.
MessageSet == [from : Peers, kind : {"none", "text", "bin"}, parts : Seq(Nat \X Nat)]
Types ==
  /\ slots \in Seq(Slot)
  /\ listening \in BOOLEAN
  /\ sock \in [ClientFds -> Peers \cup {None}]
  /\ backlog \in Seq(Peers)
  /\ pc \in {"poll", "scan", "handshake", "announce", "receive", "broadcast", "binary", "exited"}
  /\ i \in Nat \ {0} /\ j \in Nat \ {0}
  /\ fd \in {0} \cup ClientFds
  /\ opcode \in {"none", "text", "bin"} /\ parts \in Seq(Nat \X Nat)
  /\ link \in [Peers -> {"idle", "open", "fin", "rst", "dropped"}]
  /\ stream \in [Peers -> Seq(Frame)] /\ wrote \in [Peers -> Seq(Frame)]
  /\ upgraded \in [Peers -> BOOLEAN]
  /\ got \in [Peers -> Seq(MessageSet)]
  /\ skipped \subseteq Peers

\* The listening socket is in the first slot as long as it is open, and there is one
\* client with it, or two until the second one was announced; after that there are
\* at most two clients and no listening socket.
ListOK ==
  /\ listening =>
       /\ Len(slots) \in 1..3 /\ slots[1].fd = ServerFd
       /\ Len(slots) = 3 => pc \in {"handshake", "announce"}
       /\ pc \in {"announce", "broadcast"} => j = 1
       /\ \A k \in 2..Len(slots) : slots[k].fd # ServerFd
  /\ ~listening /\ pc # "exited" => Len(slots) <= 2 /\ \A k \in DOMAIN slots : slots[k].fd # ServerFd
  /\ Len(slots) <= 3
  /\ pc = "exited" => ~listening

\* Where the scan is in each of its calls.
IndexOK ==
  /\ pc \in {"handshake", "announce"} => i = 1
  /\ pc \in {"receive", "binary"} => i <= Len(slots)
  /\ pc \in {"receive", "broadcast", "binary"} => i <= 2
  /\ i <= Len(slots) + 2

\* A peer has one descriptor, or waits once to get one; its connection is then not
\* closed by the server. The client that is accepted or relayed has its descriptor.
SocketsOK ==
  /\ \A f, g \in OpenFds : sock[f] = sock[g] => f = g
  /\ \A f \in OpenFds : link[sock[f]] \in {"open", "fin", "rst"}
  /\ \A k \in DOMAIN backlog : link[backlog[k]] \in {"open", "fin", "rst"} /\ \A f \in ClientFds : sock[f] # backlog[k]
  /\ \A k, l \in DOMAIN backlog : backlog[k] = backlog[l] => k = l
  /\ pc \in {"handshake", "broadcast", "binary"} => fd \in OpenFds
  /\ pc \in {"receive", "announce"} => fd \in ClientFds

-----------------------------------------------------------------------------
(* What the steps are made of.                                             *)

\* With a connection to accept there is a descriptor left for it: two clients
\* never share a peer, and who waits has none.
LEMMA LowestFree ==
  ASSUME Types, SocketsOK, backlog # <<>>
  PROVE  Lowest \in ClientFds /\ sock[Lowest] = None
<1> DEFINE h == Head(backlog)
           Free == ClientFds \ OpenFds
<1>1. h \in Peers /\ \A f \in ClientFds : sock[f] # h
  BY HeadTailProperties, LenProperties DEF Types, SocketsOK
<1>2. Free # {}
  <2> SUFFICES ASSUME OpenFds = ClientFds
               PROVE  FALSE
    BY DEF OpenFds
  <2>1. sock \in Injection(ClientFds, Peers \ {h})
    <3>1. \A f \in ClientFds : sock[f] \in Peers \ {h}
      BY <1>1 DEF Types, OpenFds
    <3>2. \A f, g \in ClientFds : sock[f] = sock[g] => f = g
      BY DEF SocketsOK
    <3>3. sock \in [ClientFds -> Peers \ {h}]
      BY <3>1 DEF Types
    <3> QED
      BY <3>2, <3>3 DEF Injection, IsInjective
  <2>2. IsFiniteSet(Peers) /\ Cardinality(Peers) \in Nat
    BY WebSocketAssumption, FS_CardinalityType
  <2>3. IsFiniteSet(Peers \ {h}) /\ Cardinality(Peers \ {h}) = Cardinality(Peers) - 1
    BY <1>1, <2>2, FS_RemoveElement
  <2>4. Cardinality(ClientFds) <= Cardinality(Peers \ {h})
    BY <2>1, <2>3, FS_Injection
  <2> QED
    BY <2>2, <2>3, <2>4, Descriptors
<1>3. IsFiniteSet(Free) /\ Free \subseteq Int
  BY Descriptors, FS_Subset
<1>4. \E f \in Free : \A g \in Free : f <= g
  BY <1>2, <1>3, LeastExists
<1>5. Lowest \in Free
  BY <1>4 DEF Lowest
<1> QED
  BY <1>5 DEF OpenFds

\* The frames that are not chosen by a peer.
LEMMA Frames ==
  /\ \A op \in {"request", "bad request"} : Request(op) \in Frame
  /\ [op |-> "ping", fin |-> TRUE, part |-> <<0, 0>>, cut |-> "no"] \in Frame
  /\ Garbage \subseteq Frame
<1>1. <<0, 0>> \in Nat \X Nat
  OBVIOUS
<1>2. ASSUME NEW op \in {"request", "bad request"}
      PROVE  Request(op) \in Frame
  BY <1>1 DEF Request, Frame
<1>3. ASSUME NEW g \in Garbage
      PROVE  g \in Frame
  <2>1. g \in [op : {"text", "bin", "cont", "ping", "pong", "close"}, fin : BOOLEAN,
               part : {<<0, 0>>}, cut : {"no", "payload"}]
    BY DEF Garbage
  <2> QED
    BY <1>1, <2>1 DEF Frame
<1>4. [op |-> "ping", fin |-> TRUE, part |-> <<0, 0>>, cut |-> "no"] \in Frame
  BY <1>1 DEF Frame
<1> QED
  BY <1>2, <1>3, <1>4

\* The frames before a place have a last data frame.
LEMMA LastDataType ==
  ASSUME NEW w \in Seq(Frame), NEW n \in 1..Len(w) + 1, DataBefore(w, n) # {}
  PROVE  \E m \in DataBefore(w, n) : /\ \A l \in DataBefore(w, n) : l <= m
                                     /\ LastData(w, n) = w[m]
                                     /\ m \in 1..Len(w)
<1>1. Len(w) \in Nat
  BY LenProperties
<1>2. DataBefore(w, n) \in SUBSET (1..Len(w))
  BY <1>1 DEF DataBefore
<1>3. \E m \in DataBefore(w, n) : \A l \in DataBefore(w, n) : l <= m
  BY <1>1, <1>2, GreatestExists
<1> QED
  BY <1>2, <1>3 DEF LastData

\* A part is a pair of numbers.
LEMMA PartType ==
  ASSUME NEW w \in Seq(Frame), NEW n \in 1..Len(w) + 1
  PROVE  PartAt(w, n) \in Nat \X Nat
<1>1. CASE DataBefore(w, n) = {}
  BY <1>1 DEF PartAt
<1>2. CASE DataBefore(w, n) # {}
  <2>1. PICK m \in 1..Len(w) : LastData(w, n) = w[m]
    BY <1>2, LastDataType
  <2>2. LastData(w, n) \in Frame
    BY <2>1, ElementOfSeq
  <2>3. LastData(w, n).part \in Nat \X Nat
    BY <2>2 DEF Frame
  <2> QED
    BY <1>2, <2>3 DEF PartAt
<1> QED
  BY <1>1, <1>2

\* What a peer writes next is a frame, whole or cut.
LEMMA NextFramesType ==
  ASSUME Types, NEW p \in Peers, NEW f \in NextFrames(p)
  PROVE  f \in Frame /\ f.cut = "no" /\ \A c \in {"byte", "payload"} : [f EXCEPT !.cut = c] \in Frame
<1>1. wrote[p] \in Seq(Frame) /\ Len(wrote[p]) \in Nat
  BY LenProperties DEF Types
<1>2. NextPart(p) \in Nat \X Nat
  BY <1>1, PartType DEF NextPart
<1>3. f \in [op : {"ping", "pong", "close", "cont", "text", "bin"}, fin : BOOLEAN,
             part : {<<0, 0>>, NextPart(p)}, cut : {"no"}]
  BY DEF NextFrames
<1>4. <<0, 0>> \in Nat \X Nat
  OBVIOUS
<1> QED
  BY <1>2, <1>3, <1>4 DEF Frame

-----------------------------------------------------------------------------
(* Types.                                                                  *)

\* The server starts with well-formed state.
LEMMA TypesInit == ASSUME Init PROVE Types
<1>1. <<[fd |-> ServerFd, in |-> FALSE]>> \in Seq(Slot)
  BY DEF Slot
<1>2. \A S : <<>> \in Seq(S)
  BY EmptySeq
<1> QED
  BY <1>1, <1>2 DEF Init, Types

\* No peer spoils the types.
LEMMA TypesPeer ==
  ASSUME Types, NEW p \in Peers, PeerStep(p)
  PROVE  Types'
<1>1. CASE Connect(p)
  <2>1. Append(backlog, p) \in Seq(Peers)
    BY AppendProperties DEF Types
  <2> QED
    BY <1>1, <2>1 DEF Connect, Types, threadVars
<1>2. CASE WriteRequest(p)
  <2>1. PICK op \in {"request", "bad request"} :
          /\ stream' = [stream EXCEPT ![p] = Append(@, Request(op))]
          /\ wrote' = [wrote EXCEPT ![p] = Append(@, Request(op))]
    BY <1>2 DEF WriteRequest
  <2>2. Append(stream[p], Request(op)) \in Seq(Frame) /\ Append(wrote[p], Request(op)) \in Seq(Frame)
    BY Frames, AppendProperties DEF Types
  <2> QED
    BY <1>2, <2>1, <2>2 DEF WriteRequest, Types, threadVars
<1>3. CASE WriteFrame(p)
  <2>1. PICK f \in NextFrames(p) :
          /\ stream' = [stream EXCEPT ![p] = Append(@, f)]
          /\ wrote' = [wrote EXCEPT ![p] = Append(@, f)]
          /\ skipped' = IF f.op = "pong" THEN skipped \cup {p} ELSE skipped
    BY <1>3 DEF WriteFrame
  <2>2. Append(stream[p], f) \in Seq(Frame) /\ Append(wrote[p], f) \in Seq(Frame)
    BY NextFramesType, AppendProperties DEF Types
  <2> QED
    BY <1>3, <2>1, <2>2 DEF WriteFrame, Types, threadVars
<1>4. CASE WriteCut(p)
  <2>1. PICK f \in NextFrames(p), c \in {"byte", "payload"} :
          stream' = [stream EXCEPT ![p] = Append(@, [f EXCEPT !.cut = c])]
    BY <1>4 DEF WriteCut
  <2>2. Append(stream[p], [f EXCEPT !.cut = c]) \in Seq(Frame)
    BY NextFramesType, AppendProperties DEF Types
  <2> QED
    BY <1>4, <2>1, <2>2 DEF WriteCut, Types, threadVars
<1>5. CASE Leave(p)
  <2>1. <<>> \in Seq(Frame)
    BY EmptySeq
  <2> QED
    BY <1>5, <2>1, ZenonT(30) DEF Leave, Types, threadVars
<1>6. CASE PingOn(p)
  <2> DEFINE ping == [op |-> "ping", fin |-> TRUE, part |-> <<0, 0>>, cut |-> "no"]
  <2>1. Append(stream[p], ping) \in Seq(Frame)
    BY Frames, AppendProperties DEF Types
  <2>2. stream' = [stream EXCEPT ![p] = Append(stream[p], ping)]
    BY <1>6 DEF PingOn
  <2> HIDE DEF ping
  <2> QED
    BY <1>6, <2>1, <2>2 DEF PingOn, Types, threadVars
<1> QED
  BY <1>1, <1>2, <1>3, <1>4, <1>5, <1>6 DEF PeerStep

\* What the socket operations leave.
LEMMA CloseType ==
  ASSUME Types, NEW f \in {ServerFd} \cup ClientFds, Close(f)
  PROVE  /\ listening' \in BOOLEAN
         /\ backlog' \in Seq(Peers)
         /\ link' \in [Peers -> {"idle", "open", "fin", "rst", "dropped"}]
         /\ sock' \in [ClientFds -> Peers \cup {None}]
<1>1. <<>> \in Seq(Peers)
  BY EmptySeq
<1>2. CASE f = ServerFd
  BY <1>1, <1>2 DEF Close, Types
<1>3. CASE f # ServerFd
  BY <1>1, <1>3 DEF Close, Types
<1> QED
  BY <1>2, <1>3

\* A send leaves a link.
LEMMA AfterSendType ==
  ASSUME Types, NEW p, AfterSend(p)
  PROVE  link' \in [Peers -> {"idle", "open", "fin", "rst", "dropped"}]
BY DEF AfterSend, Types

\* What is relayed is well formed.
LEMMA MessageType ==
  ASSUME Types, SocketsOK, pc \in {"broadcast", "binary"}
  PROVE  Message \in MessageSet
BY DEF Types, SocketsOK, OpenFds, Message, MessageSet

\* What is delivered is a message.
LEMMA ReceiveType ==
  ASSUME Types, SocketsOK, pc \in {"broadcast", "binary"}, NEW p, Receive(p)
  PROVE  got' \in [Peers -> Seq(MessageSet)]
<1>1. ASSUME p \in Peers
      PROVE  Append(got[p], Message) \in Seq(MessageSet)
  BY <1>1, MessageType, AppendProperties DEF Types
<1> QED
  BY <1>1 DEF Receive, Types

\* Where the thread finds a client.
LEMMA SlotType ==
  ASSUME Types, NEW k \in 1..Len(slots)
  PROVE  slots[k] \in Slot /\ slots[k].fd \in {ServerFd} \cup ClientFds
<1>1. slots[k] \in Slot
  BY ElementOfSeq DEF Types
<1> QED
  BY <1>1 DEF Slot

\* A descriptor that is open has a peer behind it.
LEMMA PeerType ==
  ASSUME Types, NEW f \in ClientFds, ~Invalid(f)
  PROVE  sock[f] \in Peers /\ f \in OpenFds
BY Descriptors DEF Types, Invalid, OpenFds

\* The next frame of a client, and what is left after it.
LEMMA NextType ==
  ASSUME Types, NEW f \in ClientFds, sock[f] \in Peers, stream[sock[f]] # <<>>
  PROVE  Head(stream[sock[f]]) \in Frame /\ Tail(stream[sock[f]]) \in Seq(Frame)
BY HeadTailProperties DEF Types

\* The return of receive_text_frame.
LEMMA ReturnType ==
  ASSUME Types, Return
  PROVE  /\ pc' = "scan" /\ i' \in Nat \ {0}
         /\ opcode' \in {"none", "text", "bin"} /\ parts' \in Seq(Nat \X Nat)
<1>1. <<>> \in Seq(Nat \X Nat)
  BY EmptySeq
<1> QED
  BY <1>1 DEF Return, Types

\* No step of the server spoils the types.
LEMMA TypesServer ==
  ASSUME Types, ListOK, SocketsOK, ServerStep
  PROVE  Types'
<1> USE DEF threadVars, peerVars
<1>0. Len(slots) \in Nat /\ DOMAIN slots = 1..Len(slots)
  BY LenProperties DEF Types
<1>1. CASE Poll
  <2>1. slots' \in [1..Len(slots) -> Slot]
    <3>1. ASSUME NEW k \in 1..Len(slots)
          PROVE  [slots[k] EXCEPT !.in = Readable(slots[k].fd)] \in Slot
      <4>1. slots[k] \in Slot
        BY SlotType
      <4>2. Readable(slots[k].fd) \in BOOLEAN
        BY DEF Readable, Types
      <4> QED
        BY <4>1, <4>2 DEF Slot
    <3> QED
      BY <1>0, <1>1, <3>1 DEF Poll
  <2>2. slots' \in Seq(Slot)
    BY <1>0, <2>1, SeqDef
  <2> QED
    BY <1>1, <2>2 DEF Poll, Types
<1>2. CASE Skip
  BY <1>2 DEF Skip, AtSlot, Types
<1>3. CASE EndScan
  <2>1. <<>> \in Seq(Peers)
    BY EmptySeq
  <2> QED
    BY <1>3, <2>1 DEF EndScan, Types
<1>4. CASE Accept
  <2>1. Lowest \in ClientFds /\ Head(backlog) \in Peers /\ Tail(backlog) \in Seq(Peers)
    BY <1>4, LowestFree, HeadTailProperties DEF Accept, Types
  <2>2. PICK e \in BOOLEAN : slots' = Append(slots, [fd |-> Lowest, in |-> e])
    BY <1>4 DEF Accept, AddClientToPoll
  <2>3. [fd |-> Lowest, in |-> e] \in Slot
    BY <2>1 DEF Slot
  <2>4. slots' \in Seq(Slot)
    BY <2>2, <2>3, AppendProperties DEF Types
  <2> QED
    BY <1>4, <2>1, <2>4 DEF Accept, Types
<1>5. CASE Handshake \/ HandshakeEarly
  <2>1. Upgrade /\ fd \in OpenFds
    BY <1>5 DEF Handshake, HandshakeEarly, Upgrade, SocketsOK
  <2>2. PICK rest \in Seq(Frame) : stream' = [stream EXCEPT ![sock[fd]] = rest]
    <3>1. CASE Handshake
      BY <3>1, EmptySeq DEF Handshake
    <3>2. CASE HandshakeEarly
      <4>1. PICK g \in Garbage : stream' = [stream EXCEPT ![sock[fd]] = <<g>>]
        BY <3>2 DEF HandshakeEarly
      <4>2. g \in Frame
        BY Frames
      <4>3. <<g>> \in Seq(Frame)
        BY <4>2
      <4> QED
        BY <4>1, <4>3
    <3> QED
      BY <1>5, <3>1, <3>2
  <2>3. link' \in [Peers -> {"idle", "open", "fin", "rst", "dropped"}]
    BY <2>1, AfterSendType DEF Upgrade
  <2>4. pc' \in {"announce", "scan"} /\ i' \in Nat \ {0} /\ j' \in Nat \ {0}
    BY <2>1 DEF Upgrade, Accepted, Types
  <2>5. stream' \in [Peers -> Seq(Frame)] /\ upgraded' \in [Peers -> BOOLEAN]
    BY <2>1, <2>2 DEF Upgrade, Types
  <2>6. skipped' \subseteq Peers
    <3>1. sock[fd] \in Peers
      BY <2>1 DEF OpenFds, Types
    <3> QED
      BY <1>5, <3>1 DEF Handshake, HandshakeEarly, Types
  <2> QED
    BY <2>1, <2>3, <2>4, <2>5, <2>6 DEF Upgrade, Types
<1>6. CASE HandshakeFails
  <2>1. fd \in ClientFds
    BY <1>6 DEF HandshakeFails, SocketsOK, OpenFds
  <2>2. /\ listening' \in BOOLEAN
        /\ backlog' \in Seq(Peers)
        /\ link' \in [Peers -> {"idle", "open", "fin", "rst", "dropped"}]
        /\ sock' \in [ClientFds -> Peers \cup {None}]
    BY <1>6, <2>1, CloseType DEF HandshakeFails
  <2>3. pc' \in {"announce", "scan"} /\ i' \in Nat \ {0} /\ j' \in Nat \ {0}
    <3>1. Accepted
      BY <1>6 DEF HandshakeFails
    <3> QED
      BY <3>1 DEF Accepted, Types
  <2> QED
    BY <1>6, <2>2, <2>3 DEF HandshakeFails, Types
<1>7. CASE SendSkip
  BY <1>7 DEF SendSkip, Types
<1>8. CASE SendFrame
  <2> DEFINE p == sock[slots[j].fd]
  <2>1. AfterSend(p) /\ (IF pc = "broadcast" THEN Receive(p) ELSE got' = got)
    BY <1>8 DEF SendFrame
  <2>2. link' \in [Peers -> {"idle", "open", "fin", "rst", "dropped"}]
    BY <2>1, AfterSendType
  <2>3. got' \in [Peers -> Seq(MessageSet)]
    BY <2>1, ReceiveType DEF Types
  <2> QED
    BY <1>8, <2>2, <2>3 DEF SendFrame, Types
<1>9. CASE SendFrameFails
  <2>1. j \in 1..Len(slots)
    BY <1>9, <1>0 DEF SendFrameFails, Broadcasting, Types
  <2>2. slots[j].fd \in {ServerFd} \cup ClientFds
    BY <2>1, SlotType
  <2>3. /\ listening' \in BOOLEAN
        /\ backlog' \in Seq(Peers)
        /\ link' \in [Peers -> {"idle", "open", "fin", "rst", "dropped"}]
        /\ sock' \in [ClientFds -> Peers \cup {None}]
    BY <1>9, <2>2, CloseType DEF SendFrameFails, CloseAndDelete
  <2>4. slots' \in Seq(Slot)
    BY <1>9, Deleted DEF SendFrameFails, CloseAndDelete, Types
  <2> QED
    BY <1>9, <2>3, <2>4 DEF SendFrameFails, Types
<1>10. CASE EndBroadcast
  <2>1. <<>> \in Seq(Nat \X Nat)
    BY EmptySeq
  <2> QED
    BY <1>10, <2>1 DEF EndBroadcast, Types
<1>11. CASE StartReceive
  <2>1. i \in 1..Len(slots)
    BY <1>11, <1>0 DEF StartReceive, AtSlot, Types
  <2>2. slots[i].fd \in ClientFds
    BY <1>11, <2>1, SlotType DEF StartReceive
  <2> QED
    BY <1>11, <2>2 DEF StartReceive, Types
<1>12. CASE Idle
  BY <1>12, ReturnType DEF Idle, Types
<1>13. CASE Disconnected
  <2>1. fd \in ClientFds
    BY <1>13 DEF Disconnected, SocketsOK
  <2>2. /\ listening' \in BOOLEAN
        /\ backlog' \in Seq(Peers)
        /\ link' \in [Peers -> {"idle", "open", "fin", "rst", "dropped"}]
        /\ sock' \in [ClientFds -> Peers \cup {None}]
    BY <1>13, <2>1, CloseType DEF Disconnected, CloseAndDelete
  <2>3. slots' \in Seq(Slot)
    BY <1>13, Deleted DEF Disconnected, CloseAndDelete, Types
  <2> QED
    BY <1>13, <2>2, <2>3, ReturnType DEF Disconnected, Types
<1>14. ASSUME Arrived
       PROVE  /\ Peer \in Peers
              /\ Next1 \in Frame
              /\ Tail(stream[Peer]) \in Seq(Frame)
  <2>1. fd \in ClientFds /\ ~Invalid(fd) /\ stream[Peer] # <<>>
    BY <1>14 DEF Arrived, SocketsOK
  <2> QED
    BY <2>1, PeerType, NextType DEF Peer, Next1
<1>15. CASE Ping
  <2>1. stream' \in [Peers -> Seq(Frame)]
    BY <1>15, <1>14 DEF Ping, Consumed, Types
  <2>2. CASE Ended
    BY <1>15, <2>1, <2>2, ReturnType DEF Ping, Types
  <2>3. CASE ~Ended
    <3>1. AfterSend(Peer)
      BY <1>15, <2>3 DEF Ping
    <3>2. link' \in [Peers -> {"idle", "open", "fin", "rst", "dropped"}]
      BY <3>1, AfterSendType
    <3> QED
      BY <1>15, <2>1, <2>3, <3>2 DEF Ping, Types
  <2> QED
    BY <2>2, <2>3
<1>16. ASSUME Arrived, NEW k \in 1..Len(stream[Peer])
       PROVE  SubSeq(stream[Peer], k + 1, Len(stream[Peer])) \in Seq(Frame)
  <2>1. stream[Peer] \in Seq(Frame) /\ Len(stream[Peer]) \in Nat
    BY <1>14, <1>16, LenProperties DEF Types
  <2>2. \A l \in k + 1..Len(stream[Peer]) : stream[Peer][l] \in Frame
    BY <2>1, ElementOfSeq
  <2>3. k + 1 \in Int /\ Len(stream[Peer]) \in Int
    BY <2>1
  <2> QED
    BY <2>2, <2>3, SubSeqProperties
<1>17. \A g \in Frame : <<g>> \in Seq(Frame)
  OBVIOUS
<1>18. CASE Unsupported
  <2>1. PICK g \in Garbage, k \in 1..Len(stream[Peer]) :
          stream' = [stream EXCEPT ![Peer] =
                      (IF Next1.cut = "byte" THEN <<>> ELSE <<g>>) \o SubSeq(@, k + 1, Len(@))]
    BY <1>18 DEF Unsupported
  <2>2. (IF Next1.cut = "byte" THEN <<>> ELSE <<g>>) \in Seq(Frame)
    BY <1>17, Frames, EmptySeq
  <2>3. SubSeq(stream[Peer], k + 1, Len(stream[Peer])) \in Seq(Frame)
    BY <1>18, <1>16 DEF Unsupported
  <2>4. stream' \in [Peers -> Seq(Frame)]
    BY <2>1, <2>2, <2>3, ConcatProperties DEF Types
  <2> QED
    BY <1>18, <2>4, ReturnType DEF Unsupported, Types
<1>19. CASE Misread
  <2>1. PICK k \in 2..Len(stream[Peer]), rest \in {<<>>} \cup {<<g>> : g \in Garbage} :
          stream' = [stream EXCEPT ![Peer] =
                      <<[Next1 EXCEPT !.cut = "no"]>> \o rest \o SubSeq(@, k + 1, Len(@))]
    BY <1>19 DEF Misread
  <2>2. rest \in Seq(Frame)
    BY <1>17, Frames, EmptySeq
  <2>3. k \in 1..Len(stream[Peer])
    OBVIOUS
  <2>4. SubSeq(stream[Peer], k + 1, Len(stream[Peer])) \in Seq(Frame)
    BY <1>19, <1>16, <2>3 DEF Misread
  <2>5. Next1 \in Frame
    BY <1>19, <1>14 DEF Misread
  <2>6. [Next1 EXCEPT !.cut = "no"] \in Frame
    BY <2>5 DEF Frame
  <2>7. <<[Next1 EXCEPT !.cut = "no"]>> \in Seq(Frame)
    BY <1>17, <2>6
  <2>8. <<[Next1 EXCEPT !.cut = "no"]>> \o rest \in Seq(Frame)
    BY <2>2, <2>7, ConcatProperties
  <2>9. stream' \in [Peers -> Seq(Frame)]
    BY <2>1, <2>4, <2>8, ConcatProperties DEF Types
  <2> QED
    BY <1>19, <2>9 DEF Misread, Types
<1>20. ASSUME IsData, Consumed
       PROVE  /\ stream' \in [Peers -> Seq(Frame)]
              /\ Opcode \in {"none", "text", "bin"}
              /\ parts \o Payload \in Seq(Nat \X Nat)
  <2>1. Arrived
    BY <1>20 DEF IsData
  <2>2. stream' \in [Peers -> Seq(Frame)]
    BY <1>20, <1>14, <2>1 DEF Consumed, Types
  <2>3. Next1.part \in Nat \X Nat
    BY <1>14, <2>1 DEF Frame
  <2>4. Payload \in Seq(Nat \X Nat)
    <3>1. <<>> \in Seq(Nat \X Nat)
      BY EmptySeq
    <3>2. <<Next1.part>> \in Seq(Nat \X Nat)
      BY <2>3
    <3> QED
      BY <3>1, <3>2 DEF Payload
  <2>5. Opcode \in {"none", "text", "bin"}
    BY DEF Opcode, Types
  <2> QED
    BY <2>2, <2>4, <2>5, ConcatProperties DEF Types
<1>21. CASE MoreData
  BY <1>21, <1>20 DEF MoreData, Types
<1>22. CASE MessageEnds
  <2>1. CASE Opcode = "none"
    BY <1>22, <1>20, <2>1, ReturnType DEF MessageEnds, Types
  <2>2. CASE Opcode # "none"
    <3>1. /\ opcode' = Opcode /\ parts' = parts \o Payload
          /\ pc' \in {"broadcast", "binary"}
          /\ j' = 1 /\ i' = i
      BY <1>22, <2>2 DEF MessageEnds
    <3> QED
      BY <1>22, <1>20, <3>1 DEF MessageEnds, Types
  <2> QED
    BY <2>1, <2>2
<1>23. CASE SendBinary
  <2> DEFINE f == slots[j].fd
  <2>1. CASE f \in {fd, ServerFd} \/ SendFails(f)
    BY <1>23, <2>1 DEF SendBinary, Types
  <2>2. CASE ~(f \in {fd, ServerFd} \/ SendFails(f))
    <3>1. Receive(sock[f]) /\ AfterSend(sock[f])
      BY <1>23, <2>2 DEF SendBinary
    <3>2. link' \in [Peers -> {"idle", "open", "fin", "rst", "dropped"}]
      BY <3>1, AfterSendType
    <3>3. got' \in [Peers -> Seq(MessageSet)]
      BY <1>23, <3>1, ReceiveType DEF SendBinary
    <3> QED
      BY <1>23, <3>2, <3>3 DEF SendBinary, Types
  <2> QED
    BY <2>1, <2>2
<1>24. CASE EndBinary
  BY <1>24, ReturnType DEF EndBinary, Types
<1> QED
  BY <1>1, <1>2, <1>3, <1>4, <1>5, <1>6, <1>7, <1>8, <1>9, <1>10, <1>11, <1>12, <1>13,
     <1>15, <1>18, <1>19, <1>21, <1>22, <1>23, <1>24 DEF ServerStep

-----------------------------------------------------------------------------
(* The list.                                                               *)

\* The conditions of main and of the loops on the list, and its length.
LEMMA ListContext ==
  ASSUME Types
  PROVE  /\ Len(slots) \in Nat /\ DOMAIN slots = 1..Len(slots)
         /\ i \in Nat \ {0} /\ j \in Nat \ {0}
         /\ \A k \in 1..Len(slots) : slots[k].fd \in {ServerFd} \cup ClientFds
BY LenProperties, SlotType DEF Types

\* poll changes the events only, never a descriptor.
LEMMA PollKeeps ==
  ASSUME Types, Poll
  PROVE  Len(slots') = Len(slots) /\ \A k \in 1..Len(slots) : slots'[k].fd = slots[k].fd
<1>1. Len(slots) \in Nat /\ DOMAIN slots = 1..Len(slots)
  BY ListContext
<1>2. slots' = [k \in 1..Len(slots) |-> [slots[k] EXCEPT !.in = Readable(slots[k].fd)]]
  BY <1>1 DEF Poll
<1>3. ASSUME NEW k \in 1..Len(slots)
      PROVE  slots'[k].fd = slots[k].fd
  BY <1>2, SlotType DEF Slot
<1> QED
  BY <1>1, <1>2, <1>3

\* A deleted slot has the descriptor, and every slot that is left was there.
LEMMA DeletedSlots ==
  ASSUME Types, NEW f, slots' = DelClientFromPoll(slots, f)
  PROVE  /\ Len(slots') \in Nat /\ Len(slots') <= Len(slots)
         /\ (\E k \in 1..Len(slots) : slots[k].fd = f) => Len(slots') = Len(slots) - 1
         /\ \A l \in 1..Len(slots') : slots'[l] = slots[l] \/ (slots'[l] = slots[l + 1] /\ l + 1 <= Len(slots))
         /\ 1 <= Len(slots) /\ slots[1].fd # f => 1 <= Len(slots') /\ slots'[1] = slots[1]
         /\ 1 <= Len(slots) /\ slots[1].fd = f => \A l \in 1..Len(slots') : slots'[l] = slots[l + 1]
         /\ \A k \in 1..Len(slots) : slots[k].fd # f => \E l \in 1..Len(slots') : slots'[l] = slots[k]
<1>1. slots \in Seq(Slot) /\ Len(slots) \in Nat
  BY ListContext DEF Types
<1>2. CASE /\ \A k \in 1..Len(slots) : slots[k].fd # f
           /\ slots' = slots
  <2>1. \A k \in 1..Len(slots) : \E l \in 1..Len(slots') : slots'[l] = slots[k]
    BY <1>2
  <2>2. 1 <= Len(slots) => slots[1].fd # f
    BY <1>1, <1>2
  <2>3. Len(slots') = Len(slots) /\ \A l \in 1..Len(slots') : slots'[l] = slots[l]
    BY <1>2
  <2>4. 1 <= Len(slots) => slots'[1] = slots[1]
    BY <1>2
  <2>5. ~\E k \in 1..Len(slots) : slots[k].fd = f
    BY <1>2
  <2>6. Len(slots') \in Nat /\ Len(slots') <= Len(slots)
    BY <1>1, <2>3
  <2> QED
    BY <2>1, <2>2, <2>3, <2>4, <2>5, <2>6, Zenon
<1>3. CASE \E k \in 1..Len(slots) :
             /\ slots[k].fd = f
             /\ \A l \in 1..k - 1 : slots[l].fd # f
             /\ Len(slots') = Len(slots) - 1
             /\ \A l \in 1..Len(slots) - 1 :
                  slots'[l] = IF l < k THEN slots[l] ELSE slots[l + 1]
  <2>1. PICK k \in 1..Len(slots) :
             /\ slots[k].fd = f
             /\ \A l \in 1..k - 1 : slots[l].fd # f
             /\ Len(slots') = Len(slots) - 1
             /\ \A l \in 1..Len(slots) - 1 :
                  slots'[l] = IF l < k THEN slots[l] ELSE slots[l + 1]
    BY <1>3
  <2>2. \A l \in 1..Len(slots') : slots'[l] = slots[l] \/ (slots'[l] = slots[l + 1] /\ l + 1 <= Len(slots))
    BY <1>1, <2>1
  <2>3. ASSUME slots[1].fd # f
        PROVE  1 <= Len(slots') /\ slots'[1] = slots[1]
    <3>1. 1 < k
      BY <2>1, <2>3, <1>1
    <3> QED
      BY <3>1, <2>1, <1>1
  <2>4. ASSUME slots[1].fd = f
        PROVE  \A l \in 1..Len(slots') : slots'[l] = slots[l + 1]
    <3>1. k = 1
      BY <2>1, <2>4, <1>1
    <3> QED
      BY <3>1, <2>1, <1>1
  <2>5. ASSUME NEW m \in 1..Len(slots), slots[m].fd # f
        PROVE  \E l \in 1..Len(slots') : slots'[l] = slots[m]
    <3>1. m # k
      BY <2>1, <2>5
    <3>2. CASE m < k
      <4>1. m \in 1..Len(slots')
        BY <2>1, <3>2, <1>1
      <4> QED
        BY <4>1, <3>2, <2>1
    <3>3. CASE m > k
      <4>1. m - 1 \in 1..Len(slots') /\ ~(m - 1 < k) /\ m - 1 + 1 = m
        BY <2>1, <3>3, <1>1
      <4> QED
        BY <4>1, <2>1
    <3> QED
      BY <3>1, <3>2, <3>3, <1>1
  <2> QED
    BY <1>1, <2>1, <2>2, <2>3, <2>4, <2>5
<1>4. \/ (\A k \in 1..Len(slots) : slots[k].fd # f) /\ slots' = slots
      \/ \E k \in 1..Len(slots) :
             /\ slots[k].fd = f
             /\ \A l \in 1..k - 1 : slots[l].fd # f
             /\ Len(slots') = Len(slots) - 1
             /\ \A l \in 1..Len(slots) - 1 :
                  slots'[l] = IF l < k THEN slots[l] ELSE slots[l + 1]
  BY <1>1, Deleted
<1> QED
  BY <1>2, <1>3, <1>4

\* The list starts with the listening socket.
LEMMA ListInit == ASSUME Init PROVE ListOK /\ IndexOK
<1>1. Len(slots) = 1 /\ slots[1].fd = ServerFd
  BY DEF Init
<1> QED
  BY <1>1 DEF Init, ListOK, IndexOK

\* A peer does not touch the list, the scan or a descriptor.
LEMMA ListPeer ==
  ASSUME ListOK, IndexOK, OpenIsWatched, NEW p \in Peers, PeerStep(p)
  PROVE  ListOK' /\ IndexOK' /\ OpenIsWatched'
<1>1. UNCHANGED <<slots, listening, sock, pc, i, j>>
  BY DEF PeerStep, threadVars, Connect, WriteRequest, WriteFrame, PingOn, WriteCut, Leave
<1> QED
  BY <1>1 DEF ListOK, IndexOK, OpenIsWatched, OpenFds

\* The list keeps its shape: the listening socket is in its first slot until the
\* announcement of the second client closes it, and then two clients are left.
LEMMA ListServer ==
  ASSUME Types, ListOK, IndexOK, SocketsOK, OpenIsWatched, ServerStep
  PROVE  ListOK'
<1> USE DEF threadVars, peerVars
<1>0. /\ Len(slots) \in Nat /\ DOMAIN slots = 1..Len(slots)
      /\ i \in Nat \ {0} /\ j \in Nat \ {0}
      /\ \A k \in 1..Len(slots) : slots[k].fd \in {ServerFd} \cup ClientFds
  BY ListContext
<1>1. CASE Poll
  <2>1. Len(slots') = Len(slots) /\ \A k \in 1..Len(slots) : slots'[k].fd = slots[k].fd
    BY <1>1, PollKeeps
  <2>2. slots' \in Seq(Slot)
    BY <1>1, TypesServer DEF ServerStep, Types
  <2>3. DOMAIN slots' = 1..Len(slots')
    BY <2>2, LenProperties
  <2> QED
    BY <1>0, <1>1, <2>1, <2>3 DEF Poll, ListOK
<1>2. CASE Skip
  BY <1>2 DEF Skip, AtSlot, ListOK
<1>3. CASE EndScan
  BY <1>3 DEF EndScan, ListOK
<1>4. CASE Accept
  <2>1. i \in 1..Len(slots) /\ slots[i].fd = ServerFd
    BY <1>4, <1>0 DEF Accept, AtSlot
  <2>2. listening /\ Len(slots) <= 2
    BY <1>0, <1>4, <2>1 DEF Accept, AtSlot, ListOK
  <2>3. Lowest \in ClientFds /\ Lowest # ServerFd
    BY <1>4, LowestFree, Descriptors DEF Accept
  <2>4. PICK e \in BOOLEAN : slots' = Append(slots, [fd |-> Lowest, in |-> e])
    BY <1>4 DEF Accept, AddClientToPoll
  <2>5. [fd |-> Lowest, in |-> e] \in Slot
    BY <2>3 DEF Slot
  <2>6. /\ Len(slots') = Len(slots) + 1
        /\ \A k \in 1..Len(slots) : slots'[k] = slots[k]
        /\ slots'[Len(slots) + 1].fd = Lowest
    BY <2>4, <2>5, AppendProperties DEF Types
  <2> QED
    BY <1>0, <1>4, <2>2, <2>3, <2>6 DEF Accept, ListOK
<1>5. CASE Handshake \/ HandshakeEarly
  <2>1. pc = "handshake" /\ slots' = slots /\ listening' = listening /\ Accepted
    BY <1>5 DEF Handshake, HandshakeEarly, Upgrade
  <2>2. \/ Len(slots) > 2 /\ pc' = "announce" /\ j' = 1
        \/ Len(slots) <= 2 /\ pc' = "scan"
    BY <1>0, <2>1 DEF Accepted
  <2> QED
    BY <1>0, <2>1, <2>2 DEF ListOK
<1>6. CASE HandshakeFails
  <2>1. pc = "handshake" /\ slots' = slots /\ Close(fd) /\ Accepted
    BY <1>6 DEF HandshakeFails
  <2>2. listening' = listening
    BY <2>1, Descriptors DEF Close, SocketsOK, OpenFds
  <2>3. \/ Len(slots) > 2 /\ pc' = "announce" /\ j' = 1
        \/ Len(slots) <= 2 /\ pc' = "scan"
    BY <1>0, <2>1 DEF Accepted
  <2> QED
    BY <1>0, <2>1, <2>2, <2>3 DEF ListOK
<1>7. CASE SendSkip
  <2>1. ~listening
    <3> SUFFICES ASSUME listening
                 PROVE  FALSE
      OBVIOUS
    <3>1. slots[j].fd = ServerFd
      BY <1>7 DEF SendSkip, Broadcasting, ListOK
    <3>2. pc = "broadcast" => fd # ServerFd
      BY Descriptors DEF SocketsOK, OpenFds
    <3> QED
      BY <1>7, <3>1, <3>2, Descriptors DEF SendSkip, Sending
  <2> QED
    BY <1>7, <2>1 DEF SendSkip, ListOK
<1>8. CASE SendFrame
  <2>1. ~listening
    <3> SUFFICES ASSUME listening
                 PROVE  FALSE
      OBVIOUS
    <3>1. slots[j].fd = ServerFd
      BY <1>8 DEF SendFrame, Broadcasting, ListOK
    <3> QED
      BY <1>8, <3>1 DEF SendFrame, SendFails
  <2> QED
    BY <1>8, <2>1 DEF SendFrame, ListOK
<1>9. CASE SendFrameFails
  <2> DEFINE f == slots[j].fd
  <2>1. /\ j \in 1..Len(slots)
        /\ slots' = DelClientFromPoll(slots, f)
        /\ Close(f)
        /\ pc' = pc /\ j' = j
        /\ pc \in {"announce", "broadcast"}
    BY <1>9, <1>0 DEF SendFrameFails, CloseAndDelete, Broadcasting
  <2>2. /\ Len(slots') \in Nat /\ Len(slots') = Len(slots) - 1
        /\ \A l \in 1..Len(slots') : slots'[l] = slots[l] \/ (slots'[l] = slots[l + 1] /\ l + 1 <= Len(slots))
        /\ 1 <= Len(slots) /\ slots[1].fd = f => \A l \in 1..Len(slots') : slots'[l] = slots[l + 1]
    BY <2>1, DeletedSlots
  <2>3. slots' \in Seq(Slot)
    BY <2>1, Deleted DEF Types
  <2>4. DOMAIN slots' = 1..Len(slots')
    BY <2>3, LenProperties
  <2>5. CASE listening
    <3>1. f = ServerFd /\ slots[1].fd = f
      BY <2>1, <2>5 DEF ListOK
    <3>2. ~listening'
      BY <2>1, <3>1 DEF Close
    <3>3. \A l \in 1..Len(slots') : slots'[l].fd # ServerFd
      BY <1>0, <2>2, <2>5, <3>1 DEF ListOK
    <3>4. Len(slots') <= 2
      BY <1>0, <2>2 DEF ListOK
    <3> QED
      BY <2>1, <2>2, <2>4, <3>2, <3>3, <3>4 DEF ListOK
  <2>6. CASE ~listening
    <3>1. \A l \in 1..Len(slots) : slots[l].fd # ServerFd
      BY <1>0, <2>1, <2>6 DEF ListOK
    <3>2. listening' = listening
      BY <2>1, <3>1 DEF Close
    <3>3. \A l \in 1..Len(slots') : slots'[l].fd # ServerFd
      BY <1>0, <2>2, <3>1
    <3>4. Len(slots') <= 2
      <4>1. Len(slots) <= 2
        BY <2>1, <2>6 DEF ListOK
      <4> QED
        BY <1>0, <2>2, <4>1
    <3> QED
      BY <2>1, <2>2, <2>4, <2>6, <3>2, <3>3, <3>4 DEF ListOK
  <2> QED
    BY <2>5, <2>6
<1>10. CASE EndBroadcast
  <2>1. ~listening
    BY <1>10, <1>0 DEF EndBroadcast, ListOK
  <2> QED
    BY <1>10, <2>1 DEF EndBroadcast, ListOK
<1>11. CASE StartReceive
  BY <1>11 DEF StartReceive, AtSlot, ListOK
<1>12. CASE Idle
  BY <1>12 DEF Idle, Return, ListOK
<1>13. CASE Disconnected
  <2>1. /\ slots' = DelClientFromPoll(slots, fd)
        /\ Close(fd) /\ pc = "receive" /\ pc' = "scan"
        /\ fd \in ClientFds /\ fd # ServerFd
    BY <1>13, Descriptors DEF Disconnected, CloseAndDelete, Return, SocketsOK
  <2>2. /\ Len(slots') \in Nat /\ Len(slots') <= Len(slots)
        /\ \A l \in 1..Len(slots') : slots'[l] = slots[l] \/ (slots'[l] = slots[l + 1] /\ l + 1 <= Len(slots))
        /\ 1 <= Len(slots) /\ slots[1].fd # fd => 1 <= Len(slots') /\ slots'[1] = slots[1]
    BY <2>1, DeletedSlots
  <2>3. slots' \in Seq(Slot)
    BY <2>1, Deleted DEF Types
  <2>4. DOMAIN slots' = 1..Len(slots')
    BY <2>3, LenProperties
  <2>5. listening' = listening
    BY <2>1 DEF Close
  <2> QED
    BY <1>0, <2>1, <2>2, <2>4, <2>5 DEF ListOK
<1>14. CASE Ping
  BY <1>14 DEF Ping, Arrived, Return, ListOK
<1>15. CASE Unsupported
  BY <1>15 DEF Unsupported, Arrived, Return, ListOK
<1>16. CASE Misread
  BY <1>16 DEF Misread, ListOK
<1>17. CASE MoreData
  BY <1>17 DEF MoreData, ListOK
<1>18. CASE MessageEnds
  BY <1>18 DEF MessageEnds, IsData, Arrived, Return, ListOK
<1>19. CASE SendBinary
  BY <1>19 DEF SendBinary, ListOK
<1>20. CASE EndBinary
  BY <1>20 DEF EndBinary, Return, ListOK
<1> QED
  BY <1>1, <1>2, <1>3, <1>4, <1>5, <1>6, <1>7, <1>8, <1>9, <1>10, <1>11, <1>12, <1>13, <1>14,
     <1>15, <1>16, <1>17, <1>18, <1>19, <1>20 DEF ServerStep

\* No step of the server loses an open descriptor from the list.
LEMMA WatchedServer ==
  ASSUME Types, ListOK, SocketsOK, OpenIsWatched, ServerStep
  PROVE  OpenIsWatched'
<1> USE DEF threadVars, peerVars
<1>0. Len(slots) \in Nat /\ DOMAIN slots = 1..Len(slots)
  BY ListContext
<1>1. ASSUME NEW f \in {ServerFd} \cup ClientFds, CloseAndDelete(f), pc # "exited"
      PROVE  OpenIsWatched'
  <2>1. Close(f) /\ slots' = DelClientFromPoll(slots, f)
    BY <1>1 DEF CloseAndDelete
  <2>2. slots' \in Seq(Slot)
    BY <2>1, Deleted DEF Types
  <2>3. DOMAIN slots' = 1..Len(slots')
    BY <2>2, LenProperties
  <2>4. ASSUME NEW g \in ClientFds, sock'[g] # None
        PROVE  \E k \in DOMAIN slots' : slots'[k].fd = g
    <3>1. g # f /\ sock[g] # None
      BY <2>1, <2>4, Descriptors DEF Close, Types
    <3>2. PICK k \in 1..Len(slots) : slots[k].fd = g
      BY <1>0, <1>1, <3>1 DEF OpenIsWatched, OpenFds
    <3>3. \E l \in 1..Len(slots') : slots'[l] = slots[k]
      BY <2>1, <3>1, <3>2, DeletedSlots
    <3> QED
      BY <2>3, <3>2, <3>3
  <2> QED
    BY <2>4 DEF OpenIsWatched, OpenFds
<1>2. CASE Poll
  <2>1. Len(slots') = Len(slots) /\ \A k \in 1..Len(slots) : slots'[k].fd = slots[k].fd
    BY <1>2, PollKeeps
  <2>2. slots' \in Seq(Slot)
    BY <1>2, TypesServer DEF ServerStep, Types
  <2>3. DOMAIN slots' = 1..Len(slots')
    BY <2>2, LenProperties
  <2> QED
    <3>1. pc # "exited" /\ sock' = sock /\ DOMAIN slots' = DOMAIN slots
      BY <1>0, <1>2, <2>1, <2>3 DEF Poll
    <3> QED
      BY <1>0, <2>1, <3>1 DEF OpenIsWatched, OpenFds
<1>3. CASE EndScan
  BY <1>3 DEF EndScan, OpenIsWatched, OpenFds
<1>4. CASE Accept
  <2>1. Lowest \in ClientFds /\ Lowest # ServerFd
    BY <1>4, LowestFree, Descriptors DEF Accept
  <2>2. PICK e \in BOOLEAN : slots' = Append(slots, [fd |-> Lowest, in |-> e])
    BY <1>4 DEF Accept, AddClientToPoll
  <2>3. [fd |-> Lowest, in |-> e] \in Slot
    BY <2>1 DEF Slot
  <2>4. /\ slots' \in Seq(Slot) /\ Len(slots') = Len(slots) + 1
        /\ \A k \in 1..Len(slots) : slots'[k] = slots[k]
        /\ slots'[Len(slots) + 1].fd = Lowest
    BY <2>2, <2>3, AppendProperties DEF Types
  <2>5. DOMAIN slots' = 1..Len(slots) + 1
    BY <2>4, LenProperties
  <2>6. ASSUME NEW g \in ClientFds, sock'[g] # None
        PROVE  \E k \in DOMAIN slots' : slots'[k].fd = g
    <3>1. CASE g = Lowest
      BY <1>0, <2>4, <2>5, <3>1
    <3>2. CASE g # Lowest
      <4>1. sock[g] # None
        BY <1>4, <2>6, <3>2 DEF Accept, Types
      <4>2. PICK k \in 1..Len(slots) : slots[k].fd = g
        BY <1>0, <1>4, <4>1 DEF OpenIsWatched, OpenFds, Accept, AtSlot
      <4> QED
        BY <1>0, <2>4, <2>5, <4>2
    <3> QED
      BY <3>1, <3>2
  <2> QED
    BY <2>6 DEF OpenIsWatched, OpenFds
<1>5. CASE HandshakeFails
  <2>1. slots' = slots /\ pc # "exited" /\ \A g \in ClientFds : sock'[g] # None => sock[g] # None
    BY <1>5 DEF HandshakeFails, Close, Types
  <2> QED
    BY <2>1 DEF OpenIsWatched, OpenFds
<1>6. CASE SendFrameFails
  <2>1. j \in 1..Len(slots)
    BY <1>6, ListContext DEF SendFrameFails, Broadcasting
  <2>2. slots[j].fd \in {ServerFd} \cup ClientFds
    BY <2>1, ListContext
  <2> QED
    BY <1>1, <1>6, <2>2 DEF SendFrameFails, Broadcasting
<1>7. CASE Disconnected
  BY <1>1, <1>7 DEF Disconnected, SocketsOK
<1>8. CASE \/ Skip \/ Handshake \/ HandshakeEarly \/ SendSkip \/ SendFrame \/ EndBroadcast \/ StartReceive
           \/ Idle \/ Ping \/ Unsupported \/ Misread \/ MoreData \/ MessageEnds \/ SendBinary \/ EndBinary
  <2>1. UNCHANGED <<slots, sock>> /\ pc # "exited"
    BY <1>8 DEF Skip, AtSlot, Handshake, HandshakeEarly, Upgrade, SendSkip, SendFrame, Broadcasting, EndBroadcast, StartReceive, Idle,
       Ping, Unsupported, Misread, MoreData, IsData, Arrived, MessageEnds, SendBinary, EndBinary
  <2> QED
    BY <2>1 DEF OpenIsWatched, OpenFds
<1> QED
  BY <1>2, <1>3, <1>4, <1>5, <1>6, <1>7, <1>8 DEF ServerStep

\* While a client is served the list is not empty.
LEMMA ListNotEmpty ==
  ASSUME Types, SocketsOK, OpenIsWatched, pc \in {"handshake", "broadcast", "binary"}
  PROVE  Len(slots) >= 1
<1>1. Len(slots) \in Nat /\ DOMAIN slots = 1..Len(slots)
  BY ListContext
<1>2. PICK k \in 1..Len(slots) : slots[k].fd = fd
  BY <1>1 DEF SocketsOK, OpenIsWatched
<1> QED
  BY <1>1, <1>2

\* The index of the scan stays inside the list, or goes one or two past it.
LEMMA IndexServer ==
  ASSUME Types, ListOK, IndexOK, SocketsOK, OpenIsWatched, ServerStep
  PROVE  IndexOK'
<1> USE DEF threadVars, peerVars
<1>0. /\ Len(slots) \in Nat /\ DOMAIN slots = 1..Len(slots)
      /\ i \in Nat \ {0} /\ j \in Nat \ {0}
  BY ListContext
<1>1. CASE Poll
  BY <1>0, <1>1, PollKeeps DEF Poll, IndexOK
<1>2. CASE Skip
  BY <1>0, <1>2 DEF Skip, AtSlot, IndexOK
<1>3. CASE EndScan
  BY <1>0, <1>3 DEF EndScan, IndexOK
<1>4. CASE Accept
  <2>1. i \in 1..Len(slots) /\ slots[i].fd = ServerFd
    BY <1>4, <1>0 DEF Accept, AtSlot
  <2>2. i = 1
    BY <1>0, <1>4, <2>1 DEF Accept, AtSlot, ListOK
  <2>3. PICK e \in BOOLEAN : slots' = Append(slots, [fd |-> Lowest, in |-> e])
    BY <1>4 DEF Accept, AddClientToPoll
  <2>4. [fd |-> Lowest, in |-> e] \in Slot
    BY <1>4, LowestFree DEF Accept, Slot
  <2>5. Len(slots') = Len(slots) + 1
    BY <2>3, <2>4, AppendProperties DEF Types
  <2> QED
    BY <1>0, <1>4, <2>2, <2>5 DEF Accept, IndexOK
<1>5. CASE Handshake \/ HandshakeEarly \/ HandshakeFails
  <2>1. pc = "handshake" /\ slots' = slots /\ Accepted
    BY <1>5 DEF Handshake, HandshakeEarly, Upgrade, HandshakeFails
  <2>2. Len(slots) >= 1
    BY <2>1, ListNotEmpty
  <2>3. i = 1 /\ pc' \in {"announce", "scan"} /\ i' \in {i, i + 1} /\ (pc' = "announce" => i' = i)
    BY <2>1 DEF Accepted, IndexOK
  <2> QED
    BY <1>0, <2>1, <2>2, <2>3 DEF IndexOK
<1>6. CASE SendSkip \/ SendFrame
  <2>1. UNCHANGED <<slots, pc, i>>
    BY <1>6 DEF SendSkip, SendFrame
  <2> QED
    BY <2>1 DEF IndexOK
<1>7. CASE SendFrameFails
  <2>1. /\ pc \in {"announce", "broadcast"} /\ pc' = pc /\ i' = i
        /\ slots' = DelClientFromPoll(slots, slots[j].fd)
    BY <1>7 DEF SendFrameFails, Broadcasting, CloseAndDelete
  <2>2. Len(slots') \in Nat
    BY <2>1, DeletedSlots
  <2>3. i <= 2
    BY <2>1 DEF IndexOK
  <2> QED
    BY <1>0, <2>1, <2>2, <2>3 DEF IndexOK
<1>8. CASE EndBroadcast
  <2>1. pc \in {"announce", "broadcast"} /\ pc' = "scan" /\ i' = i + 1 /\ slots' = slots
    BY <1>8 DEF EndBroadcast
  <2>2. pc = "announce" => i = 1
    BY DEF IndexOK
  <2>3. pc = "broadcast" => i <= 2 /\ Len(slots) >= 1
    BY ListNotEmpty DEF IndexOK
  <2> QED
    BY <1>0, <2>1, <2>2, <2>3 DEF IndexOK
<1>9. CASE StartReceive
  <2>1. pc = "scan" /\ i \in 1..Len(slots) /\ slots[i].fd # ServerFd /\ pc' = "receive" /\ i' = i /\ slots' = slots
    BY <1>0, <1>9 DEF StartReceive, AtSlot
  <2>2. Len(slots) <= 2
    BY <1>0, <2>1 DEF ListOK
  <2> QED
    BY <1>0, <2>1, <2>2 DEF IndexOK
<1>10. CASE Disconnected
  <2>1. /\ pc = "receive" /\ pc' = "scan" /\ i' = i + 1
        /\ slots' = DelClientFromPoll(slots, fd)
    BY <1>10 DEF Disconnected, CloseAndDelete, Return
  <2>2. Len(slots') \in Nat /\ Len(slots') >= Len(slots) - 1
    <3>1. slots \in Seq(Slot)
      BY DEF Types
    <3>2. Len(slots') = Len(slots) \/ Len(slots') = Len(slots) - 1
      BY <2>1, <3>1, Deleted
    <3>3. Len(slots') \in Nat
      BY <2>1, DeletedSlots
    <3>4. \A m, l \in Nat : m = l \/ m = l - 1 => m >= l - 1
      OBVIOUS
    <3> QED
      BY <1>0, <3>2, <3>3, <3>4
  <2> QED
    BY <1>0, <2>1, <2>2 DEF IndexOK
<1>11. CASE Idle \/ Ping \/ Unsupported \/ Misread \/ MoreData \/ MessageEnds
  <2>1. /\ pc = "receive" /\ slots' = slots
        /\ \/ pc' = "scan" /\ i' = i + 1
           \/ pc' \in {"receive", "broadcast", "binary"} /\ i' = i
    BY <1>11 DEF Idle, Ping, Unsupported, Misread, MoreData, MessageEnds, IsData, Arrived, Return
  <2> QED
    BY <1>0, <2>1 DEF IndexOK
<1>12. CASE SendBinary \/ EndBinary
  <2>1. /\ pc = "binary" /\ slots' = slots
        /\ \/ pc' = "scan" /\ i' = i + 1
           \/ pc' = "binary" /\ i' = i
    BY <1>12 DEF SendBinary, EndBinary, Return
  <2> QED
    BY <1>0, <2>1 DEF IndexOK
<1> QED
  BY <1>1, <1>2, <1>3, <1>4, <1>5, <1>6, <1>7, <1>8, <1>9, <1>10, <1>11, <1>12 DEF ServerStep

-----------------------------------------------------------------------------
(* The sockets.                                                            *)

\* Who is behind a descriptor or waits has connected and was not cut off.
Linked == {"open", "fin", "rst"}

\* No client is connected at first.
LEMMA SocketsInit == ASSUME Init PROVE SocketsOK /\ OpenIsWatched
BY DEF Init, SocketsOK, OpenIsWatched, OpenFds

\* A peer connects once, and does not touch the descriptors.
LEMMA SocketsPeer ==
  ASSUME Types, SocketsOK, NEW p \in Peers, PeerStep(p)
  PROVE  SocketsOK'
<1>1. /\ UNCHANGED <<sock, pc, fd>>
      /\ \A q \in Peers : link[q] \in Linked => link'[q] \in Linked
  BY DEF Types, Linked, PeerStep, Connected, MayWrite, Speaks, threadVars, Connect, WriteRequest, WriteFrame, PingOn, WriteCut, Leave
<1>2. \A f \in ClientFds : sock[f] # None => sock[f] \in Peers
  BY DEF Types
<1>3. Len(backlog) \in Nat /\ DOMAIN backlog = 1..Len(backlog) /\ \A k \in 1..Len(backlog) : backlog[k] \in Peers
  BY LenProperties, ElementOfSeq DEF Types
<1>4. CASE backlog' = backlog
  BY <1>1, <1>2, <1>3, <1>4 DEF SocketsOK, OpenFds, Linked
<1>5. CASE Connect(p)
  <2>1. backlog' = Append(backlog, p) /\ link[p] = "idle" /\ link'[p] = "open"
    BY <1>5 DEF Connect, Types
  <2>2. /\ backlog' \in Seq(Peers) /\ Len(backlog') = Len(backlog) + 1
        /\ \A k \in 1..Len(backlog) : backlog'[k] = backlog[k]
        /\ backlog'[Len(backlog) + 1] = p
    BY <2>1, AppendProperties DEF Types
  <2>3. DOMAIN backlog' = 1..Len(backlog) + 1
    BY <2>2, LenProperties
  <2>4. /\ \A f \in ClientFds : sock[f] # p
        /\ \A k \in 1..Len(backlog) : backlog[k] # p
    BY <1>2, <1>3, <2>1, Descriptors DEF SocketsOK, OpenFds
  <2>5. ASSUME NEW k \in DOMAIN backlog'
        PROVE  link'[backlog'[k]] \in Linked /\ \A f \in ClientFds : sock'[f] # backlog'[k]
    <3>1. CASE k \in 1..Len(backlog)
      BY <1>1, <1>3, <2>2, <3>1 DEF SocketsOK, Linked
    <3>2. CASE k = Len(backlog) + 1
      BY <1>1, <2>1, <2>2, <2>4, <3>2 DEF Linked
    <3> QED
      BY <1>3, <2>3, <3>1, <3>2
  <2>6. ASSUME NEW k \in DOMAIN backlog', NEW l \in DOMAIN backlog', backlog'[k] = backlog'[l]
        PROVE  k = l
    <3>1. CASE k \in 1..Len(backlog) /\ l \in 1..Len(backlog)
      BY <1>3, <2>2, <2>6, <3>1 DEF SocketsOK
    <3> QED
      BY <1>3, <2>2, <2>3, <2>4, <2>6, <3>1
  <2>7. \A f \in OpenFds' : link'[sock'[f]] \in Linked
    BY <1>1, <1>2 DEF SocketsOK, OpenFds, Linked
  <2> QED
    BY <1>1, <2>5, <2>6, <2>7 DEF SocketsOK, OpenFds, Linked
<1> QED
  BY <1>4, <1>5 DEF PeerStep, WriteRequest, WriteFrame, PingOn, WriteCut, Leave

\* close takes one descriptor away and breaks no link of another one.
LEMMA SocketsClose ==
  ASSUME Types, SocketsOK, NEW f \in {ServerFd} \cup ClientFds, Close(f)
  PROVE  /\ \A g, h \in OpenFds' : sock'[g] = sock'[h] => g = h
         /\ \A g \in OpenFds' : link'[sock'[g]] \in Linked
         /\ \A k \in DOMAIN backlog' : link'[backlog'[k]] \in Linked /\ \A g \in ClientFds : sock'[g] # backlog'[k]
         /\ \A k, l \in DOMAIN backlog' : backlog'[k] = backlog'[l] => k = l
         /\ OpenFds' = OpenFds \ {f}
         /\ \A g \in OpenFds' : sock'[g] = sock[g]
<1>2. \A g \in ClientFds : sock[g] # None => sock[g] \in Peers
  BY DEF Types
<1>3. DOMAIN backlog = 1..Len(backlog) /\ \A k \in 1..Len(backlog) : backlog[k] \in Peers
  BY LenProperties, ElementOfSeq DEF Types
<1>4. CASE f = ServerFd
  <2>1. sock' = sock /\ backlog' = <<>>
    BY <1>4 DEF Close
  <2>2. link' = [p \in Peers |-> IF p \in ToSet(backlog) THEN "dropped" ELSE link[p]]
    BY <1>4 DEF Close
  <2>3. \A g \in OpenFds : sock[g] \in Peers /\ sock[g] \notin ToSet(backlog)
    BY <1>2, <1>3 DEF SocketsOK, OpenFds, ToSet
  <2>4. DOMAIN backlog' = {}
    BY <2>1
  <2> QED
    BY <1>2, <1>4, <2>1, <2>2, <2>3, <2>4, Descriptors DEF SocketsOK, OpenFds, Linked
<1>5. CASE f \in ClientFds
  <2>1. /\ backlog' = backlog
        /\ link' = IF sock[f] = None THEN link ELSE [link EXCEPT ![sock[f]] = "dropped"]
        /\ sock' = [sock EXCEPT ![f] = None]
    BY <1>5, Descriptors DEF Close
  <2>2. OpenFds' = OpenFds \ {f} /\ \A g \in OpenFds' : sock'[g] = sock[g]
    BY <2>1 DEF OpenFds, Types
  <2>3. \A g \in OpenFds' : sock[g] \in Peers /\ (sock[f] = None \/ sock[g] # sock[f])
    BY <1>2, <1>5, <2>2 DEF SocketsOK, OpenFds
  <2>4. \A g \in OpenFds' : link'[sock'[g]] = link[sock[g]]
    BY <2>1, <2>2, <2>3 DEF Types
  <2>5. ASSUME NEW k \in DOMAIN backlog'
        PROVE  link'[backlog'[k]] \in Linked /\ \A g \in ClientFds : sock'[g] # backlog'[k]
    <3>1. backlog[k] \in Peers /\ link[backlog[k]] \in Linked /\ \A g \in ClientFds : sock[g] # backlog[k]
      BY <1>3, <2>1 DEF SocketsOK, Linked
    <3>2. link'[backlog[k]] = link[backlog[k]]
      BY <1>5, <2>1, <3>1 DEF Types
    <3>3. \A g \in ClientFds : sock'[g] # backlog[k]
      BY <2>1, <3>1, Descriptors DEF Types
    <3> QED
      BY <2>1, <3>1, <3>2, <3>3
  <2>6. \A g \in OpenFds' : link'[sock'[g]] \in Linked
    BY <2>2, <2>4 DEF SocketsOK, Linked
  <2>7. \A g, h \in OpenFds' : sock'[g] = sock'[h] => g = h
    BY <2>2 DEF SocketsOK
  <2>8. \A k, l \in DOMAIN backlog' : backlog'[k] = backlog'[l] => k = l
    BY <2>1 DEF SocketsOK
  <2> QED
    BY <2>2, <2>5, <2>6, <2>7, <2>8
<1> QED
  BY <1>4, <1>5

\* A send leaves every connection as it was, or resets one that was closed.
LEMMA AfterSendLinks ==
  ASSUME Types, NEW p, AfterSend(p)
  PROVE  \A q \in Peers : /\ link[q] \in Linked => link'[q] \in Linked
                          /\ link'[q] = link[q] \/ (link[q] = "fin" /\ link'[q] = "rst")
BY DEF AfterSend, Types, Linked

\* No step of the server gives a peer two descriptors, or a waiting peer one.
LEMMA SocketsServer ==
  ASSUME Types, ListOK, SocketsOK, ServerStep
  PROVE  SocketsOK'
<1> USE DEF threadVars, peerVars
<1>2. \A g \in ClientFds : sock[g] # None => sock[g] \in Peers
  BY DEF Types
<1>3. DOMAIN backlog = 1..Len(backlog) /\ \A k \in 1..Len(backlog) : backlog[k] \in Peers
  BY LenProperties, ElementOfSeq DEF Types
<1>4. ASSUME UNCHANGED <<sock, backlog>>, \A q \in Peers : link[q] \in Linked => link'[q] \in Linked,
             pc' \in {"handshake", "broadcast", "binary"} => fd' \in OpenFds,
             pc' \in {"receive", "announce"} => fd' \in ClientFds
      PROVE  SocketsOK'
  BY <1>2, <1>3, <1>4 DEF SocketsOK, OpenFds, Linked
<1>5. CASE Poll \/ Skip \/ SendSkip \/ EndBroadcast \/ Idle \/ Unsupported \/ Misread \/ MoreData \/ EndBinary
  <2>1. /\ UNCHANGED <<sock, backlog, link, fd>>
        /\ pc' = pc \/ pc' = "scan"
    BY <1>5 DEF Poll, Skip, SendSkip, EndBroadcast, Idle, Unsupported, Misread, MoreData, EndBinary, Return
  <2> QED
    BY <1>4, <2>1 DEF SocketsOK
<1>6. CASE EndScan
  <2>1. CASE Len(slots) > 1
    <3>1. UNCHANGED <<sock, backlog, link>> /\ pc' = "poll"
      BY <1>6, <2>1 DEF EndScan
    <3> QED
      BY <1>4, <3>1
  <2>2. CASE ~(Len(slots) > 1)
    <3>1. /\ pc' = "exited" /\ backlog' = <<>>
          /\ sock' = [f \in ClientFds |-> None]
      BY <1>6, <2>2 DEF EndScan
    <3>2. OpenFds' = {} /\ DOMAIN backlog' = {}
      BY <3>1 DEF OpenFds
    <3> QED
      BY <3>1, <3>2 DEF SocketsOK
  <2> QED
    BY <2>1, <2>2
<1>7. CASE Accept
  <2> DEFINE h == Head(backlog)
  <2>1. Lowest \in ClientFds /\ sock[Lowest] = None
    BY <1>7, LowestFree DEF Accept
  <2>2. /\ sock' = [sock EXCEPT ![Lowest] = h]
        /\ backlog' = Tail(backlog) /\ backlog # <<>>
        /\ fd' = Lowest /\ pc' = "handshake" /\ link' = link
    BY <1>7 DEF Accept
  <2>3. /\ h = backlog[1] /\ 1 \in 1..Len(backlog)
        /\ Len(backlog') = Len(backlog) - 1
        /\ \A k \in 1..Len(backlog') : backlog'[k] = backlog[k + 1]
        /\ backlog' \in Seq(Peers)
    BY <2>2, HeadTailProperties, LenProperties DEF Types
  <2>4. DOMAIN backlog' = 1..Len(backlog) - 1 /\ Len(backlog) \in Nat
    BY <2>3, LenProperties DEF Types
  <2>5. h \in Peers /\ h # None /\ link[h] \in Linked /\ \A g \in ClientFds : sock[g] # h
    BY <1>3, <2>3, Descriptors DEF SocketsOK, Linked
  <2>6. /\ OpenFds' = OpenFds \cup {Lowest} /\ sock'[Lowest] = h
        /\ \A g \in OpenFds : sock'[g] = sock[g]
    BY <2>1, <2>2, <2>5 DEF OpenFds, Types
  <2>7. \A k \in 1..Len(backlog) - 1 : k + 1 \in 1..Len(backlog) /\ k + 1 # 1
    BY <2>4
  <2>8. ASSUME NEW k \in DOMAIN backlog'
        PROVE  link'[backlog'[k]] \in Linked /\ \A g \in ClientFds : sock'[g] # backlog'[k]
    <3>1. /\ backlog'[k] = backlog[k + 1] /\ k + 1 \in 1..Len(backlog) /\ k + 1 # 1
      BY <2>3, <2>4, <2>7
    <3>2. backlog'[k] # h /\ link[backlog'[k]] \in Linked /\ \A g \in ClientFds : sock[g] # backlog'[k]
      BY <1>3, <2>3, <3>1 DEF SocketsOK, Linked
    <3> QED
      BY <2>1, <2>2, <3>2 DEF Types
  <2>9. ASSUME NEW k \in DOMAIN backlog', NEW l \in DOMAIN backlog', backlog'[k] = backlog'[l]
        PROVE  k = l
    <3>1. /\ backlog'[k] = backlog[k + 1] /\ k + 1 \in 1..Len(backlog)
          /\ backlog'[l] = backlog[l + 1] /\ l + 1 \in 1..Len(backlog)
      BY <2>3, <2>4, <2>7
    <3>2. k + 1 = l + 1
      BY <1>3, <2>9, <3>1 DEF SocketsOK
    <3> QED
      BY <2>4, <3>2
  <2>10. ASSUME NEW g \in OpenFds', NEW k \in OpenFds', sock'[g] = sock'[k]
         PROVE  g = k
    BY <2>5, <2>6, <2>10 DEF SocketsOK, OpenFds
  <2>11. \A g \in OpenFds' : link'[sock'[g]] \in Linked
    BY <2>2, <2>5, <2>6 DEF SocketsOK, Linked
  <2> QED
    BY <2>1, <2>2, <2>6, <2>8, <2>9, <2>10, <2>11 DEF SocketsOK, Linked
<1>8. CASE Handshake \/ HandshakeEarly
  <2>1. /\ UNCHANGED <<sock, backlog, fd>> /\ fd \in OpenFds
        /\ pc' \in {"announce", "scan"} /\ AfterSend(sock[fd])
    BY <1>8 DEF Handshake, HandshakeEarly, Upgrade, Accepted, SocketsOK
  <2> QED
    BY <1>4, <2>1, AfterSendLinks DEF OpenFds
<1>9. ASSUME NEW f \in {ServerFd} \cup ClientFds, Close(f), fd' = fd,
             pc' \in {"scan", "announce", "broadcast"},
             pc' = "broadcast" => fd \in OpenFds \ {f}, pc' = "announce" => fd \in ClientFds
      PROVE  SocketsOK'
  BY <1>9, SocketsClose DEF SocketsOK, Linked
<1>10. CASE HandshakeFails
  <2>1. Close(fd) /\ fd' = fd /\ pc' \in {"scan", "announce"} /\ fd \in ClientFds
    BY <1>10 DEF HandshakeFails, Accepted, SocketsOK, OpenFds
  <2> QED
    BY <1>9, <2>1
<1>11. CASE SendFrame
  <2>1. UNCHANGED <<sock, backlog, fd, pc>> /\ AfterSend(sock[slots[j].fd])
    BY <1>11 DEF SendFrame
  <2> QED
    BY <1>4, <2>1, AfterSendLinks DEF SocketsOK
<1>12. CASE SendFrameFails
  <2> DEFINE f == slots[j].fd
  <2>1. /\ Close(f) /\ fd' = fd /\ pc' = pc /\ pc \in {"announce", "broadcast"}
        /\ pc = "broadcast" => f # fd
    BY <1>12 DEF SendFrameFails, Broadcasting, CloseAndDelete, Sending
  <2>2. f \in {ServerFd} \cup ClientFds
    BY <1>12, ListContext DEF SendFrameFails, Broadcasting
  <2>3. pc = "broadcast" => fd \in OpenFds \ {f}
    BY <2>1 DEF SocketsOK
  <2>4. pc = "announce" => fd \in ClientFds
    BY DEF SocketsOK
  <2> HIDE DEF f
  <2> QED
    BY <1>9, <2>1, <2>2, <2>3, <2>4
<1>13. CASE StartReceive
  <2>1. /\ UNCHANGED <<sock, backlog, link>> /\ pc' = "receive" /\ fd' = slots[i].fd
        /\ i \in 1..Len(slots) /\ slots[i].fd # ServerFd
    BY <1>13, ListContext DEF StartReceive, AtSlot
  <2>2. fd' \in ClientFds
    BY <2>1, ListContext
  <2> QED
    BY <1>4, <2>1, <2>2
<1>14. CASE Disconnected
  <2>1. Close(fd) /\ fd' = fd /\ pc' = "scan" /\ fd \in ClientFds
    BY <1>14 DEF Disconnected, CloseAndDelete, Return, SocketsOK
  <2> QED
    BY <1>9, <2>1
<1>15. CASE MessageEnds
  <2>1. /\ UNCHANGED <<sock, backlog, link, fd>>
        /\ fd \in ClientFds /\ ~Invalid(fd)
    BY <1>15 DEF MessageEnds, IsData, Arrived, SocketsOK
  <2>2. fd \in OpenFds
    BY <2>1, PeerType
  <2> QED
    BY <1>4, <2>1, <2>2
<1>16. CASE SendBinary
  <2>1. /\ UNCHANGED <<sock, backlog, fd, pc>>
        /\ link' = link \/ AfterSend(sock[slots[j].fd])
    BY <1>16 DEF SendBinary
  <2> QED
    BY <1>4, <2>1, AfterSendLinks DEF SocketsOK
<1>17. CASE Ping
  <2>1. /\ UNCHANGED <<sock, backlog, fd>> /\ pc' \in {pc, "scan"}
        /\ link' = link \/ AfterSend(Peer)
    BY <1>17 DEF Ping, Return
  <2> QED
    BY <1>4, <2>1, AfterSendLinks DEF SocketsOK
<1> QED
  BY <1>5, <1>6, <1>7, <1>8, <1>10, <1>11, <1>12, <1>13, <1>14, <1>15, <1>16, <1>17 DEF ServerStep

-----------------------------------------------------------------------------
(* Types, the length of the list, and what is watched.                     *)

ServerInv == Types /\ ListOK /\ IndexOK /\ SocketsOK /\ OpenIsWatched

\* The invariant holds at first.
LEMMA ServerInvInit == ASSUME Init PROVE ServerInv
BY TypesInit, ListInit, SocketsInit DEF ServerInv

\* The invariant holds after every step.
LEMMA ServerInvStep ==
  ASSUME ServerInv, [Next]_vars
  PROVE  ServerInv'
<1> USE DEF ServerInv
<1>1. CASE ServerStep
  BY <1>1, TypesServer, ListServer, IndexServer, SocketsServer, WatchedServer
<1>2. ASSUME NEW p \in Peers, PeerStep(p)
      PROVE  ServerInv'
  BY <1>2, TypesPeer, ListPeer, SocketsPeer
<1>3. CASE UNCHANGED vars
  BY <1>3 DEF vars, threadVars, peerVars, Types, ListOK, IndexOK, SocketsOK, OpenIsWatched, OpenFds
<1> QED
  BY <1>1, <1>2, <1>3 DEF Next

\* Types, the shape of the list, the index of the scan, the sockets and what is
\* watched: together inductive, and what all the other proofs start from.
THEOREM ServerInvariant == Spec => []ServerInv
<1>1. Init => ServerInv
  BY ServerInvInit
<1>2. ServerInv /\ [Next]_vars => ServerInv'
  BY ServerInvStep
<1> QED
  BY <1>1, <1>2, PTL DEF Spec

\* The state of the server has its types, and the client that is accepted, or whose
\* message is relayed, has a socket.
THEOREM TypeCorrect == Spec => []TypeOK
<1>1. ServerInv => TypeOK
  <2> SUFFICES ASSUME ServerInv
               PROVE  TypeOK
    OBVIOUS
  <2>1. i \in 1..Len(slots) + 2
    BY ListContext DEF ServerInv, IndexOK
  <2> QED
    BY <2>1 DEF ServerInv, Types, Slot, SocketsOK, TypeOK
<1> QED
  BY <1>1, ServerInvariant, PTL

\* The three slots that the list is given are enough, for any number of clients.
THEOREM ListFits == Spec => []SlotsFit
<1>1. ServerInv => SlotsFit
  BY DEF ServerInv, ListOK, SlotsFit
<1> QED
  BY <1>1, ServerInvariant, PTL

\* No open client descriptor is ever lost from the list.
THEOREM Watched == Spec => []OpenIsWatched
<1>1. ServerInv => OpenIsWatched
  BY DEF ServerInv
<1> QED
  BY <1>1, ServerInvariant, PTL

-----------------------------------------------------------------------------
(* A broadcast.                                                            *)

\* Who was not sent the message has a slot that is still to come.
Pending ==
  pc = "broadcast" => \A f \in OpenFds \ {fd} :
     \/ \E k \in j..Len(slots) : slots[k].fd = f
     \/ \E n \in DOMAIN got[sock[f]] : got[sock[f]][n] = Message

\* A peer does not disturb a broadcast.
LEMMA PendingPeer ==
  ASSUME Pending, NEW p \in Peers, PeerStep(p)
  PROVE  Pending'
<1>1. UNCHANGED <<slots, sock, pc, fd, j, got, opcode, parts>>
  BY DEF PeerStep, threadVars, Connect, WriteRequest, WriteFrame, PingOn, WriteCut, Leave
<1> QED
  BY <1>1 DEF Pending, OpenFds, Message

\* A send, a skip and a deletion under the index keep who is still to come.
LEMMA PendingServer ==
  ASSUME ServerInv, Pending, ServerStep
  PROVE  Pending'
<1> USE DEF threadVars, peerVars, ServerInv
<1>0. /\ Len(slots) \in Nat /\ DOMAIN slots = 1..Len(slots) /\ j \in Nat \ {0}
      /\ \A k \in 1..Len(slots) : slots[k].fd \in {ServerFd} \cup ClientFds
  BY ListContext
<1>1. CASE pc' # "broadcast"
  BY <1>1 DEF Pending
<1>2. CASE MessageEnds /\ pc' = "broadcast"
  <2>1. /\ UNCHANGED <<slots, sock>> /\ j' = 1 /\ pc = "receive"
    BY <1>2 DEF MessageEnds, IsData, Arrived, Return
  <2>2. \A f \in OpenFds : \E k \in 1..Len(slots) : slots[k].fd = f
    BY <1>0, <2>1 DEF OpenIsWatched
  <2> QED
    BY <2>1, <2>2 DEF Pending, OpenFds
<1>3. CASE pc = "broadcast" /\ SendSkip
  <2>1. /\ UNCHANGED <<slots, sock, pc, fd, got, opcode, parts>> /\ j' = j + 1
        /\ j \in 1..Len(slots) /\ ~Sending(slots[j].fd)
    BY <1>0, <1>3 DEF SendSkip, Broadcasting
  <2>2. slots[j].fd = fd
    BY <1>0, <1>3, <2>1, Descriptors DEF Sending
  <2>3. ASSUME NEW f \in OpenFds \ {fd}, NEW k \in j..Len(slots), slots[k].fd = f
        PROVE  k \in j + 1..Len(slots)
    BY <1>0, <2>2, <2>3
  <2> QED
    BY <1>3, <2>1, <2>3 DEF Pending, OpenFds, Message
<1>4. CASE pc = "broadcast" /\ SendFrame
  <2> DEFINE g == slots[j].fd
             q == sock[g]
  <2>1. /\ UNCHANGED <<slots, sock, pc, fd, opcode, parts>> /\ j' = j + 1
        /\ j \in 1..Len(slots) /\ ~SendFails(g)
        /\ got' = [got EXCEPT ![q] = Append(@, Message)]
    BY <1>0, <1>4 DEF SendFrame, Broadcasting, Receive
  <2>2. g \in ClientFds /\ q \in Peers
    BY <1>0, <2>1, PeerType DEF SendFails
  <2>3. Message \in MessageSet /\ got[q] \in Seq(MessageSet)
    BY <1>4, <2>2, MessageType DEF Types
  <2>4. /\ Append(got[q], Message) \in Seq(MessageSet)
        /\ Len(Append(got[q], Message)) = Len(got[q]) + 1
        /\ Append(got[q], Message)[Len(got[q]) + 1] = Message
        /\ \A n \in 1..Len(got[q]) : Append(got[q], Message)[n] = got[q][n]
        /\ Len(got[q]) \in Nat /\ DOMAIN got[q] = 1..Len(got[q])
    BY <2>3, AppendProperties, LenProperties
  <2>5. DOMAIN Append(got[q], Message) = 1..Len(got[q]) + 1
    BY <2>4, LenProperties
  <2>6. got'[q] = Append(got[q], Message) /\ \A x \in Peers \ {q} : got'[x] = got[x]
    BY <2>1, <2>2 DEF Types
  <2>7. Message' = Message
    BY <2>1 DEF Message
  <2>8. ASSUME NEW f \in OpenFds \ {fd}
        PROVE  \/ \E k \in j + 1..Len(slots) : slots[k].fd = f
               \/ \E n \in DOMAIN got'[sock[f]] : got'[sock[f]][n] = Message
    <3>1. sock[f] \in Peers
      BY DEF OpenFds, Types
    <3>2. CASE \E k \in j..Len(slots) : slots[k].fd = f
      <4>1. PICK k \in j..Len(slots) : slots[k].fd = f
        BY <3>2
      <4>2. CASE k = j
        <5>1. sock[f] = q
          BY <4>1, <4>2
        <5>2. got'[sock[f]] = Append(got[q], Message)
          BY <2>6, <5>1
        <5>3. Len(got[q]) + 1 \in 1..Len(got[q]) + 1
          BY <2>4
        <5>4. Len(got[q]) + 1 \in DOMAIN got'[sock[f]] /\ got'[sock[f]][Len(got[q]) + 1] = Message
          BY <2>4, <2>5, <5>2, <5>3
        <5> QED
          BY <5>4
      <4>3. CASE k # j
        <5>1. k \in j + 1..Len(slots)
          BY <1>0, <4>1, <4>3
        <5> QED
          BY <4>1, <5>1
      <4> QED
        BY <4>2, <4>3
    <3>3. CASE \E n \in DOMAIN got[sock[f]] : got[sock[f]][n] = Message
      <4>1. PICK n \in DOMAIN got[sock[f]] : got[sock[f]][n] = Message
        BY <3>3
      <4>2. n \in DOMAIN got'[sock[f]] /\ got'[sock[f]][n] = Message
        <5>1. CASE sock[f] = q
          <6>1. n \in 1..Len(got[q]) /\ got[q][n] = Message
            BY <2>4, <4>1, <5>1
          <6>2. \A l \in Nat : n \in 1..l => n \in 1..l + 1
            OBVIOUS
          <6>3. n \in DOMAIN Append(got[q], Message) /\ Append(got[q], Message)[n] = Message
            BY <2>4, <2>5, <6>1, <6>2
          <6> QED
            BY <2>6, <5>1, <6>3
        <5>2. CASE sock[f] # q
          BY <2>6, <3>1, <4>1, <5>2
        <5> QED
          BY <5>1, <5>2
      <4> QED
        BY <4>2
    <3> QED
      BY <1>4, <3>2, <3>3 DEF Pending
  <2> QED
    BY <2>1, <2>7, <2>8 DEF Pending, OpenFds
<1>5. CASE pc = "broadcast" /\ SendFrameFails
  <2> DEFINE g == slots[j].fd
  <2>1. /\ UNCHANGED <<pc, fd, j, got, opcode, parts>>
        /\ j \in 1..Len(slots) /\ slots[j].fd = g /\ g # fd /\ Close(g)
        /\ slots' = DelClientFromPoll(slots, g)
    BY <1>0, <1>5 DEF SendFrameFails, Broadcasting, Sending, CloseAndDelete
  <2>2. g \in {ServerFd} \cup ClientFds
    BY <1>0, <2>1
  <2>3. OpenFds' = OpenFds \ {g} /\ \A f \in OpenFds' : sock'[f] = sock[f]
    BY <2>1, <2>2, SocketsClose
  <2>4. Message' = Message
    <3>1. fd \in OpenFds'
      BY <1>5, <2>1, <2>3 DEF SocketsOK
    <3> QED
      BY <2>1, <2>3, <3>1 DEF Message
  <2>5. PICK d \in 1..Len(slots) :
          /\ \A l \in 1..d - 1 : slots[l].fd # g
          /\ Len(slots') = Len(slots) - 1
          /\ \A l \in 1..Len(slots) - 1 : slots'[l] = IF l < d THEN slots[l] ELSE slots[l + 1]
    <3>1. slots \in Seq(Slot)
      BY DEF Types
    <3> HIDE DEF g
    <3>2. \E k \in 1..Len(slots) : slots[k].fd = g
      BY <2>1
    <3>3. \/ (\A k \in 1..Len(slots) : slots[k].fd # g) /\ slots' = slots
          \/ \E k \in 1..Len(slots) :
                 /\ slots[k].fd = g
                 /\ \A l \in 1..k - 1 : slots[l].fd # g
                 /\ Len(slots') = Len(slots) - 1
                 /\ \A l \in 1..Len(slots) - 1 :
                      slots'[l] = IF l < k THEN slots[l] ELSE slots[l + 1]
      <4>1. slots' = DelClientFromPoll(slots, g)
        BY <2>1
      <4> QED
        BY <3>1, <4>1, Deleted
    <3> QED
      BY <3>2, <3>3
  <2>6. d <= j
    <3> SUFFICES ASSUME j < d
                 PROVE  FALSE
      BY <1>0
    <3>1. j \in 1..d - 1
      BY <1>0
    <3> QED
      BY <2>1, <2>5, <3>1
  <2>7. ASSUME NEW f \in OpenFds', f # fd
        PROVE  \/ \E k \in j..Len(slots') : slots'[k].fd = f
               \/ \E n \in DOMAIN got[sock[f]] : got[sock[f]][n] = Message
    <3>1. f \in OpenFds \ {fd} /\ f # g
      BY <2>3, <2>7
    <3>2. CASE \E k \in j..Len(slots) : slots[k].fd = f
      <4>1. PICK k \in j..Len(slots) : slots[k].fd = f
        BY <3>2
      <4>2. k # j
        BY <3>1, <4>1
      <4>3. k - 1 \in j..Len(slots) - 1 /\ k - 1 \in 1..Len(slots) - 1 /\ ~(k - 1 < d) /\ k - 1 + 1 = k
        BY <1>0, <2>6, <4>1, <4>2
      <4>4. slots'[k - 1] = slots[k]
        BY <2>5, <4>3
      <4> QED
        BY <2>5, <4>1, <4>3, <4>4
    <3> QED
      BY <1>5, <3>1, <3>2 DEF Pending
  <2> QED
    BY <2>1, <2>3, <2>4, <2>7 DEF Pending
<1>6. pc' = "broadcast" =>
        \/ MessageEnds
        \/ pc = "broadcast" /\ (SendSkip \/ SendFrame \/ SendFrameFails)
  BY DEF ServerStep, Poll, Skip, AtSlot, EndScan, Accept, Handshake, HandshakeEarly, Upgrade, HandshakeFails, Accepted, SendSkip, SendFrame,
     SendFrameFails, EndBroadcast, StartReceive, Idle, Disconnected, Ping, Unsupported, Misread, MoreData, IsData,
     Arrived, SendBinary, EndBinary, Return
<1> QED
  BY <1>1, <1>2, <1>3, <1>4, <1>5, <1>6

\* In every broadcast, who was not sent the message is still to come.
LEMMA PendingInvariant == Spec => []Pending
<1>1. Init => Pending
  BY DEF Init, Pending
<1>2. ServerInv /\ Pending /\ [Next]_vars => Pending'
  <2> SUFFICES ASSUME ServerInv, Pending, [Next]_vars
               PROVE  Pending'
    OBVIOUS
  <2>1. CASE UNCHANGED vars
    BY <2>1 DEF vars, threadVars, peerVars, Pending, OpenFds, Message
  <2> QED
    BY <2>1, PendingServer, PendingPeer DEF Next
<1> QED
  BY <1>1, <1>2, ServerInvariant, PTL DEF Spec

\* A broadcast of text that ends was sent to every connected client but the sender,
\* whichever slots were deleted under it.
THEOREM BroadcastReachesAll == Spec => BroadcastComplete
<1>1. ServerInv /\ Pending /\ [Next]_vars =>
        (pc = "broadcast" /\ pc' = "scan" =>
           \A f \in OpenFds \ {fd} :
             link[sock[f]] = "open" => \E n \in DOMAIN got[sock[f]] : got[sock[f]][n] = Message)
  <2> SUFFICES ASSUME ServerInv, Pending, Next, pc = "broadcast", pc' = "scan"
               PROVE  \A f \in OpenFds \ {fd} : \E n \in DOMAIN got[sock[f]] : got[sock[f]][n] = Message
    BY DEF vars, threadVars
  <2>1. EndBroadcast
    <3>1. ~\E p \in Peers : PeerStep(p)
      BY DEF PeerStep, threadVars, Connect, WriteRequest, WriteFrame, PingOn, WriteCut, Leave
    <3> QED
      BY <3>1 DEF Next, threadVars, ServerStep, Poll, Skip, AtSlot, EndScan, Accept, Handshake, HandshakeEarly, Upgrade, HandshakeFails,
         SendSkip, SendFrame, SendFrameFails, StartReceive, Idle, Disconnected, Ping, Unsupported, Misread,
         MoreData, MessageEnds, IsData, Arrived, SendBinary, EndBinary
  <2>2. Len(slots) \in Nat /\ j \in Nat /\ j > Len(slots)
    BY <2>1, ListContext DEF EndBroadcast, ServerInv
  <2>3. j..Len(slots) = {}
    BY <2>2
  <2> QED
    BY <2>3 DEF Pending
<1> QED
  BY <1>1, ServerInvariant, PendingInvariant, PTL DEF Spec, BroadcastComplete
====
