----------------------- MODULE WebSocketMessageProofs -----------------------
(***************************************************************************)
(* Proofs about what WebSocketServer relays and whom it cuts off, for any  *)
(* finite set of peers and any bounds. The frames that a peer wrote are    *)
(* numbered; what the server has not read is the end of them; so the frame *)
(* that comes next tells how far the message in the buffer is, which is    *)
(* what the invariant of the buffer, of the relay and of what was relayed  *)
(* is stated with.                                                         *)
(***************************************************************************)
EXTENDS WebSocketServerProofs

-----------------------------------------------------------------------------
(* What a peer writes, and how its stream goes with it.                    *)

DataOps == {"text", "bin", "cont"}

\* Data frames are numbered one after the other.
Numbered(w) ==
  /\ \A n \in 1..Len(w) : w[n].op \in DataOps =>
       w[n].part = PartAt(w, n) /\ (w[n].op = "cont" <=> PartAt(w, n)[2] > 1)
  /\ \A n \in 1..Len(w) + 1 : PartAt(w, n) \in (Nat \ {0}) \X (Nat \ {0})
  /\ \A m, n \in 1..Len(w) + 1 : m <= n => PartAt(w, m)[1] <= PartAt(w, n)[1]

\* Whole frames, no unsolicited pong, the request first, nothing after a close.
Orderly(w) ==
  \A n \in 1..Len(w) : /\ w[n].cut = "no" /\ w[n].op # "pong"
                       /\ n > 1 => w[n].op \notin {"request", "bad request"}
                       /\ w[n].op = "close" => n = Len(w)

\* What is not read is the end of what was written.
Suffix(s, w) == Len(s) <= Len(w) /\ \A n \in 1..Len(s) : s[n] = w[Len(w) - Len(s) + n]

\* Reading a frame takes the first of those that are left.
LEMMA SuffixTail ==
  ASSUME NEW s \in Seq(Frame), NEW w \in Seq(Frame), Suffix(s, w), s # <<>>
  PROVE  /\ Len(w) - Len(s) + 1 \in 1..Len(w)
         /\ Head(s) = w[Len(w) - Len(s) + 1]
         /\ Suffix(Tail(s), w) /\ Len(Tail(s)) = Len(s) - 1
<1>1. /\ Len(s) \in Nat \ {0} /\ Len(w) \in Nat /\ Len(s) <= Len(w)
  BY EmptySeq, LenProperties DEF Suffix
<1>2. Len(Tail(s)) = Len(s) - 1 /\ \A n \in 1..Len(s) - 1 : Tail(s)[n] = s[n + 1]
  BY HeadTailProperties
<1>3. Head(s) = s[1]
  OBVIOUS
<1>4. Head(s) = w[Len(w) - Len(s) + 1]
  BY <1>1, <1>3 DEF Suffix
<1>5. ASSUME NEW n \in 1..Len(s) - 1
      PROVE  Tail(s)[n] = w[Len(w) - (Len(s) - 1) + n]
  <2>1. n + 1 \in 1..Len(s) /\ Len(w) - Len(s) + (n + 1) = Len(w) - (Len(s) - 1) + n
    BY <1>1
  <2> QED
    BY <1>2, <2>1 DEF Suffix
<1>6. Suffix(Tail(s), w)
  BY <1>1, <1>2, <1>5 DEF Suffix
<1> QED
  BY <1>1, <1>2, <1>4, <1>6

\* Writing adds to both.
LEMMA SuffixAppend ==
  ASSUME NEW s \in Seq(Frame), NEW w \in Seq(Frame), Suffix(s, w), NEW f \in Frame
  PROVE  Suffix(Append(s, f), Append(w, f))
<1>1. Len(s) \in Nat /\ Len(w) \in Nat
  BY LenProperties
<1>2. /\ Len(Append(s, f)) = Len(s) + 1 /\ Append(s, f)[Len(s) + 1] = f
      /\ \A n \in 1..Len(s) : Append(s, f)[n] = s[n]
      /\ Len(Append(w, f)) = Len(w) + 1 /\ Append(w, f)[Len(w) + 1] = f
      /\ \A n \in 1..Len(w) : Append(w, f)[n] = w[n]
  BY AppendProperties
<1>3. ASSUME NEW n \in 1..Len(s) + 1
      PROVE  Append(s, f)[n] = Append(w, f)[Len(w) + 1 - (Len(s) + 1) + n]
  <2>1. CASE n = Len(s) + 1
    <3>1. Len(w) + 1 - (Len(s) + 1) + n = Len(w) + 1
      BY <1>1, <2>1
    <3> QED
      BY <1>2, <2>1, <3>1
  <2>2. CASE n # Len(s) + 1
    <3>1. /\ n \in 1..Len(s)
          /\ Len(w) + 1 - (Len(s) + 1) + n = Len(w) - Len(s) + n
          /\ Len(w) - Len(s) + n \in 1..Len(w)
      BY <1>1, <2>2 DEF Suffix
    <3> QED
      BY <1>2, <3>1 DEF Suffix
  <2> QED
    BY <2>1, <2>2
<1>4. Len(s) + 1 <= Len(w) + 1
  BY <1>1 DEF Suffix
<1> DEFINE sf == Append(s, f)
           wf == Append(w, f)
<1>5. Len(sf) = Len(s) + 1 /\ Len(wf) = Len(w) + 1
  BY <1>2
<1>6. \A n \in 1..Len(s) + 1 : sf[n] = wf[Len(w) + 1 - (Len(s) + 1) + n]
  BY <1>3
<1> HIDE DEF sf, wf
<1>7. Suffix(sf, wf)
  BY <1>4, <1>5, <1>6 DEF Suffix
<1> QED
  BY <1>7 DEF sf, wf

\* A frame more.
LEMMA FrameAppended ==
  ASSUME NEW w \in Seq(Frame), NEW f \in Frame
  PROVE  /\ Append(w, f) \in Seq(Frame)
         /\ Len(Append(w, f)) = Len(w) + 1 /\ Append(w, f)[Len(w) + 1] = f
         /\ \A n \in 1..Len(w) : Append(w, f)[n] = w[n]
BY AppendProperties

\* The places of a sequence that grew by one.
LEMMA OneMore ==
  ASSUME NEW m \in Nat, NEW x \in 1..m + 1
  PROVE  x = m + 1 \/ x \in 1..m
OBVIOUS

\* Facts on numbers that the provers do not find among other facts.
LEMMA Arithmetic ==
  /\ 0 < 1 /\ ~(1 > 1) /\ \A n \in 1..1 : n = 1
  /\ \A a, b \in Nat : a < b => a - 1 < b /\ b - a + 1 > 1
  /\ \A a \in Nat : (a # 0 => 0 < a) /\ 0 <= a /\ a <= a /\ a - 1 <= a
  /\ \A a, b \in Nat : b <= a => a - b + 1 \in 1..a + 1
  /\ \A b \in Nat \ {0} : \A x \in 1..b :
       (x \in 1..b - 1 /\ x <= b - 1) \/ (x = b /\ ~(x <= b - 1) /\ x - (b - 1) = 1)
OBVIOUS

\* A peer that has not closed stays orderly with a data frame, a ping or a close.
LEMMA OrderlyAppend ==
  ASSUME NEW w \in Seq(Frame), NEW f \in Frame, Orderly(w), w # <<>>, Last(w).op # "close",
         f.cut = "no", f.op \notin {"pong", "request", "bad request"}
  PROVE  Orderly(Append(w, f))
<1>1. Len(w) \in Nat \ {0}
  BY EmptySeq
<1>2. /\ Len(Append(w, f)) = Len(w) + 1 /\ Append(w, f)[Len(w) + 1] = f
      /\ \A n \in 1..Len(w) : Append(w, f)[n] = w[n]
  BY FrameAppended
<1>3. \A n \in 1..Len(w) : w[n].op # "close"
  BY <1>1 DEF Orderly, Last
<1> DEFINE v == Append(w, f)
           l == Len(w)
<1>4. /\ Len(v) = l + 1 /\ v[l + 1] = f /\ l \in Nat \ {0}
      /\ \A n \in 1..l : v[n] = w[n]
  BY <1>1, <1>2
<1>5. ASSUME NEW n \in 1..l + 1
      PROVE  /\ v[n].cut = "no" /\ v[n].op # "pong"
             /\ n > 1 => v[n].op \notin {"request", "bad request"}
             /\ v[n].op = "close" => n = l + 1
  <2>1. CASE n = l + 1
    BY <1>4, <2>1
  <2>2. CASE n \in 1..l
    BY <1>3, <1>4, <2>2 DEF Orderly
  <2>3. n = l + 1 \/ n \in 1..l
    BY <1>4, OneMore
  <2> QED
    BY <2>1, <2>2, <2>3
<1> HIDE DEF v, l
<1>6. Orderly(v)
  BY <1>4, <1>5 DEF Orderly
<1> QED
  BY <1>6 DEF v

\* The part at a place depends on the frames before it only.
LEMMA PartKept ==
  ASSUME NEW w \in Seq(Frame), NEW f \in Frame, NEW n \in 1..Len(w) + 1
  PROVE  PartAt(Append(w, f), n) = PartAt(w, n)
<1>1. Len(w) \in Nat /\ \A m \in 1..Len(w) : Append(w, f)[m] = w[m]
  BY AppendProperties, LenProperties
<1>2. \A m \in 1..n - 1 : m \in 1..Len(w)
  BY <1>1
<1>3. DataBefore(Append(w, f), n) = DataBefore(w, n)
  BY <1>1, <1>2 DEF DataBefore
<1>4. CASE DataBefore(w, n) = {}
  BY <1>3, <1>4 DEF PartAt
<1>5. CASE DataBefore(w, n) # {}
  <2> DEFINE k == CHOOSE m \in DataBefore(w, n) : \A l \in DataBefore(w, n) : l <= m
  <2>1. \E m \in DataBefore(w, n) : \A l \in DataBefore(w, n) : l <= m
    BY <1>5, LastDataType
  <2>2. k \in 1..Len(w)
    BY <1>2, <2>1 DEF DataBefore
  <2>3. LastData(Append(w, f), n) = Append(w, f)[k] /\ LastData(w, n) = w[k]
    BY <1>3 DEF LastData
  <2>4. LastData(Append(w, f), n) = LastData(w, n)
    BY <1>1, <2>2, <2>3
  <2> QED
    BY <1>3, <1>5, <2>4 DEF PartAt
<1> QED
  BY <1>4, <1>5

\* A data frame counts on, any other frame does not.
LEMMA PartNext ==
  ASSUME NEW w \in Seq(Frame), NEW n \in 1..Len(w)
  PROVE  PartAt(w, n + 1) =
           IF w[n].op \in DataOps
           THEN IF w[n].fin THEN <<w[n].part[1] + 1, 1>> ELSE <<w[n].part[1], w[n].part[2] + 1>>
           ELSE PartAt(w, n)
<1>1. Len(w) \in Nat /\ n + 1 - 1 = n
  BY LenProperties
<1>2. CASE w[n].op \notin DataOps
  <2>1. DataBefore(w, n + 1) = DataBefore(w, n)
    BY <1>1, <1>2 DEF DataBefore, DataOps
  <2>2. LastData(w, n + 1) = LastData(w, n)
    BY <2>1 DEF LastData
  <2> QED
    BY <1>2, <2>1, <2>2 DEF PartAt
<1>3. CASE w[n].op \in DataOps
  <2>1. n \in DataBefore(w, n + 1) /\ \A l \in DataBefore(w, n + 1) : l <= n /\ l \in Int
    BY <1>1, <1>3 DEF DataBefore, DataOps
  <2>2. ASSUME NEW m \in DataBefore(w, n + 1), \A l \in DataBefore(w, n + 1) : l <= m
        PROVE  m = n
    <3>1. m <= n /\ n <= m /\ m \in Int /\ n \in Int
      BY <2>1, <2>2
    <3> QED
      BY <3>1
  <2>3. LastData(w, n + 1) = w[n]
    BY <2>1, <2>2 DEF LastData
  <2> QED
    BY <1>3, <2>1, <2>3 DEF PartAt
<1> QED
  BY <1>2, <1>3

\* A frame that is numbered by its place keeps the frames numbered.
LEMMA NumberedAppend ==
  ASSUME NEW w \in Seq(Frame), Numbered(w), NEW f \in Frame,
         f.op \in DataOps =>
           f.part = PartAt(w, Len(w) + 1) /\ (f.op = "cont" <=> PartAt(w, Len(w) + 1)[2] > 1)
  PROVE  Numbered(Append(w, f))
<1> DEFINE v == Append(w, f)
           l == Len(w)
           e == PartAt(w, l + 1)
<1>1. /\ v \in Seq(Frame) /\ Len(v) = l + 1 /\ v[l + 1] = f
      /\ \A n \in 1..l : v[n] = w[n]
      /\ l \in Nat
  BY AppendProperties, LenProperties
<1>2. \A n \in 1..l + 1 : PartAt(v, n) = PartAt(w, n)
  BY PartKept
<1>3. e \in (Nat \ {0}) \X (Nat \ {0}) /\ \A n \in 1..l + 1 : PartAt(w, n)[1] <= e[1]
  BY <1>1 DEF Numbered
<1>4. /\ PartAt(v, l + 2) \in (Nat \ {0}) \X (Nat \ {0})
      /\ e[1] <= PartAt(v, l + 2)[1]
  <2>1. l + 1 \in 1..Len(v) /\ l + 1 + 1 = l + 2 /\ l + 1 \in 1..l + 1
    BY <1>1
  <2>2. PartAt(v, l + 1 + 1) =
          IF f.op \in DataOps
          THEN IF f.fin THEN <<f.part[1] + 1, 1>> ELSE <<f.part[1], f.part[2] + 1>>
          ELSE PartAt(v, l + 1)
    BY <1>1, <2>1, PartNext
  <2>3. PartAt(v, l + 1) = e
    BY <1>2, <2>1
  <2> HIDE DEF v, l, e
  <2>4. PartAt(v, l + 2) \in {<<e[1] + 1, 1>>, <<e[1], e[2] + 1>>, e}
    BY <2>1, <2>2, <2>3 DEF e, l
  <2>5. e[1] \in Nat \ {0} /\ e[2] \in Nat \ {0}
    BY <1>3
  <2> QED
    BY <1>3, <2>4, <2>5
<1>5. \A n \in 1..l + 2 : n \in 1..l + 1 \/ n = l + 2
  BY <1>1
<1>6. ASSUME NEW n \in 1..l + 1, v[n].op \in DataOps
      PROVE  v[n].part = PartAt(v, n) /\ (v[n].op = "cont" <=> PartAt(v, n)[2] > 1)
  <2>1. CASE n \in 1..l
    BY <1>1, <1>2, <1>6, <2>1 DEF Numbered
  <2>2. CASE n = l + 1
    BY <1>1, <1>2, <1>6, <2>2
  <2> QED
    BY <1>1, <2>1, <2>2
<1>7. \A n \in 1..l + 2 : PartAt(v, n) \in (Nat \ {0}) \X (Nat \ {0})
  BY <1>2, <1>4, <1>5 DEF Numbered
<1>8. ASSUME NEW m \in 1..l + 2, NEW n \in 1..l + 2, m <= n
      PROVE  PartAt(v, m)[1] <= PartAt(v, n)[1]
  <2>1. CASE n \in 1..l + 1
    <3>1. m \in 1..l + 1
      BY <1>1, <1>8, <2>1
    <3> QED
      BY <1>2, <1>8, <2>1, <3>1 DEF Numbered
  <2>2. CASE n = l + 2 /\ m \in 1..l + 1
    <3>1. PartAt(v, m)[1] <= e[1] /\ e[1] <= PartAt(v, n)[1]
      BY <1>2, <1>3, <1>4, <2>2
    <3>2. PartAt(v, m)[1] \in Nat /\ e[1] \in Nat /\ PartAt(v, n)[1] \in Nat
      BY <1>3, <1>7
    <3> QED
      BY <3>1, <3>2
  <2>3. CASE n = l + 2 /\ m = l + 2
    <3>1. PartAt(v, n)[1] \in Nat
      BY <1>7
    <3> QED
      BY <2>3, <3>1
  <2> QED
    BY <1>5, <2>1, <2>2, <2>3
<1>9. Len(v) + 1 = l + 2 /\ Len(v) = l + 1
  BY <1>1
<1> HIDE DEF v, l
<1> QED
  BY <1>6, <1>7, <1>8, <1>9 DEF Numbered, v

-----------------------------------------------------------------------------
(* Peers and their handshake.                                              *)

\* A client is upgraded once: after it was accepted, and before it is polled.
UpgradeOK ==
  /\ \A f \in OpenFds : upgraded[sock[f]] <=> ~(pc = "handshake" /\ f = fd)
  /\ \A k \in DOMAIN backlog : ~upgraded[backlog[k]]
  /\ \A p \in Peers : link[p] = "idle" => ~upgraded[p]

\* What a peer wrote and what the server did not read of it; a peer that cut a
\* frame, wrote a pong, pings on or was answered early wrote anything.
PeerOK(p) ==
  /\ ~upgraded[p] => \/ wrote[p] = <<>> /\ stream[p] = <<>>
                     \/ \E op \in {"request", "bad request"} :
                          wrote[p] = <<Request(op)>> /\ stream[p] \in {<<>>, <<Request(op)>>}
  /\ upgraded[p] => wrote[p] # <<>>
  /\ p \in skipped => upgraded[p]
  /\ Numbered(wrote[p])
  /\ p \notin skipped => /\ Suffix(stream[p], wrote[p])
                         /\ Orderly(wrote[p])
                         /\ upgraded[p] => Len(stream[p]) < Len(wrote[p])

\* The server and all its peers.
PeersInv == ServerInv /\ UpgradeOK /\ \A p \in Peers : PeerOK(p)

\* Where a step may change a connection: none goes back to idle.
LEMMA NeverIdleAgain ==
  ASSUME Types, Next, NEW p \in Peers, link'[p] = "idle"
  PROVE  link[p] = "idle"
<1> USE DEF threadVars, peerVars
<1>1. ASSUME NEW q, AfterSend(q)
      PROVE  link[p] = "idle"
  BY <1>1 DEF AfterSend, Types
<1>2. ASSUME NEW f, Close(f)
      PROVE  link[p] = "idle"
  BY <1>2 DEF Close, Types
<1>3. CASE EndScan
  BY <1>3 DEF EndScan, Types
<1>4. CASE Handshake \/ HandshakeEarly \/ SendFrame \/ SendBinary \/ Ping
  <2>1. link' = link \/ \E q : AfterSend(q)
    BY <1>4 DEF Handshake, HandshakeEarly, Upgrade, SendFrame, SendBinary, Ping
  <2> QED
    BY <1>1, <2>1
<1>5. CASE HandshakeFails \/ SendFrameFails \/ Disconnected
  <2>1. \E f : Close(f)
    BY <1>5 DEF HandshakeFails, SendFrameFails, Disconnected, CloseAndDelete
  <2> QED
    BY <1>2, <2>1
<1>6. CASE \/ Poll \/ Skip \/ Accept \/ SendSkip \/ EndBroadcast \/ StartReceive \/ Idle
           \/ Unsupported \/ Misread \/ MoreData \/ MessageEnds \/ EndBinary
  BY <1>6 DEF Poll, Skip, Accept, SendSkip, EndBroadcast, StartReceive, Idle, Unsupported, Misread,
     MoreData, MessageEnds, EndBinary
<1>7. ASSUME NEW q \in Peers, PeerStep(q)
      PROVE  link[p] = "idle"
  BY <1>7 DEF Types, PeerStep, Connected, MayWrite, Speaks, Connect, WriteRequest, WriteFrame, PingOn, WriteCut, Leave
<1> QED
  BY <1>3, <1>4, <1>5, <1>6, <1>7 DEF Next, ServerStep

\* Only accept gives a descriptor to a peer.
LEMMA OnlyAcceptOpens ==
  ASSUME ServerInv, ServerStep, ~Accept
  PROVE  /\ \A f \in OpenFds' : f \in OpenFds /\ sock'[f] = sock[f]
         /\ backlog' \in {backlog, <<>>}
         /\ pc' # "handshake"
<1> USE DEF threadVars, peerVars
<1>1. ASSUME NEW f \in {ServerFd} \cup ClientFds, Close(f)
      PROVE  /\ \A g \in OpenFds' : g \in OpenFds /\ sock'[g] = sock[g]
             /\ backlog' \in {backlog, <<>>}
  BY <1>1, SocketsClose DEF ServerInv, Close
<1>2. CASE EndScan
  BY <1>2 DEF EndScan, OpenFds
<1>3. CASE HandshakeFails
  BY <1>1, <1>3 DEF HandshakeFails, Accepted, ServerInv, SocketsOK, OpenFds
<1>4. CASE SendFrameFails
  <2>1. slots[j].fd \in {ServerFd} \cup ClientFds
    BY <1>4, ListContext DEF SendFrameFails, Broadcasting, ServerInv
  <2> QED
    BY <1>1, <1>4, <2>1 DEF SendFrameFails, CloseAndDelete, Broadcasting
<1>5. CASE Disconnected
  BY <1>1, <1>5 DEF Disconnected, CloseAndDelete, Return, ServerInv, SocketsOK
<1>6. CASE \/ Poll \/ Skip \/ Handshake \/ HandshakeEarly \/ SendSkip \/ SendFrame \/ EndBroadcast
           \/ StartReceive \/ Idle \/ Ping \/ Unsupported \/ Misread \/ MoreData \/ MessageEnds \/ SendBinary \/ EndBinary
  <2>1. UNCHANGED <<sock, backlog>> /\ pc' # "handshake"
    BY <1>6 DEF Poll, Skip, AtSlot, Handshake, HandshakeEarly, Upgrade, Accepted, SendSkip, SendFrame, Broadcasting, EndBroadcast,
       StartReceive, Idle, Ping, Unsupported, Misread, MoreData, IsData, Arrived, MessageEnds, SendBinary,
       EndBinary, Return
  <2> QED
    BY <2>1 DEF OpenFds
<1> QED
  BY <1>2, <1>3, <1>4, <1>5, <1>6 DEF ServerStep

\* The handshake upgrades the client that was accepted, and nothing else does.
LEMMA UpgradeServer ==
  ASSUME ServerInv, UpgradeOK, ServerStep
  PROVE  UpgradeOK'
<1> USE DEF threadVars, peerVars
<1>0. /\ \A f \in OpenFds : sock[f] \in Peers
      /\ \A k \in DOMAIN backlog : backlog[k] \in Peers
      /\ upgraded \in [Peers -> BOOLEAN]
  BY LenProperties, ElementOfSeq DEF ServerInv, Types, OpenFds
<1>1. \A p \in Peers : link'[p] = "idle" => link[p] = "idle"
  BY NeverIdleAgain DEF ServerInv, Next
<1>2. CASE Accept
  <2> DEFINE h == Head(backlog)
  <2>1. Lowest \in ClientFds /\ sock[Lowest] = None
    BY <1>2, LowestFree DEF Accept, ServerInv
  <2>2. /\ sock' = [sock EXCEPT ![Lowest] = h]
        /\ backlog' = Tail(backlog) /\ backlog # <<>>
        /\ fd' = Lowest /\ pc' = "handshake" /\ pc = "scan" /\ upgraded' = upgraded
    BY <1>2 DEF Accept, AtSlot
  <2>3. backlog \in Seq(Peers) /\ sock \in [ClientFds -> Peers \cup {None}]
    BY DEF ServerInv, Types
  <2>4. /\ h = backlog[1] /\ 1 \in 1..Len(backlog)
        /\ Len(backlog') = Len(backlog) - 1
        /\ \A k \in 1..Len(backlog') : backlog'[k] = backlog[k + 1]
        /\ backlog' \in Seq(Peers)
    BY <2>2, <2>3, HeadTailProperties, LenProperties
  <2>5. DOMAIN backlog' = 1..Len(backlog) - 1 /\ Len(backlog) \in Nat /\ DOMAIN backlog = 1..Len(backlog)
    BY <2>3, <2>4, LenProperties
  <2>6. ~upgraded[h] /\ h \in Peers /\ h # None
    BY <1>0, <2>4, <2>5, Descriptors DEF UpgradeOK
  <2>7. /\ OpenFds' = OpenFds \cup {Lowest} /\ sock'[Lowest] = h
        /\ \A g \in OpenFds : sock'[g] = sock[g] /\ g # Lowest
    BY <2>1, <2>2, <2>3, <2>6 DEF OpenFds
  <2>8. \A f \in OpenFds' : upgraded'[sock'[f]] <=> ~(pc' = "handshake" /\ f = fd')
    <3>1. \A f \in OpenFds : upgraded[sock[f]]
      BY <2>2 DEF UpgradeOK
    <3> QED
      BY <2>2, <2>6, <2>7, <3>1
  <2>9. \A k \in DOMAIN backlog' : ~upgraded'[backlog'[k]]
    <3>1. \A k \in 1..Len(backlog) - 1 : k + 1 \in 1..Len(backlog)
      BY <2>5
    <3> QED
      BY <2>2, <2>4, <2>5, <3>1 DEF UpgradeOK
  <2> QED
    BY <1>1, <2>2, <2>8, <2>9 DEF UpgradeOK
<1>3. CASE ~Accept /\ ~Handshake /\ ~HandshakeEarly
  <2>1. /\ \A f \in OpenFds' : f \in OpenFds /\ sock'[f] = sock[f]
        /\ backlog' \in {backlog, <<>>}
        /\ pc' # "handshake"
    BY <1>3, OnlyAcceptOpens
  <2>2. upgraded' = upgraded
    BY <1>3 DEF ServerStep, Poll, Skip, EndScan, HandshakeFails, SendSkip, SendFrame, SendFrameFails, EndBroadcast,
       StartReceive, Idle, Disconnected, Ping, Unsupported, Misread, MoreData, MessageEnds, SendBinary, EndBinary
  <2>3. \A f \in OpenFds' : upgraded'[sock'[f]]
    <3>1. pc = "handshake" => fd \notin OpenFds'
      <4>1. pc = "handshake" => HandshakeFails
        BY <1>3 DEF ServerStep, Poll, Skip, AtSlot, EndScan, SendSkip, SendFrame, SendFrameFails, Broadcasting,
           EndBroadcast, StartReceive, Idle, Disconnected, Ping, Unsupported, Misread, MoreData, MessageEnds,
           IsData, Arrived, SendBinary, EndBinary
      <4>2. HandshakeFails => fd \notin OpenFds'
        <5>1. HandshakeFails => Close(fd) /\ fd \in ClientFds
          BY DEF HandshakeFails, ServerInv, SocketsOK, OpenFds
        <5>2. Close(fd) /\ fd \in ClientFds => OpenFds' = OpenFds \ {fd}
          BY SocketsClose DEF ServerInv
        <5> QED
          BY <5>1, <5>2
      <4> QED
        BY <4>1, <4>2
    <3> QED
      BY <2>1, <2>2, <3>1 DEF UpgradeOK
  <2>4. \A k \in DOMAIN backlog' : ~upgraded'[backlog'[k]]
    BY <2>1, <2>2 DEF UpgradeOK
  <2> QED
    BY <1>1, <2>1, <2>2, <2>3, <2>4 DEF UpgradeOK
<1>4. CASE Handshake \/ HandshakeEarly
  <2> DEFINE q == sock[fd]
  <2>1. /\ upgraded' = [upgraded EXCEPT ![q] = TRUE]
        /\ UNCHANGED <<sock, backlog, fd>> /\ pc = "handshake" /\ pc' # "handshake"
    BY <1>4 DEF Handshake, HandshakeEarly, Upgrade, Accepted
  <2>2. fd \in OpenFds /\ q \in Peers
    BY <1>0, <2>1 DEF ServerInv, SocketsOK
  <2>3. \A f \in OpenFds : upgraded'[sock[f]]
    <3>1. ASSUME NEW f \in OpenFds
          PROVE  upgraded'[sock[f]]
      <4>1. CASE f = fd
        BY <1>0, <2>1, <2>2, <4>1
      <4>2. CASE f # fd
        <5>1. upgraded[sock[f]] /\ sock[f] # q
          BY <2>1, <2>2, <4>2 DEF UpgradeOK, ServerInv, SocketsOK
        <5> QED
          BY <1>0, <2>1, <5>1
      <4> QED
        BY <4>1, <4>2
    <3> QED
      BY <3>1
  <2>4. \A k \in DOMAIN backlog : backlog[k] # q
    BY <2>2 DEF ServerInv, SocketsOK, OpenFds
  <2>5. link[q] # "idle"
    BY <2>2 DEF ServerInv, SocketsOK
  <2>6. \A x \in Peers : x # q => upgraded'[x] = upgraded[x]
    BY <1>0, <2>1
  <2>7. OpenFds' = OpenFds
    BY <2>1 DEF OpenFds
  <2>8. \A k \in DOMAIN backlog' : ~upgraded'[backlog'[k]]
    BY <1>0, <2>1, <2>4, <2>6 DEF UpgradeOK
  <2>9. \A x \in Peers : link'[x] = "idle" => ~upgraded'[x]
    BY <1>1, <2>5, <2>6 DEF UpgradeOK
  <2> QED
    BY <2>1, <2>3, <2>7, <2>8, <2>9 DEF UpgradeOK
<1> QED
  BY <1>2, <1>3, <1>4

\* A peer does not change who is upgraded.
LEMMA UpgradePeer ==
  ASSUME ServerInv, UpgradeOK, NEW p \in Peers, PeerStep(p)
  PROVE  UpgradeOK'
<1> USE DEF threadVars, peerVars
<1>1. UNCHANGED <<sock, pc, fd, upgraded>>
  BY DEF PeerStep, Connect, WriteRequest, WriteFrame, PingOn, WriteCut, Leave
<1>2. \A q \in Peers : link'[q] = "idle" => link[q] = "idle"
  BY NeverIdleAgain DEF ServerInv, Next
<1>3. CASE backlog' = backlog
  BY <1>1, <1>2, <1>3 DEF UpgradeOK, OpenFds
<1>4. CASE Connect(p)
  <2>1. backlog' = Append(backlog, p) /\ link[p] = "idle"
    BY <1>4 DEF Connect
  <2>2. backlog \in Seq(Peers)
    BY DEF ServerInv, Types
  <2>3. /\ backlog' \in Seq(Peers) /\ Len(backlog') = Len(backlog) + 1
        /\ \A k \in 1..Len(backlog) : backlog'[k] = backlog[k]
        /\ backlog'[Len(backlog) + 1] = p
        /\ Len(backlog) \in Nat /\ DOMAIN backlog = 1..Len(backlog)
    BY <2>1, <2>2, AppendProperties, LenProperties
  <2>4. DOMAIN backlog' = 1..Len(backlog) + 1
    BY <2>3, LenProperties
  <2>5. ASSUME NEW k \in DOMAIN backlog'
        PROVE  ~upgraded[backlog'[k]]
    <3>1. CASE k \in 1..Len(backlog)
      BY <2>3, <3>1 DEF UpgradeOK
    <3>2. CASE k = Len(backlog) + 1
      BY <2>1, <2>3, <3>2 DEF UpgradeOK
    <3> QED
      BY <2>3, <2>4, <3>1, <3>2
  <2> QED
    BY <1>1, <1>2, <2>5 DEF UpgradeOK, OpenFds
<1> QED
  BY <1>3, <1>4 DEF PeerStep, WriteRequest, WriteFrame, PingOn, WriteCut, Leave
-----------------------------------------------------------------------------
(* What the steps make of the streams.                                     *)

\* The part that the server reads next.
Unread(s, w) == PartAt(w, Len(w) - Len(s) + 1)
At(p) == Unread(stream[p], wrote[p])

\* After a data frame is read the next part is expected.
LEMMA UnreadTail ==
  ASSUME NEW s \in Seq(Frame), NEW w \in Seq(Frame), Suffix(s, w), s # <<>>
  PROVE  Unread(Tail(s), w) =
           IF Head(s).op \in DataOps
           THEN IF Head(s).fin THEN <<Head(s).part[1] + 1, 1>> ELSE <<Head(s).part[1], Head(s).part[2] + 1>>
           ELSE Unread(s, w)
<1> DEFINE n == Len(w) - Len(s) + 1
<1>1. n \in 1..Len(w) /\ Head(s) = w[n] /\ Len(Tail(s)) = Len(s) - 1
  BY SuffixTail
<1>2. Len(w) - Len(Tail(s)) + 1 = n + 1
  BY <1>1, LenProperties
<1> HIDE DEF n
<1>3. PartAt(w, n + 1) =
        IF w[n].op \in DataOps
        THEN IF w[n].fin THEN <<w[n].part[1] + 1, 1>> ELSE <<w[n].part[1], w[n].part[2] + 1>>
        ELSE PartAt(w, n)
  BY <1>1, PartNext
<1>4. Unread(Tail(s), w) = PartAt(w, n + 1) /\ Unread(s, w) = PartAt(w, n)
  BY <1>2 DEF Unread, n
<1> QED
  BY <1>1, <1>3, <1>4

\* What a peer writes behind it does not change what is read next.
LEMMA UnreadAppend ==
  ASSUME NEW s \in Seq(Frame), NEW w \in Seq(Frame), Suffix(s, w), NEW f \in Frame
  PROVE  Unread(Append(s, f), Append(w, f)) = Unread(s, w)
<1> DEFINE n == Len(w) - Len(s) + 1
<1>1. Len(Append(w, f)) = Len(w) + 1 /\ Len(Append(s, f)) = Len(s) + 1
  BY FrameAppended
<1>2. Len(w) \in Nat /\ Len(s) \in Nat /\ Len(s) <= Len(w)
  BY LenProperties DEF Suffix
<1>3. Len(Append(w, f)) - Len(Append(s, f)) + 1 = n /\ n \in 1..Len(w) + 1
  BY <1>1, <1>2
<1> HIDE DEF n
<1>4. PartAt(Append(w, f), n) = PartAt(w, n)
  BY <1>3, PartKept
<1> QED
  BY <1>3, <1>4 DEF Unread, n

\* The fewer frames are left, the later the message that is read next.
LEMMA UnreadGrows ==
  ASSUME NEW s \in Seq(Frame), NEW t \in Seq(Frame), NEW w \in Seq(Frame), Numbered(w),
         Len(t) <= Len(s), Len(s) <= Len(w)
  PROVE  Unread(s, w)[1] <= Unread(t, w)[1]
<1>1. Len(w) \in Nat /\ Len(s) \in Nat /\ Len(t) \in Nat
  BY LenProperties
<1>2. /\ Len(w) - Len(s) + 1 \in 1..Len(w) + 1 /\ Len(w) - Len(t) + 1 \in 1..Len(w) + 1
      /\ Len(w) - Len(s) + 1 <= Len(w) - Len(t) + 1
  BY <1>1
<1> QED
  BY <1>2 DEF Unread, Numbered

\* The next frame of a peer that writes whole frames and no pong.
LEMMA NextOrderly ==
  ASSUME Types, NEW p \in Peers, PeerOK(p), p \notin skipped, stream[p] # <<>>, upgraded[p]
  PROVE  \E n \in 1..Len(wrote[p]) :
           /\ Head(stream[p]) = wrote[p][n]
           /\ At(p) = PartAt(wrote[p], n)
           /\ Head(stream[p]).cut = "no"
           /\ Head(stream[p]).op \notin {"pong", "request", "bad request"}
           /\ Head(stream[p]).op = "close" => n = Len(wrote[p])
<1>1. stream[p] \in Seq(Frame) /\ wrote[p] \in Seq(Frame) /\ Suffix(stream[p], wrote[p])
  BY DEF Types, PeerOK
<1> DEFINE n == Len(wrote[p]) - Len(stream[p]) + 1
<1>2. n \in 1..Len(wrote[p]) /\ Head(stream[p]) = wrote[p][n]
  BY <1>1, SuffixTail
<1>3. n > 1
  <2>1. Len(stream[p]) < Len(wrote[p])
    BY DEF PeerOK
  <2>2. Len(stream[p]) \in Nat /\ Len(wrote[p]) \in Nat
    BY <1>1, LenProperties
  <2>3. \A a, b \in Nat : a < b => b - a + 1 > 1
    BY Arithmetic
  <2> QED
    BY <2>1, <2>2, <2>3
<1>4. At(p) = PartAt(wrote[p], n)
  BY DEF At, Unread
<1> HIDE DEF n
<1> QED
  BY <1>2, <1>3, <1>4 DEF PeerOK, Orderly

\* Sequences of one element.
LEMMA Singleton ==
  ASSUME NEW x
  PROVE  /\ Len(<<x>>) = 1 /\ <<x>>[1] = x /\ <<x>> # <<>> /\ Head(<<x>>) = x
         /\ Tail(<<x>>) = <<>> /\ Append(<<>>, x) = <<x>> /\ <<>> \o <<x>> = <<x>>
<1>1. <<x>> \in Seq({x}) /\ Len(<<x>>) = 1 /\ <<x>>[1] = x /\ <<x>> # <<>> /\ <<>> \in Seq({x})
  BY EmptySeq
<1>2. Tail(<<x>>) = <<>>
  <2>1. Tail(<<x>>) \in Seq({x}) /\ Len(Tail(<<x>>)) = 0
    BY <1>1, HeadTailProperties
  <2> QED
    BY <2>1, EmptySeq
<1>3. Append(<<>>, x) = <<x>>
  <2>1. Append(<<>>, x) \in Seq({x}) /\ Len(Append(<<>>, x)) = 1 /\ Append(<<>>, x)[1] = x
    BY <1>1, AppendProperties, EmptySeq
  <2>2. \A k \in 1..1 : k = 1
    OBVIOUS
  <2> QED
    BY <1>1, <2>1, <2>2, SeqEqual
<1>4. <<>> \o <<x>> = <<x>>
  BY <1>1, ConcatEmptySeq
<1>5. Head(<<x>>) = <<x>>[1]
  OBVIOUS
<1> QED
  BY <1>1, <1>2, <1>3, <1>4, <1>5

\* A peer appends to what it wrote and to its stream; the server reads from the
\* stream, and what else can happen to it comes of a frame that it cannot place.
StreamStep(p) ==
  \/ wrote'[p] = wrote[p] /\ stream'[p] \in {stream[p], <<>>}
  \/ wrote'[p] = wrote[p] /\ stream[p] # <<>> /\ stream'[p] = Tail(stream[p])
  \/ p \in skipped' /\ wrote'[p] = wrote[p]
  \/ \E f \in Frame : /\ wrote'[p] = Append(wrote[p], f)
                      /\ p \in skipped' \/ stream'[p] = Append(stream[p], f)

\* The server touches only the stream of the client that it reads.
LEMMA ServerStream ==
  ASSUME PeersInv, ServerStep
  PROVE  /\ wrote' = wrote
         /\ \A p \in Peers :
              \/ HandshakeEarly /\ p = sock[fd] /\ p \in skipped'
              \/ /\ p \in skipped' <=> p \in skipped
                 /\ \/ stream'[p] = stream[p]
                    \/ /\ stream[p] # <<>> /\ p = sock[fd] /\ fd \in OpenFds
                       /\ stream'[p] = Tail(stream[p])
                       /\ Handshake \/ Ping \/ MoreData \/ MessageEnds
                    \/ p \in skipped /\ upgraded[p]
<1> USE DEF threadVars, peerVars
<1>1. /\ wrote' = wrote
      /\ HandshakeEarly \/ skipped' = skipped
  BY DEF ServerStep, Poll, Skip, EndScan, Accept, Handshake, HandshakeEarly, Upgrade,
       HandshakeFails, SendSkip, SendFrame,
     SendFrameFails, EndBroadcast, StartReceive, Idle, Disconnected, Ping, Unsupported, Misread, MoreData, IsData,
     MessageEnds, SendBinary, EndBinary
<1>2. stream \in [Peers -> Seq(Frame)]
  BY DEF PeersInv, ServerInv, Types
<1>3. CASE Handshake
  <2> DEFINE q == sock[fd]
  <2>1. /\ stream' = [stream EXCEPT ![q] = <<>>] /\ stream[q] # <<>> /\ pc = "handshake" /\ skipped' = skipped
    BY <1>3 DEF Handshake, Upgrade, Asking
  <2>2. fd \in OpenFds /\ q \in Peers
    BY <2>1 DEF PeersInv, ServerInv, SocketsOK, OpenFds, Types
  <2>3. ~upgraded[q] /\ PeerOK(q)
    BY <2>1, <2>2 DEF PeersInv, UpgradeOK
  <2>4. PICK op \in {"request", "bad request"} : stream[q] = <<Request(op)>>
    BY <2>1, <2>3 DEF PeerOK
  <2>5. Tail(stream[q]) = <<>>
    BY <2>4, Singleton
  <2> QED
    BY <1>1, <1>2, <1>3, <2>1, <2>2, <2>5
<1>8. CASE HandshakeEarly
  <2>1. /\ \E g : stream' = [stream EXCEPT ![sock[fd]] = <<g>>]
        /\ skipped' = skipped \cup {sock[fd]}
    BY <1>8 DEF HandshakeEarly
  <2> QED
    BY <1>1, <1>2, <1>8, <2>1
<1>4. ASSUME Arrived
      PROVE  fd \in OpenFds /\ Peer \in Peers /\ upgraded[Peer] /\ stream[Peer] # <<>> /\ Peer = sock[fd]
  <2>1. fd \in ClientFds /\ ~Invalid(fd) /\ pc = "receive"
    BY <1>4 DEF Arrived, PeersInv, ServerInv, SocketsOK
  <2>2. fd \in OpenFds /\ sock[fd] \in Peers
    BY <2>1, PeerType DEF PeersInv, ServerInv
  <2> QED
    BY <1>4, <2>1, <2>2 DEF PeersInv, UpgradeOK, Peer, Arrived
<1>5. CASE Ping \/ MoreData \/ MessageEnds
  <2>1. Arrived /\ Consumed /\ skipped' = skipped
    BY <1>5 DEF Ping, MoreData, MessageEnds, IsData
  <2> QED
    BY <1>1, <1>2, <1>4, <1>5, <2>1 DEF Consumed
<1>6. CASE Unsupported \/ Misread
  <2>1. /\ Arrived /\ \A p \in Peers \ {Peer} : stream'[p] = stream[p]
        /\ Next1.op = "pong" \/ Next1.cut = "payload"
        /\ skipped' = skipped
    BY <1>2, <1>6 DEF Unsupported, Misread
  <2>2. Peer \in skipped
    BY <1>4, <2>1, NextOrderly DEF PeersInv, ServerInv, Next1
  <2> QED
    BY <1>1, <1>4, <2>1, <2>2
<1>7. CASE \/ Poll \/ Skip \/ EndScan \/ Accept \/ HandshakeFails \/ SendSkip \/ SendFrame \/ SendFrameFails
           \/ EndBroadcast \/ StartReceive \/ Idle \/ Disconnected \/ SendBinary \/ EndBinary
  <2>1. stream' = stream /\ skipped' = skipped
    BY <1>7 DEF Poll, Skip, EndScan, Accept, HandshakeFails, SendSkip, SendFrame, SendFrameFails, EndBroadcast,
       StartReceive, Idle, Disconnected, SendBinary, EndBinary
  <2> QED
    BY <1>1, <2>1
<1> QED
  BY <1>3, <1>5, <1>6, <1>7, <1>8 DEF ServerStep

\* The frames of a peer go to the end of its stream.
LEMMA PeerStream ==
  ASSUME PeersInv, NEW q \in Peers, PeerStep(q)
  PROVE  /\ skipped \subseteq skipped' /\ skipped' \subseteq skipped \cup {q} /\ upgraded' = upgraded
         /\ \A p \in Peers \ {q} : wrote'[p] = wrote[p] /\ stream'[p] = stream[p]
         /\ \/ /\ wrote' = wrote /\ skipped' = skipped /\ stream'[q] \in {stream[q], <<>>}
            \/ /\ skipped' = skipped /\ wrote[q] = <<>> /\ link[q] = "open"
               /\ \E op \in {"request", "bad request"} : /\ wrote'[q] = Append(wrote[q], Request(op))
                                                       /\ stream'[q] = Append(stream[q], Request(op))
            \/ /\ MayWrite(q)
               /\ \E f \in NextFrames(q) :
                    /\ wrote'[q] = Append(wrote[q], f) /\ stream'[q] = Append(stream[q], f)
                    /\ skipped' = IF f.op = "pong" THEN skipped \cup {q} ELSE skipped
            \/ /\ Speaks(q) /\ wrote' = wrote /\ q \in skipped'
<1> USE DEF threadVars, peerVars
<1>1. /\ stream \in [Peers -> Seq(Frame)] /\ wrote \in [Peers -> Seq(Frame)]
  BY DEF PeersInv, ServerInv, Types
<1>2. CASE Connect(q)
  BY <1>1, <1>2 DEF Connect
<1>3. CASE WriteRequest(q)
  BY <1>1, <1>3 DEF WriteRequest, Connected
<1>4. CASE WriteFrame(q)
  BY <1>1, <1>4 DEF WriteFrame
<1>5. CASE WriteCut(q)
  BY <1>1, <1>5 DEF WriteCut, MayWrite
<1>6. CASE Leave(q)
  BY <1>1, <1>6 DEF Leave
<1>7. CASE PingOn(q)
  BY <1>1, <1>7 DEF PingOn
<1> QED
  BY <1>2, <1>3, <1>4, <1>5, <1>6, <1>7 DEF PeerStep

\* Nothing written and nothing to read.
LEMMA Empty ==
  /\ <<>> \in Seq(Frame) /\ Len(<<>>) = 0
  /\ Numbered(<<>>) /\ Orderly(<<>>)
  /\ \A w \in Seq(Frame) : Suffix(<<>>, w)
<1>1. <<>> \in Seq(Frame) /\ Len(<<>>) = 0 /\ 1..0 = {}
  BY EmptySeq
<1>2. DataBefore(<<>>, 1) = {}
  BY DEF DataBefore
<1>3. PartAt(<<>>, 1) = <<1, 1>>
  BY <1>2 DEF PartAt
<1>4. 1..Len(<<>>) = {} /\ 1..Len(<<>>) + 1 = {1}
  BY <1>1
<1>5. Numbered(<<>>)
  <2>1. <<1, 1>> \in (Nat \ {0}) \X (Nat \ {0})
    OBVIOUS
  <2> QED
    BY <1>3, <1>4, <2>1 DEF Numbered
<1>6. ASSUME NEW w \in Seq(Frame)
      PROVE  Suffix(<<>>, w)
  <2>1. Len(w) \in Nat
    BY LenProperties
  <2> QED
    BY <1>1, <1>4, <2>1 DEF Suffix
<1> QED
  BY <1>1, <1>4, <1>5, <1>6 DEF Orderly

\* The request is written first.
LEMMA RequestWritten ==
  ASSUME NEW op \in {"request", "bad request"}
  PROVE  /\ Append(<<>>, Request(op)) = <<Request(op)>>
         /\ Numbered(<<Request(op)>>) /\ Orderly(<<Request(op)>>) /\ Len(<<Request(op)>>) = 1
         /\ Suffix(<<Request(op)>>, <<Request(op)>>)
<1> DEFINE f == Request(op)
<1>1. f \in Frame /\ f.op = op /\ f.cut = "no"
  BY Frames DEF Request
<1>2. f.op \notin DataOps /\ f.op # "pong" /\ f.op # "close"
  BY <1>1 DEF DataOps
<1> HIDE DEF f
<1>3. Append(<<>>, f) = <<f>> /\ Len(<<f>>) = 1 /\ <<f>>[1] = f
  BY Singleton
<1>4. Numbered(<<f>>)
  BY <1>1, <1>2, <1>3, Empty, NumberedAppend
<1>5. Suffix(<<f>>, <<f>>)
  BY <1>1, <1>3, Empty, SuffixAppend
<1>6. Orderly(<<f>>)
  <2>1. \A n \in 1..1 : n = 1
    BY Arithmetic
  <2> DEFINE w == <<f>>
  <2>2. Len(w) = 1 /\ w[1] = f
    BY <1>3
  <2> HIDE DEF w
  <2>3. ASSUME NEW n \in 1..1
        PROVE  /\ w[n].cut = "no" /\ w[n].op # "pong" /\ ~(n > 1) /\ w[n].op # "close"
    <3>1. n = 1 /\ ~(1 > 1)
      BY <2>1, Arithmetic
    <3> QED
      BY <1>1, <1>2, <2>2, <3>1
  <2>4. Orderly(w)
    BY <2>2, <2>3 DEF Orderly
  <2> QED
    BY <2>4 DEF w
<1> QED
  BY <1>3, <1>4, <1>5, <1>6 DEF f

\* Nobody has written anything at first.
LEMMA PeersInit == ASSUME Init PROVE PeersInv
<1>1. UpgradeOK
  BY Descriptors DEF Init, UpgradeOK, OpenFds
<1>2. \A p \in Peers : PeerOK(p)
  BY Empty DEF Init, PeerOK
<1> QED
  BY <1>1, <1>2, ServerInvInit DEF PeersInv

\* Reading takes nothing of what holds of a peer.
LEMMA PeerOKRead ==
  ASSUME Types, NEW p \in Peers, PeerOK(p), wrote'[p] = wrote[p], upgraded'[p] = upgraded[p],
         p \in skipped' <=> p \in skipped,
         \/ stream'[p] \in {stream[p], <<>>}
         \/ stream[p] # <<>> /\ stream'[p] = Tail(stream[p])
         \/ p \in skipped
  PROVE  PeerOK(p)'
<1> USE DEF PeerOK
<1>1. stream[p] \in Seq(Frame) /\ wrote[p] \in Seq(Frame)
  BY DEF Types
<1>2. Numbered(wrote'[p])
  OBVIOUS
<1>3. ~upgraded'[p] => \/ wrote'[p] = <<>> /\ stream'[p] = <<>>
                       \/ \E op \in {"request", "bad request"} :
                            wrote'[p] = <<Request(op)>> /\ stream'[p] \in {<<>>, <<Request(op)>>}
  BY Singleton
<1>4. ASSUME p \notin skipped
      PROVE  /\ Suffix(stream'[p], wrote[p])
             /\ upgraded[p] => Len(stream'[p]) < Len(wrote[p])
  <2>1. CASE stream'[p] = stream[p]
    BY <1>4, <2>1
  <2>2. CASE stream'[p] = <<>>
    <3>1. wrote[p] # <<>> => 0 < Len(wrote[p])
      <4>1. Len(wrote[p]) \in Nat /\ (Len(wrote[p]) = 0 => wrote[p] = <<>>)
        BY <1>1, EmptySeq, LenProperties
      <4> QED
        BY <4>1, Arithmetic
    <3> QED
      BY <1>1, <2>2, <3>1, Empty
  <2>3. CASE stream[p] # <<>> /\ stream'[p] = Tail(stream[p])
    <3>1. Suffix(stream'[p], wrote[p]) /\ Len(stream'[p]) = Len(stream[p]) - 1
      BY <1>1, <1>4, <2>3, SuffixTail
    <3>2. Len(stream[p]) \in Nat /\ Len(wrote[p]) \in Nat
      BY <1>1, LenProperties
    <3>3. \A a, b \in Nat : a < b => a - 1 < b
      BY Arithmetic
    <3>4. upgraded[p] => Len(stream[p]) < Len(wrote[p])
      BY <1>4
    <3> QED
      BY <3>1, <3>2, <3>3, <3>4
  <2> QED
    BY <1>4, <2>1, <2>2, <2>3
<1> QED
  BY <1>2, <1>3, <1>4

\* No step of the server spoils what holds of a peer.
LEMMA PeersServer ==
  ASSUME PeersInv, ServerStep, NEW p \in Peers
  PROVE  PeerOK(p)'
<1> USE DEF threadVars, peerVars
<1>0. Types /\ PeerOK(p) /\ upgraded \in [Peers -> BOOLEAN]
  BY DEF PeersInv, ServerInv, Types
<1>1. /\ wrote' = wrote
      /\ \/ HandshakeEarly /\ p = sock[fd] /\ p \in skipped'
         \/ /\ p \in skipped' <=> p \in skipped
            /\ \/ stream'[p] = stream[p]
               \/ stream[p] # <<>> /\ stream'[p] = Tail(stream[p])
               \/ p \in skipped
  BY ServerStream
<1>2. CASE upgraded'[p] = upgraded[p] /\ ~(HandshakeEarly /\ p = sock[fd])
  BY <1>0, <1>1, <1>2, PeerOKRead
<1>3. CASE (Handshake \/ HandshakeEarly) /\ p = sock[fd]
  <2>1. upgraded'[p] = TRUE /\ stream[p] # <<>> /\ pc = "handshake"
    BY <1>0, <1>3 DEF Handshake, HandshakeEarly, Upgrade, Asking
  <2>2. ~upgraded[p]
    BY <1>3, <2>1 DEF PeersInv, UpgradeOK, ServerInv, SocketsOK
  <2>3. PICK op \in {"request", "bad request"} : wrote[p] = <<Request(op)>> /\ stream[p] = <<Request(op)>>
    BY <1>0, <2>1, <2>2 DEF PeerOK
  <2>4. wrote[p] # <<>>
    BY <2>3, Singleton
  <2>5. Suffix(<<>>, wrote[p]) /\ Len(<<>>) = 0 /\ Orderly(wrote[p]) /\ Numbered(wrote[p]) /\ Len(wrote[p]) = 1
    BY <1>0, <2>3, Empty, RequestWritten DEF Types
  <2>6. CASE Handshake
    <3>1. stream'[p] = <<>> /\ 0 < 1
      BY <1>0, <1>3, <2>6, Arithmetic DEF Handshake, Types
    <3> QED
      BY <1>1, <2>1, <2>4, <2>5, <3>1 DEF PeerOK
  <2>7. CASE HandshakeEarly
    <3>1. p \in skipped'
      BY <1>3, <2>7 DEF HandshakeEarly
    <3> QED
      BY <1>1, <2>1, <2>4, <2>5, <3>1 DEF PeerOK
  <2> QED
    BY <1>3, <2>6, <2>7
<1>4. CASE (Handshake \/ HandshakeEarly) /\ p # sock[fd]
  BY <1>0, <1>2, <1>4 DEF Handshake, HandshakeEarly, Upgrade
<1>5. CASE ~Handshake /\ ~HandshakeEarly
  <2>1. upgraded' = upgraded
    BY <1>5 DEF ServerStep, Poll, Skip, EndScan, Accept, HandshakeFails, SendSkip, SendFrame, SendFrameFails, EndBroadcast,
       StartReceive, Idle, Disconnected, Ping, Unsupported, Misread, MoreData, MessageEnds, SendBinary, EndBinary
  <2> QED
    BY <1>2, <1>5, <2>1
<1> QED
  BY <1>3, <1>4, <1>5

\* No step of a peer spoils what holds of it or of another one.
LEMMA PeersPeer ==
  ASSUME PeersInv, NEW q \in Peers, PeerStep(q), NEW p \in Peers
  PROVE  PeerOK(p)'
<1>0. /\ Types /\ PeerOK(p) /\ upgraded' = upgraded
      /\ stream[p] \in Seq(Frame) /\ wrote[p] \in Seq(Frame) /\ Len(wrote[p]) \in Nat
  BY PeerStream, LenProperties DEF PeersInv, ServerInv, Types
<1>1. CASE wrote'[p] = wrote[p] /\ stream'[p] \in {stream[p], <<>>} /\ skipped' = skipped
  BY <1>0, <1>1, PeerOKRead
<1>2. CASE p # q
  <2>1. /\ wrote'[p] = wrote[p] /\ stream'[p] = stream[p]
        /\ p \in skipped' <=> p \in skipped
    BY <1>2, PeerStream
  <2> QED
    BY <1>0, <2>1 DEF PeerOK
<1>3. CASE /\ p = q /\ skipped' = skipped /\ wrote[q] = <<>>
           /\ \E op \in {"request", "bad request"} : /\ wrote'[q] = Append(wrote[q], Request(op))
                                                   /\ stream'[q] = Append(stream[q], Request(op))
  <2>1. ~upgraded[p] /\ stream[p] = <<>> /\ p \notin skipped
    <3>1. \A op : <<Request(op)>> # <<>>
      BY Singleton
    <3> QED
      BY <1>0, <1>3, <3>1 DEF PeerOK
  <2>2. PICK op \in {"request", "bad request"} : wrote'[p] = <<Request(op)>> /\ stream'[p] = <<Request(op)>>
    BY <1>3, <2>1, RequestWritten
  <2>3. Numbered(wrote'[p]) /\ Orderly(wrote'[p]) /\ Suffix(stream'[p], wrote'[p])
    BY <2>2, RequestWritten
  <2> QED
    BY <1>0, <1>3, <2>1, <2>2, <2>3 DEF PeerOK
<1>4. CASE /\ p = q /\ MayWrite(q)
           /\ \E f \in NextFrames(q) :
                /\ wrote'[q] = Append(wrote[q], f) /\ stream'[q] = Append(stream[q], f)
                /\ skipped' = IF f.op = "pong" THEN skipped \cup {q} ELSE skipped
  <2>1. PICK f \in NextFrames(p) :
          /\ wrote'[p] = Append(wrote[p], f) /\ stream'[p] = Append(stream[p], f)
          /\ skipped' = IF f.op = "pong" THEN skipped \cup {p} ELSE skipped
    BY <1>4
  <2>2. upgraded[p] /\ wrote[p] # <<>> /\ Last(wrote[p]).op # "close"
    BY <1>0, <1>4 DEF MayWrite, Speaks, PeerOK
  <2>3. f \in Frame /\ f.cut = "no"
    BY <1>0, NextFramesType
  <2>4. /\ f.op \notin {"request", "bad request"}
        /\ f.op \in DataOps =>
             f.part = PartAt(wrote[p], Len(wrote[p]) + 1)
               /\ (f.op = "cont" <=> PartAt(wrote[p], Len(wrote[p]) + 1)[2] > 1)
    BY DEF NextFrames, NextPart, DataOps
  <2>5. Numbered(Append(wrote[p], f))
    BY <1>0, <2>3, <2>4, NumberedAppend DEF PeerOK
  <2>6. Append(wrote[p], f) # <<>>
    BY <1>0, <2>3, FrameAppended, EmptySeq
  <2>7. ASSUME p \notin skipped'
        PROVE  /\ Suffix(Append(stream[p], f), Append(wrote[p], f))
               /\ Orderly(Append(wrote[p], f))
               /\ Len(Append(stream[p], f)) < Len(Append(wrote[p], f))
    <3>1. p \notin skipped /\ f.op # "pong"
      BY <2>1, <2>7
    <3>2. Suffix(stream[p], wrote[p]) /\ Orderly(wrote[p]) /\ Len(stream[p]) < Len(wrote[p])
      BY <1>0, <2>2, <3>1 DEF PeerOK
    <3>3. Suffix(Append(stream[p], f), Append(wrote[p], f))
      BY <1>0, <2>3, <3>2, SuffixAppend
    <3>4. Orderly(Append(wrote[p], f))
      BY <1>0, <2>2, <2>3, <2>4, <3>1, <3>2, OrderlyAppend
    <3>5. Len(Append(stream[p], f)) = Len(stream[p]) + 1 /\ Len(Append(wrote[p], f)) = Len(wrote[p]) + 1
      BY <1>0, <2>3, FrameAppended
    <3>6. Len(stream[p]) \in Nat /\ \A a, b \in Nat : a < b => a + 1 < b + 1
      BY <1>0, LenProperties, Arithmetic
    <3> QED
      BY <1>0, <3>2, <3>3, <3>4, <3>5, <3>6
  <2> QED
    BY <1>0, <2>1, <2>2, <2>5, <2>6, <2>7 DEF PeerOK
<1>5. CASE p = q /\ Speaks(q) /\ wrote' = wrote /\ q \in skipped'
  BY <1>0, <1>5 DEF PeerOK, Speaks
<1> QED
  BY <1>1, <1>2, <1>3, <1>4, <1>5, PeerStream

\* Requests come first, the upgrade once, and what the server has not read of a
\* peer is the end of what the peer wrote.
LEMMA PeersInvariant == Spec => []PeersInv
<1>1. Init => PeersInv
  BY PeersInit
<1>2. PeersInv /\ [Next]_vars => PeersInv'
  <2> SUFFICES ASSUME PeersInv, [Next]_vars
               PROVE  PeersInv'
    OBVIOUS
  <2>1. ServerInv'
    BY ServerInvStep DEF PeersInv
  <2>2. CASE ServerStep
    BY <2>1, <2>2, UpgradeServer, PeersServer DEF PeersInv
  <2>3. ASSUME NEW q \in Peers, PeerStep(q)
        PROVE  PeersInv'
    BY <2>1, <2>3, UpgradePeer, PeersPeer DEF PeersInv
  <2>4. CASE UNCHANGED vars
    BY <2>1, <2>4 DEF vars, threadVars, peerVars, PeersInv, UpgradeOK, OpenFds, PeerOK
  <2> QED
    BY <2>2, <2>3, <2>4 DEF Next
<1> QED
  BY <1>1, <1>2, PTL DEF Spec

-----------------------------------------------------------------------------
(* Who is cut off.                                                         *)

\* Until the server exits, a socket is lost in three places only.
LEMMA WhoCloses ==
  ASSUME ServerInv, Next, NEW f \in OpenFds, sock'[f] = None, pc' # "exited"
  PROVE  \/ HandshakeFails /\ f = fd
         \/ SendFrameFails /\ j <= Len(slots) /\ f = slots[j].fd
         \/ Disconnected /\ f = fd
<1> USE DEF threadVars, peerVars
<1>1. /\ f \in ClientFds /\ sock[f] \in Peers /\ sock \in [ClientFds -> Peers \cup {None}]
      /\ sock[f] # None /\ None \notin Peers
  BY Descriptors DEF ServerInv, Types, OpenFds
<1>2. \A g \in {ServerFd} \cup ClientFds : Close(g) => f = g
  BY <1>1, SocketsClose DEF ServerInv, OpenFds
<1>3. CASE HandshakeFails
  BY <1>2, <1>3 DEF HandshakeFails, ServerInv, SocketsOK, OpenFds
<1>4. CASE SendFrameFails
  <2>1. j \in 1..Len(slots) /\ Close(slots[j].fd)
    BY <1>4, ListContext DEF SendFrameFails, Broadcasting, CloseAndDelete, ServerInv
  <2>2. slots[j].fd \in {ServerFd} \cup ClientFds
    BY <2>1, ListContext DEF ServerInv
  <2> QED
    BY <1>2, <1>4, <2>1, <2>2
<1>5. CASE Disconnected
  BY <1>2, <1>5 DEF Disconnected, CloseAndDelete, ServerInv, SocketsOK
<1>6. CASE Accept
  <2>1. sock' = [sock EXCEPT ![Lowest] = Head(backlog)] /\ backlog # <<>>
    BY <1>6 DEF Accept
  <2>2. Head(backlog) \in Peers
    BY <2>1, HeadTailProperties DEF ServerInv, Types
  <2> QED
    BY <1>1, <2>1, <2>2
<1>7. ~EndScan
  <2>1. EndScan => pc' = "exited" \/ sock' = sock
    BY DEF EndScan
  <2> QED
    BY <1>1, <2>1
<1>8. CASE \/ Poll \/ Skip \/ Handshake \/ HandshakeEarly \/ SendSkip \/ SendFrame \/ EndBroadcast
           \/ StartReceive \/ Idle \/ Ping \/ Unsupported \/ Misread \/ MoreData \/ MessageEnds \/ SendBinary \/ EndBinary
  <2>1. sock' = sock
    BY <1>8 DEF Poll, Skip, Handshake, HandshakeEarly, Upgrade, SendSkip, SendFrame, EndBroadcast, StartReceive, Idle, Ping, Unsupported,
       Misread, MoreData, MessageEnds, SendBinary, EndBinary
  <2> QED
    BY <1>1, <2>1
<1>9. ASSUME NEW q \in Peers, PeerStep(q)
      PROVE  FALSE
  <2>1. sock' = sock
    BY <1>9 DEF PeerStep, Connect, WriteRequest, WriteFrame, PingOn, WriteCut, Leave
  <2> QED
    BY <1>1, <2>1
<1> QED
  BY <1>3, <1>4, <1>5, <1>6, <1>7, <1>8, <1>9 DEF Next, ServerStep

\* The server cuts off only peers that left, sent a close frame or bytes that it cannot
\* place, or whose request it did not answer: HandshakeFails, the failed send of a
\* broadcast and the end of receive_text_frame are justified each.
THEOREM NobodySilentDropped == Spec => DropsOnlyTheGone
<1>1. PeersInv /\ [Next]_vars =>
        \A f \in ClientFds : sock[f] # None /\ sock'[f] = None /\ pc' # "exited" =>
          LET p == sock[f] IN
            \/ link[p] \in {"fin", "rst"} \/ p \in skipped
            \/ wrote[p] # <<>> /\ Last(wrote[p]).op = "close"
            \/ ~upgraded[p] /\ stream[p] # <<>>
  <2> SUFFICES ASSUME PeersInv, Next, NEW f \in OpenFds, sock'[f] = None, pc' # "exited",
                      sock[f] \notin skipped
               PROVE  \/ link[sock[f]] \in {"fin", "rst"}
                      \/ wrote[sock[f]] # <<>> /\ Last(wrote[sock[f]]).op = "close"
                      \/ ~upgraded[sock[f]] /\ stream[sock[f]] # <<>>
    BY DEF OpenFds, vars
  <2> DEFINE p == sock[f]
  <2>0. /\ p \in Peers /\ Types /\ PeerOK(p) /\ link[p] \in {"open", "fin", "rst"} /\ f \in ClientFds /\ p # None
    BY Descriptors DEF PeersInv, ServerInv, SocketsOK, Types, OpenFds
  <2>1. CASE HandshakeFails /\ f = fd
    <3>1. ~upgraded[p] /\ p = sock[fd]
      BY <2>1 DEF HandshakeFails, PeersInv, UpgradeOK
    <3>2. CASE link[p] # "open"
      BY <2>0, <3>2
    <3>3. CASE link[p] = "open"
      BY <2>1, <3>1, <3>3 DEF HandshakeFails, Asking
    <3> QED
      BY <3>2, <3>3
  <2>2. CASE SendFrameFails /\ f = slots[j].fd
    <3>1. f # ServerFd /\ ~Invalid(f)
      BY <2>0, Descriptors DEF Invalid
    <3> QED
      BY <2>2, <3>1 DEF SendFrameFails, SendFails
  <2>3. CASE Disconnected /\ f = fd
    <3>1. ~Invalid(fd) /\ Peer = p /\ pc = "receive"
      BY <2>0, <2>3, Descriptors DEF Invalid, Peer, Disconnected
    <3>2. CASE link[p] \in {"fin", "rst"}
      BY <3>2
    <3>3. CASE Arrived /\ Next1.op = "close"
      <4>1. stream[p] # <<>> /\ Next1 = Head(stream[p]) /\ upgraded[p]
        BY <2>3, <3>1, <3>3 DEF Arrived, Next1, PeersInv, UpgradeOK
      <4>2. Head(stream[p]) = wrote[p][Len(wrote[p])] /\ Len(wrote[p]) \in 1..Len(wrote[p])
        BY <2>0, <3>3, <4>1, NextOrderly
      <4>3. wrote[p] # <<>>
        BY <2>0, <4>1 DEF PeerOK
      <4> QED
        BY <3>3, <4>1, <4>2, <4>3 DEF Last
    <3> QED
      BY <2>3, <3>1, <3>2, <3>3 DEF Disconnected, Ended
  <2> QED
    BY <2>1, <2>2, <2>3, WhoCloses DEF PeersInv
<1> QED
  BY <1>1, PeersInvariant, PTL DEF Spec, DropsOnlyTheGone

-----------------------------------------------------------------------------
(* The message that is put together.                                       *)

\* The buffer is empty whenever no client is read and nothing is relayed.
Quiet ==
  /\ pc \notin {"receive", "broadcast", "binary"} => opcode = "none" /\ parts = <<>>
  /\ pc \in {"broadcast", "binary"} => opcode # "none"

\* Somebody wrote the first frame of message a with this opcode.
FirstWritten(w, a, op) == \E n \in DOMAIN w : w[n].part = <<a, 1>> /\ w[n].op = op

\* While a client is read, the buffer holds the parts of its message before the
\* frame that comes next, or nothing: frames may have been dropped, but never some
\* in the middle.
Partial ==
  pc = "receive" /\ fd \in OpenFds /\ Peer \notin skipped /\ link[Peer] # "rst" =>
    /\ opcode = "none" => parts = <<>> \/ At(Peer)[2] > 1
    /\ opcode # "none" => /\ At(Peer)[2] > 1
                          /\ Len(parts) = At(Peer)[2] - 1
                          /\ \A x \in 1..Len(parts) : parts[x] = <<At(Peer)[1], x>>
                          /\ FirstWritten(wrote[Peer], At(Peer)[1], opcode)

\* The message that is relayed, with those its author had relayed before.
Relaying ==
  pc \in {"broadcast", "binary"} /\ Peer \notin skipped =>
    /\ IsMessage(Message)
    /\ parts[1][1] < At(Peer)[1]
    /\ \A q \in Peers : \A n \in DOMAIN got[q] :
         got[q][n].from = Peer => got[q][n].parts[1][1] <= parts[1][1]

\* What was relayed lies before what is read next.
GotOK ==
  \A q \in Peers : \A n \in DOMAIN got[q] :
    /\ got[q][n].from # q
    /\ got[q][n].from \notin skipped => /\ IsMessage(got[q][n])
                                       /\ got[q][n].parts[1][1] < At(got[q][n].from)[1]

\* All that is known of the messages, with the server and its peers.
MessageInv == PeersInv /\ Quiet /\ Partial /\ Relaying /\ GotOK /\ RelayedInOrder

\* What is read next has a number.
LEMMA AtType ==
  ASSUME Types, NEW p \in Peers, PeerOK(p), p \notin skipped
  PROVE  At(p) \in (Nat \ {0}) \X (Nat \ {0})
<1>1. Len(stream[p]) \in Nat /\ Len(wrote[p]) \in Nat /\ Len(stream[p]) <= Len(wrote[p])
  BY LenProperties DEF Types, PeerOK, Suffix
<1>2. Len(wrote[p]) - Len(stream[p]) + 1 \in 1..Len(wrote[p]) + 1
  BY <1>1, Arithmetic
<1> QED
  BY <1>2 DEF At, Unread, PeerOK, Numbered

\* A peer whose connection is not reset only appends.
LEMMA PeerStreamLive ==
  ASSUME PeersInv, NEW q \in Peers, PeerStep(q), NEW p \in Peers, p \notin skipped', link'[p] # "rst"
  PROVE  /\ p \notin skipped
         /\ \/ wrote'[p] = wrote[p] /\ stream'[p] = stream[p]
            \/ \E f \in Frame : wrote'[p] = Append(wrote[p], f) /\ stream'[p] = Append(stream[p], f)
<1>0. stream \in [Peers -> Seq(Frame)] /\ wrote \in [Peers -> Seq(Frame)] /\ link \in [Peers -> {"idle", "open", "fin", "rst", "dropped"}]
  BY DEF PeersInv, ServerInv, Types
<1>1. CASE q # p
  BY <1>1, PeerStream
<1>2. CASE Connect(p)
  BY <1>2 DEF Connect
<1>3. CASE WriteRequest(p)
  BY <1>0, <1>3, Frames DEF WriteRequest
<1>4. CASE WriteFrame(p)
  <2>1. PICK f \in NextFrames(p) :
          /\ stream' = [stream EXCEPT ![p] = Append(@, f)]
          /\ wrote' = [wrote EXCEPT ![p] = Append(@, f)]
          /\ skipped' = IF f.op = "pong" THEN skipped \cup {p} ELSE skipped
    BY <1>4 DEF WriteFrame
  <2>2. f \in Frame
    BY NextFramesType DEF PeersInv, ServerInv
  <2> QED
    BY <1>0, <2>1, <2>2
<1>5. CASE WriteCut(p)
  BY <1>5 DEF WriteCut
<1>6. CASE Leave(p)
  BY <1>0, <1>6 DEF Leave
<1>7. CASE PingOn(p)
  BY <1>7 DEF PingOn
<1> QED
  BY <1>1, <1>2, <1>3, <1>4, <1>5, <1>6, <1>7 DEF PeerStep

\* In every step a peer that wrote whole frames and no pong goes on in its messages,
\* and what it wrote stays written.
LEMMA StreamGoesOn ==
  ASSUME PeersInv, [Next]_vars, NEW p \in Peers, p \notin skipped'
  PROVE  /\ p \notin skipped
         /\ \/ wrote'[p] = wrote[p] /\ stream'[p] = stream[p]
            \/ wrote'[p] = wrote[p] /\ stream'[p] = <<>> /\ link'[p] = "rst"
            \/ /\ wrote'[p] = wrote[p] /\ stream[p] # <<>> /\ stream'[p] = Tail(stream[p])
               /\ p = sock[fd]
               /\ Handshake \/ Ping \/ MoreData \/ MessageEnds
            \/ \E f \in Frame : wrote'[p] = Append(wrote[p], f) /\ stream'[p] = Append(stream[p], f)
<1>0. stream \in [Peers -> Seq(Frame)] /\ wrote \in [Peers -> Seq(Frame)] /\ link \in [Peers -> {"idle", "open", "fin", "rst", "dropped"}]
  BY DEF PeersInv, ServerInv, Types
<1>1. CASE ServerStep
  BY <1>1, ServerStream
<1>2. CASE UNCHANGED vars
  BY <1>2 DEF vars, peerVars
<1>3. ASSUME NEW q \in Peers, PeerStep(q), q # p
      PROVE  p \notin skipped /\ wrote'[p] = wrote[p] /\ stream'[p] = stream[p]
  BY <1>3, PeerStream
<1>4. ASSUME PeerStep(p), link'[p] # "rst"
      PROVE  /\ p \notin skipped
             /\ \/ wrote'[p] = wrote[p] /\ stream'[p] = stream[p]
                \/ \E f \in Frame : wrote'[p] = Append(wrote[p], f) /\ stream'[p] = Append(stream[p], f)
  BY <1>4, PeerStreamLive
<1>5. ASSUME PeerStep(p), link'[p] = "rst"
      PROVE  p \notin skipped /\ wrote'[p] = wrote[p] /\ stream'[p] \in {stream[p], <<>>}
  BY <1>0, <1>5 DEF PeerStep, Connect, WriteRequest, WriteFrame, MayWrite, Speaks, Connected, PingOn, WriteCut, Leave
<1> QED
  BY <1>1, <1>2, <1>3, <1>4, <1>5 DEF Next

\* In every step a peer that wrote whole frames and no pong stays at its message or
\* goes on to a later one.
LEMMA AtGrows ==
  ASSUME PeersInv, [Next]_vars, NEW p \in Peers, p \notin skipped'
  PROVE  /\ p \notin skipped
         /\ At(p) \in (Nat \ {0}) \X (Nat \ {0}) /\ At(p)' \in (Nat \ {0}) \X (Nat \ {0})
         /\ At(p)[1] <= At(p)'[1]
<1>0. /\ p \notin skipped
      /\ stream[p] \in Seq(Frame) /\ wrote[p] \in Seq(Frame)
      /\ Suffix(stream[p], wrote[p]) /\ Numbered(wrote[p])
  BY StreamGoesOn DEF PeersInv, ServerInv, Types, PeerOK
<1>1. Len(stream[p]) \in Nat /\ Len(wrote[p]) \in Nat /\ Len(stream[p]) <= Len(wrote[p])
  BY <1>0, LenProperties DEF Suffix
<1>2. At(p) \in (Nat \ {0}) \X (Nat \ {0})
  BY <1>0, AtType DEF PeersInv, ServerInv
<1>3. At(p)' = Unread(stream'[p], wrote'[p]) /\ At(p) = Unread(stream[p], wrote[p])
  BY DEF At
<1>4. ASSUME At(p)' = At(p)
      PROVE  At(p)' \in (Nat \ {0}) \X (Nat \ {0}) /\ At(p)[1] <= At(p)'[1]
  <2>1. At(p)[1] \in Nat
    BY <1>2
  <2> QED
    BY <1>2, <1>4, <2>1, Arithmetic
<1>5. ASSUME NEW t \in Seq(Frame), wrote'[p] = wrote[p], stream'[p] = t, Len(t) <= Len(stream[p])
      PROVE  At(p)' \in (Nat \ {0}) \X (Nat \ {0}) /\ At(p)[1] <= At(p)'[1]
  <2>1. Unread(stream[p], wrote[p])[1] <= Unread(t, wrote[p])[1]
    BY <1>0, <1>1, <1>5, UnreadGrows
  <2>2. Len(wrote[p]) - Len(t) + 1 \in 1..Len(wrote[p]) + 1
    BY <1>1, <1>5, LenProperties
  <2>3. Unread(t, wrote[p]) \in (Nat \ {0}) \X (Nat \ {0})
    BY <1>0, <2>2 DEF Unread, Numbered
  <2> QED
    BY <1>3, <1>5, <2>1, <2>3
<1>6. CASE wrote'[p] = wrote[p] /\ stream'[p] = <<>>
  <2>1. Len(<<>>) <= Len(stream[p]) /\ <<>> \in Seq(Frame)
    BY <1>1, Empty, Arithmetic
  <2> QED
    BY <1>0, <1>2, <1>5, <1>6, <2>1
<1>7. CASE wrote'[p] = wrote[p] /\ stream[p] # <<>> /\ stream'[p] = Tail(stream[p])
  <2>1. Tail(stream[p]) \in Seq(Frame) /\ Len(Tail(stream[p])) = Len(stream[p]) - 1
    BY <1>0, <1>7, HeadTailProperties
  <2>2. Len(Tail(stream[p])) <= Len(stream[p])
    BY <1>1, <2>1, Arithmetic
  <2> QED
    BY <1>0, <1>2, <1>5, <1>7, <2>1, <2>2
<1>8. ASSUME NEW f \in Frame, wrote'[p] = Append(wrote[p], f), stream'[p] = Append(stream[p], f)
      PROVE  At(p)' = At(p)
  BY <1>0, <1>3, <1>8, UnreadAppend
<1>9. wrote'[p] = wrote[p] /\ stream'[p] = stream[p] => At(p)' = At(p)
  BY <1>3
<1> QED
  BY <1>0, <1>2, <1>4, <1>6, <1>7, <1>8, <1>9, StreamGoesOn

\* What a peer wrote stays in its place.
LEMMA WrittenKept ==
  ASSUME PeersInv, [Next]_vars, NEW p \in Peers, p \notin skipped', NEW n \in DOMAIN wrote[p]
  PROVE  n \in DOMAIN wrote'[p] /\ wrote'[p][n] = wrote[p][n]
<1>1. wrote[p] \in Seq(Frame)
  BY DEF PeersInv, ServerInv, Types
<1>2. ASSUME NEW f \in Frame, wrote'[p] = Append(wrote[p], f)
      PROVE  n \in DOMAIN wrote'[p] /\ wrote'[p][n] = wrote[p][n]
  <2>1. /\ Append(wrote[p], f) \in Seq(Frame) /\ Len(Append(wrote[p], f)) = Len(wrote[p]) + 1
        /\ \A m \in 1..Len(wrote[p]) : Append(wrote[p], f)[m] = wrote[p][m]
    BY <1>1, FrameAppended
  <2>2. /\ n \in 1..Len(wrote[p]) /\ Len(wrote[p]) \in Nat
        /\ DOMAIN Append(wrote[p], f) = 1..Len(wrote[p]) + 1
    BY <1>1, <2>1, LenProperties
  <2>3. \A a \in Nat : \A x \in 1..a : x \in 1..a + 1
    OBVIOUS
  <2>4. n \in 1..Len(wrote[p]) + 1
    BY <2>2, <2>3
  <2> QED
    BY <1>2, <2>1, <2>2, <2>4
<1> QED
  BY <1>2, StreamGoesOn

\* A message stays one, whatever its author writes after it.
LEMMA MessageKept ==
  ASSUME PeersInv, [Next]_vars, NEW m \in MessageSet, m.from \notin skipped', IsMessage(m)
  PROVE  IsMessage(m)'
<1>1. m.from \in Peers
  BY DEF MessageSet
<1>2. \A n \in DOMAIN wrote[m.from] : n \in DOMAIN wrote'[m.from] /\ wrote'[m.from][n] = wrote[m.from][n]
  BY <1>1, WrittenKept
<1> QED
  BY <1>2 DEF IsMessage

\* The first frame of a message stays written.
LEMMA FirstKept ==
  ASSUME PeersInv, [Next]_vars, NEW p \in Peers, p \notin skipped', NEW a, NEW op, FirstWritten(wrote[p], a, op)
  PROVE  FirstWritten(wrote'[p], a, op)
<1>1. \A n \in DOMAIN wrote[p] : n \in DOMAIN wrote'[p] /\ wrote'[p][n] = wrote[p][n]
  BY WrittenKept
<1> QED
  BY <1>1 DEF FirstWritten

\* Messages have a number.
LEMMA MessageNumber ==
  ASSUME NEW m \in MessageSet, m.parts # <<>>
  PROVE  m.parts[1][1] \in Nat
<1>1. m.parts \in Seq(Nat \X Nat)
  BY DEF MessageSet
<1>2. m.parts[1] \in Nat \X Nat
  <2>1. Len(m.parts) \in Nat /\ Len(m.parts) # 0
    BY <1>1, EmptySeq, LenProperties
  <2>2. 1 \in 1..Len(m.parts)
    BY <2>1
  <2> QED
    BY <1>1, <2>2, ElementOfSeq
<1> QED
  BY <1>2

\* What was relayed once stays in order.
LEMMA GotKept ==
  ASSUME MessageInv, [Next]_vars, NEW q \in Peers, NEW n \in DOMAIN got[q], NEW m, m = got[q][n]
  PROVE  /\ m \in MessageSet /\ m.from \in Peers /\ m.from # q
         /\ m.from \notin skipped' => /\ m.from \notin skipped
                                     /\ IsMessage(m)'
                                     /\ m.parts[1][1] \in Nat
                                     /\ m.parts[1][1] < At(m.from)'[1]
<1>1. m \in MessageSet
  BY LenProperties, ElementOfSeq DEF MessageInv, PeersInv, ServerInv, Types
<1>2. m.from \in Peers /\ m.from # q
  BY <1>1 DEF MessageSet, MessageInv, GotOK
<1>3. ASSUME m.from \notin skipped'
      PROVE  /\ m.from \notin skipped /\ IsMessage(m)'
             /\ m.parts[1][1] \in Nat /\ m.parts[1][1] < At(m.from)'[1]
  <2>1. /\ m.from \notin skipped
        /\ At(m.from) \in (Nat \ {0}) \X (Nat \ {0}) /\ At(m.from)' \in (Nat \ {0}) \X (Nat \ {0})
        /\ At(m.from)[1] <= At(m.from)'[1]
    BY <1>2, <1>3, AtGrows DEF MessageInv
  <2>2. IsMessage(m) /\ m.parts[1][1] < At(m.from)[1]
    BY <2>1 DEF MessageInv, GotOK
  <2>3. IsMessage(m)'
    BY <1>1, <1>3, <2>2, MessageKept DEF MessageInv
  <2>4. m.parts[1][1] \in Nat
    BY <1>1, <2>2, MessageNumber DEF IsMessage
  <2>5. At(m.from)[1] \in Nat /\ At(m.from)'[1] \in Nat
    BY <2>1
  <2>6. \A a, b, c \in Nat : a < b /\ b <= c => a < c
    OBVIOUS
  <2> QED
    BY <2>1, <2>2, <2>3, <2>4, <2>5, <2>6
<1> QED
  BY <1>1, <1>2, <1>3

\* Steps that deliver nothing keep what was relayed in order.
LEMMA GotUnchanged ==
  ASSUME MessageInv, [Next]_vars, got' = got
  PROVE  GotOK' /\ RelayedInOrder'
<1>1. GotOK'
  <2>1. ASSUME NEW q \in Peers, NEW n \in DOMAIN got'[q], NEW m, m = got'[q][n]
        PROVE  m.from # q /\ (m.from \notin skipped' => IsMessage(m)' /\ m.parts[1][1] < At(m.from)'[1])
    BY <2>1, GotKept
  <2> QED
    BY <2>1 DEF GotOK
<1>2. RelayedInOrder'
  <2>1. ASSUME NEW q \in Peers, NEW n \in DOMAIN got'[q]
        PROVE  got'[q][n].from # q /\ (got'[q][n].from \notin skipped' => got'[q][n].from \notin skipped)
    BY <2>1, GotKept
  <2> QED
    BY <2>1 DEF MessageInv, RelayedInOrder
<1> QED
  BY <1>1, <1>2

\* The frame that is added to the buffer is the one that the buffer waits for.
LEMMA NextData ==
  ASSUME MessageInv, IsData, Peer \notin skipped
  PROVE  \E a, b \in Nat \ {0} :
           /\ At(Peer) = <<a, b>>
           /\ Unread(Tail(stream[Peer]), wrote[Peer]) = IF Next1.fin THEN <<a + 1, 1>> ELSE <<a, b + 1>>
           /\ \E n \in DOMAIN wrote[Peer] : wrote[Peer][n] = Next1 /\ Next1.part = <<a, b>>
           /\ Opcode = "none" => b > 1
           /\ Opcode # "none" =>
                /\ Len(parts \o Payload) = b
                /\ \A x \in 1..b : (parts \o Payload)[x] = <<a, x>>
                /\ FirstWritten(wrote[Peer], a, Opcode)
<1> DEFINE p == Peer
           w == wrote[p]
           s == stream[p]
<1>1. /\ Types /\ pc = "receive" /\ fd \in OpenFds /\ p \in Peers /\ PeerOK(p) /\ upgraded[p] /\ s # <<>>
      /\ Next1 = Head(s) /\ link[p] # "rst" /\ p \notin skipped
  <2>1. fd \in ClientFds /\ ~Invalid(fd) /\ pc = "receive" /\ link[Peer] # "rst" /\ s # <<>>
    BY DEF IsData, Arrived, MessageInv, PeersInv, ServerInv, SocketsOK
  <2>2. fd \in OpenFds /\ sock[fd] \in Peers
    BY <2>1, PeerType DEF MessageInv, PeersInv, ServerInv
  <2> QED
    BY <2>1, <2>2 DEF MessageInv, PeersInv, ServerInv, UpgradeOK, Peer, Next1
<1>2. s \in Seq(Frame) /\ w \in Seq(Frame) /\ Suffix(s, w) /\ Numbered(w) /\ DOMAIN w = 1..Len(w)
  BY <1>1, LenProperties DEF Types, PeerOK
<1>3. PICK n \in 1..Len(w) : /\ Next1 = w[n] /\ At(p) = PartAt(w, n) /\ Next1.cut = "no"
                             /\ Next1.op \notin {"pong", "request", "bad request"}
  BY <1>1, NextOrderly
<1>4. Next1.op \in DataOps /\ Payload = <<Next1.part>>
  BY <1>3 DEF IsData, DataOps, Payload
<1>5. At(p) \in (Nat \ {0}) \X (Nat \ {0})
  BY <1>1, AtType
<1>6. PICK a \in Nat \ {0}, b \in Nat \ {0} : At(p) = <<a, b>>
  BY <1>5
<1>7. Next1.part = <<a, b>> /\ (Next1.op = "cont" <=> b > 1)
  <2>1. w[n].part = PartAt(w, n) /\ (w[n].op = "cont" <=> PartAt(w, n)[2] > 1)
    BY <1>2, <1>3, <1>4 DEF Numbered
  <2>2. PartAt(w, n) = <<a, b>> /\ <<a, b>>[2] = b
    BY <1>3, <1>6
  <2> QED
    BY <1>3, <2>1, <2>2
<1>8. Unread(Tail(s), w) = IF Next1.fin THEN <<a + 1, 1>> ELSE <<a, b + 1>>
  BY <1>1, <1>2, <1>4, <1>7, UnreadTail
<1>9. Opcode = "none" => b > 1
  BY <1>4, <1>7 DEF Opcode, DataOps
<1>10. /\ opcode = "none" => parts = <<>> \/ b > 1
       /\ opcode # "none" => /\ b > 1 /\ Len(parts) = b - 1
                             /\ \A x \in 1..Len(parts) : parts[x] = <<a, x>>
                             /\ FirstWritten(w, a, opcode)
  BY <1>1, <1>6 DEF MessageInv, Partial
<1>11. ASSUME Opcode # "none"
       PROVE  /\ Len(parts \o Payload) = b
              /\ \A x \in 1..b : (parts \o Payload)[x] = <<a, x>>
              /\ FirstWritten(w, a, Opcode)
  <2>1. CASE opcode = "none"
    <3>1. Next1.op \in {"text", "bin"} /\ Opcode = Next1.op /\ ~(b > 1)
      BY <1>7, <1>11, <2>1 DEF Opcode
    <3>2. b = 1
      BY <3>1
    <3>3. parts \o Payload = <<<<a, 1>>>>
      BY <1>4, <1>7, <1>10, <2>1, <3>1, <3>2, Singleton
    <3>4. Len(parts \o Payload) = 1 /\ (parts \o Payload)[1] = <<a, 1>>
      BY <3>3, Singleton
    <3>5. \A x \in 1..1 : x = 1
      BY Arithmetic
    <3>6. FirstWritten(w, a, Opcode)
      BY <1>2, <1>3, <1>7, <3>1, <3>2 DEF FirstWritten
    <3> QED
      BY <3>2, <3>4, <3>5, <3>6
  <2>2. CASE opcode # "none"
    <3>1. parts \in Seq(Nat \X Nat) /\ Payload \in Seq(Nat \X Nat) /\ Len(Payload) = 1 /\ Payload[1] = <<a, b>>
      <4>1. <<a, b>> \in Nat \X Nat
        OBVIOUS
      <4>2. <<<<a, b>>>> \in Seq(Nat \X Nat)
        BY <4>1
      <4> QED
        BY <1>1, <1>4, <1>7, <4>2, Singleton DEF Types
    <3>2. /\ Len(parts \o Payload) = Len(parts) + Len(Payload)
          /\ \A x \in 1..Len(parts) + Len(Payload) :
               (parts \o Payload)[x] = IF x <= Len(parts) THEN parts[x] ELSE Payload[x - Len(parts)]
      <4>1. PICK s1, s2 : s1 = parts /\ s2 = Payload
        OBVIOUS
      <4>2. s1 \in Seq(Nat \X Nat) /\ s2 \in Seq(Nat \X Nat)
        BY <3>1, <4>1
      <4>3. /\ Len(s1 \o s2) = Len(s1) + Len(s2)
            /\ \A x \in 1..Len(s1) + Len(s2) :
                 (s1 \o s2)[x] = IF x <= Len(s1) THEN s1[x] ELSE s2[x - Len(s1)]
        BY <4>2, ConcatProperties
      <4> QED
        BY <4>1, <4>3
    <3>3. Len(parts) = b - 1 /\ \A x \in 1..b - 1 : parts[x] = <<a, x>>
      BY <1>10, <2>2
    <3>4. Len(parts) + Len(Payload) = b
      BY <3>1, <3>3
    <3>5. ASSUME NEW x \in 1..b
          PROVE  (parts \o Payload)[x] = <<a, x>>
      <4>1. (parts \o Payload)[x] = IF x <= b - 1 THEN parts[x] ELSE Payload[x - (b - 1)]
        BY <3>2, <3>3, <3>4
      <4>2. (x \in 1..b - 1 /\ x <= b - 1) \/ (x = b /\ ~(x <= b - 1) /\ x - (b - 1) = 1)
        BY Arithmetic
      <4> QED
        BY <3>1, <3>3, <4>1, <4>2
    <3>6. Opcode = opcode
      BY <2>2 DEF Opcode
    <3> QED
      BY <1>10, <2>2, <3>2, <3>4, <3>5, <3>6
  <2> QED
    BY <2>1, <2>2
<1> HIDE DEF p, w, s
<1>12. \E k \in DOMAIN w : w[k] = Next1 /\ Next1.part = <<a, b>>
  BY <1>2, <1>3, <1>7
<1> QED
  BY <1>6, <1>8, <1>9, <1>11, <1>12 DEF p, w, s

\* The buffer is emptied on every return of receive_text_frame and every end of a
\* broadcast.
LEMMA QuietStep ==
  ASSUME MessageInv, [Next]_vars
  PROVE  Quiet'
<1> USE DEF threadVars, peerVars, MessageInv, Quiet
<1>1. CASE MessageEnds
  BY <1>1 DEF MessageEnds, Return
<1>2. CASE SendFrame \/ SendSkip \/ SendFrameFails \/ SendBinary
  BY <1>2 DEF SendFrame, SendSkip, SendFrameFails, SendBinary
<1>3. CASE EndBroadcast \/ EndBinary \/ Idle \/ Disconnected \/ Unsupported
  BY <1>3 DEF EndBroadcast, EndBinary, Idle, Disconnected, Unsupported, Return
<1>4. CASE Ping \/ Misread \/ MoreData
  BY <1>4 DEF Ping, Misread, MoreData, IsData, Arrived, Return
<1>5. CASE Poll \/ Skip \/ EndScan \/ Accept \/ Handshake \/ HandshakeEarly \/ HandshakeFails \/ StartReceive
  BY <1>5 DEF Poll, Skip, AtSlot, EndScan, Accept, Handshake, HandshakeEarly, Upgrade,
       HandshakeFails, Accepted, StartReceive
<1>6. ASSUME NEW p \in Peers, PeerStep(p)
      PROVE  Quiet'
  BY <1>6 DEF PeerStep, Connect, WriteRequest, WriteFrame, PingOn, WriteCut, Leave
<1>7. CASE UNCHANGED vars
  BY <1>7 DEF vars
<1> QED
  BY <1>1, <1>2, <1>3, <1>4, <1>5, <1>6, <1>7 DEF Next, ServerStep

\* A frame is added to the buffer exactly where it belongs; a ping is taken out from
\* between, and a client that stops is left.
LEMMA PartialStep ==
  ASSUME MessageInv, [Next]_vars
  PROVE  Partial'
<1> USE DEF threadVars, peerVars
<1> SUFFICES ASSUME pc' = "receive", fd' \in OpenFds', Peer' \notin skipped', link'[Peer'] # "rst"
             PROVE  /\ opcode' = "none" => parts' = <<>> \/ At(Peer)'[2] > 1
                    /\ opcode' # "none" => /\ At(Peer)'[2] > 1
                                           /\ Len(parts') = At(Peer)'[2] - 1
                                           /\ \A x \in 1..Len(parts') : parts'[x] = <<At(Peer)'[1], x>>
                                           /\ FirstWritten(wrote'[Peer'], At(Peer)'[1], opcode')
  BY DEF Partial
<1>1. CASE StartReceive
  <2>1. opcode' = "none" /\ parts' = <<>>
    BY <1>1 DEF StartReceive, AtSlot, MessageInv, Quiet
  <2> QED
    BY <2>1
<1>2. CASE MoreData
  <2>1. /\ IsData /\ ~Next1.fin /\ Consumed /\ opcode' = Opcode /\ parts' = parts \o Payload
        /\ Peer' = Peer /\ wrote' = wrote /\ skipped' = skipped
    BY <1>2 DEF MoreData, Peer
  <2>2. Peer \in Peers /\ stream \in [Peers -> Seq(Frame)]
    BY <2>1, PeerType DEF IsData, Arrived, Peer, MessageInv, PeersInv, ServerInv, SocketsOK, Types
  <2>3. At(Peer)' = Unread(Tail(stream[Peer]), wrote[Peer])
    BY <2>1, <2>2 DEF Consumed, At
  <2>4. PICK a \in Nat \ {0}, b \in Nat \ {0} :
           /\ At(Peer)' = <<a, b + 1>>
           /\ Opcode = "none" => b > 1
           /\ Opcode # "none" =>
                /\ Len(parts \o Payload) = b
                /\ \A x \in 1..b : (parts \o Payload)[x] = <<a, x>>
                /\ FirstWritten(wrote[Peer], a, Opcode)
    BY <2>1, <2>3, NextData
  <2>5. At(Peer)'[1] = a /\ At(Peer)'[2] = b + 1
    BY <2>4
  <2>6. b + 1 > 1 /\ b + 1 - 1 = b
    OBVIOUS
  <2>7. CASE Opcode = "none"
    BY <2>1, <2>5, <2>6, <2>7
  <2>8. CASE Opcode # "none"
    <3>1. Len(parts') = b /\ \A x \in 1..b : parts'[x] = <<a, x>>
      BY <2>1, <2>4, <2>8
    <3>2. FirstWritten(wrote'[Peer'], a, opcode')
      BY <2>1, <2>4, <2>8
    <3> QED
      BY <2>5, <2>6, <3>1, <3>2
  <2> QED
    BY <2>7, <2>8
<1>3. ASSUME UNCHANGED <<sock, fd, opcode, parts>>, pc = "receive", link[Peer] # "rst",
             At(Peer)' = At(Peer)
      PROVE  /\ opcode' = "none" => parts' = <<>> \/ At(Peer)'[2] > 1
             /\ opcode' # "none" => /\ At(Peer)'[2] > 1
                                    /\ Len(parts') = At(Peer)'[2] - 1
                                    /\ \A x \in 1..Len(parts') : parts'[x] = <<At(Peer)'[1], x>>
                                    /\ FirstWritten(wrote'[Peer'], At(Peer)'[1], opcode')
  <2>1. Peer' = Peer /\ fd \in OpenFds /\ Peer \in Peers
    BY <1>3 DEF Peer, OpenFds, MessageInv, PeersInv, ServerInv, Types
  <2>2. Peer \notin skipped /\ Peer \notin skipped'
    BY <2>1, StreamGoesOn DEF MessageInv
  <2>3. opcode # "none" => FirstWritten(wrote'[Peer], At(Peer)[1], opcode)
    BY <1>3, <2>1, <2>2, FirstKept DEF MessageInv, Partial
  <2> QED
    BY <1>3, <2>1, <2>2, <2>3 DEF MessageInv, Partial
<1>4. CASE Ping
  <2>1. /\ Arrived /\ Next1.op = "ping" /\ Consumed /\ UNCHANGED <<sock, fd, opcode, parts, wrote, skipped>>
        /\ pc = "receive" /\ link[Peer] # "rst" /\ stream[Peer] # <<>> /\ Next1 = Head(stream[Peer]) /\ Peer' = Peer
    BY <1>4 DEF Ping, Return, Arrived, Next1, Peer
  <2>2. /\ Peer \in Peers /\ stream \in [Peers -> Seq(Frame)]
        /\ stream[Peer] \in Seq(Frame) /\ wrote[Peer] \in Seq(Frame)
    BY <2>1, PeerType DEF Arrived, Peer, MessageInv, PeersInv, ServerInv, SocketsOK, Types
  <2>3. Suffix(stream[Peer], wrote[Peer])
    BY <2>1, <2>2 DEF MessageInv, PeersInv, PeerOK
  <2>4. Unread(Tail(stream[Peer]), wrote[Peer]) = Unread(stream[Peer], wrote[Peer])
    BY <2>1, <2>2, <2>3, UnreadTail DEF DataOps
  <2>5. At(Peer)' = At(Peer)
    BY <2>1, <2>2, <2>4 DEF Consumed, At
  <2> QED
    BY <1>3, <2>1, <2>5
<1>5. CASE Unsupported \/ Misread
  <2>1. Arrived /\ Peer' = Peer /\ skipped' = skipped
    BY <1>5 DEF Unsupported, Misread, Peer
  <2>2. /\ Peer \in Peers /\ stream[Peer] # <<>> /\ upgraded[Peer] /\ Next1 = Head(stream[Peer])
        /\ Types /\ PeerOK(Peer)
    BY <2>1, PeerType DEF Arrived, Peer, Next1, MessageInv, PeersInv, UpgradeOK, ServerInv, SocketsOK
  <2>3. Next1.op = "pong" \/ Next1.cut = "payload"
    BY <1>5 DEF Unsupported, Misread
  <2> QED
    BY <2>1, <2>2, <2>3, NextOrderly
<1>6. ASSUME NEW q \in Peers, PeerStep(q)
      PROVE  /\ opcode' = "none" => parts' = <<>> \/ At(Peer)'[2] > 1
             /\ opcode' # "none" => /\ At(Peer)'[2] > 1
                                    /\ Len(parts') = At(Peer)'[2] - 1
                                    /\ \A x \in 1..Len(parts') : parts'[x] = <<At(Peer)'[1], x>>
                                    /\ FirstWritten(wrote'[Peer'], At(Peer)'[1], opcode')
  <2>1. UNCHANGED <<sock, fd, opcode, parts, pc>>
    BY <1>6 DEF PeerStep, Connect, WriteRequest, WriteFrame, PingOn, WriteCut, Leave
  <2>2. Peer' = Peer /\ Peer \in Peers /\ link[Peer] \in {"open", "fin", "rst"}
    BY <2>1 DEF Peer, OpenFds, MessageInv, PeersInv, ServerInv, SocketsOK, Types
  <2>3. link[Peer] # "rst"
    BY <1>6, <2>2 DEF PeerStep, Connect, WriteRequest, WriteFrame, PingOn, WriteCut, Leave, MayWrite, Speaks, Connected,
       MessageInv, PeersInv, ServerInv, Types
  <2>4. \/ wrote'[Peer] = wrote[Peer] /\ stream'[Peer] = stream[Peer]
        \/ \E f \in Frame : wrote'[Peer] = Append(wrote[Peer], f) /\ stream'[Peer] = Append(stream[Peer], f)
    BY <2>2, <1>6, PeerStreamLive DEF MessageInv
  <2>5. /\ stream[Peer] \in Seq(Frame) /\ wrote[Peer] \in Seq(Frame)
        /\ Suffix(stream[Peer], wrote[Peer])
    BY <2>2, StreamGoesOn DEF MessageInv, PeersInv, PeerOK, ServerInv, Types
  <2>6. At(Peer)' = At(Peer)
    <3>1. Unread(stream'[Peer], wrote'[Peer]) = Unread(stream[Peer], wrote[Peer])
      <4>1. CASE wrote'[Peer] = wrote[Peer] /\ stream'[Peer] = stream[Peer]
        BY <4>1
      <4>2. ASSUME NEW f \in Frame,
                   wrote'[Peer] = Append(wrote[Peer], f), stream'[Peer] = Append(stream[Peer], f)
            PROVE  Unread(stream'[Peer], wrote'[Peer]) = Unread(stream[Peer], wrote[Peer])
        BY <2>5, <4>2, UnreadAppend
      <4> QED
        BY <2>4, <4>1, <4>2
    <3> QED
      BY <2>2, <3>1 DEF At
  <2> QED
    BY <1>3, <2>1, <2>3, <2>6
<1>7. CASE UNCHANGED vars
  BY <1>3, <1>7 DEF vars, At, Peer
<1>8. ASSUME ServerStep
      PROVE  StartReceive \/ MoreData \/ Ping \/ Unsupported \/ Misread
  BY <1>8 DEF ServerStep, Poll, Skip, AtSlot, EndScan, Accept, Handshake, HandshakeEarly, Upgrade,
       HandshakeFails, Accepted, SendSkip,
     SendFrame, SendFrameFails, Broadcasting, EndBroadcast, Idle, Disconnected, Return, MessageEnds, SendBinary, EndBinary
<1> QED
  BY <1>1, <1>2, <1>4, <1>5, <1>6, <1>7, <1>8 DEF Next

\* A frame with fin completes the message.
LEMMA MessageReady ==
  ASSUME MessageInv, [Next]_vars, MessageEnds
  PROVE  Relaying'
<1> USE DEF threadVars, peerVars
<1> SUFFICES ASSUME pc' \in {"broadcast", "binary"}, Peer' \notin skipped'
             PROVE  /\ IsMessage(Message)'
                    /\ parts'[1][1] < At(Peer)'[1]
                    /\ \A q \in Peers : \A n \in DOMAIN got'[q] :
                         got'[q][n].from = Peer' => got'[q][n].parts[1][1] <= parts'[1][1]
  BY DEF Relaying
<1>1. /\ IsData /\ Next1.fin /\ Consumed /\ Opcode # "none" /\ opcode' = Opcode /\ parts' = parts \o Payload
      /\ UNCHANGED <<sock, fd, wrote, skipped, got>>
  BY DEF MessageEnds, Return
<1>2. Peer' = Peer /\ Peer \notin skipped
  BY <1>1 DEF Peer
<1>3. Peer \in Peers /\ stream \in [Peers -> Seq(Frame)] /\ parts \in Seq(Nat \X Nat)
  BY <1>1, PeerType DEF IsData, Arrived, Peer, MessageInv, PeersInv, ServerInv, SocketsOK, Types
<1>4. At(Peer)' = Unread(Tail(stream[Peer]), wrote[Peer])
  BY <1>1, <1>2, <1>3 DEF Consumed, At
<1>5. PICK a \in Nat \ {0}, b \in Nat \ {0} :
           /\ At(Peer) = <<a, b>> /\ At(Peer)' = <<a + 1, 1>>
           /\ \E n \in DOMAIN wrote[Peer] : wrote[Peer][n] = Next1 /\ Next1.part = <<a, b>>
           /\ Len(parts \o Payload) = b
           /\ \A x \in 1..b : (parts \o Payload)[x] = <<a, x>>
           /\ FirstWritten(wrote[Peer], a, Opcode)
  BY <1>1, <1>2, <1>4, NextData
<1>6. /\ Len(parts') = b /\ DOMAIN parts' = 1..b /\ parts' # <<>>
      /\ \A x \in 1..b : parts'[x] = <<a, x>>
  <2>1. Types'
    BY TypesServer, <1>1 DEF ServerStep, MessageInv, PeersInv, ServerInv
  <2>2. DOMAIN parts' = 1..Len(parts')
    BY <2>1, LenProperties DEF Types
  <2>3. Len(parts') = b
    BY <1>1, <1>5
  <2>4. parts' # <<>>
    BY <2>3
  <2> QED
    BY <1>1, <1>5, <2>2, <2>3, <2>4
<1>7. 1 \in 1..b /\ b \in 1..b
  OBVIOUS
<1>8. parts'[1] = <<a, 1>> /\ parts'[1][1] = a /\ Last(parts') = <<a, b>>
  BY <1>6, <1>7 DEF Last
<1>9. IsMessage(Message)'
  <2>1. /\ Message'.from = Peer /\ Message'.kind = Opcode /\ Message'.parts = parts'
    BY <1>1, <1>2 DEF Message, Peer
  <2>2. \E n \in DOMAIN wrote[Peer] : wrote[Peer][n].part = <<a, 1>> /\ wrote[Peer][n].op = Opcode
    BY <1>5 DEF FirstWritten
  <2>3. \E n \in DOMAIN wrote[Peer] : wrote[Peer][n].part = <<a, b>> /\ wrote[Peer][n].fin
    BY <1>1, <1>5
  <2> QED
    BY <1>1, <1>6, <1>8, <2>1, <2>2, <2>3, ZenonT(30) DEF IsMessage
<1>10. ASSUME NEW q \in Peers, NEW n \in DOMAIN got[q], got[q][n].from = Peer
       PROVE  got[q][n].parts[1][1] <= a
  <2> DEFINE m == got[q][n]
  <2>1. m.parts[1][1] < a
    BY <1>2, <1>5, <1>10 DEF MessageInv, GotOK
  <2>2. m.parts[1][1] \in Nat
    BY <1>1, <1>2, <1>10, GotKept
  <2> HIDE DEF m
  <2>3. m.parts[1][1] <= a
    BY <2>1, <2>2
  <2> QED
    BY <2>3 DEF m
<1>11. \A x \in Nat : x < x + 1
  OBVIOUS
<1> QED
  BY <1>1, <1>2, <1>5, <1>8, <1>9, <1>10, <1>11

\* What is relayed, while its author may write on.
LEMMA RelayedMessage ==
  ASSUME MessageInv, [Next]_vars, pc \in {"broadcast", "binary"},
         NEW p, p = Peer, p \notin skipped', NEW m, m = Message
  PROVE  /\ m \in MessageSet /\ m.from = p /\ m.parts = parts /\ p \in Peers /\ p \notin skipped
         /\ IsMessage(m)' /\ parts[1][1] \in Nat /\ parts[1][1] < At(p)'[1]
         /\ \A q \in Peers : \A n \in DOMAIN got[q] :
               got[q][n].from = p => got[q][n].parts[1][1] <= parts[1][1]
<1>1. m \in MessageSet /\ m.from = p /\ m.parts = parts
  BY MessageType DEF MessageInv, PeersInv, ServerInv, Message, Peer
<1>2. p \in Peers
  BY <1>1 DEF MessageSet
<1>3. /\ p \notin skipped
      /\ At(p) \in (Nat \ {0}) \X (Nat \ {0})
      /\ At(p)' \in (Nat \ {0}) \X (Nat \ {0}) /\ At(p)[1] <= At(p)'[1]
  BY <1>2, AtGrows DEF MessageInv
<1>4. /\ IsMessage(m) /\ parts[1][1] < At(p)[1]
      /\ \A q \in Peers : \A n \in DOMAIN got[q] :
            got[q][n].from = p => got[q][n].parts[1][1] <= parts[1][1]
  BY <1>3 DEF MessageInv, Relaying
<1>5. IsMessage(m)' /\ parts[1][1] \in Nat
  BY <1>1, <1>4, MessageKept, MessageNumber DEF MessageInv, IsMessage
<1>6. parts[1][1] < At(p)'[1]
  <2>1. At(p)[1] \in Nat /\ At(p)'[1] \in Nat
    BY <1>3
  <2>2. \A a, b, c \in Nat : a < b /\ b <= c => a < c
    OBVIOUS
  <2> QED
    BY <1>3, <1>4, <1>5, <2>1, <2>2
<1> QED
  BY <1>1, <1>2, <1>3, <1>4, <1>5, <1>6

\* A relay that delivers nothing in this step goes on with the same message.
LEMMA RelayingKept ==
  ASSUME MessageInv, [Next]_vars, pc \in {"broadcast", "binary"},
         sock'[fd'] = sock[fd], opcode' = opcode, parts' = parts, got' = got
  PROVE  Relaying'
<1> SUFFICES ASSUME NEW p, p = Peer, p \notin skipped', NEW m, m = Message
             PROVE  /\ IsMessage(m)' /\ parts[1][1] < At(p)'[1]
                    /\ \A q \in Peers : \A n \in DOMAIN got[q] :
                         got[q][n].from = p => got[q][n].parts[1][1] <= parts[1][1]
  BY DEF Relaying, Peer, Message
<1> QED
  BY RelayedMessage

\* A message goes to another peer than its author.
LEMMA Delivered ==
  ASSUME MessageInv, [Next]_vars, pc \in {"broadcast", "binary"},
         sock'[fd'] = sock[fd], opcode' = opcode, parts' = parts,
         NEW r \in Peers, r # Peer, got' = [got EXCEPT ![r] = Append(@, Message)]
  PROVE  Relaying' /\ GotOK' /\ RelayedInOrder'
<1> DEFINE g == Append(got[r], Message)
<1>1. got \in [Peers -> Seq(MessageSet)] /\ Message \in MessageSet
  BY MessageType DEF MessageInv, PeersInv, ServerInv, Types
<1>2. /\ got'[r] = g /\ \A q \in Peers : q # r => got'[q] = got[q]
      /\ g \in Seq(MessageSet) /\ Len(g) = Len(got[r]) + 1 /\ g[Len(got[r]) + 1] = Message
      /\ \A n \in 1..Len(got[r]) : g[n] = got[r][n]
      /\ Len(got[r]) \in Nat /\ DOMAIN got[r] = 1..Len(got[r])
  BY <1>1, AppendProperties, LenProperties
<1>3. DOMAIN g = 1..Len(got[r]) + 1
  BY <1>2, LenProperties
<1> HIDE DEF g
<1>4. \A n \in DOMAIN g : \/ n \in DOMAIN got[r] /\ g[n] = got[r][n]
                          \/ n = Len(got[r]) + 1 /\ g[n] = Message
  <2>1. \A n \in DOMAIN g : n = Len(got[r]) + 1 \/ n \in 1..Len(got[r])
    BY <1>2, <1>3, OneMore
  <2> QED
    BY <1>2, <2>1
\* The messages that every peer has after the step.
<1>5. ASSUME NEW q \in Peers, NEW n \in DOMAIN got'[q]
      PROVE  \/ n \in DOMAIN got[q] /\ got'[q][n] = got[q][n]
             \/ q = r /\ n = Len(got[r]) + 1 /\ got'[q][n] = Message
  BY <1>2, <1>4, <1>5
<1>6. GotOK'
  <2>1. ASSUME NEW q \in Peers, NEW n \in DOMAIN got'[q], NEW m, m = got'[q][n]
        PROVE  m.from # q /\ (m.from \notin skipped' => IsMessage(m)' /\ m.parts[1][1] < At(m.from)'[1])
    <3>1. CASE n \in DOMAIN got[q] /\ m = got[q][n]
      BY <3>1, GotKept
    <3>2. CASE q = r /\ m = Message
      <4>1. m.from = Peer /\ m.parts = parts
        BY <3>2 DEF Message, Peer
      <4>2. ASSUME m.from \notin skipped'
            PROVE  IsMessage(m)' /\ m.parts[1][1] < At(m.from)'[1]
        BY <3>2, <4>1, <4>2, RelayedMessage
      <4> QED
        BY <3>2, <4>1, <4>2
    <3> QED
      BY <1>5, <2>1, <3>1, <3>2
  <2> QED
    BY <2>1 DEF GotOK
<1>7. Relaying'
  <2> SUFFICES ASSUME NEW p, p = Peer, p \notin skipped', NEW m, m = Message
               PROVE  /\ IsMessage(m)' /\ parts[1][1] < At(p)'[1]
                      /\ \A q \in Peers : \A n \in DOMAIN got'[q] :
                           got'[q][n].from = p => got'[q][n].parts[1][1] <= parts[1][1]
    BY DEF Relaying, Peer, Message
  <2>1. /\ IsMessage(m)' /\ parts[1][1] \in Nat /\ parts[1][1] < At(p)'[1] /\ m.parts = parts
        /\ \A q \in Peers : \A n \in DOMAIN got[q] :
              got[q][n].from = p => got[q][n].parts[1][1] <= parts[1][1]
    BY RelayedMessage
  <2>2. parts[1][1] <= parts[1][1]
    BY <2>1, Arithmetic
  <2> QED
    BY <1>5, <2>1, <2>2
<1>8. RelayedInOrder'
  <2> SUFFICES ASSUME NEW q \in Peers, NEW n \in DOMAIN got'[q], NEW l \in n + 1..Len(got'[q]),
                      got'[q][l].from = got'[q][n].from, got'[q][n].from \notin skipped'
               PROVE  got'[q][n].parts[1][1] <= got'[q][l].parts[1][1]
    BY <1>6 DEF RelayedInOrder, GotOK
  <2>1. CASE q # r
    <3>1. got'[q] = got[q] /\ got[q][n].from \notin skipped
      BY <1>2, <2>1, GotKept
    <3> QED
      BY <3>1 DEF MessageInv, RelayedInOrder
  <2>2. CASE q = r
    <3>1. /\ n \in 1..Len(got[r]) + 1 /\ l \in n + 1..Len(got[r]) + 1
          /\ Len(got[r]) \in Nat /\ got'[q] = g
      BY <1>2, <1>3, <2>2
    <3>2. n \in 1..Len(got[r]) /\ (l \in n + 1..Len(got[r]) \/ l = Len(got[r]) + 1)
      <4>1. \A k \in Nat : \A x \in 1..k + 1 : \A y \in x + 1..k + 1 :
               x \in 1..k /\ (y \in x + 1..k \/ y = k + 1)
        OBVIOUS
      <4> QED
        BY <3>1, <4>1
    <3>3. g[n] = got[r][n] /\ n \in DOMAIN got[r]
      BY <1>2, <3>2
    <3>4. CASE l \in n + 1..Len(got[r])
      <4>1. l \in 1..Len(got[r])
        BY <3>2, <3>4
      <4>2. g[l] = got[r][l]
        BY <1>2, <4>1
      <4>3. got[r][n].from \notin skipped
        BY <2>2, <3>1, <3>3, GotKept
      <4> QED
        BY <2>2, <3>1, <3>3, <3>4, <4>2, <4>3 DEF MessageInv, RelayedInOrder
    <3>5. CASE l = Len(got[r]) + 1
      <4>1. g[l] = Message /\ Message.from = Peer /\ Message.parts = parts
        BY <1>2, <3>5 DEF Message, Peer
      <4>2. got[r][n].parts[1][1] <= parts[1][1]
        BY <2>2, <3>1, <3>3, <4>1, RelayedMessage
      <4> QED
        BY <2>2, <3>1, <3>3, <4>1, <4>2
    <3> QED
      BY <3>2, <3>4, <3>5
  <2> QED
    BY <2>1, <2>2
<1> QED
  BY <1>6, <1>7, <1>8

\* All of it is kept by every step.
LEMMA MessageInvStep ==
  ASSUME MessageInv, PeersInv', [Next]_vars
  PROVE  MessageInv'
<1> USE DEF threadVars, peerVars
<1>1. Quiet' /\ Partial'
  BY QuietStep, PartialStep
<1>2. CASE got' = got /\ pc' \notin {"broadcast", "binary"}
  BY <1>1, <1>2, GotUnchanged DEF MessageInv, Relaying
<1>3. CASE got' = got /\ pc \in {"broadcast", "binary"} /\ sock'[fd'] = sock[fd] /\ opcode' = opcode /\ parts' = parts
  BY <1>1, <1>3, GotUnchanged, RelayingKept DEF MessageInv
<1>4. CASE MessageEnds
  <2>1. got' = got
    BY <1>4 DEF MessageEnds
  <2> QED
    BY <1>1, <1>4, <2>1, MessageReady, GotUnchanged DEF MessageInv
<1>5. ASSUME pc \in {"broadcast", "binary"}, NEW f \in ClientFds, f # fd, ~SendFails(f),
             got' = [got EXCEPT ![sock[f]] = Append(@, Message)],
             UNCHANGED <<sock, fd, opcode, parts>>
      PROVE  MessageInv'
  <2>1. f \in OpenFds /\ sock[f] \in Peers
    BY <1>5, PeerType DEF SendFails, MessageInv, PeersInv, ServerInv
  <2>2. fd \in OpenFds /\ sock[f] # Peer
    BY <1>5, <2>1 DEF MessageInv, PeersInv, ServerInv, SocketsOK, Peer
  <2>3. Relaying' /\ GotOK' /\ RelayedInOrder'
    BY <1>5, <2>1, <2>2, Delivered
  <2> QED
    BY <1>1, <2>3 DEF MessageInv
<1>6. CASE pc = "broadcast" /\ SendFrame
  <2> DEFINE f == slots[j].fd
  <2>1. /\ j \in 1..Len(slots) /\ ~SendFails(f) /\ f # fd
        /\ got' = [got EXCEPT ![sock[f]] = Append(@, Message)]
        /\ UNCHANGED <<sock, fd, opcode, parts>>
    BY <1>6, ListContext DEF SendFrame, Broadcasting, Sending, Receive, MessageInv, PeersInv, ServerInv
  <2>2. f \in ClientFds
    BY <2>1, ListContext DEF SendFails, MessageInv, PeersInv, ServerInv
  <2> QED
    BY <1>5, <1>6, <2>1, <2>2
<1>7. CASE SendBinary /\ got' # got
  <2> DEFINE f == slots[j].fd
  <2>1. /\ j \in 1..Len(slots) /\ ~SendFails(f) /\ f \notin {fd, ServerFd} /\ pc = "binary"
        /\ got' = [got EXCEPT ![sock[f]] = Append(@, Message)]
        /\ UNCHANGED <<sock, fd, opcode, parts>>
    BY <1>7, ListContext DEF SendBinary, Receive, MessageInv, PeersInv, ServerInv
  <2>2. f \in ClientFds
    BY <2>1, ListContext DEF MessageInv, PeersInv, ServerInv
  <2> QED
    BY <1>5, <2>1, <2>2
<1>8. CASE SendBinary /\ got' = got
  BY <1>3, <1>8 DEF SendBinary
<1>9. CASE SendSkip \/ (SendFrame /\ pc # "broadcast")
  <2>1. UNCHANGED <<sock, fd, opcode, parts, pc, got>> /\ pc \in {"announce", "broadcast"}
    BY <1>9 DEF SendSkip, SendFrame, Broadcasting
  <2> QED
    BY <1>2, <1>3, <2>1
<1>10. CASE SendFrameFails
  <2>1. UNCHANGED <<fd, opcode, parts, pc, got>> /\ pc \in {"announce", "broadcast"}
    BY <1>10 DEF SendFrameFails, Broadcasting
  <2>2. CASE pc = "broadcast"
    <3>1. slots[j].fd \in {ServerFd} \cup ClientFds /\ slots[j].fd # fd /\ Close(slots[j].fd)
      BY <1>10, <2>2, ListContext DEF SendFrameFails, Broadcasting, Sending, CloseAndDelete, MessageInv, PeersInv, ServerInv
    <3>2. fd \in OpenFds' /\ sock'[fd] = sock[fd]
      BY <2>2, <3>1, SocketsClose DEF MessageInv, PeersInv, ServerInv, SocketsOK
    <3> QED
      BY <1>3, <2>1, <2>2, <3>2
  <2> QED
    BY <1>2, <2>1, <2>2
<1>11. CASE \/ Poll \/ Skip \/ EndScan \/ Accept \/ Handshake \/ HandshakeEarly \/ HandshakeFails \/ EndBroadcast \/ StartReceive
            \/ Idle \/ Disconnected \/ Ping \/ Unsupported \/ Misread \/ MoreData \/ EndBinary
  <2>1. got' = got /\ pc' \notin {"broadcast", "binary"}
    BY <1>11 DEF Poll, Skip, AtSlot, EndScan, Accept, Handshake, HandshakeEarly, Upgrade,
       HandshakeFails, Accepted, EndBroadcast,
       StartReceive, Idle, Disconnected, Ping, Unsupported, Misread, MoreData, IsData, Arrived, EndBinary, Return
  <2> QED
    BY <1>2, <2>1
<1>12. ASSUME UNCHANGED <<sock, fd, opcode, parts, pc, got>>
       PROVE  MessageInv'
  BY <1>2, <1>3, <1>12
<1>13. ASSUME NEW q \in Peers, PeerStep(q)
       PROVE  MessageInv'
  BY <1>12, <1>13 DEF PeerStep, Connect, WriteRequest, WriteFrame, PingOn, WriteCut, Leave
<1>14. CASE UNCHANGED vars
  BY <1>12, <1>14 DEF vars
<1> QED
  BY <1>4, <1>6, <1>7, <1>8, <1>9, <1>10, <1>11, <1>13, <1>14 DEF Next, ServerStep

\* The invariant of the messages.
LEMMA MessageInvariant == Spec => []MessageInv
<1>1. Init => MessageInv
  <2> SUFFICES ASSUME Init
               PROVE  MessageInv
    OBVIOUS
  <2>1. \A q \in Peers : DOMAIN got[q] = {}
    BY Empty DEF Init
  <2> QED
    BY <2>1, PeersInit DEF Init, MessageInv, Quiet, Partial, Relaying, GotOK, RelayedInOrder
<1>2. PeersInv' /\ MessageInv /\ [Next]_vars => MessageInv'
  BY MessageInvStep
<1> QED
  BY <1>1, <1>2, PeersInvariant, PTL DEF Spec

\* What is relayed of a peer that writes whole frames and no unsolicited pong is its
\* messages, of their kind and complete: the buffer of receive_text_frame never
\* mixes two of them, however the frames come and wherever the call returns.
THEOREM MessagesIntact == Spec => []MessageIntegrity
<1>1. MessageInv => MessageIntegrity
  BY DEF MessageInv, GotOK, MessageIntegrity
<1> QED
  BY <1>1, MessageInvariant, PTL

\* Nobody is sent its own message, and those of one peer come in their order.
THEOREM MessagesInOrder == Spec => []RelayedInOrder
<1>1. MessageInv => RelayedInOrder
  BY DEF MessageInv
<1> QED
  BY <1>1, MessageInvariant, PTL
====
