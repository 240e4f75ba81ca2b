--------------------------- MODULE WebSocketServer ---------------------------
(***************************************************************************)
(* The WebSocket chat server sockets/webserver-v3.c: one thread that polls *)
(* the listening socket and the clients, shakes hands with a new client,   *)
(* puts the frames of a client together to messages and relays them.       *)
(*                                                                         *)
(* A frame is one element of the stream of its peer; headers, lengths and  *)
(* masks are not modelled. Redis, which is only told the number of slots,  *)
(* is not modelled either: its socket takes descriptor 4.                  *)
(***************************************************************************)
EXTENDS Integers, Sequences, FiniteSets, SequencesExt

CONSTANTS
  Peers,      \* client programs
  None,       \* no peer
  Long,       \* peers whose request may not fit one read
  MaxFrames,  \* bound: frames each peer writes, its request among them
  Endless,    \* peers that may then ping for ever
  MaxUnread,  \* bound: frames of a peer the server has not read
  MaxParts    \* bound: frames of one message

ASSUME WebSocketAssumption ==
  /\ IsFiniteSet(Peers) /\ None \notin Peers
  /\ MaxFrames \in [Peers -> Nat] /\ Long \subseteq Peers /\ Endless \subseteq Peers \ Long
  /\ MaxUnread \in Nat \ {0}
  /\ MaxParts \in Nat \ {0}

ServerFd == 3
ClientFds == 5..(4 + Cardinality(Peers))

VARIABLES
  slots,      \* pollfds: the descriptor and whether revents has POLLIN
  listening,  \* the listening socket is open
  sock,       \* the peer behind each descriptor
  backlog,    \* connections not accepted yet
  pc,         \* where the thread is
  i,          \* index of main's scan
  j,          \* index of a broadcast
  fd,         \* the client being accepted or read
  opcode,     \* initial_opcode
  parts,      \* message_buffer: the payloads read, as <<message, part>>
  link,       \* per peer: state of its connection
  stream,     \* per peer: what it wrote and the server did not read
  upgraded,   \* per peer: it was sent the 101 response
  wrote,      \* history, per peer: the frames it wrote
  got,        \* history, per peer: the messages it was sent
  skipped     \* history: peers that wrote a pong, left in the middle of a frame, ping
              \* endlessly, or whose request was answered before all of it was read

threadVars == <<pc, i, j, fd, opcode, parts>>
peerVars == <<link, stream, upgraded, wrote, got, skipped>>
vars == <<slots, listening, sock, backlog, threadVars, peerVars>>

\* cut: the stream ends after the first byte of the header, or in the payload.
Frame == [op : {"request", "bad request", "text", "bin", "cont", "ping", "pong", "close"},
          fin : BOOLEAN, part : Nat \X Nat, cut : {"no", "byte", "payload"}]
Request(op) == [op |-> op, fin |-> TRUE, part |-> <<0, 0>>, cut |-> "no"]

Init ==
  /\ slots = <<[fd |-> ServerFd, in |-> FALSE]>>
  /\ listening = TRUE
  /\ sock = [f \in ClientFds |-> None]
  /\ backlog = <<>>
  /\ pc = "poll" /\ i = 1 /\ j = 1 /\ fd = 0
  /\ opcode = "none" /\ parts = <<>>
  /\ link = [p \in Peers |-> "idle"]
  /\ stream = [p \in Peers |-> <<>>]
  /\ upgraded = [p \in Peers |-> FALSE]
  /\ wrote = [p \in Peers |-> <<>>]
  /\ got = [p \in Peers |-> <<>>]
  /\ skipped = {}

-----------------------------------------------------------------------------
(* Sockets and the watch list.                                             *)

OpenFds == { f \in ClientFds : sock[f] # None }
Lowest == CHOOSE f \in ClientFds \ OpenFds : \A g \in ClientFds \ OpenFds : f <= g

Readable(f) ==
  IF f = ServerFd THEN listening /\ backlog # <<>>
  ELSE sock[f] # None /\ (stream[sock[f]] # <<>> \/ link[sock[f]] # "open")

\* poll returns for a descriptor that was closed, too, without POLLIN.
Invalid(f) == IF f = ServerFd THEN ~listening ELSE sock[f] = None

DelClientFromPoll_NoShift(s, f) == IF \E k \in DOMAIN s : s[k].fd = f THEN Front(s) ELSE s

\* del_client_from_poll: the first slot with the descriptor is shifted out.
DelClientFromPoll(s, f) ==
  IF \E k \in DOMAIN s : s[k].fd = f
  THEN RemoveAt(s, CHOOSE k \in DOMAIN s : s[k].fd = f /\ \A l \in 1..k - 1 : s[l].fd # f)
  ELSE s

\* close: the peer behind a client's descriptor is cut off; connections that wait
\* at the listening socket are reset.
Close(f) ==
  IF f = ServerFd
  THEN /\ listening' = FALSE
       /\ backlog' = <<>>
       /\ link' = [p \in Peers |-> IF p \in ToSet(backlog) THEN "dropped" ELSE link[p]]
       /\ sock' = sock
  ELSE /\ UNCHANGED <<listening, backlog>>
       /\ link' = IF sock[f] = None THEN link ELSE [link EXCEPT ![sock[f]] = "dropped"]
       /\ sock' = [sock EXCEPT ![f] = None]

\* A send to a peer that closed succeeds, and its answer is a reset.
AfterSend(p) == \E l \in IF link[p] = "fin" THEN {"fin", "rst"} ELSE {link[p]} :
                  link' = [link EXCEPT ![p] = l]

CloseAndDelete(f) == Close(f) /\ slots' = DelClientFromPoll(slots, f)

-----------------------------------------------------------------------------
(* The peers.                                                              *)

Connected(p) == link[p] = "open"

Connect(p) ==
  /\ link[p] = "idle"
  /\ listening
  /\ link' = [link EXCEPT ![p] = "open"]
  /\ backlog' = Append(backlog, p)
  /\ UNCHANGED <<slots, listening, sock, threadVars, stream, upgraded, wrote, got, skipped>>

\* The upgrade request, with or without the key.
WriteRequest(p) ==
  /\ Connected(p)
  /\ wrote[p] = <<>> /\ MaxFrames[p] > 0
  /\ \E op \in {"request", "bad request"} :
       /\ stream' = [stream EXCEPT ![p] = Append(@, Request(op))]
       /\ wrote' = [wrote EXCEPT ![p] = Append(@, Request(op))]
  /\ UNCHANGED <<slots, listening, sock, backlog, threadVars, link, upgraded, got, skipped>>

\* The data frames before place n of what a peer wrote, and the part that a data
\* frame at this place is: the messages are counted, and the frames of a message.
DataBefore(w, n) == { m \in 1..n - 1 : w[m].op \in {"text", "bin", "cont"} }
LastData(w, n) == w[CHOOSE m \in DataBefore(w, n) : \A l \in DataBefore(w, n) : l <= m]
PartAt(w, n) ==
  IF DataBefore(w, n) = {} THEN <<1, 1>>
  ELSE LET last == LastData(w, n)
       IN  IF last.fin THEN <<last.part[1] + 1, 1>> ELSE <<last.part[1], last.part[2] + 1>>
NextPart(p) == PartAt(wrote[p], Len(wrote[p]) + 1)

\* A frame of a conforming peer: the first of a message, its continuation, or a
\* control frame between any two. After a close frame it writes no more.
NextFrames(p) ==
  [op : {"ping", "pong", "close"}, fin : {TRUE}, part : {<<0, 0>>}, cut : {"no"}] \cup
  [op : IF NextPart(p)[2] > 1 THEN {"cont"} ELSE {"text", "bin"},
   fin : IF NextPart(p)[2] < MaxParts THEN BOOLEAN ELSE {TRUE},
   part : {NextPart(p)}, cut : {"no"}]

Speaks(p) == /\ Connected(p)
             /\ upgraded[p]
             /\ Len(SelectSeq(stream[p], LAMBDA f : f.cut = "no")) < MaxUnread
             /\ Last(wrote[p]).op # "close"
MayWrite(p) == Speaks(p) /\ Len(wrote[p]) < MaxFrames[p]

WriteFrame(p) ==
  /\ MayWrite(p)
  /\ \E f \in NextFrames(p) :
       /\ stream' = [stream EXCEPT ![p] = Append(@, f)]
       /\ wrote' = [wrote EXCEPT ![p] = Append(@, f)]
       /\ skipped' = IF f.op = "pong" THEN skipped \cup {p} ELSE skipped
  /\ UNCHANGED <<slots, listening, sock, backlog, threadVars, link, upgraded, got>>

\* One ping after the other, which the history does not count. A peer whose frames are
\* misread does not: its bytes would be endless messages.
PingOn(p) ==
  /\ p \in Endless
  /\ Speaks(p) /\ Len(wrote[p]) >= MaxFrames[p]
  /\ \A n \in DOMAIN wrote[p] : wrote[p][n].op # "pong"
  /\ stream' = [stream EXCEPT ![p] = Append(@, [op |-> "ping", fin |-> TRUE, part |-> <<0, 0>>, cut |-> "no"])]
  /\ skipped' = skipped \cup {p}
  /\ UNCHANGED <<slots, listening, sock, backlog, threadVars, link, upgraded, wrote, got>>

\* The peer is gone in the middle of a frame, which it does not count as written.
WriteCut(p) ==
  /\ MayWrite(p)
  /\ \E f \in NextFrames(p), c \in {"byte", "payload"} :
       stream' = [stream EXCEPT ![p] = Append(@, [f EXCEPT !.cut = c])]
  /\ skipped' = skipped \cup {p}
  /\ link' = [link EXCEPT ![p] = "fin"]
  /\ UNCHANGED <<slots, listening, sock, backlog, threadVars, upgraded, wrote, got>>

\* The peer closes, or its connection is reset and what it wrote is lost.
Leave(p) ==
  /\ Connected(p)
  /\ \/ link' = [link EXCEPT ![p] = "fin"] /\ stream' = stream
     \/ link' = [link EXCEPT ![p] = "rst"] /\ stream' = [stream EXCEPT ![p] = <<>>]
  /\ UNCHANGED <<slots, listening, sock, backlog, threadVars, upgraded, wrote, got, skipped>>

-----------------------------------------------------------------------------
(* main: poll and the scan over the list.                                  *)

Poll ==
  /\ pc = "poll"
  /\ \E k \in DOMAIN slots : Readable(slots[k].fd) \/ Invalid(slots[k].fd)
  /\ slots' = [k \in DOMAIN slots |-> [slots[k] EXCEPT !.in = Readable(slots[k].fd)]]
  /\ pc' = "scan"
  /\ i' = 1
  /\ UNCHANGED <<listening, sock, backlog, j, fd, opcode, parts, peerVars>>

AtSlot == pc = "scan" /\ i <= Len(slots)

Skip ==
  /\ AtSlot
  /\ ~slots[i].in
  /\ i' = i + 1
  /\ UNCHANGED <<slots, listening, sock, backlog, pc, j, fd, opcode, parts, peerVars>>

\* "No active connections": the server closes and clean_up_pollfd closes the rest.
EndScan ==
  /\ pc = "scan"
  /\ i > Len(slots)
  /\ IF Len(slots) > 1
     THEN pc' = "poll" /\ UNCHANGED <<listening, backlog, link, sock>>
     ELSE /\ pc' = "exited"
          /\ listening' = FALSE
          /\ backlog' = <<>>
          /\ link' = [p \in Peers |-> IF p \in ToSet(backlog) \/ \E f \in ClientFds : sock[f] = p
                                      THEN "dropped" ELSE link[p]]
          /\ sock' = [f \in ClientFds |-> None]
  /\ UNCHANGED <<slots, i, j, fd, opcode, parts, stream, upgraded, wrote, got, skipped>>

-----------------------------------------------------------------------------
(* accept_connections, handle_handshake, intro.                            *)

\* The new slot has whatever revents its memory holds.
AddClientToPoll(f) == \E e \in BOOLEAN : slots' = Append(slots, [fd |-> f, in |-> e])

Accept ==
  /\ AtSlot
  /\ slots[i].in
  /\ slots[i].fd = ServerFd
  /\ backlog # <<>>
  /\ AddClientToPoll(Lowest)
  /\ sock' = [sock EXCEPT ![Lowest] = Head(backlog)]
  /\ backlog' = Tail(backlog)
  /\ fd' = Lowest
  /\ pc' = "handshake"
  /\ UNCHANGED <<listening, i, j, opcode, parts, peerVars>>

\* accept_connections goes on to the announcement when there are other clients.
Accepted == IF Len(slots) > 2 THEN pc' = "announce" /\ j' = 1 /\ i' = i
                              ELSE pc' = "scan" /\ i' = i + 1 /\ j' = j

\* What comes of bytes that are no frame when they are taken for a header.
Garbage == { g \in [op : {"text", "bin", "cont", "ping", "pong", "close"}, fin : BOOLEAN,
                    part : {<<0, 0>>}, cut : {"no", "payload"}] :
               g.op \in {"ping", "pong", "close"} => g.fin }

Asking == stream[sock[fd]]
\* The buffer is not cleared: behind the bytes read there may be the key of an earlier
\* request.
StaleKey == \E q \in Peers \ {sock[fd]} : upgraded[q]

Upgrade == /\ pc = "handshake"
           /\ link[sock[fd]] # "rst"
           /\ Asking # <<>>
           /\ upgraded' = [upgraded EXCEPT ![sock[fd]] = TRUE]
           /\ AfterSend(sock[fd])
           /\ Accepted
           /\ UNCHANGED <<slots, listening, sock, backlog, fd, opcode, parts, wrote, got>>

\* The one read takes the request, and a key is found in the buffer.
Handshake ==
  /\ Upgrade
  /\ Head(Asking).op = "request" \/ StaleKey
  /\ stream' = [stream EXCEPT ![sock[fd]] = <<>>]
  /\ skipped' = skipped

\* The one read takes a first piece of the request, with the key: the others, in later
\* segments or behind the size of the buffer, are left to be taken for frames.
HandshakeEarly ==
  /\ Upgrade
  /\ sock[fd] \in Long /\ Head(Asking).op = "request"
  /\ \E g \in Garbage : stream' = [stream EXCEPT ![sock[fd]] = <<g>>]
  /\ skipped' = skipped \cup {sock[fd]}

\* No request, or no key in what the one read takes of it: the descriptor is closed, its
\* slot stays.
HandshakeFails ==
  /\ pc = "handshake"
  /\ IF Asking = <<>> \/ link[sock[fd]] = "rst" THEN link[sock[fd]] # "open"
     ELSE Head(Asking).op = "bad request" \/ sock[fd] \in Long
  /\ Close(fd)
  /\ Accepted
  /\ UNCHANGED <<slots, fd, opcode, parts, stream, upgraded, wrote, got, skipped>>

-----------------------------------------------------------------------------
(* send_frame to every slot: the announcement of a new client and          *)
(* broadcast_to_all_clients.                                               *)

Broadcasting == pc \in {"announce", "broadcast"} /\ j <= Len(slots)

\* "Skip the sender and the server socket (fd == 1)".
Sending_Everybody(f) == f # 1
Sending_NotListener(f) == f # ServerFd /\ (pc = "broadcast" => f # fd)
Sending(f) == /\ f # 1
              /\ pc = "broadcast" => f # fd

SendFails(f) == IF f = ServerFd \/ Invalid(f) THEN TRUE ELSE link[sock[f]] = "rst"

SendSkip ==
  /\ Broadcasting
  /\ ~Sending(slots[j].fd)
  /\ j' = j + 1
  /\ UNCHANGED <<slots, listening, sock, backlog, pc, i, fd, opcode, parts, peerVars>>

Message == [from |-> sock[fd], kind |-> opcode, parts |-> parts]
Receive(p) == got' = [got EXCEPT ![p] = Append(@, Message)]

SendFrame ==
  /\ Broadcasting
  /\ Sending(slots[j].fd)
  /\ ~SendFails(slots[j].fd)
  /\ LET p == sock[slots[j].fd] IN
       /\ IF pc = "broadcast" THEN Receive(p) ELSE got' = got
       /\ AfterSend(p)
  /\ j' = j + 1
  /\ UNCHANGED <<slots, listening, sock, backlog, pc, i, fd, opcode, parts, stream, upgraded, wrote, skipped>>

SendFrameFails_NotDeleted ==
  /\ Broadcasting
  /\ Sending(slots[j].fd)
  /\ SendFails(slots[j].fd)
  /\ Close(slots[j].fd)
  /\ UNCHANGED <<slots, threadVars, stream, upgraded, wrote, got, skipped>>

\* The descriptor is closed and deleted; i-- and i++ come back to the index.
SendFrameFails ==
  /\ Broadcasting
  /\ Sending(slots[j].fd)
  /\ SendFails(slots[j].fd)
  /\ CloseAndDelete(slots[j].fd)
  /\ UNCHANGED <<threadVars, stream, upgraded, wrote, got, skipped>>

EndBroadcast_Early ==
  /\ pc \in {"announce", "broadcast"}
  /\ j >= Len(slots)
  /\ pc' = "scan"
  /\ i' = i + 1
  /\ opcode' = "none" /\ parts' = <<>>
  /\ UNCHANGED <<slots, listening, sock, backlog, j, fd, peerVars>>

EndBroadcast ==
  /\ pc \in {"announce", "broadcast"}
  /\ j > Len(slots)
  /\ pc' = "scan"
  /\ i' = i + 1
  /\ opcode' = "none" /\ parts' = <<>>
  /\ UNCHANGED <<slots, listening, sock, backlog, j, fd, peerVars>>

-----------------------------------------------------------------------------
(* receive_text_frame.                                                     *)

StartReceive ==
  /\ AtSlot
  /\ slots[i].in
  /\ slots[i].fd # ServerFd
  /\ fd' = slots[i].fd
  /\ pc' = "receive"
  /\ UNCHANGED <<slots, listening, sock, backlog, i, j, opcode, parts, peerVars>>

Peer == sock[fd]
Return_KeepsBuffer == /\ pc' = "scan"
                      /\ i' = i + 1
                      /\ UNCHANGED <<opcode, parts>>
Return == /\ pc' = "scan"
          /\ i' = i + 1
          /\ opcode' = "none" /\ parts' = <<>>

Idle_Closes ==
  /\ pc = "receive"
  /\ ~Invalid(fd) /\ ~Readable(fd)
  /\ CloseAndDelete(fd)
  /\ Return
  /\ UNCHANGED <<j, fd, stream, upgraded, wrote, got, skipped>>

\* Nothing to read for a second: the frames of an unfinished message are dropped.
Idle ==
  /\ pc = "receive"
  /\ ~Invalid(fd) /\ ~Readable(fd)
  /\ Return
  /\ UNCHANGED <<slots, listening, sock, backlog, j, fd, peerVars>>

Arrived == /\ pc = "receive"
           /\ ~Invalid(fd)
           /\ link[Peer] # "rst"
           /\ stream[Peer] # <<>>
Next1 == Head(stream[Peer])
Consumed == stream' = [stream EXCEPT ![Peer] = Tail(@)]
Ended == Next1.cut = "payload" /\ link[Peer] = "fin" /\ Len(stream[Peer]) = 1

\* POLLNVAL, POLLERR, the end of the stream, a cut payload or a close frame.
Disconnected ==
  /\ pc = "receive"
  /\ \/ Invalid(fd)
     \/ ~Invalid(fd) /\ link[Peer] = "rst"
     \/ ~Invalid(fd) /\ link[Peer] = "fin" /\ stream[Peer] = <<>>
     \/ Arrived /\ Ended /\ Next1.op \in {"text", "bin", "cont"}
     \/ Arrived /\ Next1.op = "close"
  /\ CloseAndDelete(fd)
  /\ Return
  /\ UNCHANGED <<j, fd, stream, upgraded, wrote, got, skipped>>

\* A ping is answered, and whether the pong was sent is only logged. One that ends too
\* early is not answered, and the client stays.
Ping ==
  /\ Arrived
  /\ Next1.op = "ping"
  /\ Next1.cut # "payload" \/ Ended
  /\ Consumed
  /\ IF Ended THEN Return /\ link' = link ELSE AfterSend(Peer) /\ UNCHANGED <<pc, i, opcode, parts>>
  /\ UNCHANGED <<slots, listening, sock, backlog, j, fd, upgraded, wrote, got, skipped>>

\* Any other opcode as the first frame of a message ends the call. The mask and
\* the payload behind the header are not read: they are taken for a header, with any
\* number of the frames after it.
Unsupported ==
  /\ Arrived
  /\ Next1.op = "pong"
  /\ opcode = "none"
  /\ \E g \in Garbage, k \in 1..Len(stream[Peer]) :
       stream' = [stream EXCEPT ![Peer] =
                    (IF Next1.cut = "byte" THEN <<>> ELSE <<g>>) \o SubSeq(@, k + 1, Len(@))]
  /\ Return
  /\ UNCHANGED <<slots, listening, sock, backlog, j, fd, link, upgraded, wrote, got, skipped>>

\* A misread header announces a payload, which is taken from the next frames.
Misread ==
  /\ Arrived
  /\ Next1.cut = "payload"
  /\ \E k \in 2..Len(stream[Peer]), rest \in {<<>>} \cup {<<g>> : g \in Garbage} :
       stream' = [stream EXCEPT ![Peer] = <<[Next1 EXCEPT !.cut = "no"]>> \o rest \o SubSeq(@, k + 1, Len(@))]
  /\ UNCHANGED <<slots, listening, sock, backlog, threadVars, link, upgraded, wrote, got, skipped>>

IsData == /\ Arrived
          /\ \/ Next1.op \in {"text", "bin", "cont"} /\ Next1.cut # "payload"
             \/ Next1.op = "pong" /\ opcode # "none"

\* After it only frames of the same message are read; a header cut after its first
\* byte counts as a frame without payload.
Opcode == IF opcode = "none" /\ Next1.op \in {"text", "bin"} THEN Next1.op ELSE opcode
Payload == IF Next1.cut = "no" THEN <<Next1.part>> ELSE <<>>

MoreData ==
  /\ IsData
  /\ ~Next1.fin
  /\ Consumed
  /\ opcode' = Opcode
  /\ parts' = parts \o Payload
  /\ UNCHANGED <<slots, listening, sock, backlog, pc, i, j, fd, link, upgraded, wrote, got, skipped>>

\* The last frame: the message is relayed as text or binary data, or dropped when
\* its first frame was.
MessageEnds ==
  /\ IsData
  /\ Next1.fin
  /\ Consumed
  /\ IF Opcode = "none" THEN Return /\ j' = j
     ELSE /\ opcode' = Opcode
          /\ parts' = parts \o Payload
          /\ pc' = IF Opcode = "text" THEN "broadcast" ELSE "binary"
          /\ j' = 1
          /\ i' = i
  /\ UNCHANGED <<slots, listening, sock, backlog, fd, link, upgraded, wrote, got, skipped>>

\* broadcast_binaray_to_all_clients: failures are only logged.
SendBinary ==
  /\ pc = "binary"
  /\ j <= Len(slots)
  /\ j' = j + 1
  /\ LET f == slots[j].fd IN
       IF f \in {fd, ServerFd} \/ SendFails(f) THEN UNCHANGED <<got, link>>
       ELSE /\ Receive(sock[f])
            /\ AfterSend(sock[f])
  /\ UNCHANGED <<slots, listening, sock, backlog, pc, i, fd, opcode, parts, stream, upgraded, wrote, skipped>>

EndBinary ==
  /\ pc = "binary"
  /\ j > Len(slots)
  /\ Return
  /\ UNCHANGED <<slots, listening, sock, backlog, j, fd, peerVars>>

-----------------------------------------------------------------------------

ServerStep ==
  \/ Poll \/ Skip \/ EndScan \/ Accept \/ Handshake \/ HandshakeEarly \/ HandshakeFails
  \/ SendSkip \/ SendFrame \/ SendFrameFails \/ EndBroadcast
  \/ StartReceive \/ Idle \/ Disconnected \/ Ping \/ Unsupported \/ Misread \/ MoreData \/ MessageEnds
  \/ SendBinary \/ EndBinary

PeerStep(p) == \/ Connect(p) \/ WriteRequest(p) \/ WriteFrame(p) \/ PingOn(p) \/ WriteCut(p) \/ Leave(p)

Next == ServerStep \/ \E p \in Peers : PeerStep(p)

Spec == Init /\ [][Next]_vars

\* The thread sends to a client that is there: send_frame, send_all and send_pong
\* block while the client does not read.
SendsTo(p) == /\ link[p] = "open"
              /\ \/ pc = "receive" /\ p = Peer /\ stream[p] # <<>> /\ Next1.op = "ping"
                 \/ Broadcasting /\ slots[j].fd \in OpenFds /\ sock[slots[j].fd] = p /\ Sending(slots[j].fd)
                 \/ pc = "binary" /\ j <= Len(slots) /\ slots[j].fd \in OpenFds \ {fd} /\ sock[slots[j].fd] = p
MayBlock == \E p \in Peers : SendsTo(p)

\* The server's thread is scheduled, and sends end when the peer is gone.
FairSpec == Spec /\ WF_vars(ServerStep /\ ~MayBlock)

-----------------------------------------------------------------------------
(* Properties.                                                             *)

\* Types; the client that is accepted, or whose message is relayed, has a socket.
TypeOK ==
  /\ slots \in Seq([fd : {ServerFd} \cup ClientFds, in : BOOLEAN])
  /\ sock \in [ClientFds -> Peers \cup {None}]
  /\ pc \in {"poll", "scan", "handshake", "announce", "receive", "broadcast", "binary", "exited"}
  /\ i \in 1..Len(slots) + 2 /\ fd \in {0} \cup ClientFds
  /\ pc \in {"handshake", "broadcast", "binary"} => fd \in OpenFds
  /\ opcode \in {"none", "text", "bin"}
  /\ link \in [Peers -> {"idle", "open", "fin", "rst", "dropped"}]
  /\ stream \in [Peers -> Seq(Frame)] /\ wrote \in [Peers -> Seq(Frame)]

\* init_pollfd allocates 8 bytes, and malloc gives 24: three slots. The list never
\* has more, because the announcement of the second client closes the listening
\* socket; it never reaches max_pollfds, and is never reallocated.
SlotsFit == Len(slots) <= 3

\* Every open client descriptor is in the list, whatever is deleted by descriptor
\* while slots are shifted under the scan and under a broadcast.
OpenIsWatched ==
  pc # "exited" => \A f \in OpenFds : \E k \in DOMAIN slots : slots[k].fd = f

\* What is relayed of a peer that writes whole frames and no unsolicited pong is
\* its messages, of the kind they were written, complete and with nothing else in
\* them, although frames are dropped when the peer pauses inside a message.
IsMessage(m) ==
  LET w == wrote[m.from] IN
    /\ m.parts # <<>>
    /\ \A x \in DOMAIN m.parts : m.parts[x] = <<m.parts[1][1], x>>
    /\ \E n \in DOMAIN w : w[n].part = m.parts[1] /\ w[n].op = m.kind
    /\ \E n \in DOMAIN w : w[n].part = Last(m.parts) /\ w[n].fin

MessageIntegrity ==
  \A q \in Peers : \A n \in DOMAIN got[q] : got[q][n].from \notin skipped => IsMessage(got[q][n])

\* Nobody is sent its own message, and the messages of one peer come in the order
\* they were written; a message comes twice only through a slot that was left over.
RelayedInOrder ==
  \A q \in Peers : \A n \in DOMAIN got[q] :
    /\ got[q][n].from # q
    /\ \A l \in n + 1..Len(got[q]) :
         got[q][l].from = got[q][n].from /\ got[q][n].from \notin skipped =>
           got[q][n].parts[1][1] <= got[q][l].parts[1][1]

\* A text broadcast that ends was sent to every connected client but the sender,
\* also when slots were deleted under it.
BroadcastComplete ==
  [][pc = "broadcast" /\ pc' = "scan" =>
       \A f \in OpenFds \ {fd} :
         link[sock[f]] = "open" => \E n \in DOMAIN got[sock[f]] : got[sock[f]][n] = Message]_vars

\* Until the server exits it cuts off only peers that left, sent a close frame or bytes
\* it cannot place, or whose request it did not answer, as happens to a good one that
\* one read does not take with its key: never one that is just silent.
DropsOnlyTheGone ==
  [][\A f \in ClientFds : sock[f] # None /\ sock'[f] = None /\ pc' # "exited" =>
       LET p == sock[f] IN
         \/ link[p] \in {"fin", "rst"} \/ p \in skipped
         \/ wrote[p] # <<>> /\ Last(wrote[p]).op = "close"
         \/ ~upgraded[p] /\ stream[p] # <<>>]_vars

\* The server waits for this client, and nobody else is served: it has not sent its
\* request, or not the bytes that a misread header announces, or it does not read.
WaitsForClient ==
  \/ pc = "handshake" /\ link[sock[fd]] = "open" /\ stream[sock[fd]] = <<>>
  \/ Arrived /\ Next1.cut = "payload" /\ link[Peer] = "open" /\ Len(stream[Peer]) = 1
  \/ MayBlock

\* Every scan ends: the thread comes back to poll again and again, or exits, unless
\* it waits for one client for ever or is kept in receive_text_frame by one that never
\* stops writing.
ScanEnds ==
  \/ []<>(pc \in {"poll", "exited"})
  \/ <>[]WaitsForClient
  \/ \E p \in Endless : <>[](pc = "receive" /\ Peer = p) /\ []<><<PingOn(p)>>_vars
=============================================================================
