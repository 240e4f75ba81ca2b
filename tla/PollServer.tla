----------------------------- MODULE PollServer -----------------------------
(***************************************************************************)
(* The poll(2) chat server: chat-app/server/src/main.c and                 *)
(* chat-app/server/src/core/poll_server.c.                                 *)
(*                                                                         *)
(* One thread owns an array of pollfd slots and the process's descriptor   *)
(* table.  It polls, then scans the slots in order: the listening socket   *)
(* is accepted from, any other readable descriptor is read and what was    *)
(* read is sent to every other slot.  Peers and the kernel's socket queues *)
(* are the environment.                                                    *)
(***************************************************************************)
EXTENDS Integers, Sequences, FiniteSets

CONSTANTS
  Peers,      \* client processes; each connects at most once
  None,       \* no peer: a descriptor that is not open
  ServerFd,   \* the descriptor socket() returned to create_server
  FdLimit,    \* RLIMIT_NOFILE: descriptors are below it
  InitMax,    \* max_pollfds at start (12 in main.c)
  Backlog,    \* the second listen() call's backlog (10 in main.c)
  Writers,    \* the peers that write; the others only listen
  MaxMsgs,    \* bound: messages a writer writes
  SndBuf      \* broadcasts that fit a peer's socket buffer unread

ASSUME ConstantsAssumption ==
  /\ None \notin Peers
  /\ IsFiniteSet(Peers)
  /\ Writers \subseteq Peers
  /\ ServerFd \in Nat
  /\ FdLimit \in Nat /\ ServerFd < FdLimit
  /\ InitMax \in Nat \ {0}
  /\ Backlog \in Nat
  /\ MaxMsgs \in Nat
  /\ SndBuf \in Nat \ {0}

VARIABLES
  \* the server process
  slots,      \* the pollfds array, stale slots beyond n included
  n,          \* n_pollfds
  max,        \* max_pollfds
  pc,         \* where the thread is
  i,          \* main's scan index
  j,          \* read_from_client's broadcast index
  chunk,      \* what recv returned, while it is being broadcast
  sock,       \* descriptor table: the peer each client descriptor leads to
  \* the kernel and the peers
  backlog,    \* connections not yet accepted
  link,       \* what the peer's side of the connection has done
  sent,       \* number of messages the peer wrote
  read,       \* number of them the server received
  unread,     \* broadcasts sitting in the peer's socket buffer
  \* history
  got,        \* what was sent to the peer, in order: messages lo..hi of a sender
  leaked      \* slots added by an accept that left no open descriptor

server == <<slots, n, max, pc, i, j, chunk, sock>>
peers  == <<backlog, link, sent, read, unread>>
vars   == <<slots, n, max, pc, i, j, chunk, sock,
            backlog, link, sent, read, unread, got, leaked>>

ClientFds == (ServerFd + 1)..(FdLimit - 1)
Slot == [fd : {-1, 0, ServerFd} \cup ClientFds, in : BOOLEAN]
NoChunk == [fd |-> ServerFd, lo |-> 1, hi |-> 0]

\* The first array is calloc(max + 1), every later one realloc(max).
Allocated(m) == IF m = InitMax THEN m + 1 ELSE m

Open == {f \in ClientFds : sock[f] # None}
Running == pc \in {"poll", "scan", "send"}

-----------------------------------------------------------------------------
(* The state after create_server, listen and init_pollfd.                  *)

\* calloc(max_pollfds + 1), the listener in slot 0.
InitPollfd == [s \in 0..InitMax |->
                [fd |-> IF s = 0 THEN ServerFd ELSE 0, in |-> FALSE]]

Init ==
  /\ slots = InitPollfd
  /\ n = 1
  /\ max = InitMax
  /\ pc = "poll"
  /\ i = 0
  /\ j = 0
  /\ chunk = NoChunk
  /\ sock = [f \in ClientFds |-> None]
  /\ backlog = <<>>
  /\ link = [p \in Peers |-> "idle"]
  /\ sent = [p \in Peers |-> 0]
  /\ read = [p \in Peers |-> 0]
  /\ unread = [p \in Peers |-> 0]
  /\ got = [p \in Peers |-> <<>>]
  /\ leaked = 0

-----------------------------------------------------------------------------
(* The descriptor table and the array.                                     *)

Free == {f \in ClientFds : sock[f] = None}

\* A peer the server can recv from without blocking: data, EOF or an error.
Readable(p) == read[p] < sent[p] \/ link[p] \in {"fin", "rst"}

\* What poll reports for one slot; a negative fd is ignored.
PollIn(f) == \/ f = ServerFd /\ backlog # <<>>
             \/ f \in Open /\ Readable(sock[f])
PollNval(f) == f \in Free

\* The array add_clients_to_poll writes to. What realloc adds is uninitialised:
\* the revents of those slots are anything.
Grown ==
  IF n < max
  THEN {slots}
  ELSE {[s \in 0..(2 * max - 1) |->
           IF s \in DOMAIN slots THEN slots[s] ELSE [fd |-> 0, in |-> s \in junk]] :
        junk \in SUBSET ((0..(2 * max - 1)) \ DOMAIN slots)}

AddClientToPoll_LateDoubling(f) ==
  /\ slots' = [slots EXCEPT ![n].fd = f]
  /\ max' = IF n <= max THEN max ELSE 2 * max
  /\ n' = n + 1

AddClientToPoll_NotCounted(f) ==
  /\ slots' = [slots EXCEPT ![n].fd = f]
  /\ UNCHANGED <<max, n>>

AddClientToPoll(f) ==
  /\ \E array \in Grown : slots' = [array EXCEPT ![n].fd = f]
  /\ max' = IF n < max THEN max ELSE 2 * max
  /\ n' = n + 1

DelClientFromPoll_FirstClientIsZero(f) ==
  /\ slots' = [slots EXCEPT ![f - ServerFd - 1] = slots[n - 1]]
  /\ n' = n - 1
  /\ UNCHANGED max

DelClientFromPoll_NotCounted(f) ==
  /\ f \in DOMAIN slots
  /\ slots' = [slots EXCEPT ![f] = slots[n - 1]]
  /\ UNCHANGED <<n, max>>

\* The descriptor is used as the index of the slot to overwrite.
DelClientFromPoll(f) ==
  /\ f \in DOMAIN slots
  /\ slots' = [slots EXCEPT ![f] = slots[n - 1]]
  /\ n' = n - 1
  /\ UNCHANGED max

-----------------------------------------------------------------------------
(* main's loop.                                                            *)

Polled == [s \in DOMAIN slots |->
             IF s < n THEN [slots[s] EXCEPT !.in = PollIn(slots[s].fd)] ELSE slots[s]]

Poll ==
  /\ pc = "poll"
  /\ n <= FdLimit
  /\ slots' = Polled
  /\ pc' = IF \E s \in 0..(n - 1) : PollIn(slots[s].fd) \/ PollNval(slots[s].fd)
           THEN "scan" ELSE "poll"
  /\ UNCHANGED <<n, max, i, j, chunk, sock, peers, got, leaked>>

PollFails_OnTimeout ==
  /\ pc = "poll"
  /\ \A s \in 0..(n - 1) : ~PollIn(slots[s].fd)
  /\ pc' = "exited"
  /\ UNCHANGED <<slots, n, max, i, j, chunk, sock, peers, got, leaked>>

\* poll refuses more slots than RLIMIT_NOFILE and main returns.
PollFails ==
  /\ pc = "poll"
  /\ n > FdLimit
  /\ pc' = "exited"
  /\ UNCHANGED <<slots, n, max, i, j, chunk, sock, peers, got, leaked>>

Skip ==
  /\ pc = "scan"
  /\ i < n
  /\ ~slots[i].in
  /\ i' = i + 1
  /\ UNCHANGED <<slots, n, max, pc, j, chunk, sock, peers, got, leaked>>

EndScan_BeforeLast ==
  /\ pc = "scan"
  /\ i >= n - 1
  /\ pc' = "poll"
  /\ i' = 0
  /\ UNCHANGED <<slots, n, max, j, chunk, sock, peers, got, leaked>>

EndScan_KeepsIndex ==
  /\ pc = "scan"
  /\ i >= n
  /\ pc' = "poll"
  /\ UNCHANGED <<slots, n, max, i, j, chunk, sock, peers, got, leaked>>

EndScan ==
  /\ pc = "scan"
  /\ i >= n
  /\ pc' = "poll"
  /\ i' = 0
  /\ UNCHANGED <<slots, n, max, j, chunk, sock, peers, got, leaked>>

-----------------------------------------------------------------------------
(* accept_connections.                                                     *)

AtListener == pc = "scan" /\ i < n /\ slots[i].in /\ slots[i].fd = ServerFd

\* accept returns the lowest free descriptor.
Accepts(f) ==
  /\ AtListener
  /\ backlog # <<>>
  /\ f \in Free
  /\ \A g \in Free : f <= g
  /\ backlog' = Tail(backlog)

Accept ==
  \E f \in Free :
    /\ Accepts(f)
    /\ link[Head(backlog)] # "rst"
    /\ AddClientToPoll(f)
    /\ sock' = [sock EXCEPT ![f] = Head(backlog)]
    /\ i' = i + 1
    /\ UNCHANGED <<pc, j, chunk, link, sent, read, unread, got, leaked>>

\* The greeting fails: the descriptor is closed, its slot stays.
AcceptReset ==
  \E f \in Free :
    /\ Accepts(f)
    /\ link[Head(backlog)] = "rst"
    /\ AddClientToPoll(f)
    /\ leaked' = leaked + 1
    /\ i' = i + 1
    /\ UNCHANGED <<pc, j, chunk, sock, link, sent, read, unread, got>>

\* The greeting raises SIGPIPE, which nothing handles.
AcceptKilled ==
  \E f \in Free :
    /\ Accepts(f)
    /\ link[Head(backlog)] = "rst"
    /\ AddClientToPoll(f)
    /\ sock' = [sock EXCEPT ![f] = Head(backlog)]
    /\ pc' = "killed"
    /\ UNCHANGED <<i, j, chunk, link, sent, read, unread, got, leaked>>

\* No descriptor is left. The result is unsigned, so the error is not seen and
\* -1 gets a slot; the connection stays in the backlog.
AcceptFails ==
  /\ AtListener
  /\ Free = {}
  /\ AddClientToPoll(-1)
  /\ leaked' = leaked + 1
  /\ i' = i + 1
  /\ UNCHANGED <<pc, j, chunk, sock, peers, got>>

-----------------------------------------------------------------------------
(* read_from_client.                                                       *)

AtClient_NoPollin == pc = "scan" /\ i < n /\ slots[i].fd # ServerFd

AtClient == pc = "scan" /\ i < n /\ slots[i].in /\ slots[i].fd # ServerFd

FirstTarget_AfterSender == i + 1

FirstTarget == 0

\* recv returns some of what has arrived. With nothing there from a connected
\* peer it blocks, and the server with it: no action is enabled.
Recv ==
  LET f == slots[i].fd
      p == sock[f]
  IN /\ AtClient
     /\ f \in Open
     /\ \E k \in (read[p] + 1)..sent[p] :
          /\ read' = [read EXCEPT ![p] = k]
          /\ chunk' = [fd |-> f, lo |-> read[p] + 1, hi |-> k]
     /\ pc' = "send"
     /\ j' = FirstTarget
     /\ UNCHANGED <<slots, n, max, i, sock, backlog, link, sent, unread, got, leaked>>

\* recv returned 0 or an error: EOF, a reset, or a descriptor no longer open.
HungUp(f) == f \in Open => /\ link[sock[f]] \in {"fin", "rst"}
                           /\ read[sock[f]] = sent[sock[f]]

Hangup ==
  LET f == slots[i].fd
  IN /\ AtClient
     /\ HungUp(f)
     /\ sock' = [g \in ClientFds |-> IF g = f THEN None ELSE sock[g]]
     /\ DelClientFromPoll(f)
     /\ i' = i + 1
     /\ UNCHANGED <<pc, j, chunk, peers, got, leaked>>

\* The index lies outside the array: what follows is undefined, and the model
\* stops.
HangupWild ==
  LET f == slots[i].fd
  IN /\ AtClient
     /\ HungUp(f)
     /\ f \notin DOMAIN slots
     /\ sock' = [g \in ClientFds |-> IF g = f THEN None ELSE sock[g]]
     /\ pc' = "wild"
     /\ UNCHANGED <<slots, n, max, i, j, chunk, peers, got, leaked>>

-----------------------------------------------------------------------------
(* The broadcast loop, one send at a time.                                 *)

Target == slots[j].fd
Sender == sock[chunk.fd]
Chunk == [from |-> Sender, lo |-> chunk.lo, hi |-> chunk.hi]

Sending_NoSenderCheck == pc = "send" /\ j < n /\ Target # ServerFd

Sending == pc = "send" /\ j < n /\ Target \notin {chunk.fd, ServerFd}

SendSkip ==
  /\ pc = "send"
  /\ j < n
  /\ Target \in {chunk.fd, ServerFd}
  /\ j' = j + 1
  /\ UNCHANGED <<slots, n, max, pc, i, chunk, sock, peers, got, leaked>>

SendFails_Retries ==
  /\ Sending
  /\ Target \in Open => link[sock[Target]] = "rst"
  /\ UNCHANGED vars

SendFails_Nonblocking ==
  /\ Sending
  /\ Target \in Open => \/ link[sock[Target]] = "rst"
                        \/ unread[sock[Target]] = SndBuf
  /\ j' = j + 1
  /\ UNCHANGED <<slots, n, max, pc, i, chunk, sock, peers, got, leaked>>

\* A closed descriptor, or a connection that was reset: the error is logged.
SendFails ==
  /\ Sending
  /\ Target \in Open => link[sock[Target]] = "rst"
  /\ j' = j + 1
  /\ UNCHANGED <<slots, n, max, pc, i, chunk, sock, peers, got, leaked>>

\* Sending on a connection that was reset raises SIGPIPE.
SendKilled ==
  /\ Sending
  /\ Target \in Open
  /\ link[sock[Target]] = "rst"
  /\ pc' = "killed"
  /\ UNCHANGED <<slots, n, max, i, j, chunk, sock, peers, got, leaked>>

\* The peer is connected: send blocks while its buffer is full.
SendDelivers ==
  /\ Sending
  /\ Target \in Open
  /\ link[sock[Target]] = "open"
  /\ unread[sock[Target]] < SndBuf
  /\ unread' = [unread EXCEPT ![sock[Target]] = @ + 1]
  /\ got' = [got EXCEPT ![sock[Target]] = Append(@, Chunk)]
  /\ j' = j + 1
  /\ UNCHANGED <<slots, n, max, pc, i, chunk, sock, backlog, link, sent, read, leaked>>

\* The peer has closed: the kernel takes the data and nobody reads it.
SendLost ==
  /\ Sending
  /\ Target \in Open
  /\ link[sock[Target]] = "fin"
  /\ j' = j + 1
  /\ UNCHANGED <<slots, n, max, pc, i, chunk, sock, peers, got, leaked>>

EndBroadcast ==
  /\ pc = "send"
  /\ j >= n
  /\ pc' = "scan"
  /\ i' = i + 1
  /\ j' = 0
  /\ chunk' = NoChunk
  /\ UNCHANGED <<slots, n, max, sock, peers, got, leaked>>

-----------------------------------------------------------------------------
(* The peers and the kernel, at any time while the server runs.            *)

Connect(p) ==
  /\ Running
  /\ link[p] = "idle"
  /\ Len(backlog) < Backlog
  /\ link' = [link EXCEPT ![p] = "open"]
  /\ backlog' = Append(backlog, p)
  /\ UNCHANGED <<server, sent, read, unread, got, leaked>>

Write(p) ==
  /\ Running
  /\ p \in Writers
  /\ link[p] = "open"
  /\ sent[p] < MaxMsgs
  /\ sent' = [sent EXCEPT ![p] = @ + 1]
  /\ UNCHANGED <<server, backlog, link, read, unread, got, leaked>>

Consume(p) ==
  /\ Running
  /\ unread[p] > 0
  /\ unread' = [unread EXCEPT ![p] = @ - 1]
  /\ UNCHANGED <<server, backlog, link, sent, read, got, leaked>>

Close(p) ==
  /\ Running
  /\ link[p] = "open"
  /\ link' = [link EXCEPT ![p] = "fin"]
  /\ unread' = [unread EXCEPT ![p] = 0]
  /\ UNCHANGED <<server, backlog, sent, read, got, leaked>>

\* An abort, or the peer's answer to data sent after it closed.
Reset(p) ==
  /\ Running
  /\ link[p] \in {"open", "fin"}
  /\ link' = [link EXCEPT ![p] = "rst"]
  /\ unread' = [unread EXCEPT ![p] = 0]
  /\ UNCHANGED <<server, backlog, sent, read, got, leaked>>

-----------------------------------------------------------------------------
ServerStep ==
  \/ Poll \/ PollFails \/ Skip \/ EndScan
  \/ Accept \/ AcceptReset \/ AcceptKilled \/ AcceptFails
  \/ Recv \/ Hangup \/ HangupWild
  \/ SendSkip \/ SendFails \/ SendKilled \/ SendDelivers \/ SendLost \/ EndBroadcast

PeerStep == \E p \in Peers : Connect(p) \/ Write(p) \/ Consume(p) \/ Close(p) \/ Reset(p)

Next == ServerStep \/ PeerStep

Spec == Init /\ [][Next]_vars

\* The server's thread is scheduled, and a peer that has something to read
\* reads it.
FairSpec == Spec /\ WF_vars(ServerStep) /\ \A p \in Peers : WF_vars(Consume(p))

-----------------------------------------------------------------------------
(* Properties.                                                             *)

ArrayOK ==
  /\ max \in Nat /\ InitMax <= max
  /\ n \in 0..max
  /\ slots \in [0..(Allocated(max) - 1) -> Slot]

ThreadOK ==
  /\ pc \in {"poll", "scan", "send", "killed", "exited", "wild"}
  /\ i \in Nat
  /\ j \in Nat
  /\ chunk \in [fd : {ServerFd} \cup ClientFds, lo : Nat, hi : Nat]
  /\ sock \in [ClientFds -> Peers \cup {None}]

PeersOK ==
  /\ backlog \in Seq(Peers)
  /\ link \in [Peers -> {"idle", "open", "fin", "rst"}]
  /\ sent \in [Peers -> 0..MaxMsgs]
  /\ read \in [Peers -> 0..MaxMsgs]
  /\ unread \in [Peers -> 0..SndBuf]

HistoryOK ==
  /\ got \in [Peers -> Seq([from : Peers, lo : Nat, hi : Nat])]
  /\ leaked \in Nat

\* The array holds as many slots as were allocated and n_pollfds never exceeds
\* max_pollfds, and the other variables have their types.
TypeOK == ArrayOK /\ ThreadOK /\ PeersOK /\ HistoryOK

Watched == {slots[s].fd : s \in 0..(n - 1)}

\* The listening socket stays in slot 0 and nowhere else, whatever slots
\* del_client_from_poll overwrites: the server can always be connected to.
ListenerFirst ==
  /\ n >= 1
  /\ slots[0].fd = ServerFd
  /\ \A s \in 1..(n - 1) : slots[s].fd \in {-1} \cup ClientFds

\* The watch list holds no more slots than the listener, the open connections
\* and the dead slots that failed accepts left: closing a client never leaks one.
WatchListBounded == pc # "wild" => n <= 1 + Cardinality(Open) + leaked

\* No peer is sent a message of its own, although slots go stale, descriptors
\* are reused and one descriptor can occupy several slots.
NoEcho == \A p \in Peers : \A k \in 1..Len(got[p]) : got[p][k].from # p

\* What a peer is sent of one sender is in order and has no holes: each chunk is
\* the one before it again (its descriptor is in two slots) or starts where that
\* one ended. A peer whose slot was dropped never hears anything again.
SenderOrder ==
  \A p \in Peers : \A k, l \in 1..Len(got[p]) :
    LET a == got[p][k]
        b == got[p][l]
    IN  /\ k < l
        /\ a.from = b.from
        /\ \A m \in (k + 1)..(l - 1) : got[p][m].from # a.from
        => b = a \/ b.lo = a.hi + 1

\* main returns only when poll refuses the list, and that takes more accepts that
\* left a dead slot than there are descriptors below the clients': clients that
\* connect, talk and leave, however many, never make the server exit.
EndsForCause == pc = "exited" => leaked > ServerFd

NoDisconnectYet ==
  /\ leaked = 0
  /\ \A p \in Peers : link[p] \in {"idle", "open"}

\* Until the first disconnect the watch list is right: every open descriptor has
\* exactly one slot.
WatchListExact ==
  NoDisconnectYet =>
    /\ Watched = {ServerFd} \cup Open
    /\ \A s, t \in 0..(n - 1) : slots[s].fd = slots[t].fd => s = t

BlockedInRecv ==
  /\ AtClient
  /\ slots[i].fd \in Open
  /\ ~Readable(sock[slots[i].fd])

\* Until the first disconnect, and while the array is the one calloc cleared,
\* the server never blocks in recv: no slot it reaches has stale revents.
RecvNeverBlocks == NoDisconnectYet /\ max = InitMax => ~BlockedInRecv

\* Until the first disconnect a broadcast that ends has sent its chunk to every
\* accepted peer but the sender, exactly once.
BroadcastExact ==
  pc = "send" /\ j >= n /\ NoDisconnectYet =>
    \A f \in Open \ {chunk.fd} :
      Cardinality({k \in 1..Len(got[sock[f]]) : got[sock[f]][k] = Chunk}) = 1

\* A connection waiting in the backlog is accepted, unless the process is gone
\* or blocks in recv on a stale slot first: the listener keeps its turn.
PendingAccepted ==
  \A p \in Peers :
    (\E b \in 1..Len(backlog) : backlog[b] = p)
      ~> \/ \A b \in 1..Len(backlog) : backlog[b] # p
         \/ ~Running
         \/ BlockedInRecv

\* A peer that closed or was reset has its descriptor closed, unless its slot is
\* lost first, the process is gone or it blocks in recv on a stale slot: hanging up
\* in the middle of a broadcast, or while slots move under the scan, is not missed.
HangupNoticed ==
  \A f \in ClientFds :
    f \in Open \cap Watched /\ link[sock[f]] \in {"fin", "rst"}
      ~> f \notin Open \cap Watched \/ ~Running \/ BlockedInRecv

\* A broadcast ends when the peers read what they are sent, although a full
\* buffer of any of them stops the loop.
BroadcastEnds == pc = "send" ~> pc # "send"

\* read_from_client's comment: broadcast to all the other fds except the sender
\* and the server socket.
BroadcastReachesAll ==
  pc = "send" /\ j >= n =>
    \A f \in Open \ {chunk.fd} :
      link[sock[f]] = "open" => \E k \in 1..Len(got[sock[f]]) : got[sock[f]][k] = Chunk
=============================================================================
