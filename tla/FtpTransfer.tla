---------------------------- MODULE FtpTransfer ----------------------------
(***************************************************************************)
(* GET and PUT of one file between the CLI client and its server thread:   *)
(* ftp-server/cli_ftp_client.c (GET, PUT), ftp-server/ftp-server.c (GET,   *)
(* PUT) and the packet functions of ftp-server/utils.c.                    *)
(*                                                                         *)
(* A packet carries up to BuffSize bytes and its length in one byte. The   *)
(* side that owns the file sends DATA packets and an EOT; the other one    *)
(* writes what it receives while the packet it holds is a DATA packet,     *)
(* and does not look at what recv_data returns.  It leaves its loop early  *)
(* when fwrite fails.                                                      *)
(***************************************************************************)
EXTENDS Integers, Sequences, FiniteSets, SequencesExt

CONSTANTS
  BuffSize,   \* bytes of command_buffer (508)
  ByteMod,    \* values of the u_int8_t command_len (256)
  Sizes,      \* file sizes considered
  Faults,     \* TRUE: files may be missing, files and disks may fail, and
              \* processes may be killed
  MaxChunks   \* bound: packets the model writes to a file after the peer died

ASSUME TransferAssumption ==
  /\ BuffSize \in Nat \ {0}
  /\ ByteMod \in Nat \ {0}
  /\ Sizes \subseteq Nat
  /\ Faults \in BOOLEAN
  /\ MaxChunks \in Nat

VARIABLES
  mode,       \* the command
  size,       \* bytes fread gets from the sent file; a read error looks like its end
  usable,     \* whether the server's fopen succeeds
  pc,         \* program counter of each process
  chan,       \* packets on their way to each process
  buf,        \* the packet each process holds in client_data
  off,        \* chunks the sender has read from its file
  file,       \* chunks fwrite took from the receiver; fclose's result is not looked at
  gone,       \* processes that no longer run
  killed      \* history: processes that were killed from outside

vars == <<mode, size, usable, pc, chan, buf, off, file, gone, killed>>

Roles == {"client", "server"}
Peer(r) == IF r = "client" THEN "server" ELSE "client"
Sender == IF mode = "GET" THEN "server" ELSE "client"
Receiver == Peer(Sender)

\* no numbers the chunks of the file; it is 0 in a packet with other contents.
Packet == [type : {"none", "REQU", "INF", "DATA", "EOT"}, no : Nat, len : 0..ByteMod - 1]
Pkt(t) == [type |-> t, no |-> 0, len |-> 0]

\* fread returns full buffers and then the rest.
Chunks == (size + BuffSize - 1) \div BuffSize
ChunkLen(k) == IF k * BuffSize <= size THEN BuffSize ELSE size - (k - 1) * BuffSize

ByteLen_Wide(k) == ChunkLen(k)

\* command_len = x, an u_int8_t.
ByteLen(k) == ChunkLen(k) % ByteMod

DataPkt(k) == [type |-> "DATA", no |-> k, len |-> ByteLen(k)]

Init ==
  /\ mode \in {"GET", "PUT"}
  /\ size \in Sizes
  /\ usable \in IF Faults THEN BOOLEAN ELSE {TRUE}
  /\ pc = [r \in Roles |-> IF r = "client" THEN "request" ELSE "command"]
  /\ chan = [r \in Roles |-> <<>>]
  /\ buf = [r \in Roles |-> Pkt("none")]
  /\ off = 0
  /\ file = <<>>
  /\ gone = {}
  /\ killed = {}

-----------------------------------------------------------------------------
(* send_packet, recv_data.                                                 *)

Up(r) == r \notin gone

\* send: the packet is queued, or lost when the peer is gone.
Send(r, p) == chan' = IF Up(Peer(r)) THEN [chan EXCEPT ![Peer(r)] = Append(@, p)]
                                     ELSE chan

\* ... or it raises SIGPIPE, which neither program handles.
SendKilled(r) ==
  /\ Up(r)
  /\ pc[r] = "send"
  /\ ~Up(Peer(r))
  /\ gone' = gone \cup {r}
  /\ UNCHANGED <<mode, size, usable, pc, chan, buf, off, file, killed>>

\* recv_data returned, in failure (the peer is gone) with the old packet.
Received(r) ==
  \/ /\ chan[r] # <<>>
     /\ buf' = [buf EXCEPT ![r] = Head(chan[r])]
     /\ chan' = [chan EXCEPT ![r] = Tail(@)]
  \/ /\ chan[r] = <<>>
     /\ ~Up(Peer(r))
     /\ UNCHANGED <<buf, chan>>

Goto(r, to) == pc' = [pc EXCEPT ![r] = to]

-----------------------------------------------------------------------------
(* The command and its first reply.                                        *)

\* The client truncates its local file for a GET, and sends the request.
Request ==
  /\ Up("client")
  /\ pc["client"] = "request"
  /\ buf' = [buf EXCEPT !["client"] = Pkt("REQU")]
  /\ Send("client", Pkt("REQU"))
  /\ Goto("client", "reply")
  /\ UNCHANGED <<mode, size, usable, off, file, gone, killed>>

\* execute_commands: fopen, and the INF packet that says whether it worked.
Command ==
  /\ Up("server")
  /\ pc["server"] = "command"
  /\ chan["server"] # <<>>
  /\ buf' = [buf EXCEPT !["server"] = Pkt("INF")]
  /\ chan' = [client |-> IF Up("client") THEN Append(chan["client"], Pkt("INF"))
                                         ELSE chan["client"],
              server |-> Tail(chan["server"])]
  /\ Goto("server", IF mode = "PUT" THEN "recv" ELSE IF usable THEN "send" ELSE "fclose")
  /\ UNCHANGED <<mode, size, usable, off, file, gone, killed>>

\* The client's answer to the reply: an INF starts the transfer, also when its
\* text reports an error.
Reply ==
  /\ Up("client")
  /\ pc["client"] = "reply"
  /\ Received("client")
  /\ Goto("client", IF buf'["client"].type # "INF" THEN "done"
                    ELSE IF mode = "GET" THEN "recv" ELSE "send")
  /\ UNCHANGED <<mode, size, usable, off, file, gone, killed>>

-----------------------------------------------------------------------------
(* The loop of the side that sends the file.                               *)

SendChunk_Unread(r) ==
  /\ Up(r)
  /\ pc[r] = "send"
  /\ off < Chunks
  /\ off' = off + 1
  /\ Send(r, DataPkt(IF off = 0 THEN 1 ELSE off))
  /\ buf' = [buf EXCEPT ![r] = DataPkt(off + 1)]
  /\ UNCHANGED <<mode, size, usable, pc, file, gone, killed>>

SendChunk(r) ==
  /\ Up(r)
  /\ pc[r] = "send"
  /\ off < Chunks
  /\ off' = off + 1
  /\ Send(r, DataPkt(off + 1))
  /\ buf' = [buf EXCEPT ![r] = DataPkt(off + 1)]
  /\ UNCHANGED <<mode, size, usable, pc, file, gone, killed>>

SendEot_Missing(r) ==
  /\ Up(r)
  /\ pc[r] = "send"
  /\ off = Chunks
  /\ Goto(r, "done")
  /\ UNCHANGED <<mode, size, usable, chan, buf, off, file, gone, killed>>

\* fread returned 0: end_of_transfer.
SendEot(r) ==
  /\ Up(r)
  /\ pc[r] = "send"
  /\ off = Chunks
  /\ buf' = [buf EXCEPT ![r].type = "EOT"]
  /\ Send(r, Pkt("EOT"))
  /\ Goto(r, "done")
  /\ UNCHANGED <<mode, size, usable, off, file, gone, killed>>

\* get_file_size: fstat fails. A second INF packet follows, and no EOT.
SizeFails ==
  /\ Faults
  /\ Up("server")
  /\ mode = "GET"
  /\ pc["server"] = "send"
  /\ off = 0
  /\ buf' = [buf EXCEPT !["server"] = Pkt("INF")]
  /\ Send("server", Pkt("INF"))
  /\ Goto("server", "unsized")
  /\ UNCHANGED <<mode, size, usable, off, file, gone, killed>>

-----------------------------------------------------------------------------
(* The loop of the side that writes the file.                              *)

\* recv_data, its result unused.
RecvNext(r) ==
  /\ Up(r)
  /\ pc[r] = "recv"
  /\ Received(r)
  /\ Goto(r, "write")
  /\ UNCHANGED <<mode, size, usable, off, file, gone, killed>>

\* The packet in client_data is (still) a DATA packet: fwrite. A file the server
\* could not open is a null pointer, and the process ends.
Write(r) ==
  /\ Up(r)
  /\ pc[r] = "write"
  /\ buf[r].type = "DATA"
  /\ r = "client" \/ usable
  /\ file' = IF Len(file) < Chunks + MaxChunks
             THEN Append(file, [no |-> buf[r].no, len |-> buf[r].len]) ELSE file
  /\ Goto(r, "recv")
  /\ UNCHANGED <<mode, size, usable, chan, buf, off, gone, killed>>

\* fwrite takes less than the packet: an error is logged and the loop is left. The
\* rest of the file stays in the socket.
WriteFails(r) ==
  /\ Faults
  /\ Up(r)
  /\ pc[r] = "write"
  /\ buf[r].type = "DATA"
  /\ r = "client" \/ usable
  /\ Goto(r, "failed")
  /\ UNCHANGED <<mode, size, usable, chan, buf, off, file, gone, killed>>

WriteEnd_AfterOne(r) ==
  /\ Up(r)
  /\ pc[r] = "write"
  /\ r = "client" \/ usable
  /\ buf[r].type # "DATA" \/ file # <<>>
  /\ Goto(r, "done")
  /\ UNCHANGED <<mode, size, usable, chan, buf, off, file, gone, killed>>

\* Any other packet ends the loop.
WriteEnd(r) ==
  /\ Up(r)
  /\ pc[r] = "write"
  /\ buf[r].type # "DATA"
  /\ r = "client" \/ usable
  /\ Goto(r, "done")
  /\ UNCHANGED <<mode, size, usable, chan, buf, off, file, gone, killed>>

\* fwrite(NULL) or fclose(NULL): the whole server process is gone.
NullFile ==
  /\ Up("server")
  /\ ~usable
  /\ pc["server"] \in {"fclose", "write"}
  /\ gone' = gone \cup {"server"}
  /\ UNCHANGED <<mode, size, usable, pc, chan, buf, off, file, killed>>

-----------------------------------------------------------------------------
(* A process is killed. What the network had not delivered may be lost, in  *)
(* the middle of a packet: the new header over the old buffer.             *)

Cut(s, k) == { SubSeq(s, 1, k) } \cup
             IF k = Len(s) THEN {} ELSE { Append(SubSeq(s, 1, k), [s[k + 1] EXCEPT !.no = 0]) }

Kill(r) ==
  /\ Faults
  /\ Up(r)
  /\ gone' = gone \cup {r}
  /\ killed' = killed \cup {r}
  /\ \E k \in 0..Len(chan[Peer(r)]) : \E s \in Cut(chan[Peer(r)], k) :
       chan' = [chan EXCEPT ![Peer(r)] = s]
  /\ UNCHANGED <<mode, size, usable, pc, buf, off, file>>

Step(r) ==
  \/ SendChunk(r) \/ SendEot(r) \/ SendKilled(r)
  \/ RecvNext(r) \/ Write(r) \/ WriteFails(r) \/ WriteEnd(r)

Next == \/ Request \/ Command \/ Reply \/ SizeFails \/ NullFile
        \/ \E r \in Roles : Step(r) \/ Kill(r)

\* Both processes are scheduled; being killed is never owed.
Fairness == /\ WF_vars(Request) /\ WF_vars(Command) /\ WF_vars(Reply) /\ WF_vars(NullFile)
            /\ \A r \in Roles : WF_vars(Step(r))

Spec == Init /\ [][Next]_vars /\ Fairness

-----------------------------------------------------------------------------
(* Properties.                                                             *)

\* The length a packet announces fits the byte that carries it.
TypeOK ==
  /\ mode \in {"GET", "PUT"} /\ size \in Sizes /\ usable \in BOOLEAN
  /\ pc \in [Roles -> {"request", "command", "reply", "send", "recv", "write",
                       "fclose", "done", "failed", "unsized"}]
  /\ chan \in [Roles -> Seq(Packet)]
  /\ buf \in [Roles -> Packet]
  /\ off \in 0..Chunks
  /\ file \in Seq([no : Nat, len : 0..ByteMod - 1])
  /\ gone \subseteq Roles /\ killed \subseteq Roles

\* The written file is the sent chunks in their order; after them at most one
\* packet repeats, the last one or one that was cut, and only if its sender died:
\* the receiver goes on with the packet it holds when recv_data fails.
ChunkOrder ==
  \E n \in 0..Len(file) :
    /\ \A k \in 1..n : file[k].no = k
    /\ n < Len(file) =>
         /\ Sender \in gone
         /\ \A k \in n + 1..Len(file) : file[k] = file[Len(file)] /\ file[k].no \in {0, n}

Complete ==
  /\ Len(file) = Chunks
  /\ \A k \in 1..Chunks : file[k] = [no |-> k, len |-> ByteLen(k)]

\* A receiver that was told the end of the transfer has written every chunk, each
\* with its length modulo 256, whoever was killed. It leaves its loop without being
\* told the end only if a process is gone, if one of its own writes failed (then it
\* is "failed") or if the server could not size the file, and then nothing is written.
CompleteTransfer ==
  pc[Receiver] = "done" =>
    \/ buf[Receiver].type = "EOT" /\ Complete
    \/ buf[Receiver].type # "EOT" /\ gone # {}
    \/ buf[Receiver].type = "INF" /\ pc[Sender] = "unsized" /\ file = <<>>

\* Neither program ends, and none is stuck, because of the transfer itself: it
\* comes to its end on both sides if the server has the file, no write fails (the
\* sender could then block behind what nobody reads) and nobody is killed.
TransferEnds ==
  <>(\/ \A r \in Roles : pc[r] \in {"done", "unsized"} /\ Up(r)
     \/ killed # {} \/ ~usable \/ pc[Receiver] = "failed")

\* HELP: get and put copy a file to the other machine. All its bytes, then.
FileCopied ==
  (pc[Receiver] = "done" /\ buf[Receiver].type = "EOT") =>
    FoldLeft(LAMBDA n, c : n + c.len, 0, file) = size
=============================================================================
