-------------------------- MODULE FtpTransferProofs --------------------------
(***************************************************************************)
(* CompleteTransfer and ChunkOrder of FtpTransfer for every file, size of  *)
(* a packet and width of its length.                                       *)
(*                                                                         *)
(* CompleteTransfer speaks of the end only. Its invariant speaks of the    *)
(* whole stream: what was written, the packet that is being looked at and  *)
(* those on their way are the chunks in order, then the EOT; this holds    *)
(* while the sender runs, and afterwards as long as an EOT is still on its *)
(* way, because what is lost when a process dies is the end of the stream. *)
(*                                                                         *)
(* ChunkOrder speaks of every moment. Its invariant is weaker about the    *)
(* packets on their way, which may be cut off anywhere, and says what the  *)
(* receiver does without them: either what it looks at is the next in      *)
(* order, or it repeats the chunk written last.                            *)
(***************************************************************************)
EXTENDS FtpTransfer, SequenceTheorems, TLAPS

\* What stands at place k of the stream.
Right(p, k) == \/ p = DataPkt(k) /\ k \in 1 .. Chunks
               \/ p.type = "EOT" /\ k = Chunks + 1

\* Before the transfer begins one packet, the request or the reply, is ahead of it.
Skip == IF pc[Receiver] \in {"request", "reply", "command"} THEN 1 ELSE 0
Taken == Len(file) + (IF pc[Receiver] = "write" THEN 1 ELSE 0)

\* The receiver has left its loop.
Stopped == pc[Receiver] \in {"done", "failed"}

\* The stream from the file to the network.
InStream ==
  /\ \A k \in 1 .. Len(file) : file[k] = [no |-> k, len |-> ByteLen(k)]
  /\ Len(file) <= Chunks
  /\ pc[Receiver] = "write" => Right(buf[Receiver], Taken)
  /\ \A j \in Skip + 1 .. Len(chan[Receiver]) : Right(chan[Receiver][j], Taken + j - Skip)

Eot == \/ pc[Receiver] = "write" /\ buf[Receiver].type = "EOT"
       \/ \E j \in 1 .. Len(chan[Receiver]) : chan[Receiver][j].type = "EOT"

StreamOK == ~Stopped /\ (Up(Sender) \/ Eot) => InStream

\* Nothing that was sent is missing while both run.
CountOK ==
  Up(Sender) /\ Up(Receiver) /\ pc[Sender] \in {"send", "done"} /\ ~Stopped =>
    Taken + Len(chan[Receiver]) - Skip = off + (IF pc[Sender] = "done" THEN 1 ELSE 0)

EndOK ==
  pc[Receiver] = "done" =>
    /\ buf[Receiver].type = "EOT" =>
         Len(file) = Chunks /\ \A k \in 1 .. Chunks : file[k] = [no |-> k, len |-> ByteLen(k)]
    /\ buf[Receiver].type = "EOT" \/ gone # {}

\* Where the two processes can be.
ControlOK ==
  /\ pc[Receiver] = "recv" => buf[Receiver].type # "EOT"
  /\ pc["client"] \in {"request", "reply", IF mode = "GET" THEN "recv" ELSE "send", "write", "done", "failed"}
  /\ pc["server"] \in {"command", IF mode = "GET" THEN "send" ELSE "recv", "write", "fclose", "done", "failed"}
  /\ pc[Sender] # "write" /\ pc[Receiver] # "fclose"
  /\ pc[Sender] = "done" => off = Chunks \/ ~Up(Receiver)
  /\ pc[Sender] \notin {"send", "done"} => off = 0
  /\ pc["client"] = "request" => pc["server"] = "command" /\ chan["server"] = <<>>
  /\ pc["client"] = "reply" => buf["client"].type = "REQU"
  /\ pc["client"] = "reply" /\ chan["client"] # <<>> => chan["client"][1].type = "INF"
  /\ pc["client"] = "done" /\ pc["server"] = "command" => ~Up("server")
  /\ pc["server"] = "command" =>
       /\ pc["client"] \in {"request", "reply", "done"}
       /\ chan["client"] = <<>> /\ Len(chan["server"]) <= 1
       /\ file = <<>>
  /\ pc[Receiver] \in {"request", "reply", "command"} => file = <<>>
  /\ mode = "PUT" /\ pc["client"] = "reply" /\ Up("client") /\ pc["server"] # "command" =>
       pc["server"] = "recv" /\ chan["server"] = <<>> /\ file = <<>>

IndInv == TypeOK /\ StreamOK /\ CountOK /\ EndOK /\ ControlOK

-----------------------------------------------------------------------------
LEMMA ChunksNat == TypeOK => Chunks \in Nat
<1> SUFFICES ASSUME TypeOK PROVE Chunks \in Nat
  OBVIOUS
<1>1. size \in Nat /\ BuffSize \in Nat /\ BuffSize > 0
  BY TransferAssumption DEF TypeOK
<1>2. size + BuffSize - 1 \in Nat
  BY <1>1
<1> QED
  BY <1>1, <1>2 DEF Chunks

LEMMA DataPacket ==
  ASSUME TypeOK, NEW k \in Nat
  PROVE  /\ DataPkt(k) \in Packet /\ ByteLen(k) \in 0 .. ByteMod - 1
         /\ DataPkt(k).type = "DATA" /\ DataPkt(k).no = k /\ DataPkt(k).len = ByteLen(k)
<1>1. size \in Nat /\ BuffSize \in Nat /\ ByteMod \in Nat \ {0}
  BY TransferAssumption DEF TypeOK
<1>2. k * BuffSize \in Int /\ (k - 1) * BuffSize \in Int
  BY <1>1
<1>3. ChunkLen(k) \in Int
  BY <1>1, <1>2 DEF ChunkLen
<1>4. ByteLen(k) \in 0 .. ByteMod - 1
  BY <1>1, <1>3 DEF ByteLen
<1> QED
  BY <1>4 DEF DataPkt, Packet

LEMMA Packets ==
  /\ \A t \in {"none", "REQU", "INF", "EOT"} : Pkt(t) \in Packet /\ Pkt(t).type = t
  /\ \A p \in Packet : p.type \in {"none", "REQU", "INF", "DATA", "EOT"}
BY TransferAssumption DEF Pkt, Packet

LEMMA TwoRoles ==
  ASSUME mode \in {"GET", "PUT"}
  PROVE  /\ Sender \in Roles /\ Receiver \in Roles /\ Sender # Receiver
         /\ Roles = {Sender, Receiver} /\ Peer(Sender) = Receiver /\ Peer(Receiver) = Sender
         /\ mode = "GET" => Sender = "server" /\ Receiver = "client"
         /\ mode = "PUT" => Sender = "client" /\ Receiver = "server"
BY DEF Sender, Receiver, Peer, Roles

\* A stream that was cut is a beginning of what it was; only the last packet may
\* have lost its contents.
LEMMA CutKeeps ==
  ASSUME NEW s \in Seq(Packet), NEW k \in 0 .. Len(s), NEW t \in Cut(s, k)
  PROVE  /\ t \in Seq(Packet) /\ Len(t) <= Len(s)
         /\ \A j \in 1 .. Len(t) : t[j].type = s[j].type /\ (j < Len(t) => t[j] = s[j])
<1> DEFINE b == SubSeq(s, 1, k)
<1>1. b \in Seq(Packet) /\ Len(b) = k /\ \A j \in 1 .. k : b[j] = s[j]
  OBVIOUS
<1>2. CASE t = b
  BY <1>1, <1>2
<1>3. CASE k # Len(s) /\ t = Append(b, [s[k + 1] EXCEPT !.no = 0])
  <2> DEFINE e == [s[k + 1] EXCEPT !.no = 0]
  <2>1. s[k + 1] \in Packet /\ k + 1 <= Len(s)
    BY <1>3
  <2>2. e \in Packet /\ e.type = s[k + 1].type
    BY <2>1 DEF Packet
  <2> HIDE DEF b, e
  <2>3. t = Append(b, e)
    BY <1>3 DEF e
  <2>4. t \in Seq(Packet) /\ Len(t) = k + 1 /\ t[k + 1] = e /\ \A j \in 1 .. k : t[j] = b[j]
    BY <1>1, <2>2, <2>3
  <2> QED
    BY <1>1, <2>1, <2>2, <2>4
<1> QED
  BY <1>2, <1>3 DEF Cut

LEMMA InitIndInv == Init => IndInv
<1> SUFFICES ASSUME Init PROVE IndInv
  OBVIOUS
<1>1. TypeOK
  <2>1. mode \in {"GET", "PUT"} /\ size \in Sizes /\ usable \in BOOLEAN
    BY TransferAssumption DEF Init
  <2>2. size + BuffSize - 1 \in Nat /\ BuffSize \in Nat \ {0}
    BY <2>1, TransferAssumption
  <2>3. Chunks \in Nat
    BY <2>2 DEF Chunks
  <2> QED
    BY <2>1, <2>3, Packets DEF Init, TypeOK, Roles
<1>2. Chunks \in Nat
  BY <1>1, ChunksNat
<1>3. mode \in {"GET", "PUT"}
  BY DEF Init
<1>4. CASE mode = "GET"
  <2>1. Sender = "server" /\ Receiver = "client"
    BY <1>4 DEF Sender, Receiver, Peer
  <2> QED
    BY <1>1, <1>2, <1>4, <2>1, Packets
      DEF Init, IndInv, StreamOK, InStream, CountOK, EndOK, ControlOK, Skip, Taken, Roles, Stopped
<1>5. CASE mode = "PUT"
  <2>1. Sender = "client" /\ Receiver = "server"
    BY <1>5 DEF Sender, Receiver, Peer
  <2> QED
    BY <1>1, <1>2, <1>5, <2>1, Packets
      DEF Init, IndInv, StreamOK, InStream, CountOK, EndOK, ControlOK, Skip, Taken, Roles, Stopped
<1> QED
  BY <1>3, <1>4, <1>5

LEMMA SameFile ==
  ASSUME UNCHANGED <<mode, size>>
  PROVE  /\ Chunks' = Chunks /\ Sender' = Sender /\ Receiver' = Receiver
         /\ \A k : DataPkt(k)' = DataPkt(k) /\ ByteLen(k)' = ByteLen(k)
         /\ \A p, k : Right(p, k)' <=> Right(p, k)
<1>1. Chunks' = Chunks
  BY DEF Chunks
<1>2. Sender' = Sender /\ Receiver' = Receiver
  BY DEF Sender, Receiver, Peer
<1>3. ASSUME NEW k PROVE ByteLen(k)' = ByteLen(k)
  BY DEF ByteLen, ChunkLen
<1>4. ASSUME NEW k PROVE DataPkt(k)' = DataPkt(k)
  BY <1>3 DEF DataPkt
<1>5. ASSUME NEW p, NEW k PROVE Right(p, k)' <=> Right(p, k)
  BY <1>1, <1>4 DEF Right
<1> QED
  BY <1>1, <1>2, <1>3, <1>4, <1>5

LEMMA Context ==
  ASSUME IndInv
  PROVE  /\ TypeOK /\ StreamOK /\ CountOK /\ EndOK /\ ControlOK /\ Chunks \in Nat
         /\ Sender \in Roles /\ Receiver \in Roles /\ Sender # Receiver
         /\ Roles = {Sender, Receiver} /\ Peer(Sender) = Receiver /\ Peer(Receiver) = Sender
         /\ mode = "GET" => Sender = "server" /\ Receiver = "client"
         /\ mode = "PUT" => Sender = "client" /\ Receiver = "server"
         /\ mode \in {"GET", "PUT"}
         /\ chan[Receiver] \in Seq(Packet) /\ Len(chan[Receiver]) \in Nat
         /\ file \in Seq([no : Nat, len : 0 .. ByteMod - 1]) /\ Len(file) \in Nat /\ off \in Nat
BY ChunksNat, TwoRoles DEF IndInv, TypeOK

\* The invariant does not change when a process ends and nothing else happens.
LEMMA GoneKeeps ==
  ASSUME IndInv, UNCHANGED <<mode, size, usable, pc, chan, buf, off, file>>,
         gone \subseteq gone', gone' \subseteq Roles, killed' \subseteq Roles
  PROVE  IndInv'
<1>1. /\ Chunks' = Chunks /\ Sender' = Sender /\ Receiver' = Receiver
      /\ \A k : ByteLen(k)' = ByteLen(k)
      /\ \A p, k : Right(p, k)' <=> Right(p, k)
  BY SameFile
<1>2. TypeOK'
  BY <1>1, Context DEF TypeOK
<1>3. StreamOK'
  <2>1. InStream' <=> InStream
    BY <1>1 DEF InStream, Taken, Skip
  <2> QED
    BY <1>1, <2>1, Context DEF StreamOK, Eot, Up, Stopped
<1>4. CountOK' /\ EndOK'
  BY <1>1, Context DEF CountOK, EndOK, Taken, Skip, Up, Stopped
<1>5. ControlOK'
  BY <1>1, Context DEF ControlOK, Up
<1> QED
  BY <1>2, <1>3, <1>4, <1>5 DEF IndInv

-----------------------------------------------------------------------------
(* The receiver.                                                           *)

\* A packet is taken from the network, or the old one counts again.
LEMMA RecvKeeps == ASSUME IndInv, RecvNext(Receiver) PROVE IndInv'
<1> DEFINE R == Receiver
<1>1. /\ UNCHANGED <<mode, size, usable, off, file, gone, killed>>
      /\ Up(R) /\ pc[R] = "recv" /\ pc' = [pc EXCEPT ![R] = "write"] /\ Received(R)
  BY DEF RecvNext, Goto
<1>2. /\ Chunks' = Chunks /\ Sender' = Sender /\ Receiver' = Receiver
      /\ \A k : ByteLen(k)' = ByteLen(k)
      /\ \A p, k : Right(p, k)' <=> Right(p, k)
  BY <1>1, SameFile
<1>3. pc'[R] = "write" /\ pc'[Sender] = pc[Sender]
  BY <1>1, Context DEF TypeOK
<1>4. Taken = Len(file) /\ Taken' = Len(file) + 1 /\ Skip = 0 /\ Skip' = 0
  BY <1>1, <1>2, <1>3 DEF Taken, Skip
<1>5. CASE chan[R] # <<>>
  <2>1. buf' = [buf EXCEPT ![R] = Head(chan[R])] /\ chan' = [chan EXCEPT ![R] = Tail(@)]
    BY <1>1, <1>5 DEF Received
  <2>2. /\ buf'[R] = chan[R][1] /\ chan'[R] = Tail(chan[R]) /\ chan'[Sender] = chan[Sender]
        /\ buf'[Sender] = buf[Sender] /\ chan[R][1] \in Packet
    BY <1>5, <2>1, Context DEF TypeOK
  <2>3. /\ chan'[R] \in Seq(Packet) /\ Len(chan'[R]) = Len(chan[R]) - 1
        /\ \A j \in 1 .. Len(chan'[R]) : chan'[R][j] = chan[R][j + 1]
    BY <1>5, <2>2, Context, HeadTailProperties
  <2>a. CountOK /\ Len(chan[R]) \in Nat /\ Len(chan[R]) > 0 /\ Len(file) \in Nat
    BY <1>5, Context
  <2>4. TypeOK'
    BY <1>1, <1>2, <2>1, <2>2, <2>3, Context DEF TypeOK
  <2>5. InStream => InStream'
    <3> SUFFICES ASSUME InStream PROVE InStream'
      OBVIOUS
    <3>1. Right(buf'[R], Taken')
      BY <1>4, <1>5, <2>2, Context DEF InStream
    <3>2. ASSUME NEW j \in 1 .. Len(chan'[R])
          PROVE  Right(chan'[R][j], Taken' + j - 0)
      <4>1. j + 1 \in 1 .. Len(chan[R]) /\ chan'[R][j] = chan[R][j + 1]
        BY <2>3, <2>a
      <4>2. Right(chan[R][j + 1], Taken + (j + 1) - 0)
        BY <1>4, <4>1 DEF InStream
      <4>3. Taken + (j + 1) - 0 = Taken' + j - 0
        BY <1>4, <2>a
      <4> QED
        BY <4>1, <4>2, <4>3
    <3> QED
      BY <1>1, <1>2, <1>4, <3>1, <3>2, Context DEF InStream
  <2>6. Eot' => Eot
    BY <1>2, <1>3, <1>5, <2>2, <2>3, Context DEF Eot
  <2>7. StreamOK'
    BY <1>1, <1>2, <2>5, <2>6, Context DEF StreamOK, Up, Stopped
  <2>8. CountOK' /\ EndOK'
    <3>1. Taken' + Len(chan'[R]) - Skip' = Taken + Len(chan[R]) - Skip
      <4>1. Len(chan'[R]) = Len(chan[R]) - 1
        BY <2>3
      <4>2. Len(chan[R]) \in Nat /\ Len(file) \in Nat
        BY <2>a
      <4>3. Taken' + Len(chan'[R]) - Skip' = (Len(file) + 1) + (Len(chan[R]) - 1) - 0
        BY <1>4, <4>1
      <4>4. Taken + Len(chan[R]) - Skip = Len(file) + Len(chan[R]) - 0
        BY <1>4
      <4>5. \A m, n \in Nat : (m + 1) + (n - 1) - 0 = m + n - 0
        OBVIOUS
      <4> QED
        BY <4>2, <4>3, <4>4, <4>5
    <3>2. CountOK'
      <4> SUFFICES ASSUME Up(Sender), pc[Sender] \in {"send", "done"}
                   PROVE  Taken' + Len(chan'[R]) - Skip' = off + (IF pc[Sender] = "done" THEN 1 ELSE 0)
        BY <1>1, <1>2, <1>3 DEF CountOK, Up, Stopped
      <4>1. Up(R) /\ ~Stopped
        BY <1>1 DEF Stopped
      <4>2. Taken + Len(chan[R]) - Skip = off + (IF pc[Sender] = "done" THEN 1 ELSE 0)
        BY <2>a, <4>1 DEF CountOK, Stopped
      <4> QED
        BY <3>1, <4>2
    <3>3. EndOK'
      BY <1>2, <1>3 DEF EndOK
    <3> QED
      BY <3>2, <3>3
  <2>9. ControlOK'
    BY <1>1, <1>2, <1>3, <1>5, <2>2, Context DEF ControlOK, Up
  <2> QED
    BY <2>4, <2>7, <2>8, <2>9 DEF IndInv
<1>6. CASE chan[R] = <<>>
  <2>1. ~Up(Sender) /\ UNCHANGED <<buf, chan>>
    BY <1>1, <1>6, Context DEF Received
  <2>2. TypeOK'
    BY <1>1, <1>2, <2>1, Context DEF TypeOK
  <2>3. ~Eot'
    BY <1>1, <1>2, <1>6, <2>1, Context DEF Eot, ControlOK
  <2>4. StreamOK' /\ CountOK' /\ EndOK'
    BY <1>1, <1>2, <1>3, <2>1, <2>3 DEF StreamOK, CountOK, EndOK, Up, Stopped
  <2>5. ControlOK'
    BY <1>1, <1>2, <1>3, <2>1, Context DEF ControlOK, Up
  <2> QED
    BY <2>2, <2>4, <2>5 DEF IndInv
<1> QED
  BY <1>5, <1>6

\* A chunk leaves the front of the stream for the end of the file.
LEMMA WriteKeeps == ASSUME IndInv, Write(Receiver) PROVE IndInv'
<1> DEFINE R == Receiver
           c == [no |-> buf[R].no, len |-> buf[R].len]
<1>1. /\ UNCHANGED <<mode, size, usable, chan, buf, off, gone, killed>>
      /\ Up(R) /\ pc[R] = "write" /\ pc' = [pc EXCEPT ![R] = "recv"] /\ buf[R].type = "DATA"
      /\ file' = IF Len(file) < Chunks + MaxChunks THEN Append(file, c) ELSE file
  BY DEF Write, Goto
<1>2. /\ Chunks' = Chunks /\ Sender' = Sender /\ Receiver' = Receiver
      /\ \A k : ByteLen(k)' = ByteLen(k)
      /\ \A p, k : Right(p, k)' <=> Right(p, k)
  BY <1>1, SameFile
<1>3. pc'[R] = "recv" /\ pc'[Sender] = pc[Sender]
  BY <1>1, Context DEF TypeOK
<1>4. c \in [no : Nat, len : 0 .. ByteMod - 1]
  BY Context DEF TypeOK, Packet
<1>5. TypeOK'
  <2> HIDE DEF c
  <2>1. file' \in Seq([no : Nat, len : 0 .. ByteMod - 1])
    BY <1>1, <1>4, Context, AppendProperties
  <2> QED
    BY <1>1, <1>2, <2>1, Context DEF TypeOK
<1>6. ASSUME InStream PROVE InStream' /\ Taken' = Taken
  <2>1. buf[R] = DataPkt(Len(file) + 1) /\ Len(file) + 1 \in 1 .. Chunks
    BY <1>1, <1>6, Context DEF InStream, Right, Taken
  <2>2. file' = Append(file, c) /\ c = [no |-> Len(file) + 1, len |-> ByteLen(Len(file) + 1)]
    <3>1. Len(file) + 1 \in Nat /\ Len(file) < Chunks + MaxChunks
      BY <2>1, Context, TransferAssumption
    <3>2. buf[R].no = Len(file) + 1 /\ buf[R].len = ByteLen(Len(file) + 1)
      BY <2>1, <3>1, Context, DataPacket
    <3> QED
      BY <1>1, <3>1, <3>2
  <2> HIDE DEF c
  <2>3. /\ Len(file') = Len(file) + 1 /\ file'[Len(file) + 1] = c
        /\ \A k \in 1 .. Len(file) : file'[k] = file[k]
    BY <1>4, <2>2, Context, AppendProperties
  <2>4. Taken' = Taken /\ Skip' = 0 /\ Skip = 0
    <3>1. Taken = Len(file) + 1 /\ Skip = 0
      BY <1>1 DEF Taken, Skip
    <3>2. Taken' = Len(file') + 0 /\ Skip' = 0
      BY <1>2, <1>3 DEF Taken, Skip
    <3> QED
      BY <2>3, <3>1, <3>2, Context
  <2>5. \A k \in 1 .. Len(file') : file'[k] = [no |-> k, len |-> ByteLen(k)']
    BY <1>2, <1>6, <2>2, <2>3, Context DEF InStream
  <2>6. \A j \in 1 .. Len(chan'[R]) : Right(chan'[R][j], Taken + j - 0)
    BY <1>1, <1>6, <2>4 DEF InStream
  <2> QED
    BY <1>2, <1>3, <2>1, <2>3, <2>4, <2>5, <2>6 DEF InStream
<1>7. StreamOK'
  <2>1. Eot' => Eot
    BY <1>1, <1>2, <1>3 DEF Eot
  <2> QED
    BY <1>1, <1>2, <1>6, <2>1, Context DEF StreamOK, Up, Stopped
<1>8. CountOK'
  <2> SUFFICES ASSUME Up(Sender), pc[Sender] \in {"send", "done"}
               PROVE  Taken' + Len(chan[R]) - Skip' = off + (IF pc[Sender] = "done" THEN 1 ELSE 0)
    BY <1>1, <1>2, <1>3 DEF CountOK, Up, Stopped
  <2>1. InStream
    BY <1>1, Context DEF StreamOK, Stopped
  <2>2. Taken' = Taken /\ Skip' = Skip
    BY <1>1, <1>2, <1>3, <1>6, <2>1 DEF Skip
  <2> QED
    BY <1>1, <2>2, Context DEF CountOK, Stopped
<1>9. EndOK'
  BY <1>2, <1>3 DEF EndOK
<1>10. ControlOK'
  BY <1>1, <1>2, <1>3, Context DEF ControlOK, Up
<1> QED
  BY <1>5, <1>7, <1>8, <1>9, <1>10 DEF IndInv

\* The receiver stops: everything was written, or the sender is gone.
LEMMA WriteEndKeeps == ASSUME IndInv, WriteEnd(Receiver) PROVE IndInv'
<1> DEFINE R == Receiver
<1>1. /\ UNCHANGED <<mode, size, usable, chan, buf, off, file, gone, killed>>
      /\ Up(R) /\ pc[R] = "write" /\ pc' = [pc EXCEPT ![R] = "done"] /\ buf[R].type # "DATA"
  BY DEF WriteEnd, Goto
<1>2. /\ Chunks' = Chunks /\ Sender' = Sender /\ Receiver' = Receiver
      /\ \A k : ByteLen(k)' = ByteLen(k)
  BY <1>1, SameFile
<1>3. pc'[R] = "done" /\ pc'[Sender] = pc[Sender]
  BY <1>1, Context DEF TypeOK
<1>4. TypeOK'
  BY <1>1, <1>2, Context DEF TypeOK
<1>5. StreamOK' /\ CountOK'
  BY <1>2, <1>3 DEF StreamOK, CountOK, Stopped
<1>6. EndOK'
  <2>1. InStream => buf[R].type = "EOT" /\ Len(file) = Chunks
    <3> SUFFICES ASSUME InStream PROVE buf[R].type = "EOT" /\ Len(file) = Chunks
      OBVIOUS
    <3>1. Right(buf[R], Taken) /\ Taken = Len(file) + 1
      BY <1>1 DEF InStream, Taken
    <3>2. \A k \in Nat : buf[R] # DataPkt(k)
      BY <1>1, Context, DataPacket
    <3>3. buf[R].type = "EOT" /\ Len(file) + 1 = Chunks + 1
      BY <3>1, <3>2, Context DEF Right
    <3> QED
      BY <3>3, Context
  <2>2. buf[R].type = "EOT" => InStream
    BY <1>1, Context DEF StreamOK, Eot, Stopped
  <2>3. gone = {} => InStream
    BY <1>1, Context DEF StreamOK, Up, Stopped
  <2> QED
    BY <1>1, <1>2, <1>3, <2>1, <2>2, <2>3 DEF EndOK, InStream
<1>7. ControlOK'
  BY <1>1, <1>2, <1>3, Context DEF ControlOK, Up
<1> QED
  BY <1>4, <1>5, <1>6, <1>7 DEF IndInv

\* The receiver stops because its write failed.
LEMMA WriteFailsKeeps == ASSUME IndInv, WriteFails(Receiver) PROVE IndInv'
<1> DEFINE R == Receiver
<1>1. /\ UNCHANGED <<mode, size, usable, chan, buf, off, file, gone, killed>>
      /\ Up(R) /\ pc[R] = "write" /\ pc' = [pc EXCEPT ![R] = "failed"]
  BY DEF WriteFails, Goto
<1>2. /\ Chunks' = Chunks /\ Sender' = Sender /\ Receiver' = Receiver
      /\ \A k : ByteLen(k)' = ByteLen(k)
  BY <1>1, SameFile
<1>3. pc'[R] = "failed" /\ pc'[Sender] = pc[Sender]
  BY <1>1, Context DEF TypeOK
<1>4. TypeOK'
  BY <1>1, <1>2, Context DEF TypeOK
<1>5. StreamOK' /\ CountOK' /\ EndOK'
  BY <1>2, <1>3 DEF StreamOK, CountOK, EndOK, Stopped
<1>6. ControlOK'
  BY <1>1, <1>2, <1>3, Context DEF ControlOK, Up
<1> QED
  BY <1>4, <1>5, <1>6 DEF IndInv

-----------------------------------------------------------------------------
(* The sender.                                                             *)

\* A packet is sent that is right at the end of the stream.
LEMMA SendKeeps ==
  ASSUME IndInv, SendChunk(Sender) \/ SendEot(Sender) PROVE IndInv'
<1> DEFINE R == Receiver
           S == Sender
           e == IF SendChunk(S) THEN DataPkt(off + 1) ELSE Pkt("EOT")
<1>1. /\ UNCHANGED <<mode, size, usable, file, gone, killed>>
      /\ Up(S) /\ pc[S] = "send"
  BY DEF SendChunk, SendEot
<1>2. /\ Chunks' = Chunks /\ Sender' = Sender /\ Receiver' = Receiver
      /\ \A k : ByteLen(k)' = ByteLen(k)
      /\ \A p, k : Right(p, k)' <=> Right(p, k)
  BY <1>1, SameFile
<1>3. /\ e \in Packet /\ Right(e, off + 1) /\ off' \in 0 .. Chunks
      /\ buf' \in [Roles -> Packet] /\ buf'[R] = buf[R]
      /\ chan' = IF Up(R) THEN [chan EXCEPT ![R] = Append(@, e)] ELSE chan
      /\ pc' \in {pc, [pc EXCEPT ![S] = "done"]}
      /\ off' + (IF pc'[S] = "done" THEN 1 ELSE 0) = off + 1
      /\ pc'[S] = "done" => off' = Chunks
  <2>1. CASE SendChunk(S)
    <3>1. /\ off < Chunks /\ off' = off + 1 /\ pc' = pc /\ e = DataPkt(off + 1)
          /\ chan' = IF Up(R) THEN [chan EXCEPT ![R] = Append(@, e)] ELSE chan
          /\ buf' = [buf EXCEPT ![S] = e]
      BY <2>1, Context DEF SendChunk, Send
    <3>2. off + 1 \in 1 .. Chunks /\ off + 1 \in Nat
      BY <3>1, Context
    <3>3. e \in Packet /\ Right(e, off + 1)
      BY <3>1, <3>2, Context, DataPacket DEF Right
    <3> HIDE DEF e
    <3> QED
      BY <1>1, <3>1, <3>2, <3>3, Context DEF TypeOK
  <2>2. CASE ~SendChunk(S)
    <3>1. /\ off = Chunks /\ off' = off /\ pc' = [pc EXCEPT ![S] = "done"] /\ e = Pkt("EOT")
          /\ chan' = IF Up(R) THEN [chan EXCEPT ![R] = Append(@, e)] ELSE chan
          /\ buf' = [buf EXCEPT ![S].type = "EOT"]
      BY <2>2, Context DEF SendEot, Send, Goto
    <3>2. e \in Packet /\ Right(e, off + 1)
      BY <3>1, Packets DEF Right
    <3>3. buf' \in [Roles -> Packet] /\ buf'[R] = buf[R]
      BY <3>1, Context DEF TypeOK, Packet
    <3> HIDE DEF e
    <3> QED
      BY <1>1, <3>1, <3>2, <3>3, Context DEF TypeOK
  <2> QED
    BY <2>1, <2>2
<1> HIDE DEF e
<1>4. /\ pc' \in [Roles -> {"request", "command", "reply", "send", "recv", "write", "fclose", "done",
                          "failed", "unsized"}]
      /\ pc'[R] = pc[R] /\ pc'[S] \in {"send", "done"}
  BY <1>1, <1>3, Context DEF TypeOK
<1>5. chan'[S] = chan[S] /\ chan' \in [Roles -> Seq(Packet)]
  BY <1>3, Context, AppendProperties DEF TypeOK
<1>6. Taken' = Taken /\ Skip' = Skip
  BY <1>1, <1>2, <1>4 DEF Taken, Skip
<1>7. TypeOK'
  BY <1>1, <1>2, <1>3, <1>4, <1>5, Context DEF TypeOK
<1>8. CASE Up(R)
  <2>1. /\ Len(chan'[R]) = Len(chan[R]) + 1 /\ chan'[R][Len(chan[R]) + 1] = e
        /\ \A j \in 1 .. Len(chan[R]) : chan'[R][j] = chan[R][j]
    BY <1>3, <1>8, Context, AppendProperties DEF TypeOK
  <2>2. ~Stopped => Taken + Len(chan[R]) - Skip = off
    BY <1>1, <1>8, Context DEF CountOK, Stopped
  <2>3. Taken \in Nat /\ Skip \in Nat
    BY Context DEF Taken, Skip
  <2>4. StreamOK'
    <3> SUFFICES ASSUME ~Stopped PROVE InStream'
      BY <1>2, <1>4 DEF StreamOK, Stopped
    <3>1. InStream
      BY <1>1, Context DEF StreamOK, Stopped
    <3>2. \A j \in Skip + 1 .. Len(chan'[R]) : Right(chan'[R][j], Taken + j - Skip)
      <4> SUFFICES ASSUME NEW j \in Skip + 1 .. Len(chan'[R])
                   PROVE  Right(chan'[R][j], Taken + j - Skip)
        OBVIOUS
      <4>1. CASE j \in 1 .. Len(chan[R])
        BY <2>1, <2>3, <3>1, <4>1, Context DEF InStream
      <4>2. CASE j = Len(chan[R]) + 1
        <5>1. Taken + Len(chan[R]) - Skip = off /\ off \in Nat /\ Len(chan[R]) \in Nat
          BY <2>2, Context DEF TypeOK
        <5>2. Taken + j - Skip = off + 1
          BY <2>3, <4>2, <5>1
        <5>3. chan'[R][j] = e /\ Right(e, off + 1)
          BY <1>3, <2>1, <4>2
        <5> HIDE DEF e
        <5> QED
          BY <5>2, <5>3
      <4>3. j \in 1 .. Len(chan[R]) \/ j = Len(chan[R]) + 1
        <5>1. Len(chan[R]) \in Nat
          BY Context DEF TypeOK
        <5> QED
          BY <2>1, <2>3, <5>1
      <4> QED
        BY <4>1, <4>2, <4>3
    <3> QED
      BY <1>1, <1>2, <1>3, <1>4, <1>6, <3>1, <3>2 DEF InStream
  <2>5. CountOK'
    BY <1>2, <1>3, <1>4, <1>6, <2>1, <2>2, <2>3, Context DEF CountOK, Stopped
  <2>6. ControlOK'
    <3>1. pc["client"] = "reply" => chan["client"] # <<>> \/ mode = "PUT"
      <4> SUFFICES ASSUME pc["client"] = "reply", mode = "GET" PROVE chan["client"] # <<>>
        BY Context
      <4>1. R = "client" /\ Skip = 1 /\ ~Stopped
        BY Context DEF Skip, Stopped
      <4>2. file = <<>> /\ Len(file) = 0 /\ Len(chan[R]) \in Nat /\ off \in Nat
        BY <4>1, Context DEF ControlOK
      <4>3. Taken = 0
        BY <4>1, <4>2 DEF Taken
      <4>4. Len(chan[R]) > 0
        BY <2>2, <4>1, <4>2, <4>3
      <4> QED
        BY <4>1, <4>4
    <3>2. /\ pc'[Sender] = "done" => off' = Chunks \/ ~Up(Receiver)
          /\ pc'[Sender] \notin {"send", "done"} => off' = 0
          /\ pc'[Sender] # "write" /\ pc'[Receiver] # "fclose"
          /\ pc'[Receiver] = "recv" => buf'[Receiver].type # "EOT"
      BY <1>3, <1>4, Context DEF ControlOK
    <3>3. /\ pc'["client"] \in {"request", "reply", IF mode = "GET" THEN "recv" ELSE "send", "write", "done", "failed"}
          /\ pc'["server"] \in {"command", IF mode = "GET" THEN "send" ELSE "recv", "write", "fclose", "done", "failed"}
      BY <1>1, <1>4, Context DEF ControlOK
    <3>4. pc["client"] # "request" /\ pc["server"] # "command"
      BY <1>1, Context DEF ControlOK, Up
    <3>5. /\ pc'["client"] # "request" /\ pc'["server"] # "command"
          /\ pc'["client"] = "reply" => pc["client"] = "reply" /\ R = "client"
      BY <1>1, <1>4, <3>4, Context DEF ControlOK
    <3>6. pc'["client"] = "reply" => buf'["client"].type = "REQU"
      BY <1>3, <3>5, Context DEF ControlOK
    <3>7. pc'["client"] = "reply" /\ chan'["client"] # <<>> => chan'["client"][1].type = "INF"
      BY <1>3, <1>5, <2>1, <3>1, <3>5, Context DEF ControlOK
    <3> QED
      BY <1>1, <1>2, <1>3, <1>4, <1>5, <3>2, <3>3, <3>5, <3>6, <3>7, Context DEF ControlOK, Up
  <2> QED
    BY <1>1, <1>2, <1>3, <1>4, <1>7, <2>4, <2>5, <2>6, Context DEF IndInv, EndOK
<1>9. CASE ~Up(R)
  <2>1. chan' = chan
    BY <1>3, <1>9
  <2>2. StreamOK'
    <3>1. InStream' <=> InStream
      BY <1>1, <1>2, <1>3, <1>4, <1>6, <2>1 DEF InStream
    <3> QED
      BY <1>1, <1>2, <1>3, <1>4, <2>1, <3>1, Context DEF StreamOK, Stopped
  <2>3. CountOK'
    BY <1>1, <1>2, <1>9 DEF CountOK, Up, Stopped
  <2>4. ControlOK'
    BY <1>1, <1>2, <1>3, <1>4, <1>9, <2>1, Context DEF ControlOK, Up
  <2> QED
    BY <1>1, <1>2, <1>3, <1>4, <1>7, <2>2, <2>3, <2>4, Context DEF IndInv, EndOK
<1> QED
  BY <1>8, <1>9

-----------------------------------------------------------------------------
(* The end of a process.                                                   *)

\* After the EOT there is nothing in the stream.
LEMMA EotIsLast ==
  ASSUME IndInv, InStream
  PROVE  /\ pc[Receiver] = "write" /\ buf[Receiver].type = "EOT" => Len(chan[Receiver]) = 0
         /\ \A j \in Skip + 1 .. Len(chan[Receiver]) :
              chan[Receiver][j].type = "EOT" =>
                j = Len(chan[Receiver]) /\ Taken + j - Skip = Chunks + 1
<1> DEFINE R == Receiver
<1>1. /\ Chunks \in Nat /\ Taken \in Nat /\ Skip \in {0, 1} /\ Len(chan[R]) \in Nat
      /\ chan[R] \in Seq(Packet)
  BY Context DEF Taken, Skip
<1>2. ASSUME NEW p, NEW k \in Int, Right(p, k), p.type = "EOT" PROVE k = Chunks + 1
  <2>1. \A i \in 1 .. Chunks : DataPkt(i).type = "DATA"
    BY <1>1, Context, DataPacket
  <2> QED
    BY <1>1, <1>2, <2>1 DEF Right
<1>3. ASSUME NEW p, NEW k \in Int, Right(p, k) PROVE k <= Chunks + 1
  BY <1>1, <1>3 DEF Right
<1>4. ASSUME pc[R] = "write", buf[R].type = "EOT" PROVE Len(chan[R]) = 0
  <2>1. Taken = Chunks + 1 /\ Skip = 0
    BY <1>1, <1>2, <1>4 DEF InStream, Skip
  <2>2. ASSUME Len(chan[R]) > 0 PROVE FALSE
    <3>1. 1 \in Skip + 1 .. Len(chan[R]) /\ Taken + 1 - Skip \in Int /\ Taken + 1 - Skip > Chunks + 1
      BY <1>1, <2>1, <2>2
    <3>2. Right(chan[R][1], Taken + 1 - Skip)
      BY <3>1 DEF InStream
    <3> QED
      BY <1>1, <1>3, <3>1, <3>2
  <2> QED
    BY <1>1, <2>2
<1>5. ASSUME NEW j \in Skip + 1 .. Len(chan[R]), chan[R][j].type = "EOT"
      PROVE  j = Len(chan[R]) /\ Taken + j - Skip = Chunks + 1
  <2>1. Taken + j - Skip \in Int /\ Right(chan[R][j], Taken + j - Skip)
    BY <1>1 DEF InStream
  <2>2. Taken + j - Skip = Chunks + 1
    BY <1>2, <1>5, <2>1
  <2>3. ASSUME j < Len(chan[R]) PROVE FALSE
    <3>1. /\ j + 1 \in Skip + 1 .. Len(chan[R]) /\ Taken + (j + 1) - Skip \in Int
          /\ Taken + (j + 1) - Skip > Chunks + 1
      BY <1>1, <2>2, <2>3
    <3>2. Right(chan[R][j + 1], Taken + (j + 1) - Skip)
      BY <3>1 DEF InStream
    <3> QED
      BY <1>1, <1>3, <3>1, <3>2
  <2> QED
    BY <1>1, <2>2, <2>3
<1> QED
  BY <1>4, <1>5

\* A process is killed: what it had sent loses its end.
LEMMA KillKeeps == ASSUME IndInv, NEW r \in Roles, Kill(r) PROVE IndInv'
<1> DEFINE R == Receiver
           S == Sender
           q == Peer(r)
<1>1. /\ UNCHANGED <<mode, size, usable, pc, buf, off, file>>
      /\ gone' = gone \cup {r} /\ killed' = killed \cup {r} /\ Up(r)
      /\ \E k \in 0 .. Len(chan[q]) : \E s \in Cut(chan[q], k) : chan' = [chan EXCEPT ![q] = s]
  BY DEF Kill
<1>2. /\ Chunks' = Chunks /\ Sender' = Sender /\ Receiver' = Receiver
      /\ \A k : ByteLen(k)' = ByteLen(k)
      /\ \A p, k : Right(p, k)' <=> Right(p, k)
  BY <1>1, SameFile
<1>3. q \in Roles /\ chan \in [Roles -> Seq(Packet)] /\ chan[q] \in Seq(Packet)
  BY Context DEF TypeOK, Roles, Peer
<1>4. PICK t : /\ chan' = [chan EXCEPT ![q] = t] /\ t \in Seq(Packet) /\ Len(t) <= Len(chan[q])
               /\ \A j \in 1 .. Len(t) : t[j].type = chan[q][j].type
                                         /\ (j < Len(t) => t[j] = chan[q][j])
  <2> HIDE DEF q
  <2>1. PICK k \in 0 .. Len(chan[q]) : \E s \in Cut(chan[q], k) : chan' = [chan EXCEPT ![q] = s]
    BY <1>1
  <2>2. PICK s \in Cut(chan[q], k) : chan' = [chan EXCEPT ![q] = s]
    BY <2>1
  <2>3. /\ s \in Seq(Packet) /\ Len(s) <= Len(chan[q])
        /\ \A j \in 1 .. Len(s) : s[j].type = chan[q][j].type
                                 /\ (j < Len(s) => s[j] = chan[q][j])
    BY <1>3, CutKeeps
  <2> QED
    BY <2>2, <2>3
<1>5. /\ chan' \in [Roles -> Seq(Packet)] /\ chan'[q] = t
      /\ \A p \in Roles : p # q => chan'[p] = chan[p]
  BY <1>3, <1>4
<1>6. ASSUME NEW p \in Roles
      PROVE  /\ Len(chan'[p]) <= Len(chan[p]) /\ Len(chan'[p]) \in Nat /\ Len(chan[p]) \in Nat
             /\ chan[p] \in Seq(Packet) /\ chan'[p] \in Seq(Packet)
             /\ \A j \in 1 .. Len(chan'[p]) : chan'[p][j].type = chan[p][j].type
                                             /\ (j < Len(chan'[p]) => chan'[p][j] = chan[p][j])
             /\ chan[p] = <<>> => chan'[p] = <<>>
             /\ chan'[p] # <<>> => chan[p] # <<>> /\ chan'[p][1].type = chan[p][1].type
  <2>1. chan[p] \in Seq(Packet) /\ chan'[p] \in Seq(Packet)
    BY <1>3, <1>5
  <2>2. /\ Len(chan'[p]) <= Len(chan[p]) /\ Len(chan'[p]) \in Nat /\ Len(chan[p]) \in Nat
        /\ \A j \in 1 .. Len(chan'[p]) : chan'[p][j].type = chan[p][j].type
                                        /\ (j < Len(chan'[p]) => chan'[p][j] = chan[p][j])
    <3> HIDE DEF q
    <3>1. CASE p = q
      BY <1>4, <1>5, <2>1, <3>1
    <3>2. CASE p # q
      BY <1>5, <2>1, <3>2
    <3> QED
      BY <3>1, <3>2
  <2>3. /\ chan[p] = <<>> <=> Len(chan[p]) = 0
        /\ chan'[p] = <<>> <=> Len(chan'[p]) = 0
    BY <2>1
  <2>4. chan'[p] # <<>> => 1 \in 1 .. Len(chan'[p])
    BY <2>2, <2>3
  <2> QED
    BY <2>1, <2>2, <2>3, <2>4
<1>7. TypeOK'
  BY <1>1, <1>2, <1>5, Context DEF TypeOK
<1>8. Taken' = Taken /\ Skip' = Skip
  BY <1>1, <1>2 DEF Taken, Skip
<1>9. ControlOK'
  <2>1. "client" \in Roles /\ "server" \in Roles
    BY DEF Roles
  <2>2. /\ chan["client"] = <<>> => chan'["client"] = <<>>
        /\ chan["server"] = <<>> => chan'["server"] = <<>>
        /\ chan'["client"] # <<>> => chan["client"] # <<>> /\ chan'["client"][1].type = chan["client"][1].type
        /\ Len(chan["server"]) <= 1 => Len(chan'["server"]) <= 1
    BY <1>6, <2>1
  <2>3. ControlOK
    BY Context
  <2> QED
    BY <1>1, <1>2, <2>2, <2>3 DEF ControlOK, Up
<1>10. CountOK' /\ EndOK'
  <2>1. r \in {S, R} /\ gone' # {}
    BY <1>1, Context
  <2>2. CountOK'
    BY <1>1, <1>2, <2>1 DEF CountOK, Up, Stopped
  <2>3. EndOK'
    BY <1>1, <1>2, <2>1, Context DEF EndOK
  <2> QED
    BY <2>2, <2>3
<1>11. CASE r = R
  <2>1. chan'[R] = chan[R]
    BY <1>5, <1>11, Context
  <2>2. InStream' <=> InStream
    BY <1>1, <1>2, <1>8, <2>1 DEF InStream
  <2>3. StreamOK'
    BY <1>1, <1>2, <1>11, <2>1, <2>2, Context DEF StreamOK, Eot, Up, Stopped
  <2> QED
    BY <1>7, <1>9, <1>10, <2>3 DEF IndInv
<1>12. CASE r = S
  <2> SUFFICES ASSUME ~Stopped, Eot' PROVE InStream'
    BY <1>1, <1>2, <1>7, <1>9, <1>10, <1>12 DEF IndInv, StreamOK, Up, Stopped
  <2>1. InStream
    BY <1>1, <1>12, Context DEF StreamOK, Stopped
  <2>2. /\ Chunks \in Nat /\ Taken \in Nat /\ Skip \in {0, 1} /\ R \in Roles
    BY Context DEF Taken, Skip
  <2>3. SUFFICES ASSUME NEW i \in Skip + 1 .. Len(chan'[R])
                 PROVE  Right(chan'[R][i], Taken + i - Skip)
    BY <1>1, <1>2, <1>8, <2>1 DEF InStream
  <2>4. /\ i \in 1 .. Len(chan'[R]) /\ i \in Skip + 1 .. Len(chan[R])
        /\ i < Len(chan'[R]) => chan'[R][i] = chan[R][i]
        /\ chan'[R][i].type = chan[R][i].type
    BY <1>6, <2>2
  <2>5. CASE i < Len(chan'[R])
    BY <2>1, <2>4, <2>5 DEF InStream
  <2>6. CASE i = Len(chan'[R])
    <3>1. CASE pc[R] = "write" /\ buf[R].type = "EOT"
      BY <1>6, <2>1, <2>2, <2>4, <3>1, EotIsLast
    <3>2. CASE \E j \in 1 .. Len(chan'[R]) : chan'[R][j].type = "EOT"
      <4>1. PICK j \in 1 .. Len(chan'[R]) : chan'[R][j].type = "EOT"
        BY <3>2
      <4>2. j \in 1 .. Len(chan[R]) /\ chan[R][j].type = "EOT"
        BY <1>6, <2>2, <4>1
      <4>3. CASE j \in Skip + 1 .. Len(chan[R])
        <5>1. j = Len(chan[R]) /\ Taken + j - Skip = Chunks + 1
          BY <2>1, <4>2, <4>3, EotIsLast
        <5>2. i = j
          BY <1>6, <2>2, <2>6, <4>1, <5>1
        <5> QED
          BY <4>1, <5>1, <5>2 DEF Right
      <4>4. CASE Skip = 1 /\ j = 1
        <5>1. pc[R] \in {"request", "reply", "command"}
          BY <4>4 DEF Skip
        <5>2. CASE pc[R] = "command"
          <6>1. Len(chan[R]) <= 1
            BY <5>2, Context DEF ControlOK
          <6> QED
            BY <1>6, <2>2, <2>4, <4>4, <6>1
        <5>3. CASE pc[R] \in {"request", "reply"}
          <6>1. R = "client" /\ chan["client"] # <<>>
            BY <1>6, <2>2, <4>2, <5>3, Context DEF ControlOK
          <6>2. chan["client"][1].type = "INF"
            BY <5>3, <6>1, Context DEF ControlOK
          <6> QED
            BY <4>2, <4>4, <6>1, <6>2
        <5> QED
          BY <5>1, <5>2, <5>3
      <4> QED
        BY <2>2, <4>2, <4>3, <4>4
    <3> QED
      BY <1>1, <1>2, <3>1, <3>2 DEF Eot
  <2> QED
    BY <1>6, <2>2, <2>4, <2>5, <2>6
<1> QED
  BY <1>11, <1>12, Context

-----------------------------------------------------------------------------
(* The command and its reply.                                              *)

LEMMA RequestKeeps == ASSUME IndInv, Request PROVE IndInv'
<1>1. /\ UNCHANGED <<mode, size, usable, off, file, gone, killed>>
      /\ Up("client") /\ pc["client"] = "request" /\ pc' = [pc EXCEPT !["client"] = "reply"]
      /\ buf' = [buf EXCEPT !["client"] = Pkt("REQU")]
      /\ chan' = IF Up("server") THEN [chan EXCEPT !["server"] = Append(@, Pkt("REQU"))] ELSE chan
  BY DEF Request, Goto, Send, Peer
<1>2. /\ Chunks' = Chunks /\ Sender' = Sender /\ Receiver' = Receiver
      /\ \A k : ByteLen(k)' = ByteLen(k)
  BY <1>1, SameFile
<1>3. /\ "client" \in Roles /\ "server" \in Roles /\ TypeOK /\ ControlOK
      /\ Pkt("REQU") \in Packet /\ Pkt("REQU").type = "REQU"
  BY Packets, Context DEF Roles
<1>4. pc["server"] = "command" /\ chan["server"] = <<>> /\ chan["client"] = <<>> /\ file = <<>>
  BY <1>1, <1>3 DEF ControlOK
<1>5. /\ pc'["client"] = "reply" /\ pc'["server"] = "command"
      /\ buf'["client"].type = "REQU" /\ buf'["server"] = buf["server"]
      /\ chan'["client"] = <<>> /\ chan'["server"] \in {<<>>, <<Pkt("REQU")>>}
  BY <1>1, <1>3, <1>4 DEF TypeOK
<1>6. chan'["server"] \in Seq(Packet) /\ Len(chan'["server"]) <= 1 /\ Len(chan'["client"]) = 0
  <2>1. <<>> \in Seq(Packet) /\ Len(<<>>) = 0
    OBVIOUS
  <2>2. <<Pkt("REQU")>> \in Seq(Packet) /\ Len(<<Pkt("REQU")>>) = 1
    BY <1>3
  <2>3. CASE chan'["server"] = <<>>
    BY <1>5, <2>1, <2>3
  <2>4. CASE chan'["server"] = <<Pkt("REQU")>>
    <3> HIDE DEF Pkt
    <3> QED
      BY <1>5, <2>1, <2>2, <2>4
  <2> QED
    BY <1>5, <2>3, <2>4
<1>7. TypeOK'
  <2>1. chan' \in [Roles -> Seq(Packet)]
    BY <1>1, <1>3, AppendProperties DEF TypeOK
  <2> QED
    BY <1>1, <1>2, <1>3, <2>1 DEF TypeOK
<1>8. pc'[Receiver] \in {"reply", "command"} /\ pc'[Sender] \in {"reply", "command"}
  BY <1>5, Context DEF Roles
<1>9. StreamOK'
  <2>1. Skip' = 1 /\ Len(chan'[Receiver]) <= 1 /\ Len(chan'[Receiver]) \in Nat
    BY <1>2, <1>5, <1>6, <1>8, Context DEF Skip, Roles
  <2>2. Len(file) = 0 /\ Chunks \in Nat
    BY <1>4, Context
  <2>3. InStream'
    BY <1>1, <1>2, <1>8, <2>1, <2>2 DEF InStream
  <2> QED
    BY <2>3 DEF StreamOK, Stopped
<1>10. CountOK' /\ EndOK'
  BY <1>2, <1>8 DEF CountOK, EndOK, Stopped
<1>11. ControlOK'
  <2>1. off = 0
    BY <1>1, <1>3, <1>4, Context DEF ControlOK
  <2> QED
    BY <1>1, <1>2, <1>4, <1>5, <1>6, <1>8, <2>1 DEF ControlOK
<1> QED
  BY <1>7, <1>9, <1>10, <1>11 DEF IndInv

LEMMA CommandKeeps == ASSUME IndInv, Command PROVE IndInv'
<1> DEFINE next == IF mode = "PUT" THEN "recv" ELSE IF usable THEN "send" ELSE "fclose"
<1>1. /\ UNCHANGED <<mode, size, usable, off, file, gone, killed>>
      /\ Up("server") /\ pc["server"] = "command" /\ pc' = [pc EXCEPT !["server"] = next]
      /\ chan["server"] # <<>>
      /\ buf' = [buf EXCEPT !["server"] = Pkt("INF")]
      /\ chan' = [client |-> IF Up("client") THEN Append(chan["client"], Pkt("INF")) ELSE chan["client"],
                  server |-> Tail(chan["server"])]
  BY DEF Command, Goto
<1>2. /\ Chunks' = Chunks /\ Sender' = Sender /\ Receiver' = Receiver
      /\ \A k : ByteLen(k)' = ByteLen(k)
  BY <1>1, SameFile
<1>3. /\ "client" \in Roles /\ "server" \in Roles /\ TypeOK /\ ControlOK
      /\ Pkt("INF") \in Packet /\ Pkt("INF").type = "INF"
      /\ chan["server"] \in Seq(Packet) /\ mode \in {"GET", "PUT"}
  BY Packets, Context DEF Roles, TypeOK
<1>4. pc["client"] = "reply" /\ Len(chan["server"]) <= 1 /\ chan["client"] = <<>> /\ file = <<>>
  BY <1>1, <1>3 DEF ControlOK
<1>5. Tail(chan["server"]) = <<>>
  BY <1>1, <1>3, <1>4, HeadTailProperties
<1>6. /\ pc'["client"] = "reply" /\ pc'["server"] = next
      /\ buf'["client"] = buf["client"] /\ buf'["server"] = Pkt("INF")
      /\ chan'["client"] = IF Up("client") THEN <<Pkt("INF")>> ELSE <<>>
      /\ chan'["server"] = <<>>
  BY <1>1, <1>3, <1>4, <1>5 DEF TypeOK
<1>7. TypeOK'
  <2>1. chan' = [p \in Roles |-> IF p = "client" THEN chan'["client"] ELSE chan'["server"]]
    BY <1>1 DEF Roles
  <2>2. chan'["client"] \in Seq(Packet) /\ chan'["server"] \in Seq(Packet)
    BY <1>3, <1>6
  <2>3. chan' \in [Roles -> Seq(Packet)]
    BY <2>1, <2>2
  <2> QED
    BY <1>1, <1>2, <1>3, <2>3 DEF TypeOK
<1>8. off = 0 /\ buf["client"].type = "REQU" /\ Len(file) = 0
  BY <1>1, <1>3, <1>4, Context DEF ControlOK
<1>9. CASE mode = "GET"
  <2>1. Receiver = "client" /\ Sender = "server" /\ pc'["server"] \in {"send", "fclose"}
    BY <1>6, <1>9, Context
  <2>2. Skip' = 1 /\ Taken' = 0
    BY <1>1, <1>2, <1>6, <1>8, <2>1 DEF Skip, Taken
  <2>3. Len(chan'["client"]) = IF Up("client") THEN 1 ELSE 0
    BY <1>6
  <2>4. InStream'
    BY <1>1, <1>2, <1>6, <1>8, <2>1, <2>2, <2>3, Context DEF InStream
  <2>5. CountOK' /\ EndOK'
    BY <1>1, <1>2, <1>6, <1>8, <2>1, <2>2, <2>3 DEF CountOK, EndOK, Up, Stopped
  <2>6. ControlOK'
    BY <1>1, <1>2, <1>3, <1>4, <1>6, <1>8, <1>9, <2>1 DEF ControlOK
  <2> QED
    BY <1>7, <2>4, <2>5, <2>6 DEF IndInv, StreamOK, Stopped
<1>10. CASE mode = "PUT"
  <2>1. Receiver = "server" /\ Sender = "client" /\ pc'["server"] = "recv"
    BY <1>6, <1>10, Context
  <2>2. Skip' = 0 /\ Len(chan'["server"]) = 0
    BY <1>2, <1>6, <2>1 DEF Skip
  <2>3. InStream'
    BY <1>1, <1>2, <1>6, <1>8, <2>1, <2>2, Context DEF InStream
  <2>4. CountOK' /\ EndOK'
    BY <1>2, <1>6, <2>1 DEF CountOK, EndOK, Stopped
  <2>5. ControlOK'
    BY <1>1, <1>2, <1>3, <1>4, <1>6, <1>8, <1>10, <2>1 DEF ControlOK
  <2> QED
    BY <1>7, <2>3, <2>4, <2>5 DEF IndInv, StreamOK, Stopped
<1> QED
  BY <1>3, <1>9, <1>10

LEMMA ReplyKeeps == ASSUME IndInv, Reply PROVE IndInv'
<1>1. /\ UNCHANGED <<mode, size, usable, off, file, gone, killed>>
      /\ Up("client") /\ pc["client"] = "reply" /\ Received("client")
      /\ pc' = [pc EXCEPT !["client"] = IF buf'["client"].type # "INF" THEN "done"
                                        ELSE IF mode = "GET" THEN "recv" ELSE "send"]
  BY DEF Reply, Goto
<1>2. /\ Chunks' = Chunks /\ Sender' = Sender /\ Receiver' = Receiver
      /\ \A k : ByteLen(k)' = ByteLen(k)
      /\ \A p, k : Right(p, k)' <=> Right(p, k)
  BY <1>1, SameFile
<1>3. /\ "client" \in Roles /\ "server" \in Roles /\ TypeOK /\ ControlOK /\ CountOK /\ StreamOK
      /\ chan["client"] \in Seq(Packet) /\ mode \in {"GET", "PUT"}
      /\ buf["client"].type = "REQU" /\ pc["server"] # "request"
  BY <1>1, Context DEF Roles, TypeOK, ControlOK
<1>4. pc'["server"] = pc["server"]
  BY <1>1, <1>3 DEF TypeOK
<1>5. CASE chan["client"] # <<>>
  <2>1. /\ buf' = [buf EXCEPT !["client"] = Head(chan["client"])]
        /\ chan' = [chan EXCEPT !["client"] = Tail(@)]
    BY <1>1, <1>5 DEF Received, Peer
  <2>2. /\ Head(chan["client"]) = chan["client"][1] /\ chan["client"][1] \in Packet
        /\ Tail(chan["client"]) \in Seq(Packet)
        /\ Len(chan["client"]) \in Nat /\ Len(Tail(chan["client"])) = Len(chan["client"]) - 1
        /\ \A j \in 1 .. Len(Tail(chan["client"])) : Tail(chan["client"])[j] = chan["client"][j + 1]
    BY <1>3, <1>5, HeadTailProperties
  <2>3. chan["client"][1].type = "INF" /\ pc["server"] # "command"
    BY <1>1, <1>3, <1>5 DEF ControlOK
  <2>4. /\ buf'["client"].type = "INF" /\ buf'["server"] = buf["server"]
        /\ chan'["client"] = Tail(chan["client"]) /\ chan'["server"] = chan["server"]
        /\ pc'["client"] = IF mode = "GET" THEN "recv" ELSE "send"
    BY <1>1, <1>3, <2>1, <2>2, <2>3 DEF TypeOK
  <2>5. TypeOK'
    BY <1>1, <1>2, <1>3, <2>1, <2>2, <2>4 DEF TypeOK
  <2>6. CASE mode = "GET"
    <3>1. Receiver = "client" /\ Sender = "server"
      BY <2>6, Context
    <3>2. file = <<>> /\ Len(file) = 0 /\ Skip = 1 /\ Taken = 0 /\ Skip' = 0 /\ Taken' = 0
      BY <1>1, <1>2, <1>3, <2>4, <2>6, <3>1 DEF ControlOK, Skip, Taken
    <3>3. InStream => InStream'
      <4> SUFFICES ASSUME InStream PROVE InStream'
        OBVIOUS
      <4>1. ASSUME NEW j \in 1 .. Len(chan'["client"])
            PROVE  Right(chan'["client"][j], 0 + j - 0)
        <5>1. j + 1 \in 2 .. Len(chan["client"]) /\ chan'["client"][j] = chan["client"][j + 1]
          BY <2>2, <2>4
        <5>2. Right(chan["client"][j + 1], 0 + (j + 1) - 1)
          BY <3>1, <3>2, <5>1 DEF InStream
        <5>3. 0 + (j + 1) - 1 = 0 + j - 0
          BY <2>2, <2>4
        <5> QED
          BY <5>1, <5>2, <5>3
      <4>2. \A j \in 1 .. Len(chan'[Receiver]) : Right(chan'[Receiver][j], Taken' + j - 0)
        BY <3>1, <3>2, <4>1
      <4>3. pc'["client"] # "write" /\ file' = <<>> /\ Len(file') = 0 /\ Chunks \in Nat
        BY <1>1, <2>4, <2>6, <3>2, Context
      <4> QED
        BY <1>1, <1>2, <3>1, <3>2, <4>2, <4>3, Context DEF InStream
    <3>4. Eot' => Eot
      <4>1. ASSUME NEW j \in 1 .. Len(chan'["client"]), chan'["client"][j].type = "EOT"
            PROVE  \E i \in 1 .. Len(chan["client"]) : chan["client"][i].type = "EOT"
        <5>1. j + 1 \in 1 .. Len(chan["client"]) /\ chan["client"][j + 1].type = "EOT"
          BY <2>2, <2>4, <4>1
        <5> QED
          BY <5>1
      <4> QED
        BY <1>2, <2>4, <2>6, <3>1, <4>1 DEF Eot
    <3>5. StreamOK'
      BY <1>1, <1>2, <1>3, <3>1, <3>3, <3>4 DEF StreamOK, Up, Stopped
    <3>6. CountOK' /\ EndOK'
      <4> SUFFICES ASSUME Up("server"), pc["server"] \in {"send", "done"}
                   PROVE  0 + Len(chan'["client"]) - 0 = off + (IF pc["server"] = "done" THEN 1 ELSE 0)
        <5>1. EndOK'
          BY <1>2, <2>4, <2>6, <3>1 DEF EndOK
        <5>2. /\ pc'["server"] = pc["server"] /\ off' = off /\ Sender' = "server" /\ Receiver' = "client"
              /\ Up("server")' <=> Up("server")
          BY <1>1, <1>2, <1>4, <3>1 DEF Up
        <5> QED
          BY <3>2, <5>1, <5>2 DEF CountOK, Stopped
      <4>1. 0 + Len(chan["client"]) - 1 = off + (IF pc["server"] = "done" THEN 1 ELSE 0)
        BY <1>1, <1>3, <3>1, <3>2 DEF CountOK, Stopped
      <4> QED
        BY <2>2, <2>4, <4>1
    <3>7. ControlOK'
      BY <1>1, <1>2, <1>3, <1>4, <2>3, <2>4, <2>6, <3>1 DEF ControlOK, Up
    <3> QED
      BY <2>5, <3>5, <3>6, <3>7 DEF IndInv
  <2>7. CASE mode = "PUT"
    <3>1. Receiver = "server" /\ Sender = "client"
      BY <2>7, Context
    <3>2. file = <<>> /\ pc["server"] = "recv" /\ chan["server"] = <<>> /\ off = 0
      BY <1>1, <1>3, <2>3, <2>7, <3>1 DEF ControlOK
    <3>3. Skip' = 0 /\ Taken' = 0 /\ Len(chan'["server"]) = 0 /\ Len(file') = 0
      BY <1>1, <1>2, <1>4, <2>4, <3>1, <3>2 DEF Skip, Taken
    <3>4. InStream'
      BY <1>2, <1>4, <3>1, <3>2, <3>3, Context DEF InStream
    <3>5. CountOK' /\ EndOK'
      BY <1>1, <1>2, <1>4, <2>4, <2>7, <3>1, <3>2, <3>3 DEF CountOK, EndOK, Stopped
    <3>6. ControlOK'
      BY <1>1, <1>2, <1>3, <1>4, <2>3, <2>4, <2>7, <3>1, <3>2 DEF ControlOK, Up
    <3> QED
      BY <2>5, <3>4, <3>5, <3>6 DEF IndInv, StreamOK, Stopped
  <2> QED
    BY <1>3, <2>6, <2>7
<1>6. CASE chan["client"] = <<>>
  <2>1. ~Up("server") /\ UNCHANGED <<buf, chan>>
    BY <1>1, <1>6 DEF Received, Peer
  <2>2. pc'["client"] = "done" /\ "server" \in gone
    BY <1>1, <1>3, <2>1 DEF TypeOK, Up
  <2>3. TypeOK'
    BY <1>1, <1>2, <1>3, <2>1, <2>2 DEF TypeOK
  <2>4. CASE mode = "GET"
    <3>1. Receiver = "client" /\ Sender = "server"
      BY <2>4, Context
    <3>2. StreamOK' /\ CountOK' /\ EndOK'
      BY <1>1, <1>2, <1>3, <2>1, <2>2, <3>1 DEF StreamOK, CountOK, EndOK, Stopped
    <3>3. ControlOK'
      BY <1>1, <1>2, <1>3, <1>4, <2>1, <2>2, <2>4, <3>1 DEF ControlOK, Up
    <3> QED
      BY <2>3, <3>2, <3>3 DEF IndInv
  <2>5. CASE mode = "PUT"
    <3>1. Receiver = "server" /\ Sender = "client"
      BY <2>5, Context
    <3>2. InStream' <=> InStream
      BY <1>1, <1>2, <1>4, <2>1, <3>1 DEF InStream, Skip, Taken
    <3>3. StreamOK'
      BY <1>1, <1>2, <1>3, <1>4, <2>1, <3>1, <3>2 DEF StreamOK, Eot, Up, Stopped
    <3>4. CountOK' /\ EndOK'
      BY <1>1, <1>2, <1>4, <2>1, <2>2, <3>1, Context DEF CountOK, EndOK, Up, Stopped
    <3>5. ControlOK'
      BY <1>1, <1>2, <1>3, <1>4, <2>1, <2>2, <2>5, <3>1 DEF ControlOK, Up
    <3> QED
      BY <2>3, <3>3, <3>4, <3>5 DEF IndInv
  <2> QED
    BY <1>3, <2>4, <2>5
<1> QED
  BY <1>5, <1>6

-----------------------------------------------------------------------------
(* Every step but the one that breaks a GET off keeps the invariant.        *)

LEMMA NextKeeps == ASSUME IndInv, [Next]_vars, ~SizeFails PROVE IndInv'
<1>1. CASE UNCHANGED vars
  <2>1. UNCHANGED <<mode, size, usable, pc, chan, buf, off, file>> /\ gone' = gone /\ killed' = killed
    BY <1>1 DEF vars
  <2>2. gone \subseteq gone' /\ gone' \subseteq Roles /\ killed' \subseteq Roles
    BY <2>1, Context DEF TypeOK
  <2> QED
    BY <2>1, <2>2, GoneKeeps
<1>2. CASE Request \/ Command \/ Reply
  BY <1>2, RequestKeeps, CommandKeeps, ReplyKeeps
<1>3. CASE NullFile
  <2>1. /\ UNCHANGED <<mode, size, usable, pc, chan, buf, off, file>>
        /\ gone' = gone \cup {"server"} /\ killed' = killed
    BY <1>3 DEF NullFile
  <2>2. gone \subseteq gone' /\ gone' \subseteq Roles /\ killed' \subseteq Roles
    BY <2>1, Context DEF TypeOK, Roles
  <2> QED
    BY <2>1, <2>2, GoneKeeps
<1>4. ASSUME NEW r \in Roles, Kill(r) PROVE IndInv'
  BY <1>4, KillKeeps
<1>5. ASSUME NEW r \in Roles, Step(r) PROVE IndInv'
  <2>1. r = Sender \/ r = Receiver
    BY Context
  <2>2. CASE SendKilled(r)
    <3>1. /\ UNCHANGED <<mode, size, usable, pc, chan, buf, off, file>>
          /\ gone' = gone \cup {r} /\ killed' = killed
      BY <2>2 DEF SendKilled
    <3>2. gone \subseteq gone' /\ gone' \subseteq Roles /\ killed' \subseteq Roles
      BY <3>1, Context DEF TypeOK
    <3> QED
      BY <3>1, <3>2, GoneKeeps
  <2>3. CASE SendChunk(r) \/ SendEot(r)
    <3>1. pc[r] = "send"
      BY <2>3 DEF SendChunk, SendEot
    <3>2. r = Sender
      BY <2>1, <3>1, Context DEF ControlOK
    <3> QED
      BY <2>3, <3>2, SendKeeps
  <2>4. CASE RecvNext(r) \/ Write(r) \/ WriteFails(r) \/ WriteEnd(r)
    <3>1. pc[r] \in {"recv", "write"}
      BY <2>4 DEF RecvNext, Write, WriteFails, WriteEnd
    <3>2. r = Receiver
      BY <2>1, <3>1, Context DEF ControlOK
    <3> QED
      BY <2>4, <3>2, RecvKeeps, WriteKeeps, WriteFailsKeeps, WriteEndKeeps
  <2> QED
    BY <1>5, <2>2, <2>3, <2>4 DEF Step
<1> QED
  BY <1>1, <1>2, <1>3, <1>4, <1>5 DEF Next

-----------------------------------------------------------------------------
(* The order of what is written, whoever dies.                             *)

Written(p) == [no |-> p.no, len |-> p.len]

\* A DATA packet at its place of the stream. The last one of a stream whose sender
\* died may have been cut: its header is over an old buffer.
InPlace(p, k, last) ==
  p.type = "DATA" => \/ p.no = k /\ k <= Chunks
                     \/ p.no = 0 /\ last /\ ~Up(Sender)

InOrder ==
  /\ Len(file) <= Chunks
  /\ \A k \in 1 .. Len(file) : file[k].no = k
  /\ pc[Receiver] = "recv" /\ buf[Receiver].type = "DATA" =>
       Len(file) > 0 /\ file[Len(file)] = Written(buf[Receiver])
  /\ pc[Receiver] = "write" => InPlace(buf[Receiver], Taken, chan[Receiver] = <<>>)
  /\ \A k \in Skip + 1 .. Len(chan[Receiver]) :
       InPlace(chan[Receiver][k], Taken + k - Skip, k = Len(chan[Receiver]))

\* After the chunks in order only the packet the receiver holds was written.
RepeatsAfter(n) ==
  /\ \A k \in 1 .. n : file[k].no = k
  /\ buf[Receiver].no \in {0, n}
  /\ \A k \in n + 1 .. Len(file) : file[k] = Written(buf[Receiver])

\* The sender is gone and nothing is on its way: recv_data fails, and the receiver
\* writes the packet it holds again.
Repeats ==
  /\ ~Up(Sender) /\ chan[Receiver] = <<>>
  /\ pc[Receiver] \in {"recv", "write"} /\ buf[Receiver].type = "DATA"
  /\ \E n \in 0 .. Len(file) : RepeatsAfter(n)

Order == IF Stopped THEN ChunkOrder ELSE InOrder \/ Repeats

\* Either way the file is what ChunkOrder says.
LEMMA OrderGivesChunkOrder == ASSUME IndInv, Order PROVE ChunkOrder
<1>1. CASE InOrder /\ ~Stopped
  <2>1. Len(file) \in 0 .. Len(file) /\ ~(Len(file) < Len(file))
    BY Context
  <2> QED
    BY <1>1, <2>1 DEF InOrder, ChunkOrder
<1>2. CASE Repeats /\ ~Stopped
  <2>1. PICK n \in 0 .. Len(file) : RepeatsAfter(n)
    BY <1>2 DEF Repeats
  <2>2. Len(file) \in Nat /\ n \in Nat
    BY <2>1, Context
  <2>3. ASSUME n < Len(file)
        PROVE  /\ Sender \in gone
               /\ \A k \in n + 1 .. Len(file) : file[k] = file[Len(file)] /\ file[k].no \in {0, n}
    <3>1. Len(file) \in n + 1 .. Len(file)
      BY <2>2, <2>3
    <3>2. \A k \in n + 1 .. Len(file) : file[k] = Written(buf[Receiver])
      BY <2>1 DEF RepeatsAfter
    <3>3. Written(buf[Receiver]).no \in {0, n}
      BY <2>1 DEF RepeatsAfter, Written
    <3> QED
      BY <1>2, <3>1, <3>2, <3>3 DEF Repeats, Up
  <2> QED
    BY <2>1, <2>3 DEF ChunkOrder, RepeatsAfter
<1> QED
  BY <1>1, <1>2 DEF Order, Stopped

\* A packet in place stays in place when a process ends.
LEMMA InPlaceLater ==
  ASSUME UNCHANGED <<mode, size>>, gone \subseteq gone'
  PROVE  \A p, k, l : InPlace(p, k, l) => InPlace(p, k, l)'
BY SameFile DEF InPlace, Up

\* What the receiver does not see keeps the order.
LEMMA OrderFrame ==
  ASSUME IndInv, Order, UNCHANGED <<mode, size, file>>, gone \subseteq gone',
         pc'[Receiver] = pc[Receiver], buf'[Receiver] = buf[Receiver],
         chan'[Receiver] = chan[Receiver]
  PROVE  Order'
<1>1. Chunks' = Chunks /\ Sender' = Sender /\ Receiver' = Receiver
  BY SameFile
<1>2. \A p, k, l : InPlace(p, k, l) => InPlace(p, k, l)'
  BY InPlaceLater
<1>3. ChunkOrder => ChunkOrder'
  BY <1>1 DEF ChunkOrder
<1>4. Taken' = Taken /\ Skip' = Skip
  BY <1>1 DEF Taken, Skip
<1>5. InOrder => InOrder'
  <2> SUFFICES ASSUME InOrder PROVE InOrder'
    OBVIOUS
  <2>1. pc[Receiver] = "write" => InPlace(buf[Receiver], Taken, chan[Receiver] = <<>>)'
    <3>1. pc[Receiver] = "write" => InPlace(buf[Receiver], Taken, chan[Receiver] = <<>>)
      BY DEF InOrder
    <3> QED
      BY <1>1, <1>4, <3>1 DEF InPlace, Up
  <2>2. \A k \in Skip + 1 .. Len(chan[Receiver]) :
          InPlace(chan[Receiver][k], Taken + k - Skip, k = Len(chan[Receiver]))'
    <3>1. \A k \in Skip + 1 .. Len(chan[Receiver]) :
            InPlace(chan[Receiver][k], Taken + k - Skip, k = Len(chan[Receiver]))
      BY DEF InOrder
    <3> QED
      BY <1>1, <1>4, <3>1 DEF InPlace, Up
  <2> QED
    BY <1>1, <1>4, <2>1, <2>2 DEF InOrder
<1>6. Repeats => Repeats'
  BY <1>1 DEF Repeats, RepeatsAfter, Up
<1> QED
  BY <1>1, <1>3, <1>5, <1>6 DEF Order, Stopped

\* The next packet is taken, or the old one is about to be written again.
LEMMA RecvOrder == ASSUME IndInv, Order, RecvNext(Receiver) PROVE Order'
<1> DEFINE R == Receiver
<1>1. /\ UNCHANGED <<mode, size, usable, off, file, gone, killed>>
      /\ Up(R) /\ pc[R] = "recv" /\ pc' = [pc EXCEPT ![R] = "write"] /\ Received(R)
  BY DEF RecvNext, Goto
<1>2. Chunks' = Chunks /\ Sender' = Sender /\ Receiver' = Receiver
  BY <1>1, SameFile
<1>3. pc'[R] = "write" /\ (Up(Sender)' <=> Up(Sender))
  BY <1>1, <1>2, Context DEF TypeOK, Up
<1>4. /\ Taken = Len(file) /\ Taken' = Len(file) + 1 /\ Skip = 0 /\ Skip' = 0
      /\ Len(file) \in Nat
  BY <1>1, <1>2, <1>3, Context DEF Taken, Skip
<1>5. InOrder \/ Repeats
  BY <1>1 DEF Order, Stopped
<1>6. CASE chan[R] # <<>>
  <2>1. buf' = [buf EXCEPT ![R] = Head(chan[R])] /\ chan' = [chan EXCEPT ![R] = Tail(@)]
    BY <1>1, <1>6 DEF Received
  <2>2. buf'[R] = chan[R][1] /\ chan'[R] = Tail(chan[R])
    BY <1>6, <2>1, Context DEF TypeOK
  <2>3. /\ Len(chan[R]) \in Nat /\ Len(chan[R]) > 0
        /\ chan'[R] \in Seq(Packet) /\ Len(chan'[R]) = Len(chan[R]) - 1
        /\ \A j \in 1 .. Len(chan'[R]) : chan'[R][j] = chan[R][j + 1]
    BY <1>6, <2>2, Context, HeadTailProperties
  <2>4. InOrder
    BY <1>5, <1>6 DEF Repeats
  <2>5. InPlace(buf'[R], Len(file) + 1, chan'[R] = <<>>)
    <3>0. 1 \in Skip + 1 .. Len(chan[R])
      BY <1>4, <2>3
    <3>1. InPlace(chan[R][1], Taken + 1 - Skip, 1 = Len(chan[R]))
      BY <2>4, <3>0 DEF InOrder
    <3>2. Taken + 1 - Skip = Len(file) + 1
      BY <1>4
    <3>3. 1 = Len(chan[R]) => chan'[R] = <<>>
      BY <2>3
    <3> QED
      BY <2>2, <3>1, <3>2, <3>3 DEF InPlace
  <2>6. ASSUME NEW k \in 1 .. Len(chan'[R])
        PROVE  InPlace(chan'[R][k], (Len(file) + 1) + k - 0, k = Len(chan'[R]))
    <3>1. k + 1 \in Skip + 1 .. Len(chan[R])
      BY <1>4, <2>3
    <3>2. InPlace(chan[R][k + 1], Taken + (k + 1) - Skip, k + 1 = Len(chan[R]))
      BY <2>4, <3>1 DEF InOrder
    <3>3. /\ Taken + (k + 1) - Skip = (Len(file) + 1) + k - 0
          /\ k + 1 = Len(chan[R]) <=> k = Len(chan'[R])
      BY <1>4, <2>3
    <3> QED
      BY <2>3, <3>2, <3>3 DEF InPlace
  <2>7. InOrder'
    BY <1>1, <1>2, <1>3, <1>4, <2>4, <2>5, <2>6 DEF InOrder, InPlace
  <2> QED
    BY <1>2, <1>3, <2>7 DEF Order, Stopped
<1>7. CASE chan[R] = <<>>
  <2>1. ~Up(Sender) /\ UNCHANGED <<buf, chan>>
    BY <1>1, <1>7, Context DEF Received
  <2>2. CASE buf[R].type = "DATA"
    <3>1. \E n \in 0 .. Len(file) : RepeatsAfter(n)
      <4>1. CASE Repeats
        BY <4>1 DEF Repeats
      <4>2. CASE InOrder
        <5>1. /\ Len(file) > 0 /\ file[Len(file)] = Written(buf[R])
              /\ \A k \in 1 .. Len(file) : file[k].no = k
          BY <1>1, <2>2, <4>2 DEF InOrder
        <5>2. buf[R].no = Len(file)
          BY <1>4, <5>1 DEF Written
        <5>3. RepeatsAfter(Len(file))
          BY <1>4, <5>1, <5>2 DEF RepeatsAfter
        <5> QED
          BY <1>4, <5>3
      <4> QED
        BY <1>5, <4>1, <4>2
    <3>2. \E n \in 0 .. Len(file') : RepeatsAfter(n)'
      BY <1>1, <1>2, <2>1, <3>1 DEF RepeatsAfter
    <3> QED
      BY <1>2, <1>3, <1>7, <2>1, <2>2, <3>2 DEF Order, Repeats, Stopped
  <2>3. CASE buf[R].type # "DATA"
    <3>1. InOrder
      BY <1>5, <2>3 DEF Repeats
    <3>2. Len(chan'[R]) = 0
      BY <1>7, <2>1
    <3>3. InOrder'
      BY <1>1, <1>2, <1>3, <1>4, <2>1, <2>3, <3>1, <3>2 DEF InOrder, InPlace
    <3> QED
      BY <1>2, <1>3, <3>3 DEF Order, Stopped
  <2> QED
    BY <2>2, <2>3
<1> QED
  BY <1>6, <1>7

\* The file grows by the next chunk, or by the first or another repeat.
LEMMA WriteOrder == ASSUME IndInv, Order, Write(Receiver) PROVE Order'
<1> DEFINE R == Receiver
           c == Written(buf[R])
<1>1. /\ UNCHANGED <<mode, size, usable, chan, buf, off, gone, killed>>
      /\ Up(R) /\ pc[R] = "write" /\ pc' = [pc EXCEPT ![R] = "recv"] /\ buf[R].type = "DATA"
      /\ file' = IF Len(file) < Chunks + MaxChunks THEN Append(file, c) ELSE file
  BY DEF Write, Goto, Written
<1>2. Chunks' = Chunks /\ Sender' = Sender /\ Receiver' = Receiver
  BY <1>1, SameFile
<1>3. pc'[R] = "recv" /\ (Up(Sender)' <=> Up(Sender))
  BY <1>1, <1>2, Context DEF TypeOK, Up
<1>4. /\ Taken = Len(file) + 1 /\ Taken' = Len(file') /\ Skip = 0 /\ Skip' = 0
      /\ Len(file) \in Nat /\ Chunks \in Nat /\ MaxChunks \in Nat
  <2>1. Len(file) \in Nat /\ Chunks \in Nat /\ MaxChunks \in Nat
    BY Context, TransferAssumption
  <2>2. Taken = Len(file) + 1 /\ Skip = 0 /\ Skip' = 0 /\ Taken' = Len(file') + 0
    BY <1>1, <1>2, <1>3 DEF Taken, Skip
  <2>3. Len(file') \in Nat
    <3>1. TypeOK'
      BY WriteKeeps DEF IndInv
    <3> QED
      BY <3>1 DEF TypeOK
  <2> QED
    BY <2>1, <2>2, <2>3
<1>5. c \in [no : Nat, len : 0 .. ByteMod - 1] /\ c.no = buf[R].no
  BY Context DEF TypeOK, Packet, Written
<1>6. InOrder \/ Repeats
  BY <1>1 DEF Order, Stopped
<1> HIDE DEF c
<1>7. Append(file, c) = file' =>
        /\ Len(file') = Len(file) + 1 /\ file'[Len(file) + 1] = c
        /\ \A k \in 1 .. Len(file) : file'[k] = file[k]
  BY <1>5, Context, AppendProperties
(* The next chunk of the file. *)
<1>8. CASE InOrder /\ buf[R].no = Len(file) + 1 /\ Len(file) + 1 <= Chunks
  <2>1. file' = Append(file, c)
    <3>1. Len(file) < Chunks + MaxChunks
      BY <1>4, <1>8
    <3> QED
      BY <1>1, <3>1
  <2>2. /\ Len(file') = Len(file) + 1 /\ file'[Len(file) + 1] = c
        /\ \A k \in 1 .. Len(file) : file'[k] = file[k]
    BY <1>7, <2>1
  <2>3. \A k \in 1 .. Len(file') : file'[k].no = k
    <3>1. \A k \in 1 .. Len(file') : k \in 1 .. Len(file) \/ k = Len(file) + 1
      BY <1>4, <2>2
    <3> QED
      BY <1>5, <1>8, <2>2, <3>1 DEF InOrder
  <2>4. Len(file') > 0 /\ Len(file') <= Chunks /\ file'[Len(file')] = Written(buf'[R])
    BY <1>1, <1>4, <1>8, <2>2 DEF c
  <2>5. Taken' = Taken
    BY <1>4, <2>2
  <2>6. ASSUME NEW k \in 1 .. Len(chan[R])
        PROVE  InPlace(chan[R][k], Taken + k - 0, k = Len(chan[R]))
    <3>1. k \in Skip + 1 .. Len(chan[R])
      BY <1>4
    <3>2. InPlace(chan[R][k], Taken + k - Skip, k = Len(chan[R]))
      BY <1>8, <3>1 DEF InOrder
    <3> QED
      BY <1>4, <3>2
  <2>7. InOrder'
    BY <1>1, <1>2, <1>3, <1>4, <2>3, <2>4, <2>5, <2>6 DEF InOrder, InPlace
  <2> QED
    BY <1>2, <1>3, <2>7 DEF Order, Stopped
(* A packet that was cut, or the old one again. *)
<1>9. ASSUME NEW n \in 0 .. Len(file), RepeatsAfter(n), ~Up(Sender), chan[R] = <<>>
      PROVE  Order'
  <2>1. n \in Nat /\ n <= Len(file)
    BY <1>4
  <2>2. \E m \in 0 .. Len(file') : RepeatsAfter(m)'
    <3>1. CASE file' = file
      BY <1>1, <1>2, <1>9, <3>1 DEF RepeatsAfter
    <3>2. CASE file' = Append(file, c)
      <4>1. /\ Len(file') = Len(file) + 1 /\ file'[Len(file) + 1] = c
            /\ \A k \in 1 .. Len(file) : file'[k] = file[k]
        BY <1>7, <3>2
      <4>2. \A k \in 1 .. n : k \in 1 .. Len(file)
        BY <1>4, <2>1
      <4>3. \A k \in n + 1 .. Len(file') : k \in n + 1 .. Len(file) \/ k = Len(file) + 1
        BY <1>4, <2>1, <4>1
      <4>4. \A k \in n + 1 .. Len(file) : k \in 1 .. Len(file)
        BY <1>4, <2>1
      <4>5. \A k \in 1 .. n : file'[k].no = k
        BY <1>9, <4>1, <4>2 DEF RepeatsAfter
      <4>6. \A k \in n + 1 .. Len(file') : file'[k] = Written(buf[R])
        BY <1>9, <4>1, <4>3, <4>4 DEF RepeatsAfter, c
      <4>7. n \in 0 .. Len(file')
        BY <1>4, <2>1, <4>1
      <4>8. RepeatsAfter(n)'
        BY <1>1, <1>2, <1>9, <4>5, <4>6 DEF RepeatsAfter
      <4> QED
        BY <4>7, <4>8
    <3> QED
      BY <1>1, <3>1, <3>2
  <2>3. Repeats'
    BY <1>1, <1>2, <1>3, <1>9, <2>2 DEF Repeats
  <2> QED
    BY <1>2, <1>3, <2>3 DEF Order, Stopped
<1>10. CASE Repeats
  BY <1>9, <1>10 DEF Repeats
<1>11. CASE InOrder
  <2>1. InPlace(buf[R], Len(file) + 1, chan[R] = <<>>)
    BY <1>1, <1>4, <1>11 DEF InOrder
  <2>2. CASE buf[R].no = 0 /\ chan[R] = <<>> /\ ~Up(Sender)
    <3>1. RepeatsAfter(Len(file)) /\ Len(file) \in 0 .. Len(file)
      BY <1>4, <1>11, <2>2 DEF RepeatsAfter, InOrder
    <3> QED
      BY <1>9, <2>2, <3>1
  <2> QED
    BY <1>1, <1>8, <1>11, <2>1, <2>2 DEF InPlace
<1> QED
  BY <1>6, <1>10, <1>11

\* The receiver stops with the file as it is.
LEMMA WriteEndOrder == ASSUME IndInv, Order, WriteEnd(Receiver) PROVE Order'
<1>1. /\ UNCHANGED <<mode, size, file, gone>> /\ pc' = [pc EXCEPT ![Receiver] = "done"]
  BY DEF WriteEnd, Goto
<1>2. Sender' = Sender /\ Receiver' = Receiver /\ pc'[Receiver] = "done"
  BY <1>1, SameFile, Context DEF TypeOK
<1>3. ChunkOrder'
  BY <1>1, <1>2, OrderGivesChunkOrder DEF ChunkOrder
<1> QED
  BY <1>2, <1>3 DEF Order, Stopped

LEMMA WriteFailsOrder == ASSUME IndInv, Order, WriteFails(Receiver) PROVE Order'
<1>1. /\ UNCHANGED <<mode, size, file, gone>> /\ pc' = [pc EXCEPT ![Receiver] = "failed"]
  BY DEF WriteFails, Goto
<1>2. Sender' = Sender /\ Receiver' = Receiver /\ pc'[Receiver] = "failed"
  BY <1>1, SameFile, Context DEF TypeOK
<1>3. ChunkOrder'
  BY <1>1, <1>2, OrderGivesChunkOrder DEF ChunkOrder
<1> QED
  BY <1>2, <1>3 DEF Order, Stopped

\* What is sent stands at the end of the stream: its number is the count of the
\* packets before it.
LEMMA SendOrder ==
  ASSUME IndInv, Order, SendChunk(Sender) \/ SendEot(Sender) PROVE Order'
<1> DEFINE R == Receiver
           S == Sender
           e == IF SendChunk(S) THEN DataPkt(off + 1) ELSE Pkt("EOT")
<1>1. /\ UNCHANGED <<mode, size, usable, file, gone, killed>> /\ Up(S) /\ pc[S] = "send"
      /\ pc'[R] = pc[R] /\ buf'[R] = buf[R]
      /\ chan' = IF Up(R) THEN [chan EXCEPT ![R] = Append(@, e)] ELSE chan
  BY Context DEF SendChunk, SendEot, Send, Goto, TypeOK
<1>2. Chunks' = Chunks /\ Sender' = Sender /\ Receiver' = Receiver
  BY <1>1, SameFile
<1>3. CASE ~Up(R)
  BY <1>1, <1>3, OrderFrame
<1>4. CASE Up(R) /\ Stopped
  <2>1. ChunkOrder'
    BY <1>1, <1>2, <1>4 DEF Order, ChunkOrder, Stopped
  <2> QED
    BY <1>1, <1>2, <1>4, <2>1 DEF Order, Stopped
<1>5. CASE Up(R) /\ ~Stopped
  <2>1. e \in Packet /\ InPlace(e, off + 1, FALSE) /\ off \in Nat
    <3>1. CASE SendChunk(S)
      <4>1. off + 1 \in Nat /\ off + 1 <= Chunks /\ e = DataPkt(off + 1)
        BY <3>1, Context DEF SendChunk
      <4> HIDE DEF e
      <4> QED
        BY <4>1, Context, DataPacket DEF InPlace
    <3>2. CASE ~SendChunk(S)
      <4>1. e = Pkt("EOT")
        BY <3>2
      <4> HIDE DEF e
      <4> QED
        BY <4>1, Context, Packets DEF InPlace
    <3> QED
      BY <3>1, <3>2
  <2> HIDE DEF e
  <2>2. chan'[R] = Append(chan[R], e)
    BY <1>1, <1>5, Context DEF TypeOK
  <2>3. /\ Len(chan'[R]) = Len(chan[R]) + 1 /\ chan'[R][Len(chan[R]) + 1] = e
        /\ \A j \in 1 .. Len(chan[R]) : chan'[R][j] = chan[R][j]
    BY <2>1, <2>2, Context, AppendProperties
  <2>4. InOrder
    BY <1>1, <1>5 DEF Order, Repeats, Stopped
  <2>5. Taken + Len(chan[R]) - Skip = off /\ Taken \in Nat /\ Skip \in {0, 1}
    <3>1. Taken \in Nat /\ Skip \in {0, 1}
      BY Context DEF Taken, Skip
    <3>2. pc[S] # "done" /\ off + 0 = off
      BY <1>1, Context
    <3>3. Taken + Len(chan[R]) - Skip = off + (IF pc[S] = "done" THEN 1 ELSE 0)
      BY <1>1, <1>5, Context DEF CountOK, Stopped
    <3> QED
      BY <3>1, <3>2, <3>3
  <2>6. Taken' = Taken /\ Skip' = Skip
    BY <1>1, <1>2 DEF Taken, Skip
  <2>7. ASSUME NEW k \in Skip + 1 .. Len(chan'[R])
        PROVE  InPlace(chan'[R][k], Taken + k - Skip, k = Len(chan'[R]))
    <3>1. CASE k \in 1 .. Len(chan[R])
      <4>1. k \in Skip + 1 .. Len(chan[R])
        BY <2>5, <3>1, Context
      <4>2. InPlace(chan[R][k], Taken + k - Skip, k = Len(chan[R]))
        BY <2>4, <4>1 DEF InOrder
      <4> QED
        BY <1>1, <2>3, <3>1, <4>2 DEF InPlace
    <3>2. CASE k = Len(chan[R]) + 1
      <4>1. Taken + k - Skip = off + 1
        BY <2>5, <3>2, Context
      <4> QED
        BY <2>1, <2>3, <3>2, <4>1 DEF InPlace
    <3> QED
      BY <2>3, <2>5, <3>1, <3>2, Context
  <2>8. pc[R] = "write" => InPlace(buf[R], Taken, FALSE)
    BY <1>1, <2>4 DEF InOrder, InPlace
  <2>9. InOrder'
    BY <1>1, <1>2, <2>4, <2>6, <2>7, <2>8 DEF InOrder, InPlace
  <2> QED
    BY <1>1, <1>2, <1>5, <2>9 DEF Order, Stopped
<1> QED
  BY <1>3, <1>4, <1>5

\* What a cut can change is the contents of the last packet.
LEMMA CutLast ==
  ASSUME NEW s \in Seq(Packet), NEW k \in 0 .. Len(s), NEW t \in Cut(s, k),
         NEW j \in 1 .. Len(t)
  PROVE  t[j] = s[j] \/ (j = Len(t) /\ t[j].no = 0)
<1> DEFINE b == SubSeq(s, 1, k)
<1>1. b \in Seq(Packet) /\ Len(b) = k /\ \A i \in 1 .. k : b[i] = s[i]
  OBVIOUS
<1>2. CASE t = b
  BY <1>1, <1>2
<1>3. CASE k # Len(s) /\ t = Append(b, [s[k + 1] EXCEPT !.no = 0])
  <2> DEFINE e == [s[k + 1] EXCEPT !.no = 0]
  <2>1. s[k + 1] \in Packet
    BY <1>3
  <2>2. e \in Packet /\ e.no = 0
    BY <2>1 DEF Packet
  <2> HIDE DEF b, e
  <2>3. t = Append(b, e)
    BY <1>3 DEF e
  <2>4. t \in Seq(Packet) /\ Len(t) = k + 1 /\ t[k + 1] = e /\ \A i \in 1 .. k : t[i] = b[i]
    BY <1>1, <2>2, <2>3
  <2> QED
    BY <1>1, <2>2, <2>4
<1> QED
  BY <1>2, <1>3 DEF Cut

\* When the sender is killed the stream loses its end and maybe the contents of its
\* last packet.
LEMMA KillOrder == ASSUME IndInv, Order, NEW r \in Roles, Kill(r) PROVE Order'
<1> DEFINE R == Receiver
           S == Sender
<1>1. /\ UNCHANGED <<mode, size, usable, pc, buf, off, file>>
      /\ gone' = gone \cup {r}
  BY DEF Kill
<1>2. Chunks' = Chunks /\ Sender' = Sender /\ Receiver' = Receiver
  BY <1>1, SameFile
<1>3. chan \in [Roles -> Seq(Packet)]
  BY Context DEF TypeOK
<1>4. CASE r = R
  <2>1. chan'[R] = chan[R]
    BY <1>3, <1>4, Context DEF Kill
  <2> QED
    BY <1>1, <2>1, OrderFrame
<1>5. CASE r = S
  <2>0. PICK k \in 0 .. Len(chan[R]) : \E s \in Cut(chan[R], k) : chan' = [chan EXCEPT ![R] = s]
    BY <1>5, Context DEF Kill
  <2>1. PICK t \in Cut(chan[R], k) : chan' = [chan EXCEPT ![R] = t]
    BY <2>0
  <2>2. /\ chan'[R] = t /\ t \in Seq(Packet) /\ Len(t) <= Len(chan[R])
        /\ \A j \in 1 .. Len(t) : /\ t[j].type = chan[R][j].type
                                  /\ t[j] = chan[R][j] \/ (j = Len(t) /\ t[j].no = 0)
                                  /\ j < Len(t) => t[j] = chan[R][j]
    <3>1. chan'[R] = t /\ chan[R] \in Seq(Packet)
      BY <1>3, <2>1, Context
    <3> QED
      BY <3>1, CutKeeps, CutLast
  <2>3. Len(t) \in Nat /\ Len(chan[R]) \in Nat
    BY <2>2, Context
  <2>4. ~Up(Sender)'
    BY <1>1, <1>2, <1>5 DEF Up
  <2>5. Taken' = Taken /\ Skip' = Skip /\ Skip \in {0, 1}
    BY <1>1, <1>2 DEF Taken, Skip
  <2>6. chan[R] = <<>> => t = <<>>
    BY <2>2, <2>3
  <2>7. CASE Stopped
    <3>1. ChunkOrder'
      BY <1>1, <1>2, <2>7 DEF Order, ChunkOrder, Stopped
    <3> QED
      BY <1>1, <1>2, <2>7, <3>1 DEF Order, Stopped
  <2>8. CASE Repeats /\ ~Stopped
    <3>1. Repeats'
      BY <1>1, <1>2, <2>2, <2>4, <2>6, <2>8 DEF Repeats, RepeatsAfter
    <3> QED
      BY <1>1, <1>2, <2>8, <3>1 DEF Order, Stopped
  <2>9. CASE InOrder /\ ~Stopped
    <3>1. ASSUME NEW l \in Skip + 1 .. Len(t)
          PROVE  InPlace(t[l], Taken + l - Skip, l = Len(t))'
      <4>1. l \in 1 .. Len(t) /\ l \in Skip + 1 .. Len(chan[R])
        BY <2>2, <2>3, <2>5
      <4>2. InPlace(chan[R][l], Taken + l - Skip, l = Len(chan[R]))
        BY <2>9, <4>1 DEF InOrder
      <4>3. l = Len(chan[R]) => l = Len(t)
        BY <2>2, <2>3, <4>1
      <4>4. t[l].type = "DATA" => \/ t[l].no = Taken + l - Skip /\ Taken + l - Skip <= Chunks
                                  \/ t[l].no = 0 /\ l = Len(t)
        BY <2>2, <4>1, <4>2, <4>3 DEF InPlace
      <4> QED
        BY <1>2, <2>2, <2>4, <2>5, <4>4 DEF InPlace
    <3>2. pc[R] = "write" => InPlace(buf[R], Taken, chan[R] = <<>>)'
      <4>1. pc[R] = "write" => InPlace(buf[R], Taken, chan[R] = <<>>)
        BY <2>9 DEF InOrder
      <4> QED
        BY <1>1, <1>2, <2>2, <2>4, <2>5, <2>6, <4>1 DEF InPlace
    <3>3. InOrder'
      BY <1>1, <1>2, <2>2, <2>5, <2>9, <3>1, <3>2 DEF InOrder, InPlace
    <3> QED
      BY <1>1, <1>2, <2>9, <3>3 DEF Order, Stopped
  <2> QED
    BY <2>7, <2>8, <2>9 DEF Order, Stopped
<1> QED
  BY <1>4, <1>5, Context

\* The request and the reply stand before the stream.
LEMMA RequestOrder == ASSUME IndInv, Order, Request PROVE Order'
<1>1. /\ UNCHANGED <<mode, size, file, gone>>
      /\ Up("client") /\ pc["client"] = "request" /\ pc' = [pc EXCEPT !["client"] = "reply"]
      /\ buf' = [buf EXCEPT !["client"] = Pkt("REQU")]
      /\ chan' = IF Up("server") THEN [chan EXCEPT !["server"] = Append(@, Pkt("REQU"))] ELSE chan
  BY DEF Request, Goto, Send, Peer
<1>2. Sender' = Sender /\ Receiver' = Receiver /\ Chunks' = Chunks
  BY <1>1, SameFile
<1>3. pc["server"] = "command" /\ chan["server"] = <<>> /\ chan["client"] = <<>> /\ file = <<>>
  BY <1>1, Context DEF ControlOK
<1>4. /\ pc'["client"] = "reply" /\ pc'["server"] = "command"
      /\ chan'["client"] = <<>> /\ chan'["server"] \in {<<>>, <<Pkt("REQU")>>}
  BY <1>1, <1>3, Context DEF TypeOK, Roles
<1>5. pc'[Receiver] \in {"reply", "command"} /\ Skip' = 1 /\ Len(chan'[Receiver]) \in {0, 1}
  <2>1. pc'[Receiver] \in {"reply", "command"}
    BY <1>4, Context DEF Roles
  <2>2. chan'[Receiver] \in {<<>>, <<Pkt("REQU")>>}
    BY <1>4, Context DEF Roles
  <2> HIDE DEF Pkt
  <2>3. Len(chan'[Receiver]) \in {0, 1}
    BY <2>2
  <2> QED
    BY <1>2, <2>1, <2>3 DEF Skip
<1>6. InOrder'
  <2>1. Len(file) = 0 /\ Chunks \in Nat
    BY <1>3, Context
  <2> QED
    BY <1>1, <1>2, <1>5, <2>1 DEF InOrder
<1> QED
  BY <1>2, <1>5, <1>6 DEF Order, Stopped

LEMMA CommandOrder == ASSUME IndInv, Order, Command PROVE Order'
<1> DEFINE next == IF mode = "PUT" THEN "recv" ELSE IF usable THEN "send" ELSE "fclose"
<1>1. /\ UNCHANGED <<mode, size, file, gone>>
      /\ Up("server") /\ pc["server"] = "command" /\ pc' = [pc EXCEPT !["server"] = next]
      /\ chan["server"] # <<>>
      /\ buf' = [buf EXCEPT !["server"] = Pkt("INF")]
      /\ chan' = [client |-> IF Up("client") THEN Append(chan["client"], Pkt("INF")) ELSE chan["client"],
                  server |-> Tail(chan["server"])]
  BY DEF Command, Goto
<1>2. Sender' = Sender /\ Receiver' = Receiver /\ Chunks' = Chunks
  BY <1>1, SameFile
<1>3. pc["client"] = "reply" /\ Len(chan["server"]) <= 1 /\ chan["client"] = <<>> /\ file = <<>>
  BY <1>1, Context DEF ControlOK
<1>4. chan["server"] \in Seq(Packet)
  BY Context DEF TypeOK, Roles
<1>5. Tail(chan["server"]) = <<>>
  BY <1>1, <1>3, <1>4, HeadTailProperties
<1>6. /\ pc'["client"] = "reply" /\ pc'["server"] = next
      /\ buf'["server"] = Pkt("INF") /\ Pkt("INF").type = "INF"
      /\ chan'["client"] = IF Up("client") THEN <<Pkt("INF")>> ELSE <<>>
      /\ chan'["server"] = <<>>
  BY <1>1, <1>3, <1>5, Context, Packets DEF TypeOK, Roles
<1>7. Len(file) = 0 /\ Chunks \in Nat
  BY <1>3, Context
<1>8. CASE mode = "GET"
  <2>1. Receiver = "client" /\ Skip' = 1
    BY <1>2, <1>6, <1>8, Context DEF Skip
  <2>2. Len(chan'["client"]) = IF Up("client") THEN 1 ELSE 0
    BY <1>6
  <2>3. InOrder'
    BY <1>1, <1>2, <1>6, <1>7, <2>1, <2>2 DEF InOrder
  <2> QED
    BY <1>2, <1>6, <2>1, <2>3 DEF Order, Stopped
<1>9. CASE mode = "PUT"
  <2>1. Receiver = "server" /\ pc'["server"] = "recv"
    BY <1>6, <1>9, Context
  <2>2. Skip' = 0 /\ Len(chan'["server"]) = 0
    BY <1>2, <1>6, <2>1 DEF Skip
  <2>3. InOrder'
    BY <1>1, <1>2, <1>6, <1>7, <2>1, <2>2 DEF InOrder
  <2> QED
    BY <1>2, <2>1, <2>3 DEF Order, Stopped
<1> QED
  BY <1>8, <1>9, Context

LEMMA ReplyOrder == ASSUME IndInv, Order, Reply PROVE Order'
<1>1. /\ UNCHANGED <<mode, size, file, gone>>
      /\ pc["client"] = "reply" /\ Received("client")
      /\ pc' = [pc EXCEPT !["client"] = IF buf'["client"].type # "INF" THEN "done"
                                        ELSE IF mode = "GET" THEN "recv" ELSE "send"]
  BY DEF Reply, Goto
<1>2. Sender' = Sender /\ Receiver' = Receiver /\ Chunks' = Chunks
  BY <1>1, SameFile
<1>3. CASE mode = "PUT"
  <2>1. Receiver = "server" /\ pc'[Receiver] = pc[Receiver]
    BY <1>1, <1>3, Context DEF TypeOK
  <2>2. chan'["server"] = chan["server"] /\ buf'["server"] = buf["server"]
    BY <1>1, Context DEF Received, TypeOK, Roles
  <2> QED
    BY <1>1, <2>1, <2>2, OrderFrame
<1>4. CASE mode = "GET"
  <2>1. /\ Receiver = "client" /\ file = <<>> /\ Len(file) = 0 /\ Skip = 1 /\ Taken = 0
        /\ buf["client"].type = "REQU"
    BY <1>1, <1>4, Context DEF ControlOK, Skip, Taken
  <2>2. InOrder /\ chan["client"] \in Seq(Packet) /\ Chunks \in Nat
    BY <1>1, <2>1, Context DEF Order, Repeats, Stopped
  <2>3. CASE chan["client"] = <<>>
    <3>1. pc'["client"] = "done"
      BY <1>1, <2>1, <2>3, Context DEF Received, TypeOK, Roles
    <3>2. 0 \in 0 .. Len(file) /\ ~(0 < Len(file))
      BY <2>1
    <3>3. ChunkOrder'
      BY <1>1, <2>1, <3>2 DEF ChunkOrder
    <3> QED
      BY <1>2, <2>1, <3>1, <3>3 DEF Order, Stopped
  <2>4. CASE chan["client"] # <<>>
    <3>1. /\ buf' = [buf EXCEPT !["client"] = Head(chan["client"])]
          /\ chan' = [chan EXCEPT !["client"] = Tail(@)]
      BY <1>1, <2>4 DEF Received
    <3>2. /\ Len(chan["client"]) \in Nat /\ Len(Tail(chan["client"])) = Len(chan["client"]) - 1
          /\ \A j \in 1 .. Len(Tail(chan["client"])) : Tail(chan["client"])[j] = chan["client"][j + 1]
          /\ Head(chan["client"]) = chan["client"][1]
      BY <2>2, <2>4, HeadTailProperties
    <3>3. chan["client"][1].type = "INF"
      BY <1>1, <2>4, Context DEF ControlOK
    <3>4. /\ buf'["client"].type = "INF" /\ pc'["client"] = "recv"
          /\ chan'["client"] = Tail(chan["client"])
      BY <1>1, <1>4, <3>1, <3>2, <3>3, Context DEF TypeOK, Roles
    <3>5. Skip' = 0 /\ Taken' = 0
      BY <1>1, <1>2, <2>1, <3>4 DEF Skip, Taken
    <3>6. ASSUME NEW j \in 1 .. Len(chan'["client"])
          PROVE  InPlace(chan'["client"][j], 0 + j - 0, j = Len(chan'["client"]))
      <4>1. j + 1 \in Skip + 1 .. Len(chan["client"]) /\ chan'["client"][j] = chan["client"][j + 1]
        BY <2>1, <3>2, <3>4
      <4>2. InPlace(chan["client"][j + 1], Taken + (j + 1) - Skip, j + 1 = Len(chan["client"]))
        BY <2>1, <2>2, <4>1 DEF InOrder
      <4>3. /\ Taken + (j + 1) - Skip = 0 + j - 0
            /\ j + 1 = Len(chan["client"]) <=> j = Len(chan'["client"])
        BY <2>1, <3>2, <3>4
      <4> QED
        BY <4>1, <4>2, <4>3 DEF InPlace
    <3>7. InOrder'
      BY <1>1, <1>2, <2>1, <2>2, <3>4, <3>5, <3>6 DEF InOrder, InPlace, Up
    <3> QED
      BY <1>2, <2>1, <3>4, <3>7 DEF Order, Stopped
  <2> QED
    BY <2>3, <2>4
<1> QED
  BY <1>3, <1>4, Context

\* Every step keeps the order.
LEMMA NextOrder == ASSUME IndInv, Order, [Next]_vars, ~SizeFails PROVE Order'
<1>1. CASE UNCHANGED vars
  BY <1>1, OrderFrame DEF vars
<1>2. CASE Request \/ Command \/ Reply
  BY <1>2, RequestOrder, CommandOrder, ReplyOrder
<1>3. CASE NullFile
  BY <1>3, OrderFrame DEF NullFile
<1>4. ASSUME NEW r \in Roles, Kill(r) PROVE Order'
  BY <1>4, KillOrder
<1>5. ASSUME NEW r \in Roles, Step(r) PROVE Order'
  <2>1. r = Sender \/ r = Receiver
    BY Context
  <2>2. CASE SendKilled(r)
    BY <2>2, OrderFrame DEF SendKilled
  <2>3. CASE SendChunk(r) \/ SendEot(r)
    <3>1. pc[r] = "send"
      BY <2>3 DEF SendChunk, SendEot
    <3>2. r = Sender
      BY <2>1, <3>1, Context DEF ControlOK
    <3> QED
      BY <2>3, <3>2, SendOrder
  <2>4. CASE RecvNext(r) \/ Write(r) \/ WriteFails(r) \/ WriteEnd(r)
    <3>1. pc[r] \in {"recv", "write"}
      BY <2>4 DEF RecvNext, Write, WriteFails, WriteEnd
    <3>2. r = Receiver
      BY <2>1, <3>1, Context DEF ControlOK
    <3> QED
      BY <2>4, <3>2, RecvOrder, WriteOrder, WriteFailsOrder, WriteEndOrder
  <2> QED
    BY <1>5, <2>2, <2>3, <2>4 DEF Step
<1> QED
  BY <1>1, <1>2, <1>3, <1>4, <1>5 DEF Next

-----------------------------------------------------------------------------
(* A GET whose file has no size: the server has sent its second INF packet *)
(* and left the command, and the client, wherever it is, writes nothing.   *)

\* What the client still sees while it is in the command.
OnlyInf ==
  /\ file = <<>>
  /\ pc["client"] \in {"reply", "recv", "write"}
  /\ buf["client"].type \notin {"DATA", "EOT"}
  /\ pc["client"] = "write" => buf["client"].type = "INF" \/ ~Up("server")
  /\ \A j \in 1 .. Len(chan["client"]) : chan["client"][j].type = "INF"

Unsized ==
  /\ TypeOK /\ ChunkOrder /\ CompleteTransfer
  /\ mode = "GET" /\ pc["server"] = "unsized"
  /\ Up("client") /\ pc["client"] \notin {"done", "failed"} => OnlyInf

TransferInv == (IndInv /\ Order) \/ Unsized

LEMMA UnsizedRoles ==
  ASSUME mode = "GET"
  PROVE  Sender = "server" /\ Receiver = "client" /\ "client" \in Roles /\ "server" \in Roles
BY DEF Sender, Receiver, Peer, Roles

\* Nothing of the file was sent when the server gives up: only the reply can be on its way.
LEMMA SizeFailsUnsized == ASSUME IndInv, Order, SizeFails PROVE Unsized'
<1>1. /\ UNCHANGED <<mode, size, usable, off, file, gone, killed>>
      /\ Up("server") /\ mode = "GET" /\ pc["server"] = "send" /\ off = 0
      /\ pc' = [pc EXCEPT !["server"] = "unsized"]
      /\ buf' = [buf EXCEPT !["server"] = Pkt("INF")]
      /\ chan' = IF Up("client") THEN [chan EXCEPT !["client"] = Append(@, Pkt("INF"))] ELSE chan
  BY DEF SizeFails, Goto, Send, Peer
<1>2. /\ Sender = "server" /\ Receiver = "client" /\ "client" \in Roles /\ "server" \in Roles
      /\ Sender' = "server" /\ Receiver' = "client" /\ Chunks' = Chunks
      /\ \A k : ByteLen(k)' = ByteLen(k)
  BY <1>1, UnsizedRoles, SameFile
<1>3. Pkt("INF") \in Packet /\ Pkt("INF").type = "INF"
  BY Packets
<1>4. /\ pc'["client"] = pc["client"] /\ pc'["server"] = "unsized" /\ buf'["client"] = buf["client"]
      /\ chan["client"] \in Seq(Packet)
  BY <1>1, <1>2, Context DEF TypeOK
<1>5. TypeOK'
  <2>1. chan' \in [Roles -> Seq(Packet)]
    <3> HIDE DEF Pkt
    <3> QED
      BY <1>1, <1>2, <1>3, Context, AppendProperties DEF TypeOK
  <2> QED
    BY <1>1, <1>2, <1>3, <2>1, Context DEF TypeOK
<1>6. ChunkOrder'
  <2>1. ChunkOrder
    BY OrderGivesChunkOrder
  <2> QED
    BY <1>1, <1>2, <2>1 DEF ChunkOrder
<1>7. CompleteTransfer'
  BY <1>1, <1>2, <1>4, Context DEF CompleteTransfer, EndOK, Complete
<1>8. ASSUME Up("client"), pc["client"] \notin {"done", "failed"} PROVE OnlyInf'
  <2>1. Taken + Len(chan["client"]) - Skip = 0
    BY <1>1, <1>2, <1>8, Context DEF CountOK, Stopped
  <2>2. /\ Len(file) \in Nat /\ Len(chan["client"]) \in Nat
        /\ pc["client"] \in {"request", "reply", "recv", "write"}
        /\ pc["client"] # "request"
    BY <1>1, <1>2, <1>8, Context DEF ControlOK
  <2>3. CASE pc["client"] = "reply"
    <3>1. file = <<>> /\ Len(file) = 0 /\ Skip = 1 /\ Taken = 0 /\ buf["client"].type = "REQU"
      BY <1>2, <2>3, Context DEF ControlOK, Skip, Taken
    <3>2. Len(chan["client"]) = 1
      BY <2>1, <2>2, <3>1
    <3>3. chan["client"] # <<>> /\ chan["client"][1].type = "INF"
      <4>1. chan["client"] # <<>>
        BY <3>2
      <4> QED
        BY <2>3, <4>1, Context DEF ControlOK
    <3>4. \A j \in 1 .. Len(chan'["client"]) : chan'["client"][j].type = "INF"
      <4> DEFINE c == chan["client"]
                 p == Pkt("INF")
      <4>1. chan'["client"] = Append(c, p)
        BY <1>1, <1>2, <1>8, Context DEF TypeOK
      <4> HIDE DEF c, p
      <4>2. c \in Seq(Packet) /\ p \in Packet /\ Len(c) = 1 /\ c[1].type = "INF" /\ p.type = "INF"
        BY <1>3, <1>4, <3>2, <3>3 DEF c, p
      <4>3. /\ Len(Append(c, p)) = Len(c) + 1 /\ Append(c, p)[Len(c) + 1] = p
            /\ \A j \in 1 .. Len(c) : Append(c, p)[j] = c[j]
        <5>1. c \in Seq(Packet) /\ p \in Packet
          BY <4>2
        <5> QED
          BY <5>1, AppendProperties
      <4> QED
        BY <4>1, <4>2, <4>3
    <3> QED
      BY <1>1, <1>4, <2>3, <3>1, <3>4 DEF OnlyInf
  <2>4. CASE pc["client"] \in {"recv", "write"}
    <3>1. Skip = 0 /\ Taken = Len(file) + (IF pc["client"] = "write" THEN 1 ELSE 0)
      BY <1>2, <2>4 DEF Skip, Taken
    <3>2. Len(file) = 0 /\ Len(chan["client"]) = 0 /\ pc["client"] = "recv"
      <4> DEFINE w == IF pc["client"] = "write" THEN 1 ELSE 0
      <4>1. w \in {0, 1} /\ (w = 0 => pc["client"] # "write")
        OBVIOUS
      <4>2. Len(file) + w + Len(chan["client"]) - 0 = 0
        BY <2>1, <3>1
      <4> HIDE DEF w
      <4>3. \A a, b, c \in Nat : a + b + c - 0 = 0 => a = 0 /\ b = 0 /\ c = 0
        OBVIOUS
      <4>4. Len(file) = 0 /\ Len(chan["client"]) = 0 /\ w = 0
        <5>1. Len(file) \in Nat /\ Len(chan["client"]) \in Nat /\ w \in Nat
          BY <2>2, <4>1
        <5> QED
          BY <4>2, <4>3, <5>1
      <4> QED
        BY <2>4, <4>1, <4>4
    <3>3. file = <<>> /\ chan["client"] = <<>>
      BY <1>4, <3>2, Context
    <3>4. chan'["client"] = <<Pkt("INF")>>
      <4> HIDE DEF Pkt
      <4> QED
        BY <1>1, <1>2, <1>8, <3>3, Context DEF TypeOK
    <3>5. \A j \in 1 .. Len(chan'["client"]) : chan'["client"][j].type = "INF"
      BY <1>3, <3>4
    <3>6. buf["client"].type \notin {"DATA", "EOT"}
      BY <1>1, <1>2, <2>4, <3>2, Context DEF Order, InOrder, Repeats, Stopped, ControlOK
    <3> QED
      BY <1>1, <1>4, <3>2, <3>3, <3>5, <3>6 DEF OnlyInf
  <2> QED
    BY <2>2, <2>3, <2>4
<1> QED
  BY <1>1, <1>2, <1>4, <1>5, <1>6, <1>7, <1>8 DEF Unsized, Up

\* Where the client is still in the command it takes the packets one by one.
LEMMA UnsizedClient ==
  ASSUME Unsized, RecvNext("client") \/ WriteEnd("client") \/ Reply
  PROVE  Unsized'
<1>1. /\ UNCHANGED <<mode, size, usable, off, file, gone, killed>>
      /\ Up("client") /\ pc["client"] \in {"reply", "recv", "write"} /\ OnlyInf
      /\ TypeOK /\ ChunkOrder /\ mode = "GET" /\ pc["server"] = "unsized"
  BY DEF RecvNext, WriteEnd, Reply, Unsized
<1>2. /\ Sender = "server" /\ Receiver = "client" /\ "client" \in Roles /\ "server" \in Roles
      /\ Sender' = "server" /\ Receiver' = "client" /\ Chunks' = Chunks
  BY <1>1, UnsizedRoles, SameFile
<1>3. ChunkOrder'
  BY <1>1, <1>2 DEF ChunkOrder
<1>4. chan \in [Roles -> Seq(Packet)] /\ buf \in [Roles -> Packet] /\ chan["client"] \in Seq(Packet)
  BY <1>1, <1>2 DEF TypeOK
<1>5. CASE WriteEnd("client")
  <2>1. /\ pc' = [pc EXCEPT !["client"] = "done"] /\ UNCHANGED <<chan, buf>> /\ pc["client"] = "write"
    BY <1>5 DEF WriteEnd, Goto
  <2>2. pc'["client"] = "done" /\ pc'["server"] = "unsized" /\ TypeOK'
    BY <1>1, <1>2, <2>1 DEF TypeOK
  <2>3. CompleteTransfer'
    BY <1>1, <1>2, <2>1, <2>2 DEF CompleteTransfer, OnlyInf, Up
  <2> QED
    BY <1>1, <1>3, <2>2, <2>3 DEF Unsized
<1>6. CASE Received("client") /\ pc["client"] \in {"reply", "recv"}
           /\ \E to \in {"recv", "write", "done"} :
                /\ pc' = [pc EXCEPT !["client"] = to]
                /\ to = "done" => buf'["client"].type # "INF" /\ pc["client"] = "reply"
  <2>1. PICK to \in {"recv", "write", "done"} :
          /\ pc' = [pc EXCEPT !["client"] = to]
          /\ to = "done" => buf'["client"].type # "INF" /\ pc["client"] = "reply"
    BY <1>6
  <2>2. pc'["client"] = to /\ pc'["server"] = "unsized" /\ pc' \in [Roles -> {"request", "command",
          "reply", "send", "recv", "write", "fclose", "done", "failed", "unsized"}]
    BY <1>1, <1>2, <2>1 DEF TypeOK
  <2>3. CASE chan["client"] # <<>>
    <3>1. /\ buf' = [buf EXCEPT !["client"] = Head(chan["client"])]
          /\ chan' = [chan EXCEPT !["client"] = Tail(@)]
      BY <1>6, <2>3 DEF Received
    <3>2. /\ Head(chan["client"]) = chan["client"][1] /\ chan["client"][1] \in Packet
          /\ Tail(chan["client"]) \in Seq(Packet) /\ Len(chan["client"]) \in Nat
          /\ Len(chan["client"]) > 0
          /\ Len(Tail(chan["client"])) = Len(chan["client"]) - 1
          /\ \A j \in 1 .. Len(Tail(chan["client"])) : Tail(chan["client"])[j] = chan["client"][j + 1]
      BY <1>4, <2>3, HeadTailProperties
    <3>3. buf'["client"] = chan["client"][1] /\ chan'["client"] = Tail(chan["client"])
      BY <1>2, <1>4, <3>1, <3>2
    <3>4. chan["client"][1].type = "INF" /\ buf'["client"].type = "INF"
      BY <1>1, <3>2, <3>3 DEF OnlyInf
    <3>5. \A j \in 1 .. Len(chan'["client"]) : chan'["client"][j].type = "INF"
      <4> SUFFICES ASSUME NEW j \in 1 .. Len(chan'["client"]) PROVE chan'["client"][j].type = "INF"
        OBVIOUS
      <4>1. j + 1 \in 1 .. Len(chan["client"]) /\ chan'["client"][j] = chan["client"][j + 1]
        BY <3>2, <3>3
      <4> QED
        BY <1>1, <4>1 DEF OnlyInf
    <3>6. to # "done" /\ OnlyInf'
      BY <1>1, <2>1, <2>2, <3>4, <3>5 DEF OnlyInf
    <3>7. TypeOK'
      BY <1>1, <1>2, <1>4, <2>2, <3>1, <3>2 DEF TypeOK
    <3>8. CompleteTransfer'
      BY <1>2, <2>2, <3>6 DEF CompleteTransfer
    <3> QED
      BY <1>1, <1>3, <2>2, <3>6, <3>7, <3>8 DEF Unsized
  <2>4. CASE chan["client"] = <<>>
    <3>1. ~Up("server") /\ UNCHANGED <<buf, chan>>
      BY <1>6, <2>4 DEF Received, Peer
    <3>2. TypeOK'
      BY <1>1, <1>2, <2>2, <3>1 DEF TypeOK
    <3>3. gone # {} /\ Up("server")' = Up("server") /\ Up("client")'
      BY <1>1, <3>1 DEF Up
    <3>4. to # "done" => OnlyInf'
      BY <1>1, <2>1, <2>2, <3>1, <3>3 DEF OnlyInf
    <3>5. CompleteTransfer'
      BY <1>1, <1>2, <2>2, <3>1, <3>3 DEF CompleteTransfer, OnlyInf
    <3> QED
      BY <1>1, <1>3, <2>2, <3>2, <3>4, <3>5 DEF Unsized
  <2> QED
    BY <2>3, <2>4
<1>7. CASE RecvNext("client")
  BY <1>6, <1>7 DEF RecvNext, Goto
<1>8. CASE Reply
  BY <1>1, <1>6, <1>8 DEF Reply, Goto
<1> QED
  BY <1>5, <1>7, <1>8

\* A process ends.
LEMMA UnsizedGone ==
  ASSUME Unsized, UNCHANGED <<mode, size, usable, pc, buf, off, file>>,
         gone \subseteq gone', gone' \subseteq Roles, killed' \subseteq Roles,
         chan' \in [Roles -> Seq(Packet)],
         \A j \in 1 .. Len(chan'["client"]) :
           j \in 1 .. Len(chan["client"]) /\ chan'["client"][j].type = chan["client"][j].type
  PROVE  Unsized'
<1>1. TypeOK /\ ChunkOrder /\ CompleteTransfer /\ mode = "GET" /\ pc["server"] = "unsized"
  BY DEF Unsized
<1>2. /\ Sender = "server" /\ Receiver = "client" /\ Sender' = "server" /\ Receiver' = "client"
      /\ Chunks' = Chunks /\ \A k : ByteLen(k)' = ByteLen(k)
  BY <1>1, UnsizedRoles, SameFile
<1>3. TypeOK'
  BY <1>1, <1>2 DEF TypeOK
<1>4. ChunkOrder'
  BY <1>1, <1>2 DEF ChunkOrder
<1>5. CompleteTransfer'
  BY <1>1, <1>2 DEF CompleteTransfer, Complete
<1>6. Up("client")' => Up("client")
  BY DEF Up
<1>7. OnlyInf => OnlyInf'
  BY DEF OnlyInf, Up
<1> QED
  BY <1>1, <1>3, <1>4, <1>5, <1>6, <1>7 DEF Unsized

LEMMA UnsizedKeeps == ASSUME Unsized, [Next]_vars PROVE Unsized'
<1>1. /\ TypeOK /\ mode = "GET" /\ pc["server"] = "unsized"
      /\ Sender = "server" /\ Receiver = "client" /\ "client" \in Roles /\ "server" \in Roles
      /\ Up("client") => pc["client"] \in {"reply", "recv", "write", "done", "failed"}
  BY UnsizedRoles DEF Unsized, OnlyInf
<1>2. CASE UNCHANGED vars
  BY <1>1, <1>2, UnsizedGone DEF vars, TypeOK
<1>3. ~Request /\ ~Command /\ ~SizeFails /\ ~NullFile
  BY <1>1 DEF Request, Command, SizeFails, NullFile
<1>4. CASE Reply
  BY <1>4, UnsizedClient
<1>5. ASSUME NEW r \in Roles, Kill(r) PROVE Unsized'
  <2> DEFINE q == Peer(r)
  <2>1. /\ UNCHANGED <<mode, size, usable, pc, buf, off, file>>
        /\ gone' = gone \cup {r} /\ killed' = killed \cup {r}
        /\ \E k \in 0 .. Len(chan[q]) : \E s \in Cut(chan[q], k) : chan' = [chan EXCEPT ![q] = s]
    BY <1>5 DEF Kill
  <2>2. q \in Roles /\ chan \in [Roles -> Seq(Packet)] /\ chan[q] \in Seq(Packet)
    BY <1>1 DEF TypeOK, Roles, Peer
  <2> HIDE DEF q
  <2>3. PICK k \in 0 .. Len(chan[q]) : \E s \in Cut(chan[q], k) : chan' = [chan EXCEPT ![q] = s]
    BY <2>1
  <2>4. PICK s \in Cut(chan[q], k) : chan' = [chan EXCEPT ![q] = s]
    BY <2>3
  <2>5. /\ s \in Seq(Packet) /\ Len(s) <= Len(chan[q])
        /\ \A j \in 1 .. Len(s) : s[j].type = chan[q][j].type
    BY <2>2, CutKeeps
  <2>6. chan' \in [Roles -> Seq(Packet)]
    BY <2>2, <2>4, <2>5
  <2>7. \A j \in 1 .. Len(chan'["client"]) :
          j \in 1 .. Len(chan["client"]) /\ chan'["client"][j].type = chan["client"][j].type
    <3>1. CASE q = "client"
      BY <2>2, <2>4, <2>5, <3>1
    <3>2. CASE q # "client"
      BY <1>1, <2>2, <2>4, <3>2
    <3> QED
      BY <3>1, <3>2
  <2>8. gone' \subseteq Roles /\ killed' \subseteq Roles
    BY <1>1, <2>1 DEF TypeOK
  <2> QED
    BY <2>1, <2>6, <2>7, <2>8, UnsizedGone
<1>6. ASSUME NEW r \in Roles, Step(r) PROVE Unsized'
  <2>1. r = "client"
    BY <1>1, <1>6
      DEF Step, SendChunk, SendEot, SendKilled, RecvNext, Write, WriteFails, WriteEnd, Roles
  <2>2. Up("client") /\ pc["client"] \in {"recv", "write"} /\ OnlyInf
    BY <1>1, <1>6, <2>1
      DEF Step, SendChunk, SendEot, SendKilled, RecvNext, Write, WriteFails, WriteEnd, Unsized
  <2>3. RecvNext("client") \/ WriteEnd("client")
    BY <1>6, <2>1, <2>2
      DEF Step, SendChunk, SendEot, SendKilled, Write, WriteFails, OnlyInf
  <2> QED
    BY <2>3, UnsizedClient
<1> QED
  BY <1>2, <1>3, <1>4, <1>5, <1>6 DEF Next

-----------------------------------------------------------------------------
(* The theorems.                                                           *)

LEMMA TransferInvHolds == Spec => []TransferInv
<1>1. Init => TransferInv
  <2> SUFFICES ASSUME Init PROVE Order
    BY InitIndInv DEF TransferInv
  <2>1. pc[Receiver] \in {"request", "command"} /\ chan[Receiver] = <<>>
    BY DEF Init, Receiver, Sender, Peer, Roles
  <2>2. Len(file) = 0 /\ Len(chan[Receiver]) = 0 /\ Chunks \in Nat
    BY <2>1, InitIndInv, Context DEF Init
  <2>3. InOrder
    BY <2>1, <2>2 DEF InOrder, Skip
  <2> QED
    BY <2>1, <2>3 DEF Order, Stopped
<1>2. TransferInv /\ [Next]_vars => TransferInv'
  BY NextKeeps, NextOrder, SizeFailsUnsized, UnsizedKeeps DEF TransferInv
<1> QED
  BY <1>1, <1>2, PTL DEF Spec

\* The length a packet announces always fits the byte that carries it, and the
\* chunks that were read never pass the file's (send_packet, recv_data, fread).
THEOREM TypeCorrect == Spec => []TypeOK
<1>1. TransferInv => TypeOK
  BY DEF TransferInv, IndInv, Unsized
<1> QED
  BY <1>1, TransferInvHolds, PTL

\* Whatever the size of the file and whatever fails: the side that writes it has
\* every chunk when it was told the end; it leaves its loop otherwise only when a
\* process is gone, its own write failed or the file had no size (GET and PUT).
THEOREM TransferComplete == Spec => []CompleteTransfer
<1>1. IndInv => CompleteTransfer
  BY DEF IndInv, EndOK, CompleteTransfer, Complete
<1>2. TransferInv => CompleteTransfer
  BY <1>1 DEF TransferInv, Unsized
<1> QED
  BY <1>2, TransferInvHolds, PTL

\* Whoever dies, and wherever the network cuts the stream: the written file is the
\* chunks in order, and after them one packet at most, over and over.
THEOREM WrittenInOrder == Spec => []ChunkOrder
<1>1. TransferInv => ChunkOrder
  BY OrderGivesChunkOrder DEF TransferInv, Unsized
<1> QED
  BY <1>1, TransferInvHolds, PTL
=============================================================================
