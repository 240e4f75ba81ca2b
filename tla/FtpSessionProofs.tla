-------------------------- MODULE FtpSessionProofs --------------------------
(***************************************************************************)
(* InStep, AnswerJustified and OnlyKillsCauseSigpipe of FtpSession for any *)
(* clients, directories, names, numbers of connections and commands, and   *)
(* faults.                                                                 *)
(*                                                                         *)
(* The first and the last follow from one invariant, Talks: where the      *)
(* client is in its command decides, packet by packet, what is on its way  *)
(* in both directions and where the thread is.  Connections that were left *)
(* for another are quiet, those of a client that has ended by itself wind  *)
(* up without another send.  AnswerJustified adds what the thread, the     *)
(* packets on their way and the names listed so far owe to one of the      *)
(* views the command has had.                                              *)
(***************************************************************************)
EXTENDS FtpSession, SequenceTheorems, FiniteSetTheorems, TLAPS

-----------------------------------------------------------------------------
(* The invariants.                                                         *)

Ids == {"", "PWD", "LS", "GET", "PUT", "MKDIR", "CD", "RM", "CONNECT", "EXIT"}
Texts == Dirs \cup Names \cup Paths \cup
         {"", "welcome", "garbage", "success", "fail", "failed", "error", "found", "created",
          "command success", "incorrect path", "refused", "not sent", "write error", "read error"}
Packets == [type : Types, id : Ids, text : Texts]
Commands == {"PWD", "LS", "GET", "PUT", "MKDIR", "CD", "RM"}
\* A command carries an argument that its client may give.
Sound(p) == p.type = "REQU" => [id |-> p.id, arg |-> p.text] \in Requests
Incoming == { p \in Packets : Sound(p) }
Held == { p \in [type : Types \cup {""}, id : Ids, text : Texts] : Sound(p) }
Answers == [type : Types \cup {""}, id : Ids \cup {"killed"}, text : Texts]

ClientPlaces == {"prompt", "greet", "reply", "get", "put", "put_eot", "ls", "lost", "done"}
Places == Sending \cup {"none", "connecting", "recv", "opendir", "null", "put_recv", "put_null",
                        "stat", "stat_again", "rm_stat", "ended"}

ClientTypes ==
  /\ cpc \in [Clients -> ClientPlaces]
  /\ req \in [Clients -> [id : Ids, arg : Texts]]
  /\ cbuf \in [Clients -> Packets]
  /\ connects \in [Clients -> 0..MaxConnects]
  /\ conn \in [Clients -> -1..MaxConnects]
  /\ got \in [Clients -> SUBSET Texts]
  /\ answer \in [Clients -> Answers]

NetTypes ==
  /\ link \in [Conns -> {"open", "fin", "rst", "pipe"}]
  /\ toS \in [Conns -> Seq(Incoming)]
  /\ toC \in [Conns -> Seq(Packets)]

\* The places of execute_commands before anything is sent.
Work(id) ==
  CASE id = "PWD" -> {"pwd"} [] id = "LS" -> {"opendir"} [] id = "GET" -> {"get"} [] id = "PUT" -> {"put"}
    [] id = "MKDIR" -> {"stat", "mkdir", "stat_again", "exists", "fail"} [] id = "CD" -> {"cd"}
    [] id = "RM" -> {"rm_stat", "rm", "rm_failed"}
WorkPlaces == {"pwd", "opendir", "get", "put", "stat", "mkdir", "stat_again", "exists", "fail",
               "cd", "rm_stat", "rm", "rm_failed"}

ServerTypes ==
  /\ up \in BOOLEAN
  /\ cwd \in Dirs
  /\ tree \in [Dirs \X Names -> {"none", "file", "dir"}]
  /\ wpc \in [Conns -> Places]
  /\ wbuf \in [Conns -> Held]
  /\ tmp \in [Conns -> Texts]
  /\ list \in [Conns -> Streams]
  /\ \A w \in Conns : wpc[w] \in WorkPlaces => wbuf[w].type = "REQU" /\ wpc[w] \in Work(wbuf[w].id)

TypeOK == ClientTypes /\ NetTypes /\ ServerTypes

\* A socket is open until its client ends; one that was not made carries nothing.
SocketsOf(c) ==
  /\ conn[c] <= connects[c]
  /\ conn[c] > 0 => conn[c] = connects[c]
  /\ connects[c] > 0 => conn[c] # 0
  /\ answer[c].id = "killed" => cpc[c] = "done"
  /\ \A k \in 1..MaxConnects :
       /\ link[<<c, k>>] = "open" \/ (cpc[c] = "done" /\ k <= connects[c])
       /\ k > connects[c] => wpc[<<c, k>>] = "none" /\ toS[<<c, k>>] = <<>> /\ toC[<<c, k>>] = <<>>

Sockets == \A c \in Clients : SocketsOf(c)

PutData == Pkt("DATA", "PUT", "")
PutEot == Pkt("EOT", "PUT", "")
Term == Pkt("TERM", "", "")
Asked(c) == Pkt("REQU", req[c].id, req[c].arg)

\* The thread has the end of an upload, at most, to read before rest.
Behind(w, rest) ==
  /\ toC[w] = <<>>
  /\ \/ wpc[w] = "recv" /\ toS[w] = rest
     \/ /\ wpc[w] \in {"put_recv", "put_null"}
        /\ toS[w] = <<PutEot>> \o rest \/ toS[w] = <<PutData, PutEot>> \o rest

Working(c, w) ==
  /\ toS[w] = <<>> /\ toC[w] = <<>>
  /\ wpc[w] \in Work(req[c].id)
  /\ wbuf[w] = Asked(c)

Awaited(c, w) == Behind(w, <<Asked(c)>>) \/ Working(c, w)

\* What follows the first packet of GET.
GetTail(w, s) ==
  /\ wbuf[w].id = "GET"
  /\ \/ wpc[w] \in {"null", "data", "eot"} /\ s = <<>>
     \/ wpc[w] = "eot" /\ s = <<Pkt("DATA", "GET", "")>>
     \/ wpc[w] = "recv" /\ s = <<Pkt("EOT", "GET", "")>>
     \/ wpc[w] = "recv" /\ s = <<Pkt("DATA", "GET", ""), Pkt("EOT", "GET", "")>>

\* The whole answer, or the INF packet of a transfer, is there.
Replied(c, w) ==
  /\ toS[w] = <<>>
  /\ toC[w] # <<>> /\ Head(toC[w]).id = req[c].id
  /\ CASE req[c].id = "GET" -> Head(toC[w]).type = "INF" /\ GetTail(w, Tail(toC[w]))
       [] req[c].id = "PUT" -> /\ Head(toC[w]).type = "INF" /\ Tail(toC[w]) = <<>>
                               /\ wpc[w] \in {"put_recv", "put_null"}
       [] OTHER -> Tail(toC[w]) = <<>> /\ wpc[w] = "recv"

\* The packets of LS: its entries, then the EOT.
Entering(w) ==
  /\ toS[w] = <<>>
  /\ wbuf[w].id = "LS"
  /\ \A i \in 1..Len(toC[w]) : toC[w][i].id = "LS"
  /\ \/ /\ wpc[w] = "ls"
        /\ \A i \in 1..Len(toC[w]) : toC[w][i].type = "DATA"
     \/ /\ wpc[w] = "recv" /\ toC[w] # <<>>
        /\ \A i \in 1..Len(toC[w]) : toC[w][i].type = IF i = Len(toC[w]) THEN "EOT" ELSE "DATA"

\* The connection in use, by the place of the client.
Current(c, w) ==
  /\ cpc[c] = "prompt" => Behind(w, <<>>)
  /\ cpc[c] = "greet" =>
       /\ req[c].id = "CONNECT"
       /\ toS[w] = <<>>
       /\ \/ wpc[w] = "connecting" /\ toC[w] = <<>>
          \/ wpc[w] = "recv" /\ toC[w] = <<Pkt("INF", "CONNECT", "welcome")>>
  /\ cpc[c] = "reply" =>
       /\ req[c].id \in {"PWD", "GET", "PUT", "MKDIR", "CD", "RM"}
       /\ Awaited(c, w) \/ Replied(c, w)
  /\ cpc[c] = "get" => req[c].id = "GET" /\ toS[w] = <<>> /\ GetTail(w, toC[w])
  /\ cpc[c] \in {"put", "put_eot"} =>
       /\ req[c].id = "PUT"
       /\ toC[w] = <<>> /\ wpc[w] \in {"put_recv", "put_null"}
       /\ toS[w] = <<>> \/ (cpc[c] = "put_eot" /\ toS[w] = <<PutData>>)
  /\ cpc[c] = "ls" => req[c].id = "LS" /\ (Awaited(c, w) \/ Entering(w))

\* A connection whose client has ended by itself: the thread reads on to the end.
Over(w) ==
  \/ link[w] = "fin" /\ (Behind(w, <<>>) \/ Behind(w, <<Term>>) \/ wpc[w] = "bye")
  \/ wpc[w] = "ended"

Killed(c) == answer[c].id = "killed"

\* One connection, and what a client without one may do.
Talk(c, k) ==
  LET w == <<c, k>> IN
    IF cpc[c] = "done" THEN ~Killed(c) => Over(w)
    ELSE IF k = conn[c] THEN Current(c, w)
    ELSE cpc[c] # "lost" => Behind(w, <<>>)

Alone(c) ==
  /\ conn[c] = -1 => cpc[c] \in {"prompt", "reply", "ls", "done"}
  /\ conn[c] = -1 /\ cpc[c] = "reply" => cbuf[c].type = "REQU"
  /\ conn[c] = 0 => cpc[c] \in {"prompt", "done"}

Talks ==
  up => \A c \in Clients \ full : Alone(c) /\ \A k \in 1..connects[c] : Talk(c, k)

-----------------------------------------------------------------------------
(* Requests, packets and directories.                                      *)

\* The commands and their arguments.
LEMMA RequestCases ==
  ASSUME NEW r \in Requests
  PROVE  /\ r = [id |-> r.id, arg |-> r.arg]
         /\ r.id \in Commands
         /\ r.id \in {"PWD", "LS"} => r.arg = ""
         /\ r.id \in {"MKDIR", "RM", "GET", "PUT"} => r.arg \in Names
         /\ r.id = "CD" => r.arg \in Paths
         /\ r.arg \in Texts
  BY DEF Requests, Commands, Texts

\* A command that the thread holds: its argument, and where it sends the thread.
LEMMA HeldCommand ==
  ASSUME NEW p, Sound(p), p.type = "REQU"
  PROVE  /\ p.id \in Commands
         /\ p.id \in {"MKDIR", "RM", "GET", "PUT"} => p.text \in Names
         /\ p.id = "CD" => p.text \in Paths
         /\ Execute(p.id) \in Work(p.id) /\ Execute(p.id) \in WorkPlaces
         /\ Dispatch(p) = Execute(p.id)
<1>1. [id |-> p.id, arg |-> p.text] \in Requests
  BY DEF Sound
<1>2. /\ p.id \in Commands
      /\ p.id \in {"MKDIR", "RM", "GET", "PUT"} => p.text \in Names
      /\ p.id = "CD" => p.text \in Paths
  BY <1>1, RequestCases
<1>3. Execute(p.id) \in Work(p.id) /\ Execute(p.id) \in WorkPlaces
  BY <1>2 DEF Commands, Execute, Work, WorkPlaces
<1> QED
  BY <1>2, <1>3 DEF Dispatch

\* The place of any packet, and what it is when that is one of execute_commands.
LEMMA DispatchPlace ==
  ASSUME NEW p, Sound(p)
  PROVE  /\ Dispatch(p) \in Places
         /\ Dispatch(p) \in WorkPlaces => p.type = "REQU" /\ Dispatch(p) \in Work(p.id)
<1>1. CASE p.type = "REQU"
  BY <1>1, HeldCommand DEF WorkPlaces, Places, Sending
<1>2. CASE p.type # "REQU"
  BY <1>2 DEF Dispatch, WorkPlaces, Places, Sending
<1> QED
  BY <1>1, <1>2

\* Where a thread of execute_commands can be, its packet is a command.
LEMMA AtWork ==
  ASSUME ServerTypes, NEW w \in Conns, wpc[w] \in WorkPlaces
  PROVE  /\ wbuf[w].type = "REQU" /\ wbuf[w].id \in Commands /\ wpc[w] \in Work(wbuf[w].id)
         /\ wpc[w] \in {"get", "put", "stat", "mkdir", "stat_again", "rm_stat", "rm"} =>
              Arg(w) \in Names /\ File(w) \in Dirs \X Names /\ tree[File(w)] \in {"none", "file", "dir"}
         /\ wpc[w] = "cd" => Arg(w) \in Paths
<1>1. wbuf[w].type = "REQU" /\ wpc[w] \in Work(wbuf[w].id) /\ wbuf[w] \in Held
  BY DEF ServerTypes
<1>2. Sound(wbuf[w])
  BY <1>1 DEF Held
<1>3. /\ wbuf[w].id \in Commands
      /\ wbuf[w].id \in {"MKDIR", "RM", "GET", "PUT"} => Arg(w) \in Names
      /\ wbuf[w].id = "CD" => Arg(w) \in Paths
  BY <1>1, <1>2, HeldCommand DEF Arg
<1>4. wpc[w] \in {"get", "put", "stat", "mkdir", "stat_again", "rm_stat", "rm"} =>
        wbuf[w].id \in {"MKDIR", "RM", "GET", "PUT"}
  BY <1>1, <1>3 DEF Work, Commands
<1>5. wpc[w] = "cd" => wbuf[w].id = "CD"
  BY <1>1, <1>3 DEF Work, Commands
<1>6. Arg(w) \in Names => File(w) \in Dirs \X Names /\ tree[File(w)] \in {"none", "file", "dir"}
  BY DEF ServerTypes, File
<1> QED
  BY <1>1, <1>3, <1>4, <1>5, <1>6

-----------------------------------------------------------------------------
(* Types.                                                                  *)

\* Everything has its type at the beginning.
LEMMA TypesInit ==
  ASSUME Init PROVE TypeOK
<1>1. ClientTypes
  <2>1. 0 \in 0..MaxConnects /\ 0 \in -1..MaxConnects
    BY SessionAssumption
  <2>2. Pkt("REQU", "", "") \in Packets /\ Pkt("", "", "") \in Answers
    BY DEF Pkt, Packets, Answers, Types, Ids, Texts
  <2>3. [id |-> "", arg |-> ""] \in [id : Ids, arg : Texts]
    BY DEF Ids, Texts
  <2>4. /\ cpc = [c \in Clients |-> "prompt"] /\ req = [c \in Clients |-> [id |-> "", arg |-> ""]]
        /\ cbuf = [c \in Clients |-> Pkt("REQU", "", "")] /\ conn = [c \in Clients |-> 0]
        /\ connects = [c \in Clients |-> 0] /\ got = [c \in Clients |-> {}]
        /\ answer = [c \in Clients |-> Pkt("", "", "")]
    BY DEF Init
  <2> QED
    BY <2>1, <2>2, <2>3, <2>4 DEF ClientTypes, ClientPlaces
<1>2. NetTypes
  <2>1. <<>> \in Seq(Incoming) /\ <<>> \in Seq(Packets)
    OBVIOUS
  <2> QED
    BY <2>1 DEF Init, NetTypes
<1>3. ServerTypes
  <2>1. cwd \in Dirs
    BY SessionAssumption DEF Init
  <2>2. Pkt("", "", "") \in Held
    BY DEF Held, Pkt, Types, Ids, Texts, Sound
  <2>3. /\ up = TRUE /\ tree = [x \in Dirs \X Names |-> "none"]
        /\ wpc = [w \in Conns |-> "none"] /\ wbuf = [w \in Conns |-> Pkt("", "", "")]
        /\ tmp = [w \in Conns |-> "garbage"] /\ list = [w \in Conns |-> Closed]
    BY DEF Init
  <2>4. "none" \in Places /\ "none" \notin WorkPlaces /\ "garbage" \in Texts
    BY DEF Places, WorkPlaces, Texts
  <2>5. Closed \in Streams
    BY DEF Closed, Streams
  <2>6. tree \in [Dirs \X Names -> {"none", "file", "dir"}] /\ list \in [Conns -> Streams]
    BY <2>3, <2>5
  <2> QED
    BY <2>1, <2>2, <2>3, <2>4, <2>6 DEF ServerTypes
<1> QED
  BY <1>1, <1>2, <1>3 DEF TypeOK

\* The connection in use.
LEMMA ConnInUse ==
  ASSUME ClientTypes, NEW c \in Clients, HasConn(c)
  PROVE  conn[c] \in 1..MaxConnects /\ Conn(c) \in Conns
<1>1. conn[c] \in 1..MaxConnects
  BY SessionAssumption DEF ClientTypes, HasConn
<1> QED
  BY <1>1 DEF Conn, Conns

\* A packet that a client sends is one the server may get.
LEMMA SendSType ==
  ASSUME ClientTypes, NetTypes, NEW c \in Clients, NEW p \in Incoming, SendS(c, p)
  PROVE  toS' \in [Conns -> Seq(Incoming)]
<1>1. CASE HasConn(c) /\ up
  <2>1. toS' = [toS EXCEPT ![Conn(c)] = Append(@, p)] /\ Conn(c) \in Conns
    BY <1>1, ConnInUse DEF SendS
  <2>2. Append(toS[Conn(c)], p) \in Seq(Incoming)
    BY <2>1, AppendProperties DEF NetTypes
  <2> QED
    BY <2>1, <2>2 DEF NetTypes
<1>2. CASE ~(HasConn(c) /\ up)
  BY <1>2 DEF SendS, NetTypes
<1> QED
  BY <1>1, <1>2

\* recv leaves the client a packet, whether it gets a new one or not.
LEMMA RecvType ==
  ASSUME ClientTypes, NetTypes, NEW c \in Clients, Recv(c)
  PROVE  /\ cbuf' \in [Clients -> Packets] /\ cbuf'[c] \in Packets
         /\ toC' \in [Conns -> Seq(Packets)]
<1>1. CASE HasConn(c) /\ toC[Conn(c)] # <<>>
  <2>1. /\ cbuf' = [cbuf EXCEPT ![c] = Head(toC[Conn(c)])]
        /\ toC' = [toC EXCEPT ![Conn(c)] = Tail(@)]
        /\ Conn(c) \in Conns
    BY <1>1, ConnInUse DEF Recv
  <2>2. Head(toC[Conn(c)]) \in Packets /\ Tail(toC[Conn(c)]) \in Seq(Packets)
    BY <1>1, <2>1, HeadTailProperties DEF NetTypes
  <2> QED
    BY <2>1, <2>2 DEF NetTypes, ClientTypes
<1>2. CASE ~(HasConn(c) /\ toC[Conn(c)] # <<>>)
  BY <1>2 DEF Recv, NetTypes, ClientTypes
<1> QED
  BY <1>1, <1>2

\* A client that ends closes its sockets.
LEMMA EndsType ==
  ASSUME ClientTypes, NetTypes, NEW c \in Clients, Ends(c)
  PROVE  /\ cpc' \in [Clients -> ClientPlaces]
         /\ link' \in [Conns -> {"open", "fin", "rst", "pipe"}]
         /\ toC' \in [Conns -> Seq(Packets)]
<1>1. cpc' \in [Clients -> ClientPlaces]
  BY DEF Ends, CGoto, ClientTypes, ClientPlaces
<1>2. toC' \in [Conns -> Seq(Packets)]
  BY DEF Ends, NetTypes
<1>3. link' \in [Conns -> {"open", "fin", "rst", "pipe"}]
  BY DEF Ends, NetTypes
<1> QED
  BY <1>1, <1>2, <1>3

\* Every packet that a client sends is one the thread can take.
LEMMA ClientPackets ==
  /\ \A r \in Requests : Pkt("REQU", r.id, r.arg) \in Incoming /\ Pkt("REQU", r.id, r.arg) \in Packets
  /\ Term \in Incoming /\ PutData \in Incoming /\ PutEot \in Incoming
<1>1. ASSUME NEW r \in Requests
      PROVE  Pkt("REQU", r.id, r.arg) \in Incoming /\ Pkt("REQU", r.id, r.arg) \in Packets
  <2>1. Pkt("REQU", r.id, r.arg) \in Packets
    BY RequestCases DEF Pkt, Packets, Types, Ids, Commands
  <2>2. Sound(Pkt("REQU", r.id, r.arg))
    BY RequestCases DEF Sound, Pkt
  <2> QED
    BY <2>1, <2>2 DEF Incoming
<1>2. Term \in Incoming /\ PutData \in Incoming /\ PutEot \in Incoming
  BY DEF Term, PutData, PutEot, Pkt, Incoming, Packets, Types, Ids, Texts, Sound
<1> QED
  BY <1>1, <1>2

\* What a client gives as its answer.
LEMMA AnswerType ==
  ASSUME ClientTypes, NEW c \in Clients, NEW a \in Answers, Answer(c, a)
  PROVE  cpc' \in [Clients -> ClientPlaces] /\ answer' \in [Clients -> Answers]
BY DEF Answer, CGoto, ClientTypes, ClientPlaces

\* The packets a command may return, those of the server and its own.
LEMMA AnswerPackets ==
  /\ \A p \in Packets : p \in Answers
  /\ \A id \in Ids, t \in {"failed", "refused", "not sent", "write error", "read error", ""} :
       Pkt("", id, t) \in Answers
  /\ Pkt("", "killed", "") \in Answers
  /\ Pkt("EOT", "PUT", "") \in Answers
BY DEF Packets, Answers, Pkt, Types, Ids, Texts

\* Every step of a client keeps the types: a command has an argument its client may give.
LEMMA TypesClient ==
  ASSUME TypeOK, NEW c \in Clients, ClientStep(c)
  PROVE  TypeOK'
<1> USE DEF TypeOK
<1>1. CASE Connect(c)
  <2>1. ClientTypes'
    <3>1. connects[c] \in 0..MaxConnects /\ connects[c] < MaxConnects
      BY <1>1 DEF Connect, ClientTypes
    <3>2. connects[c] + 1 \in 0..MaxConnects /\ connects[c] + 1 \in -1..MaxConnects
      BY <3>1, SessionAssumption
    <3>3. connects' \in [Clients -> 0..MaxConnects] /\ conn' \in [Clients -> -1..MaxConnects]
      BY <1>1, <3>2 DEF Connect, ClientTypes
    <3>4. cpc' \in [Clients -> ClientPlaces] /\ req' \in [Clients -> [id : Ids, arg : Texts]]
      BY <1>1 DEF Connect, CGoto, ClientTypes, ClientPlaces, Ids, Texts
    <3> QED
      BY <1>1, <3>3, <3>4 DEF Connect, ClientTypes
  <2>2. ServerTypes'
    <3>1. UNCHANGED <<up, cwd, tree, wbuf, tmp, list>> /\ wpc' = [wpc EXCEPT ![<<c, connects[c] + 1>>] = "connecting"]
      BY <1>1 DEF Connect
    <3> QED
      BY <3>1 DEF ServerTypes, Places, WorkPlaces
  <2>3. NetTypes'
    BY <1>1 DEF Connect, NetTypes
  <2> QED
    BY <2>1, <2>2, <2>3
<1>2. ASSUME Gives(c), \E a \in Answers : Answer(c, a), conn' \in [Clients -> -1..MaxConnects],
             UNCHANGED <<req, cbuf, connects, got, up, cwd, tree, workerVars, link, toS, toC, reason>>
      PROVE  TypeOK'
  <2>1. cpc' \in [Clients -> ClientPlaces] /\ answer' \in [Clients -> Answers]
    BY <1>2, AnswerType
  <2> QED
    BY <1>2, <2>1 DEF ClientTypes, NetTypes, ServerTypes, workerVars
<1>3. CASE ConnectFails(c)
  <2>1. conn' \in [Clients -> -1..MaxConnects]
    <3>1. -1 \in -1..MaxConnects
      BY SessionAssumption
    <3> QED
      BY <1>3, <3>1 DEF ConnectFails, ClientTypes
  <2>2. Pkt("", "CONNECT", "failed") \in Answers
    BY AnswerPackets DEF Ids
  <2> QED
    BY <1>2, <1>3, <2>1, <2>2 DEF ConnectFails
<1>4. CASE Refused(c) \/ NotSent(c)
  <2>1. \A id \in {"PWD", "EXIT"} : Pkt("", id, "refused") \in Answers
    BY AnswerPackets DEF Ids
  <2>2. \A id \in {"GET", "PUT", "RM"} : Pkt("", id, "not sent") \in Answers
    BY AnswerPackets DEF Ids
  <2>3. conn' \in [Clients -> -1..MaxConnects]
    BY <1>4 DEF Refused, NotSent, ClientTypes
  <2> QED
    BY <1>2, <1>4, <2>1, <2>2, <2>3 DEF Refused, NotSent
<1>5. ASSUME Ends(c), toS' \in [Conns -> Seq(Incoming)], answer' \in [Clients -> Answers],
             UNCHANGED <<req, cbuf, conn, connects, got, up, cwd, tree, workerVars, reason>>
      PROVE  TypeOK'
  <2>1. /\ cpc' \in [Clients -> ClientPlaces]
        /\ link' \in [Conns -> {"open", "fin", "rst", "pipe"}]
        /\ toC' \in [Conns -> Seq(Packets)]
    BY <1>5, EndsType
  <2> QED
    BY <1>5, <2>1 DEF ClientTypes, NetTypes, ServerTypes, workerVars
<1>6. CASE ConnectExits(c) \/ ClientSigpipe(c) \/ Kill(c)
  <2>1. Ends(c) /\ toS' = toS /\ answer' \in [Clients -> Answers]
    BY <1>6, AnswerPackets DEF ConnectExits, ClientSigpipe, Kill, ClientTypes
  <2> QED
    BY <1>5, <1>6, <2>1 DEF ConnectExits, ClientSigpipe, Kill, NetTypes
<1>7. CASE Exit(c)
  <2>1. toS' \in [Conns -> Seq(Incoming)]
    BY <1>7, SendSType, ClientPackets DEF Exit, NetTypes, Term
  <2>2. Pkt("", "EXIT", "") \in Answers
    BY AnswerPackets DEF Ids
  <2>3. answer' \in [Clients -> Answers]
    BY <1>7, <2>2 DEF Exit, ClientTypes
  <2> QED
    BY <1>5, <1>7, <2>1, <2>3 DEF Exit
<1>8. CASE Request(c)
  <2>1. PICK r \in Requests :
          /\ req' = [req EXCEPT ![c] = r]
          /\ cbuf' = [cbuf EXCEPT ![c] = Pkt("REQU", r.id, r.arg)]
          /\ SendS(c, Pkt("REQU", r.id, r.arg))
          /\ CGoto(c, IF r.id = "LS" THEN "ls" ELSE "reply")
    BY <1>8 DEF Request
  <2>2. toS' \in [Conns -> Seq(Incoming)] /\ cbuf' \in [Clients -> Packets]
    BY <2>1, SendSType, ClientPackets DEF ClientTypes
  <2>3. req' \in [Clients -> [id : Ids, arg : Texts]] /\ cpc' \in [Clients -> ClientPlaces]
    <3>1. r.id \in Ids /\ r.arg \in Texts /\ r = [id |-> r.id, arg |-> r.arg]
      BY RequestCases DEF Commands, Ids
    <3>2. r \in [id : Ids, arg : Texts]
      BY <3>1
    <3> QED
      BY <2>1, <3>2 DEF ClientTypes, CGoto, ClientPlaces
  <2>4. UNCHANGED <<conn, connects, answer, up, cwd, tree, workerVars, link, toC, reason>> /\ got' = [got EXCEPT ![c] = {}]
    BY <1>8 DEF Request
  <2> QED
    BY <2>2, <2>3, <2>4 DEF ClientTypes, NetTypes, ServerTypes, workerVars
<1>9. ASSUME Recv(c), cpc' \in [Clients -> ClientPlaces], answer' \in [Clients -> Answers], got' \in [Clients -> SUBSET Texts],
             UNCHANGED <<req, conn, connects, up, cwd, tree, workerVars, link, toS>>
      PROVE  TypeOK'
  BY <1>9, RecvType DEF ClientTypes, NetTypes, ServerTypes, workerVars
<1>10. Recv(c) => cbuf'[c] \in Answers /\ cbuf'[c] \in Packets
  BY RecvType, AnswerPackets
<1>11. CASE Greeting(c)
  BY <1>9, <1>10, <1>11, AnswerType DEF Greeting, ClientTypes
<1>12. CASE Reply(c)
  <2>1. CASE Answer(c, cbuf'[c])
    BY <1>9, <1>10, <1>12, <2>1, AnswerType DEF Reply, ClientTypes
  <2>2. CASE ~Answer(c, cbuf'[c])
    <3>1. cpc' \in [Clients -> ClientPlaces] /\ answer' = answer
      BY <1>12, <2>2 DEF Reply, CGoto, ClientTypes, ClientPlaces
    <3> QED
      BY <1>9, <1>12, <3>1 DEF Reply, ClientTypes
  <2> QED
    BY <2>1, <2>2
<1>13. CASE Download(c)
  <2>1. Pkt("", "GET", "write error") \in Answers
    BY AnswerPackets DEF Ids
  <2>2. \/ UNCHANGED <<cpc, answer>>
        \/ \E a \in Answers : Answer(c, a)
    BY <1>10, <1>13, <2>1 DEF Download
  <2>3. cpc' \in [Clients -> ClientPlaces] /\ answer' \in [Clients -> Answers]
    BY <2>2, AnswerType DEF ClientTypes
  <2> QED
    BY <1>9, <1>13, <2>3 DEF Download, ClientTypes
<1>14. CASE UploadData(c) \/ UploadEot(c)
  <2>1. toS' \in [Conns -> Seq(Incoming)]
    BY <1>14, SendSType, ClientPackets DEF UploadData, UploadEot, PutData, PutEot
  <2>2. cpc' \in [Clients -> ClientPlaces] /\ answer' \in [Clients -> Answers]
    <3>1. CASE UploadData(c)
      BY <3>1 DEF UploadData, CGoto, ClientTypes, ClientPlaces
    <3>2. CASE UploadEot(c)
      BY <3>2, AnswerType, AnswerPackets DEF UploadEot
    <3> QED
      BY <1>14, <3>1, <3>2
  <2> QED
    BY <1>14, <2>1, <2>2 DEF UploadData, UploadEot, ClientTypes, NetTypes, ServerTypes, workerVars
<1>15. CASE Listing(c)
  <2>1. Recv(c) /\ cbuf'[c] \in Packets /\ cbuf'[c].text \in Texts
    BY <1>10, <1>15 DEF Listing, Packets
  <2>2. CASE cbuf'[c].type = "EOT"
    BY <1>9, <1>10, <1>15, <2>2, AnswerType DEF Listing, ClientTypes
  <2>3. CASE cbuf'[c].type # "EOT"
    <3>1. got' = [got EXCEPT ![c] = @ \cup {cbuf'[c].text}] \/ got' = got
      BY <1>15, <2>3 DEF Listing
    <3>2. got' \in [Clients -> SUBSET Texts]
      BY <2>1, <3>1 DEF ClientTypes
    <3> QED
      BY <1>9, <1>15, <2>3, <3>2 DEF Listing, ClientTypes
  <2> QED
    BY <2>2, <2>3
<1>16. CASE ListingSplit(c)
  BY <1>16 DEF ListingSplit, CGoto, ClientTypes, ClientPlaces, NetTypes, ServerTypes, workerVars
<1>17. CASE ListingEnds(c)
  <2>1. Pkt("", "LS", "read error") \in Answers
    BY AnswerPackets DEF Ids
  <2>2. cpc' \in [Clients -> ClientPlaces] /\ answer' \in [Clients -> Answers]
    BY <1>17, <2>1, AnswerType DEF ListingEnds
  <2> QED
    BY <1>17, <2>2 DEF ListingEnds, ClientTypes, NetTypes, ServerTypes, workerVars
<1> QED
  BY <1>1, <1>3, <1>4, <1>6, <1>7, <1>8, <1>11, <1>12, <1>13, <1>14, <1>15, <1>16, <1>17 DEF ClientStep, ClientWork

\* A thread's send reaches the client or is lost.
LEMMA SendCType ==
  ASSUME NetTypes, NEW w \in Conns, NEW ps \in Seq(Packets), SendC(w, ps)
  PROVE  /\ link' \in [Conns -> {"open", "fin", "rst", "pipe"}]
         /\ toC' \in [Conns -> Seq(Packets)]
<1>1. toC[w] \o ps \in Seq(Packets)
  BY ConcatProperties DEF NetTypes
<1> QED
  BY <1>1 DEF SendC, NetTypes

\* A reply: the packet that is held takes its type and text.
LEMMA RespondType ==
  ASSUME NetTypes, ServerTypes, NEW w \in Conns, NEW type \in {"INF", "DATA", "EOT"}, NEW text \in Texts,
         Respond(w, type, text)
  PROVE  /\ Pkt(type, wbuf[w].id, text) \in Packets
         /\ wbuf' = [wbuf EXCEPT ![w] = Pkt(type, wbuf[w].id, text)]
         /\ wbuf' \in [Conns -> Held]
         /\ link' \in [Conns -> {"open", "fin", "rst", "pipe"}]
         /\ toC' \in [Conns -> Seq(Packets)]
<1>1. wbuf[w] \in [type : Types \cup {""}, id : Ids, text : Texts]
  BY DEF ServerTypes, Held
<1>2. Pkt(type, wbuf[w].id, text) \in Packets /\ Pkt(type, wbuf[w].id, text) \in Held
  BY <1>1 DEF Pkt, Packets, Held, Types, Sound
<1>5. wbuf' = [wbuf EXCEPT ![w] = Pkt(type, wbuf[w].id, text)]
  BY DEF Respond
<1>6. wbuf' \in [Conns -> Held]
  BY <1>2, <1>5 DEF ServerTypes
<1>7. <<Pkt(type, wbuf[w].id, text)>> \in Seq(Packets)
  BY <1>2
<1> QED
  BY <1>2, <1>5, <1>6, <1>7, SendCType DEF Respond

\* A thread that takes what is at the head of its connection.
LEMMA ThreadTakes ==
  ASSUME NetTypes, ServerTypes, NEW w \in Conns, toS[w] # <<>>,
         wbuf' = [wbuf EXCEPT ![w] = Head(toS[w])], toS' = [toS EXCEPT ![w] = Tail(@)]
  PROVE  /\ Head(toS[w]) \in Incoming
         /\ wbuf' \in [Conns -> Held] /\ toS' \in [Conns -> Seq(Incoming)]
<1>1. Head(toS[w]) \in Incoming /\ Tail(toS[w]) \in Seq(Incoming)
  BY HeadTailProperties DEF NetTypes
<1>2. Head(toS[w]) \in Held
  BY <1>1 DEF Incoming, Held, Packets
<1> QED
  BY <1>1, <1>2 DEF NetTypes, ServerTypes

\* A stream, opened, filled and read, is a stream.
LEMMA StreamFacts ==
  ASSUME ServerTypes, NEW w \in Conns
  PROVE  /\ \A d \in Dirs : Opened(d) \in Streams
         /\ Closed \in Streams
         /\ \A s \in Filled(list[w]) : /\ s \in Streams /\ s.buf \subseteq Names
                                      /\ \A n : [s EXCEPT !.buf = @ \ {n}] \in Streams
<1>1. list[w] \in Streams
  BY DEF ServerTypes
<1>2. \A d : Entries(tree, d) \subseteq Names
  BY DEF Entries
<1>3. ASSUME NEW s \in Filled(list[w])
      PROVE  /\ s \in Streams /\ s.buf \subseteq Names
             /\ \A n : [s EXCEPT !.buf = @ \ {n}] \in Streams
  <2>1. s \in Streams
    <3>1. CASE list[w].buf # {}
      BY <1>1, <1>3, <3>1 DEF Filled
    <3>2. CASE list[w].buf = {}
      <4>1. PICK b \in SUBSET Names :
              s = [list[w] EXCEPT !.read = @ \cup b, !.buf = b, !.due = @ \ b]
        BY <1>2, <1>3, <3>2 DEF Filled
      <4> QED
        BY <1>1, <4>1 DEF Streams
    <3> QED
      BY <3>1, <3>2
  <2> QED
    BY <2>1 DEF Streams
<1> QED
  BY <1>2, <1>3 DEF Opened, Closed, Streams

\* One call of readdir: an entry, or the end.
LEMMA LsSteps ==
  ASSUME ServerTypes, NEW w \in Conns, LsEntry(w) \/ LsEnd(w)
  PROVE  /\ list' \in [Conns -> Streams] /\ \A v \in Conns \ {w} : list'[v] = list[v]
         /\ UNCHANGED <<clientVars, up, cwd, tree, tmp, toS, reason>>
         /\ \E text \in Texts :
              \/ wpc[w] = "ls" /\ wpc' = wpc /\ Respond(w, "DATA", text)
              \/ WGoto(w, "recv") /\ Respond(w, "EOT", text)
<1>1. CASE LsEntry(w)
  <2>0. PICK s \in Filled(list[w]) : \E n \in s.buf :
          Respond(w, "DATA", n) /\ list' = [list EXCEPT ![w] = [s EXCEPT !.buf = @ \ {n}]]
    BY <1>1 DEF LsEntry
  <2>1. PICK n \in s.buf : Respond(w, "DATA", n) /\ list' = [list EXCEPT ![w] = [s EXCEPT !.buf = @ \ {n}]]
    BY <2>0
  <2>2. n \in Texts /\ [s EXCEPT !.buf = @ \ {n}] \in Streams
    BY StreamFacts DEF Texts
  <2>3. list' \in [Conns -> Streams] /\ \A v \in Conns \ {w} : list'[v] = list[v]
    BY <2>1, <2>2 DEF ServerTypes
  <2> QED
    BY <1>1, <2>1, <2>2, <2>3 DEF LsEntry, WAt
<1>2. CASE LsEnd(w)
  <2>1. list' \in [Conns -> Streams] /\ \A v \in Conns \ {w} : list'[v] = list[v]
    BY <1>2, StreamFacts DEF LsEnd, ServerTypes
  <2> QED
    BY <1>2, <2>1 DEF LsEnd, Texts
<1> QED
  BY <1>1, <1>2

\* opendir, whatever path it is given.
LEMMA OpenSteps ==
  ASSUME ServerTypes, NEW w \in Conns, LsOpen(w) \/ LsAstray(w)
  PROVE  /\ \E d \in Dirs : list' = [list EXCEPT ![w] = Opened(d)]
         /\ list' \in [Conns -> Streams] /\ \A v \in Conns \ {w} : list'[v] = list[v]
         /\ tmp' \in [Conns -> Texts]
         /\ WGoto(w, "ls")
         /\ UNCHANGED <<clientVars, up, cwd, tree, wbuf, link, toS, toC, reason>>
<1>1. PICK d \in Dirs : list' = [list EXCEPT ![w] = Opened(d)]
  BY DEF LsOpen, LsAstray, ServerTypes
<1>2. Opened(d) \in Streams
  BY StreamFacts
<1>3. list' \in [Conns -> Streams] /\ \A v \in Conns \ {w} : list'[v] = list[v]
  BY <1>1, <1>2 DEF ServerTypes
<1>4. tmp' \in [Conns -> Texts]
  <2>1. cwd \in Texts
    BY DEF ServerTypes, Texts
  <2> QED
    BY <2>1 DEF LsOpen, LsAstray, ServerTypes
<1> QED
  BY <1>1, <1>3, <1>4 DEF LsOpen, LsAstray

\* The reply of PWD, whether getcwd fails or not.
LEMMA PwdSteps ==
  ASSUME ServerTypes, NEW w \in Conns, Pwd(w) \/ PwdFails(w)
  PROVE  /\ \E t \in Texts : Respond(w, "DATA", t) /\ tmp' = [tmp EXCEPT ![w] = t]
         /\ tmp' \in [Conns -> Texts]
         /\ WGoto(w, "recv")
         /\ UNCHANGED <<clientVars, up, cwd, tree, list, toS, reason>>
<1>1. cwd \in Texts /\ tmp[w] \in Texts /\ "garbage" \in Texts
  BY DEF ServerTypes, Texts
<1>2. PICK t \in Texts : Respond(w, "DATA", t) /\ tmp' = [tmp EXCEPT ![w] = t]
  BY <1>1 DEF Pwd, PwdFails
<1>3. tmp' \in [Conns -> Texts]
  BY <1>2 DEF ServerTypes
<1> QED
  BY <1>2, <1>3 DEF Pwd, PwdFails

\* mkdir and remove, whether they fail or not.
LEMMA MkdirSteps ==
  ASSUME NEW w \in Conns, Mkdir(w) \/ MkdirRefused(w)
  PROVE  /\ wpc[w] = "mkdir" /\ Respond(w, "INF", "success") /\ WGoto(w, "recv")
         /\ tmp' = [tmp EXCEPT ![w] = "success"]
         /\ tree' = tree \/ tree' = [tree EXCEPT ![File(w)] = "dir"]
         /\ UNCHANGED <<clientVars, up, cwd, list, toS, reason>>
BY DEF Mkdir, MkdirRefused, MkdirSuccess, WAt

LEMMA RmSteps ==
  ASSUME ServerTypes, NEW w \in Conns, Rm(w) \/ RmRefused(w)
  PROVE  /\ wpc[w] = "rm" /\ Respond(w, "INF", "command success") /\ WGoto(w, "recv")
         /\ tree' = tree \/ tree' = [tree EXCEPT ![File(w)] = "none"]
         /\ list' \in [Conns -> Streams]
         /\ UNCHANGED <<clientVars, up, cwd, tmp, toS, reason>>
<1>1. list' \in [Conns -> Streams]
  <2>1. \A x \in Conns : list[x] \in Streams /\ [list[x] EXCEPT !.due = @ \ {Arg(w)}] \in Streams
    BY DEF ServerTypes, Streams
  <2> QED
    BY <2>1 DEF Rm, RmRefused, ServerTypes
<1> QED
  BY <1>1 DEF Rm, RmRefused, RmSuccess, WAt

\* Every step of a thread keeps the types: execute_commands works on a sound command.
LEMMA TypesThread ==
  ASSUME TypeOK, NEW w \in Conns, ThreadStep(w) \/ Sigpipe(w)
  PROVE  TypeOK'
<1> USE DEF TypeOK
\* A step that ends outside the places of execute_commands.
<1>1. ASSUME NEW q \in Places \ WorkPlaces, WGoto(w, q), wbuf' \in [Conns -> Held], \A v \in Conns \ {w} : wbuf'[v] = wbuf[v],
             link' \in [Conns -> {"open", "fin", "rst", "pipe"}], toC' \in [Conns -> Seq(Packets)],
             toS' \in [Conns -> Seq(Incoming)], UNCHANGED clientVars,
             tree' \in [Dirs \X Names -> {"none", "file", "dir"}], cwd' \in Dirs, up' \in BOOLEAN,
             list' \in [Conns -> Streams], tmp' \in [Conns -> Texts]
      PROVE  TypeOK'
  <2>1. ClientTypes'
    BY <1>1 DEF ClientTypes, clientVars
  <2>2. wpc' \in [Conns -> Places] /\ \A v \in Conns : wpc'[v] = IF v = w THEN q ELSE wpc[v]
    BY <1>1 DEF WGoto, ServerTypes
  <2>3. \A v \in Conns : wpc'[v] \in WorkPlaces => wbuf'[v].type = "REQU" /\ wpc'[v] \in Work(wbuf'[v].id)
    BY <1>1, <2>2 DEF ServerTypes
  <2> QED
    BY <1>1, <2>1, <2>2, <2>3 DEF NetTypes, ServerTypes
\* A step between two of them.
<1>2. ASSUME NEW q \in WorkPlaces, wpc[w] \in WorkPlaces, WGoto(w, q), q \in Work(wbuf[w].id),
             UNCHANGED <<clientVars, up, cwd, tree, wbuf, tmp, list, link, toS, toC>>
      PROVE  TypeOK'
  <2>1. ClientTypes'
    BY <1>2 DEF ClientTypes, clientVars
  <2>2. WorkPlaces \subseteq Places
    BY DEF WorkPlaces, Places, Sending
  <2>3. wpc' \in [Conns -> Places] /\ \A v \in Conns : wpc'[v] = IF v = w THEN q ELSE wpc[v]
    BY <1>2, <2>2 DEF WGoto, ServerTypes
  <2>4. \A v \in Conns : wpc'[v] \in WorkPlaces => wbuf'[v].type = "REQU" /\ wpc'[v] \in Work(wbuf'[v].id)
    BY <1>2, <2>3 DEF ServerTypes
  <2> QED
    BY <1>2, <2>1, <2>3, <2>4 DEF NetTypes, ServerTypes
\* A step that only sends a reply.
<1>3. ASSUME NEW q \in Places \ WorkPlaces, WGoto(w, q), NEW type \in {"INF", "DATA", "EOT"}, NEW text \in Texts,
             Respond(w, type, text), UNCHANGED <<clientVars, toS>>,
             tree' \in [Dirs \X Names -> {"none", "file", "dir"}], cwd' \in Dirs, up' \in BOOLEAN,
             list' \in [Conns -> Streams], tmp' \in [Conns -> Texts]
      PROVE  TypeOK'
  <2>1. /\ wbuf' = [wbuf EXCEPT ![w] = Pkt(type, wbuf[w].id, text)]
        /\ wbuf' \in [Conns -> Held]
        /\ link' \in [Conns -> {"open", "fin", "rst", "pipe"}]
        /\ toC' \in [Conns -> Seq(Packets)]
    BY <1>3, RespondType
  <2>2. \A v \in Conns \ {w} : wbuf'[v] = wbuf[v]
    BY <2>1 DEF ServerTypes
  <2>3. toS' \in [Conns -> Seq(Incoming)]
    BY <1>3 DEF NetTypes
  <2> QED
    BY <1>1, <1>3, <2>1, <2>2, <2>3
<1>4. /\ wpc[w] \in WorkPlaces => wbuf[w].type = "REQU" /\ wbuf[w].id \in Commands /\ wpc[w] \in Work(wbuf[w].id)
      /\ wpc[w] \in {"get", "put", "stat", "mkdir", "stat_again", "rm_stat", "rm"} =>
              Arg(w) \in Names /\ File(w) \in Dirs \X Names /\ tree[File(w)] \in {"none", "file", "dir"}
  <2>1. CASE wpc[w] \in WorkPlaces
    BY <2>1, AtWork
  <2>2. CASE wpc[w] \notin WorkPlaces
    BY <2>2 DEF WorkPlaces
  <2> QED
    BY <2>1, <2>2
<1>5. /\ up \in BOOLEAN /\ cwd \in Dirs /\ cwd \in Texts
      /\ tree \in [Dirs \X Names -> {"none", "file", "dir"}]
      /\ list \in [Conns -> Streams] /\ tmp \in [Conns -> Texts]
      /\ wbuf \in [Conns -> Held] /\ wpc \in [Conns -> Places]
  BY DEF ServerTypes, Texts
<1>6. /\ "recv" \in Places \ WorkPlaces /\ "ls" \in Places \ WorkPlaces /\ "eot" \in Places \ WorkPlaces
      /\ "data" \in Places \ WorkPlaces /\ "null" \in Places \ WorkPlaces /\ "bye" \in Places \ WorkPlaces
      /\ "put_recv" \in Places \ WorkPlaces /\ "put_null" \in Places \ WorkPlaces /\ "ended" \in Places \ WorkPlaces
  BY DEF Places, WorkPlaces, Sending
<1>7. {"", "welcome", "garbage", "success", "fail", "failed", "error", "found", "created",
       "command success", "incorrect path"} \subseteq Texts
  BY DEF Texts
<1>8. CASE Sigpipe(w) \/ NullFile(w) \/ CdNull(w) \/ LsNull(w)
  <2>1. up' \in BOOLEAN /\ UNCHANGED <<clientVars, cwd, tree, workerVars, link, toS, toC>>
    BY <1>8 DEF Sigpipe, NullFile, CdNull, LsNull, Dies
  <2> QED
    BY <2>1 DEF ClientTypes, clientVars, NetTypes, ServerTypes, workerVars
<1>9. CASE Accept(w)
  <2>1. Pkt("INF", "CONNECT", "welcome") \in Packets /\ Pkt("INF", "CONNECT", "welcome") \in Held
    BY DEF Pkt, Packets, Held, Types, Ids, Texts, Sound
  <2>2. <<Pkt("INF", "CONNECT", "welcome")>> \in Seq(Packets)
    BY <2>1
  <2>3. /\ link' \in [Conns -> {"open", "fin", "rst", "pipe"}]
        /\ toC' \in [Conns -> Seq(Packets)]
    BY <1>9, <2>2, SendCType DEF Accept
  <2>4. wbuf' \in [Conns -> Held] /\ \A v \in Conns \ {w} : wbuf'[v] = wbuf[v]
    BY <1>9, <2>1, <1>5 DEF Accept
  <2>5. WGoto(w, "recv") /\ UNCHANGED <<clientVars, up, cwd, tree, tmp, list, toS, reason>>
    BY <1>9 DEF Accept
  <2>6. toS' \in [Conns -> Seq(Incoming)]
    BY <2>5 DEF NetTypes
  <2> QED
    BY <1>1, <1>5, <1>6, <2>3, <2>4, <2>5, <2>6
\* A step that dispatches a packet.
<1>10. ASSUME NEW p \in Held, WGoto(w, Dispatch(p)), wbuf' \in [Conns -> Held], \A v \in Conns \ {w} : wbuf'[v] = wbuf[v], wbuf'[w] = p,
             link' \in [Conns -> {"open", "fin", "rst", "pipe"}], toC' = toC,
             toS' \in [Conns -> Seq(Incoming)], UNCHANGED <<clientVars, up, cwd, tree, tmp, list>>
       PROVE  TypeOK'
  <2>1. ClientTypes'
    BY <1>10 DEF ClientTypes, clientVars
  <2>2. /\ Dispatch(p) \in Places
        /\ Dispatch(p) \in WorkPlaces => p.type = "REQU" /\ Dispatch(p) \in Work(p.id)
    BY DispatchPlace DEF Held
  <2>3. wpc' \in [Conns -> Places] /\ \A v \in Conns : wpc'[v] = IF v = w THEN Dispatch(p) ELSE wpc[v]
    BY <1>5, <1>10, <2>2 DEF WGoto
  <2>4. \A v \in Conns : wpc'[v] \in WorkPlaces => wbuf'[v].type = "REQU" /\ wpc'[v] \in Work(wbuf'[v].id)
    BY <1>10, <2>2, <2>3 DEF ServerTypes
  <2>5. NetTypes'
    BY <1>10 DEF NetTypes
  <2> QED
    BY <1>5, <1>10, <2>1, <2>3, <2>4, <2>5 DEF ServerTypes
<1>11. CASE ThreadRecv(w)
  <2>1. /\ toS[w] # <<>> /\ wbuf' = [wbuf EXCEPT ![w] = Head(toS[w])] /\ toS' = [toS EXCEPT ![w] = Tail(@)]
        /\ WGoto(w, Dispatch(Head(toS[w]))) /\ UNCHANGED <<clientVars, up, cwd, tree, tmp, list, link, toC, reason>>
    BY <1>11 DEF ThreadRecv
  <2>2. Head(toS[w]) \in Held /\ wbuf' \in [Conns -> Held] /\ toS' \in [Conns -> Seq(Incoming)]
    BY <2>1, ThreadTakes DEF Incoming, Held, Packets
  <2>3. wbuf'[w] = Head(toS[w]) /\ \A v \in Conns \ {w} : wbuf'[v] = wbuf[v]
    BY <1>5, <2>1
  <2>4. link' \in [Conns -> {"open", "fin", "rst", "pipe"}]
    BY <2>1 DEF NetTypes
  <2> QED
    BY <1>10, <2>1, <2>2, <2>3, <2>4
<1>12. CASE ThreadEof(w)
  <2>1. WGoto(w, "bye") /\ UNCHANGED <<clientVars, up, cwd, tree, wbuf, tmp, list, link, toS, toC, reason>>
    BY <1>12 DEF ThreadEof
  <2>2. /\ link' \in [Conns -> {"open", "fin", "rst", "pipe"}] /\ toC' \in [Conns -> Seq(Packets)]
        /\ toS' \in [Conns -> Seq(Incoming)]
    BY <2>1 DEF NetTypes
  <2> QED
    BY <1>1, <1>5, <1>6, <2>1, <2>2
<1>13. CASE ThreadReset(w)
  <2>1. /\ link' = [link EXCEPT ![w] = "pipe"] /\ WGoto(w, Dispatch(wbuf[w]))
        /\ UNCHANGED <<clientVars, up, cwd, tree, wbuf, tmp, list, toS, toC, reason>>
    BY <1>13 DEF ThreadReset
  <2>2. wbuf[w] \in Held
    BY <1>5
  <2>3. link' \in [Conns -> {"open", "fin", "rst", "pipe"}] /\ toS' \in [Conns -> Seq(Incoming)]
    BY <2>1 DEF NetTypes
  <2> QED
    BY <1>5, <1>10, <2>1, <2>2, <2>3
<1>14. CASE Terminate(w)
  <2>1. wbuf[w] \in [type : Types \cup {""}, id : Ids, text : Texts]
    BY <1>5 DEF Held
  <2>2. [wbuf[w] EXCEPT !.type = "TERM"] \in Packets /\ [wbuf[w] EXCEPT !.type = "TERM"] \in Held
    BY <2>1 DEF Packets, Held, Types, Sound
  <2>3. <<[wbuf[w] EXCEPT !.type = "TERM"]>> \in Seq(Packets)
    BY <2>2
  <2>4. /\ wbuf' = [wbuf EXCEPT ![w].type = "TERM"]
        /\ SendC(w, <<[wbuf[w] EXCEPT !.type = "TERM"]>>)
        /\ WGoto(w, IF wpc[w] = "bye" THEN "ended" ELSE "recv")
        /\ UNCHANGED <<clientVars, up, cwd, tree, tmp, list, toS, reason>>
    BY <1>14 DEF Terminate
  <2>5. /\ link' \in [Conns -> {"open", "fin", "rst", "pipe"}]
        /\ toC' \in [Conns -> Seq(Packets)]
    BY <2>3, <2>4, SendCType
  <2>6. wbuf' \in [Conns -> Held] /\ \A v \in Conns \ {w} : wbuf'[v] = wbuf[v]
    BY <1>5, <2>2, <2>4
  <2>7. toS' \in [Conns -> Seq(Incoming)]
    BY <2>4 DEF NetTypes
  <2> QED
    BY <1>1, <1>5, <1>6, <2>4, <2>5, <2>6, <2>7
<1>15. CASE Pwd(w) \/ PwdFails(w)
  BY <1>3, <1>5, <1>6, <1>15, PwdSteps
<1>16. CASE LsOpen(w) \/ LsAstray(w)
  <2>1. /\ WGoto(w, "ls") /\ UNCHANGED <<clientVars, up, cwd, tree, wbuf, link, toS, toC, reason>>
        /\ list' \in [Conns -> Streams] /\ tmp' \in [Conns -> Texts]
    BY <1>16, OpenSteps
  <2>2. /\ link' \in [Conns -> {"open", "fin", "rst", "pipe"}] /\ toC' \in [Conns -> Seq(Packets)]
        /\ toS' \in [Conns -> Seq(Incoming)]
    BY <2>1 DEF NetTypes
  <2> QED
    BY <1>1, <1>5, <1>6, <2>1, <2>2
<1>17. CASE LsEntry(w) \/ LsEnd(w)
  <2>1. UNCHANGED <<clientVars, up, cwd, tree, tmp, toS, reason>> /\ list' \in [Conns -> Streams]
    BY <1>17, LsSteps
  <2>2. PICK text \in Texts :
          \/ wpc[w] = "ls" /\ wpc' = wpc /\ Respond(w, "DATA", text)
          \/ WGoto(w, "recv") /\ Respond(w, "EOT", text)
    BY <1>17, LsSteps
  <2>3. CASE wpc[w] = "ls" /\ wpc' = wpc /\ Respond(w, "DATA", text)
    <3>1. WGoto(w, "ls")
      BY <1>5, <2>3 DEF WGoto
    <3> QED
      BY <1>3, <1>5, <1>6, <2>1, <2>3, <3>1
  <2>4. CASE WGoto(w, "recv") /\ Respond(w, "EOT", text)
    BY <1>3, <1>5, <1>6, <2>1, <2>4
  <2> QED
    BY <2>2, <2>3, <2>4
<1>18. CASE GetOpen(w)
  <2>1. /\ Respond(w, "INF", IF tree[File(w)] = "none" THEN "error" ELSE "found")
        /\ WGoto(w, CASE tree[File(w)] = "none" -> "null" [] tree[File(w)] = "file" -> "data"
                [] tree[File(w)] = "dir" -> "eot")
        /\ UNCHANGED <<clientVars, up, cwd, tree, tmp, list, toS, reason>>
        /\ wpc[w] = "get"
    BY <1>18 DEF GetOpen, WAt
  <2>2. \E q \in {"null", "data", "eot"}, t \in {"error", "found"} : WGoto(w, q) /\ Respond(w, "INF", t)
    BY <1>4, <2>1
  <2> QED
    BY <1>3, <1>5, <1>6, <1>7, <2>1, <2>2
<1>19. CASE GetData(w) \/ GetEot(w)
  <2>1. /\ \E q \in {"eot", "recv"}, t \in {"DATA", "EOT"} : WGoto(w, q) /\ Respond(w, t, "")
        /\ UNCHANGED <<clientVars, up, cwd, tree, tmp, list, toS, reason>>
    BY <1>19 DEF GetData, GetEot
  <2> QED
    BY <1>3, <1>5, <1>6, <1>7, <2>1
<1>20. CASE PutOpen(w)
  <2>1. UNCHANGED <<clientVars, up, cwd, tmp, list, toS, reason>> /\ wpc[w] = "put"
    BY <1>20 DEF PutOpen, WAt
  <2>2. tree' \in [Dirs \X Names -> {"none", "file", "dir"}]
    BY <1>5, <1>20 DEF PutOpen
  <2>3. \E q \in {"put_null", "put_recv"}, t \in {"error", "created"} : WGoto(w, q) /\ Respond(w, "INF", t)
    BY <1>20 DEF PutOpen
  <2> QED
    BY <1>3, <1>5, <1>6, <1>7, <2>1, <2>2, <2>3
<1>21. CASE PutRecv(w)
  <2>1. UNCHANGED <<clientVars, up, cwd, tree, tmp, list, toC, reason>> /\ wpc[w] = "put_recv"
    BY <1>21 DEF PutRecv, WAt
  <2>2. /\ wbuf' \in [Conns -> Held] /\ \A v \in Conns \ {w} : wbuf'[v] = wbuf[v]
        /\ toS' \in [Conns -> Seq(Incoming)] /\ link' \in [Conns -> {"open", "fin", "rst", "pipe"}]
    <3>1. CASE toS[w] # <<>>
      <4>1. wbuf' = [wbuf EXCEPT ![w] = Head(toS[w])] /\ toS' = [toS EXCEPT ![w] = Tail(@)] /\ link' = link
        BY <1>21, <3>1 DEF PutRecv
      <4>2. wbuf' \in [Conns -> Held] /\ toS' \in [Conns -> Seq(Incoming)]
        BY <3>1, <4>1, ThreadTakes
      <4> QED
        BY <1>5, <4>1, <4>2 DEF NetTypes
    <3>2. CASE toS[w] = <<>>
      <4>1. UNCHANGED <<wbuf, toS>> /\ link' = [link EXCEPT ![w] = IF @ = "rst" THEN "pipe" ELSE @]
        BY <1>21, <3>2 DEF PutRecv
      <4> QED
        BY <1>5, <4>1 DEF NetTypes
    <3> QED
      BY <3>1, <3>2
  <2>3. wpc' = wpc \/ WGoto(w, "recv")
    BY <1>21 DEF PutRecv
  <2>4. \E q \in {"put_recv", "recv"} : WGoto(w, q)
    BY <1>5, <2>1, <2>3 DEF WGoto
  <2>5. toC' \in [Conns -> Seq(Packets)]
    BY <2>1 DEF NetTypes
  <2> QED
    BY <1>1, <1>5, <1>6, <2>1, <2>2, <2>4, <2>5
<1>22. CASE MkdirStat(w) \/ MkdirExists(w) \/ MkdirFails(w) \/ RmStat(w)
  <2>1. /\ UNCHANGED <<clientVars, up, cwd, tree, wbuf, tmp, list, link, toS, toC, reason>>
        /\ \/ wpc[w] \in {"stat", "stat_again"} /\ \E q \in {"mkdir", "stat_again", "exists", "fail"} : WGoto(w, q)
           \/ wpc[w] = "rm_stat" /\ \E q \in {"rm_failed", "rm"} : WGoto(w, q)
    BY <1>22 DEF MkdirStat, MkdirExists, MkdirFails, RmStat, WAt
  <2>2. wpc[w] \in {"stat", "stat_again", "rm_stat"} => wpc[w] \in WorkPlaces
    BY DEF WorkPlaces
  <2>3. /\ wpc[w] \in {"stat", "stat_again"} => wbuf[w].id = "MKDIR"
        /\ wpc[w] = "rm_stat" => wbuf[w].id = "RM"
    BY <1>4, <2>2 DEF Work, Commands
  <2>4. CASE wpc[w] \in {"stat", "stat_again"}
    <3>1. PICK q \in {"mkdir", "stat_again", "exists", "fail"} : WGoto(w, q)
      BY <2>1, <2>4
    <3>2. q \in WorkPlaces /\ q \in Work(wbuf[w].id)
      BY <2>3, <2>4 DEF WorkPlaces, Work
    <3> QED
      BY <1>2, <2>1, <2>2, <2>4, <3>1, <3>2
  <2>5. CASE wpc[w] = "rm_stat"
    <3>1. PICK q \in {"rm_failed", "rm"} : WGoto(w, q)
      BY <2>1, <2>5
    <3>2. q \in WorkPlaces /\ q \in Work(wbuf[w].id)
      BY <2>3, <2>5 DEF WorkPlaces, Work
    <3> QED
      BY <1>2, <2>1, <2>2, <2>5, <3>1, <3>2
  <2> QED
    BY <2>1, <2>4, <2>5
<1>23. CASE Mkdir(w) \/ MkdirRefused(w)
  <2>1. /\ tmp' = [tmp EXCEPT ![w] = "success"] /\ Respond(w, "INF", "success") /\ WGoto(w, "recv")
        /\ tree' = tree \/ tree' = [tree EXCEPT ![File(w)] = "dir"]
        /\ UNCHANGED <<clientVars, up, cwd, list, toS, reason>>
    BY <1>23, MkdirSteps
  <2>2. tmp' \in [Conns -> Texts] /\ tree' \in [Dirs \X Names -> {"none", "file", "dir"}]
    BY <1>5, <1>7, <2>1
  <2> QED
    BY <1>3, <1>5, <1>6, <1>7, <2>1, <2>2
<1>24. CASE MkdirReplyExists(w)
  <2>1. PICK t \in {tmp[w], "garbage"} : Respond(w, "INF", t)
    BY <1>24 DEF MkdirReplyExists
  <2>2. t \in Texts
    BY <1>5, <1>7
  <2>3. WGoto(w, "recv") /\ UNCHANGED <<clientVars, up, cwd, tree, tmp, list, toS, reason>>
    BY <1>24 DEF MkdirReplyExists
  <2> QED
    BY <1>3, <1>5, <1>6, <2>1, <2>2, <2>3
<1>25. CASE MkdirReplyFail(w)
  <2>1. /\ tmp' = [tmp EXCEPT ![w] = "fail"] /\ Respond(w, "INF", "fail") /\ WGoto(w, "recv")
        /\ UNCHANGED <<clientVars, up, cwd, tree, list, toS, reason>>
    BY <1>25 DEF MkdirReplyFail
  <2>2. tmp' \in [Conns -> Texts]
    BY <1>5, <1>7, <2>1
  <2> QED
    BY <1>3, <1>5, <1>6, <1>7, <2>1, <2>2
<1>26. CASE Cd(w)
  <2>1. /\ cwd' = IF Target(Arg(w)) \in Dirs THEN Target(Arg(w)) ELSE cwd
        /\ Respond(w, "INF", IF Target(Arg(w)) \in Dirs THEN "command success" ELSE "incorrect path")
        /\ WGoto(w, "recv")
        /\ UNCHANGED <<clientVars, up, tree, tmp, list, toS, reason>>
    BY <1>26 DEF Cd
  <2>2. cwd' \in Dirs /\ \E t \in {"command success", "incorrect path"} : Respond(w, "INF", t)
    BY <1>5, <2>1
  <2> QED
    BY <1>3, <1>5, <1>6, <1>7, <2>1, <2>2
<1>27. CASE Rm(w) \/ RmRefused(w)
  <2>1. /\ tree' = tree \/ tree' = [tree EXCEPT ![File(w)] = "none"]
        /\ Respond(w, "INF", "command success") /\ WGoto(w, "recv") /\ list' \in [Conns -> Streams]
        /\ UNCHANGED <<clientVars, up, cwd, tmp, toS, reason>>
    BY <1>27, RmSteps
  <2>2. tree' \in [Dirs \X Names -> {"none", "file", "dir"}]
    BY <1>5, <2>1
  <2> QED
    BY <1>3, <1>5, <1>6, <1>7, <2>1, <2>2
<1>28. CASE RmFailed(w)
  BY <1>3, <1>5, <1>6, <1>7, <1>28 DEF RmFailed
<1> QED
  BY <1>8, <1>9, <1>11, <1>12, <1>13, <1>14, <1>15, <1>16, <1>17, <1>18, <1>19, <1>20, <1>21, <1>22, <1>23,
     <1>24, <1>25, <1>26, <1>27, <1>28 DEF ThreadStep

\* What stands before a sequence, and what is appended to it.
LEMMA PrefixFacts ==
  ASSUME NEW S, NEW a \in S, NEW b \in S, NEW s \in Seq(S)
  PROVE  /\ <<a>> \o s # <<>> /\ Head(<<a>> \o s) = a /\ Tail(<<a>> \o s) = s
         /\ <<a, b>> \o s # <<>> /\ Head(<<a, b>> \o s) = a /\ Tail(<<a, b>> \o s) = <<b>> \o s
<1>1. <<a>> \in Seq(S) /\ <<a, b>> \in Seq(S) /\ <<b>> \in Seq(S)
  OBVIOUS
<1>2. <<a>> \o s \in Seq(S) /\ <<a, b>> \o s \in Seq(S) /\ <<b>> \o s \in Seq(S)
  BY <1>1, ConcatProperties
<1>3. Len(<<a>> \o s) = 1 + Len(s) /\ Len(<<a, b>> \o s) = 2 + Len(s) /\ Len(<<b>> \o s) = 1 + Len(s) /\ Len(s) \in Nat
  BY <1>1, ConcatProperties, LenProperties
<1>4. /\ \A i \in 1..Len(s) + 1 : (<<a>> \o s)[i] = IF i = 1 THEN a ELSE s[i - 1]
      /\ \A i \in 1..Len(s) + 1 : (<<b>> \o s)[i] = IF i = 1 THEN b ELSE s[i - 1]
      /\ \A i \in 1..Len(s) + 2 : (<<a, b>> \o s)[i] = IF i = 1 THEN a ELSE IF i = 2 THEN b ELSE s[i - 2]
  <2>1. \A i \in 1..Len(s) + 1 : (<<a>> \o s)[i] = IF i = 1 THEN a ELSE s[i - 1]
    BY <1>1, <1>3, ConcatProperties
  <2>2. \A i \in 1..Len(s) + 1 : (<<b>> \o s)[i] = IF i = 1 THEN b ELSE s[i - 1]
    BY <1>1, <1>3, ConcatProperties
  <2>3. \A i \in 1..Len(s) + 2 : (<<a, b>> \o s)[i] = IF i = 1 THEN a ELSE IF i = 2 THEN b ELSE s[i - 2]
    BY <1>1, <1>3, ConcatProperties
  <2> QED
    BY <2>1, <2>2, <2>3
<1>5. /\ <<a>> \o s # <<>> /\ Head(<<a>> \o s) = a
      /\ <<a, b>> \o s # <<>> /\ Head(<<a, b>> \o s) = a
  BY <1>2, <1>3, <1>4
<1>6. Tail(<<a>> \o s) = s
  <2>1. Tail(<<a>> \o s) \in Seq(S) /\ Len(Tail(<<a>> \o s)) = Len(s)
    BY <1>2, <1>3, <1>5, HeadTailProperties
  <2>2. \A i \in 1..Len(s) : Tail(<<a>> \o s)[i] = s[i]
    BY <1>2, <1>3, <1>4, <1>5, HeadTailProperties
  <2> QED
    BY <2>1, <2>2, SeqEqual
<1>7. Tail(<<a, b>> \o s) = <<b>> \o s
  <2>1. Tail(<<a, b>> \o s) \in Seq(S) /\ Len(Tail(<<a, b>> \o s)) = 1 + Len(s)
    BY <1>2, <1>3, <1>5, HeadTailProperties
  <2>2. \A i \in 1..Len(s) + 1 : Tail(<<a, b>> \o s)[i] = (<<b>> \o s)[i]
    BY <1>2, <1>3, <1>4, <1>5, HeadTailProperties
  <2> QED
    BY <1>2, <1>3, <2>1, <2>2, SeqEqual
<1> QED
  BY <1>5, <1>6, <1>7

\* Appending to the last part of a stream.
LEMMA PrefixAppend ==
  ASSUME NEW S, NEW p \in S
  PROVE  \A t, s \in Seq(S) : Append(t \o s, p) = t \o Append(s, p)
<1> TAKE t, s \in Seq(S)
<1>1. \A u \in Seq(S) : Append(u, p) = u \o <<p>>
  BY AppendIsConcat
<1>2. t \o s \in Seq(S) /\ <<p>> \in Seq(S)
  BY ConcatProperties
<1>3. (t \o s) \o <<p>> = t \o (s \o <<p>>)
  BY <1>2, ConcatAssociative
<1> QED
  BY <1>1, <1>2, <1>3

-----------------------------------------------------------------------------
(* Frames: what a step leaves alone.                                       *)

SameClient(c) ==
  /\ cpc'[c] = cpc[c] /\ req'[c] = req[c] /\ cbuf'[c] = cbuf[c] /\ conn'[c] = conn[c]
  /\ connects'[c] = connects[c] /\ got'[c] = got[c] /\ answer'[c] = answer[c]

SameConn(w) ==
  /\ wpc'[w] = wpc[w] /\ wbuf'[w] = wbuf[w]
  /\ link'[w] = link[w] /\ toS'[w] = toS[w] /\ toC'[w] = toC[w]

\* What a client sends goes to its own connection.
LEMMA OtherSends ==
  ASSUME TypeOK, NEW c \in Clients, NEW p, SendS(c, p)
  PROVE  \A d \in Clients \ {c} : \A k \in 1..MaxConnects : toS'[<<d, k>>] = toS[<<d, k>>]
BY DEF SendS, Conn, TypeOK, NetTypes

\* What a client receives is from its own connection.
LEMMA OtherRecvs ==
  ASSUME TypeOK, NEW c \in Clients, Recv(c)
  PROVE  /\ \A d \in Clients \ {c} : cbuf'[d] = cbuf[d]
         /\ \A d \in Clients \ {c} : \A k \in 1..MaxConnects : toC'[<<d, k>>] = toC[<<d, k>>]
<1>1. CASE HasConn(c) /\ toC[Conn(c)] # <<>>
  <2>1. cbuf' = [cbuf EXCEPT ![c] = Head(toC[Conn(c)])] /\ toC' = [toC EXCEPT ![Conn(c)] = Tail(@)]
    BY <1>1 DEF Recv
  <2> QED
    BY <2>1 DEF Conn, TypeOK, NetTypes, ClientTypes
<1>2. CASE ~(HasConn(c) /\ toC[Conn(c)] # <<>>)
  BY <1>2 DEF Recv
<1> QED
  BY <1>1, <1>2

\* A client that ends closes its own sockets.
LEMMA OtherEnds ==
  ASSUME TypeOK, NEW c \in Clients, Ends(c)
  PROVE  /\ \A d \in Clients \ {c} : cpc'[d] = cpc[d]
         /\ \A d \in Clients \ {c} : \A k \in 1..MaxConnects :
              toC'[<<d, k>>] = toC[<<d, k>>] /\ link'[<<d, k>>] = link[<<d, k>>]
<1>1. \A d \in Clients : \A k \in 1..MaxConnects : <<d, k>> \in Conns /\ <<d, k>>[1] = d
  BY DEF Conns
<1>2. \A d \in Clients \ {c} : cpc'[d] = cpc[d]
  BY DEF Ends, CGoto, TypeOK, ClientTypes
<1>3. \A d \in Clients \ {c} : \A k \in 1..MaxConnects : toC'[<<d, k>>] = toC[<<d, k>>]
  BY <1>1 DEF Ends
<1>4. \A d \in Clients \ {c} : \A k \in 1..MaxConnects : link'[<<d, k>>] = link[<<d, k>>]
  BY <1>1 DEF Ends
<1> QED
  BY <1>2, <1>3, <1>4

\* A client's step leaves the other clients and their connections alone.
LEMMA ClientElsewhere ==
  ASSUME TypeOK, NEW c \in Clients, ClientStep(c)
  PROVE  \A d \in Clients \ {c} : SameClient(d) /\ \A k \in 1..MaxConnects : SameConn(<<d, k>>)
<1> USE DEF SameClient, SameConn
<1>1. CASE Connect(c)
  <2>1. /\ connects' = [connects EXCEPT ![c] = @ + 1]
        /\ conn' = [conn EXCEPT ![c] = connects[c] + 1]
        /\ req' = [req EXCEPT ![c] = [id |-> "CONNECT", arg |-> ""]]
        /\ wpc' = [wpc EXCEPT ![<<c, connects[c] + 1>>] = "connecting"]
        /\ cpc' = [cpc EXCEPT ![c] = "greet"]
        /\ UNCHANGED <<cbuf, got, answer, wbuf, tmp, list, link, toS, toC>>
    BY <1>1 DEF Connect, CGoto
  <2>2. \A d \in Clients \ {c} : SameClient(d)
    BY <2>1 DEF TypeOK, ClientTypes
  <2>3. \A d \in Clients \ {c} : \A k \in 1..MaxConnects : wpc'[<<d, k>>] = wpc[<<d, k>>]
    <3>1. ASSUME NEW d \in Clients \ {c}, NEW k \in 1..MaxConnects
          PROVE  wpc'[<<d, k>>] = wpc[<<d, k>>]
      <4>1. <<d, k>> \in Conns /\ <<d, k>> # <<c, connects[c] + 1>>
        BY DEF Conns
      <4>2. wpc \in [Conns -> Places]
        BY DEF TypeOK, ServerTypes
      <4> QED
        BY <2>1, <4>1, <4>2
    <3> QED
      BY <3>1
  <2> QED
    BY <2>1, <2>2, <2>3
<1>2. CASE ConnectFails(c) \/ Refused(c) \/ NotSent(c)
  BY <1>2 DEF ConnectFails, Refused, NotSent, Answer, CGoto, TypeOK, ClientTypes, workerVars
<1>3. CASE ConnectExits(c) \/ ClientSigpipe(c) \/ Kill(c) 
  <2>1. Ends(c) /\ \A d \in Clients \ {c} : answer'[d] = answer[d]
    BY <1>3 DEF ConnectExits, ClientSigpipe, Kill, TypeOK, ClientTypes
  <2> QED
    BY <1>3, <2>1, OtherEnds DEF ConnectExits, ClientSigpipe, Kill, workerVars
<1>4. CASE Exit(c)
  <2>1. Ends(c) /\ \A d \in Clients \ {c} : answer'[d] = answer[d]
    BY <1>4 DEF Exit, TypeOK, ClientTypes
  <2>2. \A d \in Clients \ {c} : \A k \in 1..MaxConnects : toS'[<<d, k>>] = toS[<<d, k>>]
    BY <1>4, OtherSends DEF Exit
  <2>3. UNCHANGED <<req, cbuf, conn, connects, got, wpc, wbuf, tmp, list>>
    BY <1>4 DEF Exit, workerVars
  <2>4. /\ \A d \in Clients \ {c} : cpc'[d] = cpc[d]
        /\ \A d \in Clients \ {c} : \A k \in 1..MaxConnects :
             toC'[<<d, k>>] = toC[<<d, k>>] /\ link'[<<d, k>>] = link[<<d, k>>]
    BY <2>1, OtherEnds
  <2> QED
    BY <2>1, <2>2, <2>3, <2>4
<1>5. CASE Request(c)
  <2>1. PICK r \in Requests :
          /\ req' = [req EXCEPT ![c] = r]
          /\ cbuf' = [cbuf EXCEPT ![c] = Pkt("REQU", r.id, r.arg)]
          /\ SendS(c, Pkt("REQU", r.id, r.arg))
          /\ CGoto(c, IF r.id = "LS" THEN "ls" ELSE "reply")
    BY <1>5 DEF Request
  <2>2. \A d \in Clients \ {c} : \A k \in 1..MaxConnects : toS'[<<d, k>>] = toS[<<d, k>>]
    BY <2>1, OtherSends
  <2>3. \A d \in Clients \ {c} : req'[d] = req[d] /\ cbuf'[d] = cbuf[d] /\ cpc'[d] = cpc[d]
    BY <2>1 DEF CGoto, TypeOK, ClientTypes
  <2>4. /\ got' = [got EXCEPT ![c] = {}]
        /\ UNCHANGED <<conn, connects, answer, up, cwd, tree, workerVars, link, toC, reason>>
    BY <1>5 DEF Request
  <2> QED
    BY <2>2, <2>3, <2>4 DEF TypeOK, ClientTypes, workerVars
<1>6. CASE Greeting(c) \/ Reply(c) \/ Download(c) \/ Listing(c)
  <2>1. Recv(c) /\ UNCHANGED <<req, conn, connects, workerVars, link, toS>>
    BY <1>6 DEF Greeting, Reply, Download, Listing
  <2>2. \A d \in Clients \ {c} : cpc'[d] = cpc[d] /\ answer'[d] = answer[d] /\ got'[d] = got[d]
    <3>1. CASE Greeting(c)
      BY <3>1 DEF Greeting, Answer, CGoto, TypeOK, ClientTypes
    <3>2. CASE Reply(c)
      BY <3>2 DEF Reply, Answer, CGoto, TypeOK, ClientTypes
    <3>3. CASE Download(c)
      BY <3>3 DEF Download, Answer, CGoto, TypeOK, ClientTypes
    <3>4. CASE Listing(c)
      BY <3>4 DEF Listing, Answer, CGoto, TypeOK, ClientTypes
    <3> QED
      BY <1>6, <3>1, <3>2, <3>3, <3>4
  <2> QED
    BY <2>1, <2>2, OtherRecvs DEF workerVars
<1>7. CASE UploadData(c) \/ UploadEot(c)
  <2>1. \A d \in Clients \ {c} : \A k \in 1..MaxConnects : toS'[<<d, k>>] = toS[<<d, k>>]
    BY <1>7, OtherSends DEF UploadData, UploadEot
  <2>2. UNCHANGED <<req, cbuf, conn, connects, got, workerVars, link, toC>>
    BY <1>7 DEF UploadData, UploadEot
  <2>3. \A d \in Clients \ {c} : cpc'[d] = cpc[d] /\ answer'[d] = answer[d]
    BY <1>7 DEF UploadData, UploadEot, Answer, CGoto, TypeOK, ClientTypes
  <2> QED
    BY <2>1, <2>2, <2>3 DEF workerVars
<1>8. CASE ListingSplit(c) \/ ListingEnds(c)
  <2>1. UNCHANGED <<req, cbuf, conn, connects, got, workerVars, link, toS, toC>>
    BY <1>8 DEF ListingSplit, ListingEnds
  <2>2. \A d \in Clients \ {c} : cpc'[d] = cpc[d] /\ answer'[d] = answer[d]
    BY <1>8 DEF ListingSplit, ListingEnds, Answer, CGoto, TypeOK, ClientTypes
  <2> QED
    BY <2>1, <2>2 DEF workerVars
<1> QED
  BY <1>1, <1>2, <1>3, <1>4, <1>5, <1>6, <1>7, <1>8 DEF ClientStep, ClientWork

\* A send of the server changes its own connection only.
LEMMA OtherReplies ==
  ASSUME TypeOK, NEW w \in Conns, NEW v \in Conns \ {w}
  PROVE  /\ \A ps : SendC(w, ps) => link'[v] = link[v] /\ toC'[v] = toC[v]
         /\ \A type, text : Respond(w, type, text) =>
              link'[v] = link[v] /\ toC'[v] = toC[v] /\ wbuf'[v] = wbuf[v]
         /\ \A q : WGoto(w, q) => wpc'[v] = wpc[v]
BY DEF SendC, Respond, WGoto, TypeOK, NetTypes, ServerTypes

\* A thread's step leaves the clients and all other connections alone.
LEMMA ThreadElsewhere ==
  ASSUME TypeOK, NEW w \in Conns, ThreadStep(w) \/ Sigpipe(w)
  PROVE  /\ UNCHANGED clientVars
         /\ \A d \in Clients : SameClient(d)
         /\ \A v \in Conns \ {w} : SameConn(v)
<1>1. UNCHANGED clientVars
  <2>1. CASE \/ Pwd(w) \/ PwdFails(w) \/ LsOpen(w) \/ LsAstray(w) \/ LsEntry(w) \/ LsEnd(w)
             \/ Mkdir(w) \/ MkdirRefused(w) \/ Rm(w) \/ RmRefused(w)
    BY <2>1, PwdSteps, OpenSteps, LsSteps, MkdirSteps, RmSteps DEF TypeOK
  <2>2. CASE ~ (\/ Pwd(w) \/ PwdFails(w) \/ LsOpen(w) \/ LsAstray(w) \/ LsEntry(w) \/ LsEnd(w)
                \/ Mkdir(w) \/ MkdirRefused(w) \/ Rm(w) \/ RmRefused(w))
    BY <2>2 DEF ThreadStep, Accept, ThreadRecv, ThreadEof, ThreadReset, Terminate, LsNull, GetOpen,
       GetData, GetEot, PutOpen, PutRecv, NullFile, MkdirStat, MkdirExists, MkdirReplyExists, MkdirFails,
       MkdirReplyFail, Cd, CdNull, RmStat, RmFailed, Sigpipe
  <2> QED
    BY <2>1, <2>2
<1>2. \A d \in Clients : SameClient(d)
  BY <1>1 DEF clientVars, SameClient
<1>3. ASSUME NEW v \in Conns \ {w}
      PROVE  SameConn(v)
  <2> USE DEF SameConn
  <2>1. CASE Sigpipe(w) \/ NullFile(w) \/ CdNull(w) \/ LsNull(w)
    BY <2>1 DEF Sigpipe, NullFile, CdNull, LsNull, workerVars
  <2>2. CASE Accept(w) \/ Terminate(w)
    <3>1. /\ \E ps : SendC(w, ps)
          /\ \E q : WGoto(w, q)
          /\ wbuf'[v] = wbuf[v]
          /\ toS' = toS
      BY <2>2 DEF Accept, Terminate, TypeOK, ServerTypes
    <3> QED
      BY <3>1, OtherReplies
  <2>3. CASE ThreadRecv(w) \/ ThreadEof(w) \/ ThreadReset(w)
    BY <2>3 DEF ThreadRecv, ThreadEof, ThreadReset, WGoto, TypeOK, NetTypes, ServerTypes
  <2>4. CASE LsOpen(w) \/ LsAstray(w) \/ MkdirStat(w) \/ MkdirExists(w) \/ MkdirFails(w) \/ RmStat(w)
    BY <2>4 DEF LsOpen, LsAstray, MkdirStat, MkdirExists, MkdirFails, RmStat, WGoto, TypeOK, NetTypes, ServerTypes
  <2>5. CASE LsEntry(w) \/ LsEnd(w)
    <3>1. /\ wpc' = wpc \/ \E q : WGoto(w, q)
          /\ \E type, text : Respond(w, type, text)
          /\ toS' = toS
      BY <2>5, LsSteps DEF TypeOK
    <3> QED
      BY <3>1, OtherReplies
  <2>6. CASE PutRecv(w)
    BY <2>6 DEF PutRecv, WGoto, TypeOK, NetTypes, ServerTypes
  <2>7. CASE Pwd(w) \/ PwdFails(w) \/ GetOpen(w) \/ GetData(w) \/ GetEot(w) \/ Mkdir(w) \/ MkdirRefused(w)
             \/ MkdirReplyExists(w) \/ MkdirReplyFail(w) \/ Cd(w) \/ Rm(w) \/ RmRefused(w) \/ RmFailed(w)
    <3>1. /\ \E q : WGoto(w, q)
          /\ \E type, text : Respond(w, type, text)
          /\ toS' = toS
      <4>1. CASE Pwd(w) \/ PwdFails(w)
        BY <4>1, PwdSteps DEF TypeOK
      <4>2. CASE Mkdir(w) \/ MkdirRefused(w) \/ Rm(w) \/ RmRefused(w)
        BY <4>2, MkdirSteps, RmSteps DEF TypeOK
      <4>3. CASE GetOpen(w) \/ GetData(w) \/ GetEot(w) \/ MkdirReplyExists(w) \/ MkdirReplyFail(w) \/ Cd(w) \/ RmFailed(w)
        BY <4>3 DEF GetOpen, GetData, GetEot, MkdirReplyExists, MkdirReplyFail, Cd, RmFailed
      <4> QED
        BY <2>7, <4>1, <4>2, <4>3
    <3> QED
      BY <3>1, OtherReplies
  <2>8. CASE PutOpen(w)
    <3>1. /\ \E q : WGoto(w, q)
          /\ \E type, text : Respond(w, type, text)
          /\ toS' = toS
      BY <2>8 DEF PutOpen
    <3> QED
      BY <3>1, OtherReplies
  <2> QED
    BY <2>1, <2>2, <2>3, <2>4, <2>5, <2>6, <2>7, <2>8 DEF ThreadStep
<1> QED
  BY <1>1, <1>2, <1>3

\* The one or two steps a thread has at its place.
LEMMA ThreadAt ==
  ASSUME NEW w \in Conns, ThreadStep(w)
  PROVE  /\ up
         /\ wpc[w] \notin {"none", "ended"}
         /\ wpc[w] = "connecting" => Accept(w)
         /\ wpc[w] = "recv" => ThreadRecv(w) \/ ThreadEof(w) \/ ThreadReset(w)
         /\ wpc[w] \in {"term", "bye"} => Terminate(w)
         /\ wpc[w] = "pwd" => Pwd(w) \/ PwdFails(w)
         /\ wpc[w] = "opendir" => LsOpen(w) \/ LsAstray(w) \/ LsNull(w)
         /\ wpc[w] = "ls" => LsEntry(w) \/ LsEnd(w)
         /\ wpc[w] = "get" => GetOpen(w)
         /\ wpc[w] = "data" => GetData(w)
         /\ wpc[w] = "eot" => GetEot(w)
         /\ wpc[w] = "put" => PutOpen(w)
         /\ wpc[w] = "put_recv" => PutRecv(w)
         /\ wpc[w] \in {"null", "put_null"} => NullFile(w)
         /\ wpc[w] = "stat" => MkdirStat(w)
         /\ wpc[w] = "mkdir" => Mkdir(w) \/ MkdirRefused(w)
         /\ wpc[w] = "stat_again" => MkdirExists(w) \/ MkdirFails(w)
         /\ wpc[w] = "exists" => MkdirReplyExists(w)
         /\ wpc[w] = "fail" => MkdirReplyFail(w)
         /\ wpc[w] = "cd" => Cd(w) \/ CdNull(w)
         /\ wpc[w] = "rm_stat" => RmStat(w)
         /\ wpc[w] = "rm" => Rm(w) \/ RmRefused(w)
         /\ wpc[w] = "rm_failed" => RmFailed(w)
<1>1. /\ Accept(w) => up /\ wpc[w] = "connecting"
      /\ ThreadRecv(w) \/ ThreadEof(w) \/ ThreadReset(w) => up /\ wpc[w] = "recv"
      /\ Terminate(w) => up /\ wpc[w] \in {"term", "bye"}
      /\ Pwd(w) \/ PwdFails(w) => up /\ wpc[w] = "pwd"
      /\ LsOpen(w) \/ LsAstray(w) \/ LsNull(w) => up /\ wpc[w] = "opendir"
      /\ LsEntry(w) \/ LsEnd(w) => up /\ wpc[w] = "ls"
      /\ GetOpen(w) => up /\ wpc[w] = "get"
      /\ GetData(w) => up /\ wpc[w] = "data"
  BY DEF WAt, Accept, ThreadRecv, ThreadEof, ThreadReset, Terminate, Pwd, PwdFails, LsOpen, LsAstray, LsNull,
     LsEntry, LsEnd, GetOpen, GetData
<1>2. /\ GetEot(w) => up /\ wpc[w] = "eot"
      /\ PutOpen(w) => up /\ wpc[w] = "put"
      /\ PutRecv(w) => up /\ wpc[w] = "put_recv"
      /\ NullFile(w) => up /\ wpc[w] \in {"null", "put_null"}
      /\ MkdirStat(w) => up /\ wpc[w] = "stat"
      /\ Mkdir(w) \/ MkdirRefused(w) => up /\ wpc[w] = "mkdir"
      /\ MkdirExists(w) \/ MkdirFails(w) => up /\ wpc[w] = "stat_again"
  BY DEF WAt, GetEot, PutOpen, PutRecv, NullFile, MkdirStat, Mkdir, MkdirRefused, MkdirSuccess, MkdirExists, MkdirFails
<1>3. /\ MkdirReplyExists(w) => up /\ wpc[w] = "exists"
      /\ MkdirReplyFail(w) => up /\ wpc[w] = "fail"
      /\ Cd(w) \/ CdNull(w) => up /\ wpc[w] = "cd"
      /\ RmStat(w) => up /\ wpc[w] = "rm_stat"
      /\ Rm(w) \/ RmRefused(w) => up /\ wpc[w] = "rm"
      /\ RmFailed(w) => up /\ wpc[w] = "rm_failed"
  BY DEF WAt, MkdirReplyExists, MkdirReplyFail, Cd, CdNull, RmStat, Rm, RmRefused, RmSuccess, RmFailed
<1>4. \/ Accept(w) \/ ThreadRecv(w) \/ ThreadEof(w) \/ ThreadReset(w) \/ Terminate(w)
      \/ Pwd(w) \/ PwdFails(w) \/ LsOpen(w) \/ LsAstray(w) \/ LsNull(w) \/ LsEntry(w) \/ LsEnd(w)
      \/ GetOpen(w) \/ GetData(w) \/ GetEot(w)
      \/ PutOpen(w) \/ PutRecv(w) \/ NullFile(w)
      \/ MkdirStat(w) \/ Mkdir(w) \/ MkdirRefused(w) \/ MkdirExists(w) \/ MkdirReplyExists(w)
      \/ MkdirFails(w) \/ MkdirReplyFail(w) \/ Cd(w) \/ CdNull(w)
      \/ RmStat(w) \/ Rm(w) \/ RmRefused(w) \/ RmFailed(w)
  BY DEF ThreadStep
<1> QED
  BY <1>1, <1>2, <1>3, <1>4

\* A send to an open socket.
LEMMA OpenSends ==
  ASSUME TypeOK, NEW w \in Conns, link[w] = "open"
  PROVE  /\ \A ps : SendC(w, ps) => link'[w] = "open" /\ toC'[w] = toC[w] \o ps
         /\ \A type, text : Respond(w, type, text) =>
              /\ link'[w] = "open" /\ toC'[w] = toC[w] \o <<Pkt(type, wbuf[w].id, text)>>
              /\ wbuf'[w] = Pkt(type, wbuf[w].id, text)
BY DEF SendC, Respond, TypeOK, NetTypes, ServerTypes

\* The server never closes a socket that its client has open.
LEMMA OpenStays ==
  ASSUME TypeOK, NEW w \in Conns, ThreadStep(w) \/ Sigpipe(w), link[w] = "open"
  PROVE  link'[w] = "open"
<1>1. CASE Sigpipe(w) \/ NullFile(w) \/ CdNull(w) \/ LsNull(w)
  BY <1>1 DEF Sigpipe, NullFile, CdNull, LsNull
<1>2. CASE Accept(w) \/ Terminate(w)
  BY <1>2, OpenSends DEF Accept, Terminate
<1>3. CASE ThreadRecv(w) \/ ThreadEof(w) \/ ThreadReset(w) \/ PutRecv(w)
  BY <1>3 DEF ThreadRecv, ThreadEof, ThreadReset, PutRecv
<1>4. CASE LsOpen(w) \/ LsAstray(w) \/ MkdirStat(w) \/ MkdirExists(w) \/ MkdirFails(w) \/ RmStat(w)
  BY <1>4 DEF LsOpen, LsAstray, MkdirStat, MkdirExists, MkdirFails, RmStat
<1>5. CASE \/ Pwd(w) \/ PwdFails(w) \/ LsEntry(w) \/ LsEnd(w) \/ GetOpen(w) \/ GetData(w) \/ GetEot(w) \/ PutOpen(w)
           \/ Mkdir(w) \/ MkdirRefused(w) \/ MkdirReplyExists(w) \/ MkdirReplyFail(w) \/ Cd(w)
           \/ Rm(w) \/ RmRefused(w) \/ RmFailed(w)
  <2>1. \E type, text : Respond(w, type, text)
    <3>1. CASE Pwd(w) \/ PwdFails(w) \/ LsEntry(w) \/ LsEnd(w)
      BY <3>1, PwdSteps, LsSteps DEF TypeOK
    <3>2. CASE Mkdir(w) \/ MkdirRefused(w) \/ Rm(w) \/ RmRefused(w)
      BY <3>2, MkdirSteps, RmSteps DEF TypeOK
    <3>3. CASE \/ GetOpen(w) \/ GetData(w) \/ GetEot(w) \/ PutOpen(w) \/ MkdirReplyExists(w) \/ MkdirReplyFail(w)
               \/ Cd(w) \/ RmFailed(w)
      BY <3>3 DEF GetOpen, GetData, GetEot, PutOpen, MkdirReplyExists, MkdirReplyFail, Cd, RmFailed
    <3> QED
      BY <1>5, <3>1, <3>2, <3>3
  <2> QED
    BY <2>1, OpenSends
<1> QED
  BY <1>1, <1>2, <1>3, <1>4, <1>5 DEF ThreadStep

\* What is said of a client's sockets depends on them alone.
LEMMA SocketsFrame ==
  ASSUME NEW c \in Clients, SocketsOf(c), SameClient(c), \A k \in 1..MaxConnects : SameConn(<<c, k>>)
  PROVE  SocketsOf(c)'
BY DEF SocketsOf, SameClient, SameConn

\* A thread keeps what is said of the sockets: it closes none.
LEMMA SocketsThread ==
  ASSUME TypeOK, NEW c \in Clients, NEW k \in 1..MaxConnects, SocketsOf(c),
         ThreadStep(<<c, k>>) \/ Sigpipe(<<c, k>>)
  PROVE  SocketsOf(c)'
<1> DEFINE w == <<c, k>>
<1>1. w \in Conns
  BY DEF Conns
<1> HIDE DEF w
<1>2. SameClient(c) /\ \A v \in Conns \ {w} : SameConn(v)
  BY <1>1, ThreadElsewhere DEF w
<1>3. wpc[w] # "none"
  <2>1. CASE ThreadStep(w)
    BY <1>1, <2>1, ThreadAt
  <2>2. CASE Sigpipe(w)
    BY <2>2 DEF Sigpipe, Sending
  <2> QED
    BY <2>1, <2>2 DEF w
<1>4. link[w] = "open" => link'[w] = "open"
  BY <1>1, OpenStays DEF w
<1>5. k <= connects[c]
  BY <1>3 DEF SocketsOf, w, TypeOK, ClientTypes
<1>6. ASSUME NEW l \in 1..MaxConnects
      PROVE  /\ link'[<<c, l>>] = "open" \/ (cpc'[c] = "done" /\ l <= connects'[c])
             /\ l > connects'[c] => wpc'[<<c, l>>] = "none" /\ toS'[<<c, l>>] = <<>> /\ toC'[<<c, l>>] = <<>>
  <2>1. CASE l = k
    <3>1. connects'[c] = connects[c] /\ cpc'[c] = cpc[c]
      BY <1>2 DEF SameClient
    <3>2. link'[w] = "open" \/ (cpc'[c] = "done" /\ k <= connects[c])
      BY <1>4, <1>5, <3>1 DEF SocketsOf, w
    <3>3. ~(k > connects[c])
      BY <1>5 DEF TypeOK, ClientTypes
    <3> QED
      BY <2>1, <3>1, <3>2, <3>3 DEF w
  <2>2. CASE l # k
    <3>1. <<c, l>> \in Conns \ {w}
      BY <2>2 DEF Conns, w
    <3> QED
      BY <1>2, <3>1 DEF SocketsOf, SameClient, SameConn
  <2> QED
    BY <2>1, <2>2
<1> QED
  BY <1>2, <1>6 DEF SocketsOf, SameClient

\* Every packet that a client has received, or makes for itself, is no sign of a kill.
LEMMA NotKilled ==
  ASSUME TypeOK, NEW c \in Clients, ClientStep(c), ~Kill(c), answer[c].id # "killed"
  PROVE  answer'[c].id # "killed"
<1>1. \A p \in Packets : p.id # "killed"
  BY DEF Packets, Ids
<1>2. Recv(c) => cbuf'[c].id # "killed"
  BY <1>1, RecvType DEF TypeOK
<1>3. \A p : Answer(c, p) => answer'[c] = p
  BY DEF Answer, TypeOK, ClientTypes
<1>4. \A t, i, x : Pkt(t, i, x).id = i
  BY DEF Pkt
<1>5. CASE Connect(c) \/ ConnectExits(c) \/ Request(c) \/ ClientSigpipe(c) \/ ListingSplit(c) \/ UploadData(c)
  BY <1>5 DEF Connect, ConnectExits, Request, ClientSigpipe, ListingSplit, UploadData
<1>6. CASE ConnectFails(c) \/ Refused(c) \/ NotSent(c) \/ UploadEot(c) \/ ListingEnds(c)
  <2>1. \/ Answer(c, Pkt("", "CONNECT", "failed")) \/ Answer(c, Pkt("EOT", "PUT", "")) \/ Answer(c, Pkt("", "LS", "read error"))
        \/ \E i \in {"PWD", "EXIT"} : Answer(c, Pkt("", i, "refused"))
        \/ \E i \in {"GET", "PUT", "RM"} : Answer(c, Pkt("", i, "not sent"))
    BY <1>6 DEF ConnectFails, Refused, NotSent, UploadEot, ListingEnds
  <2>2. \E p : Answer(c, p) /\ p.id # "killed"
    <3>1. \A t, x : \A i \in {"CONNECT", "PUT", "LS", "PWD", "EXIT", "GET", "RM"} : Pkt(t, i, x).id # "killed"
      BY DEF Pkt
    <3> QED
      BY <2>1, <3>1
  <2> QED
    BY <1>3, <2>2
<1>7. CASE Exit(c)
  BY <1>7 DEF Exit, Pkt, TypeOK, ClientTypes
<1>8. CASE Greeting(c) \/ Reply(c) \/ Download(c) \/ Listing(c)
  <2>1. Recv(c) /\ (answer' = answer \/ Answer(c, cbuf'[c]) \/ Answer(c, Pkt("", "GET", "write error")))
    BY <1>8 DEF Greeting, Reply, Download, Listing
  <2> QED
    <3>1. Pkt("", "GET", "write error").id = "GET"
      BY <1>4
    <3>2. answer' = answer \/ answer'[c] = cbuf'[c] \/ answer'[c] = Pkt("", "GET", "write error")
      BY <1>3, <2>1
    <3>3. cbuf'[c].id # "killed"
      BY <1>2, <2>1
    <3> QED
      BY <3>1, <3>2, <3>3
<1> QED
  BY <1>5, <1>6, <1>7, <1>8 DEF ClientStep, ClientWork

\* What a client's step does to its sockets.
LEMMA OwnSockets ==
  ASSUME TypeOK, NEW c \in Clients, ClientStep(c), SocketsOf(c)
  PROVE  /\ cpc[c] # "done"
         /\ ~Connect(c) => connects' = connects /\ wpc' = wpc
         /\ ~Connect(c) /\ ~ConnectFails(c) => conn' = conn
         /\ link' # link => Ends(c)
         /\ \A k \in 1..MaxConnects : k # conn[c] =>
              toS'[<<c, k>>] = toS[<<c, k>>] /\ (toC'[<<c, k>>] = toC[<<c, k>>] \/ (Ends(c) /\ toC'[<<c, k>>] = <<>>))
<1>1. cpc[c] # "done"
  BY DEF ClientStep, ClientWork, Connect, ConnectFails, ConnectExits, Refused, Request, NotSent, Exit, ClientSigpipe,
     ListingSplit, Kill, Greeting, Reply, Download, UploadData, UploadEot, Listing, ListingEnds, At, Gives
<1>2. /\ ~Connect(c) => connects' = connects /\ wpc' = wpc
      /\ ~Connect(c) /\ ~ConnectFails(c) => conn' = conn
  BY DEF ClientStep, ClientWork, ConnectFails, ConnectExits, Refused, Request, NotSent, Exit, ClientSigpipe,
     ListingSplit, Kill, Greeting, Reply, Download, UploadData, UploadEot, Listing, ListingEnds, workerVars
<1>3. link' # link => Ends(c)
  BY DEF ClientStep, ClientWork, Connect, ConnectFails, ConnectExits, Refused, Request, NotSent, Exit, ClientSigpipe,
     ListingSplit, Kill, Greeting, Reply, Download, UploadData, UploadEot, Listing, ListingEnds
<1>4. toS' = toS \/ \E p : SendS(c, p)
  BY DEF ClientStep, ClientWork, Connect, ConnectFails, ConnectExits, Refused, Request, NotSent, Exit, ClientSigpipe,
     ListingSplit, Kill, Greeting, Reply, Download, UploadData, UploadEot, Listing, ListingEnds
<1>5. toC' = toC \/ Recv(c) \/ Ends(c)
  BY DEF ClientStep, ClientWork, Connect, ConnectFails, ConnectExits, Refused, Request, NotSent, Exit, ClientSigpipe,
     ListingSplit, Kill, Greeting, Reply, Download, UploadData, UploadEot, Listing, ListingEnds
<1>6. ASSUME NEW k \in 1..MaxConnects, k # conn[c]
      PROVE  toS'[<<c, k>>] = toS[<<c, k>>] /\ (toC'[<<c, k>>] = toC[<<c, k>>] \/ (Ends(c) /\ toC'[<<c, k>>] = <<>>))
  <2>1. <<c, k>> \in Conns /\ <<c, k>> # Conn(c) /\ <<c, k>>[1] = c
    BY <1>6 DEF Conns, Conn
  <2>2. \A p : SendS(c, p) => toS'[<<c, k>>] = toS[<<c, k>>]
    BY <2>1 DEF SendS, TypeOK, NetTypes
  <2>3. Recv(c) => toC'[<<c, k>>] = toC[<<c, k>>]
    BY <2>1 DEF Recv, TypeOK, NetTypes
  <2>4. Ends(c) => toC'[<<c, k>>] = <<>>
    BY <2>1 DEF Ends
  <2> QED
    BY <1>4, <1>5, <2>2, <2>3, <2>4
<1> QED
  BY <1>1, <1>2, <1>3, <1>6

\* A client keeps what is said of its sockets: only its end closes them.
LEMMA SocketsClient ==
  ASSUME TypeOK, NEW c \in Clients, ClientStep(c), SocketsOf(c)
  PROVE  SocketsOf(c)'
<1>1. /\ conn[c] \in -1..MaxConnects /\ connects[c] \in 0..MaxConnects /\ MaxConnects \in Nat
      /\ conn[c] <= connects[c] /\ (conn[c] > 0 => conn[c] = connects[c]) /\ (connects[c] > 0 => conn[c] # 0)
  BY SessionAssumption DEF SocketsOf, TypeOK, ClientTypes
<1>2. cpc[c] # "done"
  BY OwnSockets
<1>3. \A k \in 1..MaxConnects :
        /\ link[<<c, k>>] = "open"
        /\ k > connects[c] => wpc[<<c, k>>] = "none" /\ toS[<<c, k>>] = <<>> /\ toC[<<c, k>>] = <<>>
  BY <1>2 DEF SocketsOf
<1>4. answer'[c].id = "killed" => cpc'[c] = "done"
  <2>1. Kill(c) => cpc'[c] = "done"
    BY DEF Kill, Ends, CGoto, TypeOK, ClientTypes
  <2>2. answer[c].id # "killed"
    BY <1>2 DEF SocketsOf
  <2> QED
    BY <2>1, <2>2, NotKilled
<1>5. CASE Connect(c)
  <2>1. /\ connects' = [connects EXCEPT ![c] = @ + 1] /\ conn' = [conn EXCEPT ![c] = connects[c] + 1]
        /\ wpc' = [wpc EXCEPT ![<<c, connects[c] + 1>>] = "connecting"]
        /\ UNCHANGED <<link, toS, toC>>
    BY <1>5 DEF Connect
  <2>2. connects'[c] = connects[c] + 1 /\ conn'[c] = connects[c] + 1
    BY <2>1 DEF TypeOK, ClientTypes
  <2>3. ASSUME NEW k \in 1..MaxConnects, k > connects'[c]
        PROVE  wpc'[<<c, k>>] = "none" /\ toS'[<<c, k>>] = <<>> /\ toC'[<<c, k>>] = <<>>
    <3>1. k > connects[c] /\ k # connects[c] + 1
      BY <1>1, <2>2, <2>3
    <3>2. wpc[<<c, k>>] = "none" /\ toS[<<c, k>>] = <<>> /\ toC[<<c, k>>] = <<>>
      BY <1>3, <3>1
    <3>3. <<c, k>> # <<c, connects[c] + 1>>
      BY <3>1
    <3>4. wpc'[<<c, k>>] = wpc[<<c, k>>]
      BY <2>1, <3>3 DEF TypeOK, ServerTypes
    <3> QED
      BY <2>1, <3>2, <3>4
  <2>4. \A k \in 1..MaxConnects : link'[<<c, k>>] = "open"
    BY <1>3, <2>1
  <2>5. connects'[c] > 0 => conn'[c] # 0
    BY <1>1, <2>2
  <2>6. conn'[c] <= connects'[c] /\ (conn'[c] > 0 => conn'[c] = connects'[c])
    BY <1>1, <2>2
  <2> QED
    BY <1>4, <2>3, <2>4, <2>5, <2>6 DEF SocketsOf
<1>6. CASE ~Connect(c)
  <2>1. connects' = connects /\ wpc' = wpc
    BY <1>6, OwnSockets
  <2>2. conn'[c] <= connects'[c] /\ (conn'[c] > 0 => conn'[c] = connects'[c]) /\ (connects'[c] > 0 => conn'[c] # 0)
    <3>1. CASE ConnectFails(c)
      <4>1. conn'[c] = -1
        BY <3>1 DEF ConnectFails, TypeOK, ClientTypes
      <4> QED
        BY <1>1, <2>1, <4>1
    <3>2. CASE ~ConnectFails(c)
      BY <1>1, <1>6, <2>1, <3>2, OwnSockets
    <3> QED
      BY <3>1, <3>2
  <2>3. ASSUME NEW k \in 1..MaxConnects, k > connects'[c]
        PROVE  wpc'[<<c, k>>] = "none" /\ toS'[<<c, k>>] = <<>> /\ toC'[<<c, k>>] = <<>>
    <3>1. k > connects[c] /\ k # conn[c]
      BY <1>1, <2>1, <2>3
    <3>2. wpc[<<c, k>>] = "none" /\ toS[<<c, k>>] = <<>> /\ toC[<<c, k>>] = <<>>
      BY <1>3, <3>1
    <3> QED
      BY <2>1, <3>1, <3>2, OwnSockets
  <2>4. ASSUME NEW k \in 1..MaxConnects
        PROVE  link'[<<c, k>>] = "open" \/ (cpc'[c] = "done" /\ k <= connects'[c])
    <3>1. CASE link' = link
      BY <1>3, <3>1
    <3>2. CASE Ends(c)
      <4>1. cpc'[c] = "done"
        BY <3>2 DEF Ends, CGoto, TypeOK, ClientTypes
      <4>2. <<c, k>> \in Conns /\ <<c, k>>[1] = c /\ <<c, k>>[2] = k
        BY DEF Conns
      <4>3. k > connects[c] => link'[<<c, k>>] = link[<<c, k>>]
        BY <3>2, <4>2 DEF Ends
      <4>4. k > connects[c] \/ k <= connects[c]
        BY <1>1
      <4> QED
        BY <1>3, <2>1, <4>1, <4>3, <4>4
    <3> QED
      BY <3>1, <3>2, OwnSockets
  <2> QED
    BY <1>4, <2>2, <2>3, <2>4 DEF SocketsOf
<1> QED
  BY <1>5, <1>6

\* There are no connections at the beginning.
LEMMA SocketsInit ==
  ASSUME Init PROVE Sockets
<1>1. \A c \in Clients : \A k \in 1..MaxConnects : <<c, k>> \in Conns
  BY DEF Conns
<1> QED
  <2>1. ASSUME NEW c \in Clients
        PROVE  conn[c] = 0 /\ connects[c] = 0 /\ cpc[c] = "prompt" /\ answer[c].id = ""
    BY DEF Init, Pkt
  <2>2. \A w \in Conns : link[w] = "open" /\ wpc[w] = "none" /\ toS[w] = <<>> /\ toC[w] = <<>>
    BY DEF Init
  <2> QED
    <3>1. ASSUME NEW c \in Clients
          PROVE  SocketsOf(c)
      <4>1. conn[c] = 0 /\ connects[c] = 0 /\ answer[c].id # "killed"
        BY <2>1
      <4>2. \A k \in 1..MaxConnects : link[<<c, k>>] = "open" /\ wpc[<<c, k>>] = "none" /\ toS[<<c, k>>] = <<>> /\ toC[<<c, k>>] = <<>>
        BY <1>1, <2>2
      <4> QED
        BY <4>1, <4>2 DEF SocketsOf
    <3> QED
      BY <3>1 DEF Sockets

\* Every step keeps what is said of the sockets.
LEMMA SocketsStep ==
  ASSUME TypeOK, Sockets, Next
  PROVE  Sockets'
<1>1. ASSUME NEW c \in Clients, ClientStep(c), NEW d \in Clients
      PROVE  SocketsOf(d)'
  <2>1. CASE d = c
    BY <1>1, <2>1, SocketsClient DEF Sockets
  <2>2. CASE d # c
    <3>1. SameClient(d) /\ \A k \in 1..MaxConnects : SameConn(<<d, k>>)
      BY <1>1, <2>2, ClientElsewhere
    <3> QED
      BY <3>1, SocketsFrame DEF Sockets
  <2> QED
    BY <2>1, <2>2
<1>2. ASSUME NEW w \in Conns, ThreadStep(w) \/ Sigpipe(w), NEW d \in Clients
      PROVE  SocketsOf(d)'
  <2>1. PICK c \in Clients, k \in 1..MaxConnects : w = <<c, k>>
    BY DEF Conns
  <2>2. CASE d = c
    BY <1>2, <2>1, <2>2, SocketsThread DEF Sockets
  <2>3. CASE d # c
    <3>1. \A l \in 1..MaxConnects : <<d, l>> \in Conns \ {w}
      BY <2>1, <2>3 DEF Conns
    <3>2. SameClient(d) /\ \A l \in 1..MaxConnects : SameConn(<<d, l>>)
      BY <1>2, <3>1, ThreadElsewhere
    <3> QED
      BY <3>2, SocketsFrame DEF Sockets
  <2> QED
    BY <2>2, <2>3
<1>3. ASSUME NEW d \in Clients
      PROVE  SocketsOf(d)'
  BY <1>1, <1>2, <1>3 DEF Next
<1> QED
  BY <1>3 DEF Sockets

-----------------------------------------------------------------------------
(* The thread's side of Talks.                                             *)

\* What is appended to the packets on their way.
LEMMA Appended ==
  ASSUME NEW S, NEW s \in Seq(S), NEW p \in S
  PROVE  /\ s \o <<p>> = Append(s, p) /\ Append(s, p) # <<>> /\ Append(s, p) \in Seq(S)
         /\ <<>> \o <<p>> = <<p>>
         /\ s # <<>> => Head(Append(s, p)) = Head(s) /\ Tail(Append(s, p)) = Append(Tail(s), p)
<1>1. s \o <<p>> = Append(s, p) /\ Append(s, p) # <<>> /\ Append(s, p) \in Seq(S)
  BY AppendIsConcat, AppendProperties
<1>2. <<>> \o <<p>> = <<p>>
  OBVIOUS
<1>3. ASSUME s # <<>>
      PROVE  Head(Append(s, p)) = Head(s) /\ Tail(Append(s, p)) = Append(Tail(s), p)
  <2>1. Len(s) \in Nat /\ Len(s) >= 1
    BY <1>3, EmptySeq, LenProperties
  <2>2. Len(Append(s, p)) = Len(s) + 1 /\ Append(s, p)[1] = s[1]
    BY <2>1, AppendProperties
  <2>3. Head(Append(s, p)) = Head(s)
    BY <1>1, <1>3, <2>2
  <2>4. Tail(s) \in Seq(S) /\ Len(Tail(s)) = Len(s) - 1 /\ \A i \in 1..Len(s) - 1 : Tail(s)[i] = s[i + 1]
    BY <1>3, HeadTailProperties
  <2>5. /\ Tail(Append(s, p)) \in Seq(S) /\ Len(Tail(Append(s, p))) = Len(s)
        /\ \A i \in 1..Len(s) : Tail(Append(s, p))[i] = Append(s, p)[i + 1]
    BY <1>1, <2>1, <2>2, HeadTailProperties
  <2>6. Append(Tail(s), p) \in Seq(S) /\ Len(Append(Tail(s), p)) = Len(s)
    BY <2>1, <2>4, AppendProperties
  <2>7. ASSUME NEW i \in 1..Len(s)
        PROVE  Tail(Append(s, p))[i] = Append(Tail(s), p)[i]
    <3>1. CASE i = Len(s)
      BY <2>1, <2>4, <2>5, <3>1, AppendProperties
    <3>2. CASE i # Len(s)
      <4>1. i \in 1..Len(s) - 1 /\ i + 1 \in 1..Len(s)
        BY <2>1, <3>2
      <4>2. Append(s, p)[i + 1] = s[i + 1]
        BY <4>1, AppendProperties
      <4>3. Append(Tail(s), p)[i] = Tail(s)[i]
        BY <2>4, <4>1, AppendProperties
      <4> QED
        BY <2>4, <2>5, <4>1, <4>2, <4>3
    <3> QED
      BY <3>1, <3>2
  <2>8. Tail(Append(s, p)) = Append(Tail(s), p)
    BY <2>5, <2>6, <2>7, SeqEqual
  <2> QED
    BY <2>3, <2>8
<1> QED
  BY <1>1, <1>2, <1>3

\* A thread that waits on an open socket for the next command does nothing.
LEMMA Idle ==
  ASSUME NEW w \in Conns, link[w] = "open", toS[w] = <<>>, wpc[w] \in {"recv", "put_recv", "put_null"}
  PROVE  ThreadStep(w) => FALSE
<1>1. CASE wpc[w] = "recv"
  BY <1>1, ThreadAt DEF ThreadRecv, ThreadEof, ThreadReset
<1>2. CASE wpc[w] = "put_recv"
  BY <1>2, ThreadAt DEF PutRecv
<1>3. CASE wpc[w] = "put_null"
  BY <1>3, ThreadAt DEF NullFile, WAt
<1> QED
  BY <1>1, <1>2, <1>3

\* Nothing breaks an upload off on the server's side in this step.
DiskOK(w) == ~(wpc[w] = "put_recv" /\ wpc'[w] = "recv" /\ wbuf'[w].type = "DATA")

\* The thread reads the end of an upload.
LEMMA PutReads ==
  ASSUME TypeOK, NEW w \in Conns, ThreadStep(w), up', DiskOK(w), wpc[w] \in {"put_recv", "put_null"}, toS[w] # <<>>
  PROVE  /\ link' = link /\ toC' = toC /\ toS'[w] = Tail(toS[w])
         /\ Head(toS[w]).type = "DATA" => wpc'[w] = "put_recv"
         /\ Head(toS[w]).type # "DATA" => wpc'[w] = "recv"
<1>1. PutRecv(w) /\ wpc[w] = "put_recv"
  BY ThreadAt DEF NullFile, Dies
<1>2. /\ wbuf' = [wbuf EXCEPT ![w] = Head(toS[w])] /\ toS' = [toS EXCEPT ![w] = Tail(@)] /\ link' = link
      /\ toC' = toC
  BY <1>1 DEF PutRecv
<1>3. wbuf'[w] = Head(toS[w]) /\ toS'[w] = Tail(toS[w])
  BY <1>2 DEF TypeOK, ServerTypes, NetTypes
<1>4. \/ wbuf'[w].type = "DATA" /\ wpc' = wpc
      \/ wbuf'[w].type = "DATA" /\ WGoto(w, "recv")
      \/ wbuf'[w].type # "DATA" /\ WGoto(w, "recv")
  BY <1>1 DEF PutRecv
<1>5. WGoto(w, "recv") => wpc'[w] = "recv"
  BY DEF WGoto, TypeOK, ServerTypes
<1> QED
  BY <1>1, <1>2, <1>3, <1>4, <1>5 DEF DiskOK

\* A thread that has the end of an upload, at most, before rest.
LEMMA BehindStep ==
  ASSUME TypeOK, NEW w \in Conns, ThreadStep(w), up', DiskOK(w),
         NEW rest \in Seq(Incoming), Behind(w, rest), link[w] \in {"open", "fin"}
  PROVE  /\ link'[w] = link[w]
         /\ \/ Behind(w, rest)'
            \/ rest = <<>> /\ link[w] = "fin" /\ wpc'[w] = "bye"
            \/ /\ rest # <<>> /\ toC'[w] = <<>> /\ toS'[w] = Tail(rest)
               /\ wbuf'[w] = Head(rest) /\ wpc'[w] = Dispatch(Head(rest))
<1>1. PutEot \in Incoming /\ PutData \in Incoming /\ PutEot.type = "EOT" /\ PutData.type = "DATA"
  BY ClientPackets DEF PutEot, PutData, Pkt
<1>2. /\ <<PutEot>> \o rest # <<>> /\ Head(<<PutEot>> \o rest) = PutEot /\ Tail(<<PutEot>> \o rest) = rest
      /\ <<PutData, PutEot>> \o rest # <<>> /\ Head(<<PutData, PutEot>> \o rest) = PutData
      /\ Tail(<<PutData, PutEot>> \o rest) = <<PutEot>> \o rest
  <2>1. PICK S, a, b : S = Incoming /\ a = PutEot /\ b = PutData
    OBVIOUS
  <2>2. a \in S /\ b \in S /\ rest \in Seq(S)
    BY <1>1, <2>1
  <2>3. <<a>> \o rest # <<>> /\ Head(<<a>> \o rest) = a /\ Tail(<<a>> \o rest) = rest
    BY <2>2, PrefixFacts
  <2>4. <<b, a>> \o rest # <<>> /\ Head(<<b, a>> \o rest) = b /\ Tail(<<b, a>> \o rest) = <<a>> \o rest
    BY <2>2, PrefixFacts
  <2> QED
    BY <2>1, <2>3, <2>4
<1>3. CASE wpc[w] \in {"put_recv", "put_null"}
  <2>1. /\ toC[w] = <<>> /\ toS[w] # <<>>
        /\ toS[w] = <<PutEot>> \o rest \/ toS[w] = <<PutData, PutEot>> \o rest
    BY <1>2, <1>3 DEF Behind
  <2>2. /\ link' = link /\ toC' = toC /\ toS'[w] = Tail(toS[w])
        /\ Head(toS[w]).type = "DATA" => wpc'[w] = "put_recv"
        /\ Head(toS[w]).type # "DATA" => wpc'[w] = "recv"
    BY <1>3, <2>1, PutReads
  <2>3. Behind(w, rest)'
    BY <1>1, <1>2, <2>1, <2>2 DEF Behind
  <2> QED
    BY <2>2, <2>3
<1>4. CASE wpc[w] = "recv"
  <2>1. toC[w] = <<>> /\ toS[w] = rest
    BY <1>4 DEF Behind
  <2>2. CASE ThreadRecv(w)
    <3>1. /\ rest # <<>> /\ wbuf' = [wbuf EXCEPT ![w] = Head(rest)] /\ toS' = [toS EXCEPT ![w] = Tail(rest)]
          /\ WGoto(w, Dispatch(Head(rest))) /\ toC' = toC /\ link' = link
      BY <2>1, <2>2 DEF ThreadRecv
    <3> QED
      BY <2>1, <3>1 DEF WGoto, TypeOK, ServerTypes, NetTypes
  <2>3. CASE ThreadEof(w)
    <3>1. rest = <<>> /\ link[w] = "fin" /\ WGoto(w, "bye") /\ link' = link
      BY <2>1, <2>3 DEF ThreadEof
    <3> QED
      BY <3>1 DEF WGoto, TypeOK, ServerTypes
  <2>4. ~ThreadReset(w)
    BY DEF ThreadReset
  <2> QED
    BY <1>4, <2>2, <2>3, <2>4, ThreadAt
<1> QED
  BY <1>3, <1>4 DEF Behind

\* A reply on an open connection: it is what the thread then holds.
LEMMA OpenReply ==
  ASSUME TypeOK, NEW w \in Conns, link[w] = "open", NEW type \in {"INF", "DATA", "EOT"}, NEW text \in Texts,
         Respond(w, type, text)
  PROVE  /\ wbuf'[w] = Pkt(type, wbuf[w].id, text) /\ wbuf'[w] \in Packets
         /\ wbuf'[w].id = wbuf[w].id /\ wbuf'[w].type = type /\ wbuf'[w].text = text
         /\ toC'[w] = Append(toC[w], wbuf'[w])
<1>1. PICK p : p = Pkt(type, wbuf[w].id, text)
  OBVIOUS
<1>2. p \in Packets
  BY <1>1, RespondType DEF TypeOK
<1>3. toC'[w] = toC[w] \o <<p>> /\ wbuf'[w] = p
  BY <1>1, OpenSends
<1>4. p.id = wbuf[w].id /\ p.type = type /\ p.text = text
  BY <1>1 DEF Pkt
<1>5. toC[w] \in Seq(Packets)
  BY DEF TypeOK, NetTypes
<1>6. toC'[w] = Append(toC[w], p)
  BY <1>2, <1>3, <1>5, Appended
<1> QED
  BY <1>1, <1>2, <1>3, <1>4, <1>6

\* Where a step leaves its thread.
LEMMA Goes ==
  ASSUME TypeOK, NEW w \in Conns, NEW q, WGoto(w, q)
  PROVE  wpc'[w] = q
BY DEF WGoto, TypeOK, ServerTypes

\* The short streams, one by one.
LEMMA ShortAppends ==
  ASSUME NEW d, NEW e
  PROVE  Append(<<>>, e) = <<e>> /\ Append(<<d>>, e) = <<d, e>>
<1> DEFINE S == {d, e}
<1>1. <<d>> \in Seq(S) /\ <<>> \in Seq(S) /\ <<e>> \in Seq(S) /\ <<d, e>> \in Seq(S) /\ d \in S /\ e \in S
  OBVIOUS
<1> HIDE DEF S
<1>2. Len(<<d>>) = 1 /\ Len(<<>>) = 0 /\ Len(<<e>>) = 1 /\ Len(<<d, e>>) = 2
  OBVIOUS
<1>3. Append(<<>>, e) \in Seq(S) /\ Len(Append(<<>>, e)) = 1 /\ Append(<<>>, e)[1] = e
  BY <1>1, <1>2, AppendProperties
<1>4. Append(<<d>>, e) \in Seq(S) /\ Len(Append(<<d>>, e)) = 2 /\ Append(<<d>>, e)[1] = d /\ Append(<<d>>, e)[2] = e
  <2>1. \A i \in 1..1 : Append(<<d>>, e)[i] = <<d>>[i]
    BY <1>1, <1>2, AppendProperties
  <2>2. Append(<<d>>, e)[1 + 1] = e
    BY <1>1, <1>2, AppendProperties
  <2>3. Append(<<d>>, e) \in Seq(S) /\ Len(Append(<<d>>, e)) = 1 + 1
    BY <1>1, <1>2, AppendProperties
  <2> QED
    BY <2>1, <2>2, <2>3
<1>5. Append(<<>>, e) = <<e>>
  <2>1. \A i \in 1..1 : Append(<<>>, e)[i] = <<e>>[i]
    BY <1>3
  <2> QED
    BY <1>1, <1>2, <1>3, <2>1, SeqEqual
<1>6. Append(<<d>>, e) = <<d, e>>
  <2>1. \A i \in 1..2 : Append(<<d>>, e)[i] = <<d, e>>[i]
    BY <1>4
  <2> QED
    BY <1>1, <1>2, <1>4, <2>1, SeqEqual
<1> QED
  BY <1>5, <1>6

\* The rest of GET, packet by packet.
LEMMA GetTailStep ==
  ASSUME TypeOK, NEW w \in Conns, ThreadStep(w), up', link[w] = "open", toS[w] = <<>>,
         NEW s, GetTail(w, s)
  PROVE  \E p \in Packets :
           /\ toC'[w] = Append(toC[w], p) /\ toS'[w] = <<>>
           /\ GetTail(w, Append(s, p))'
<1>1. wbuf[w].id = "GET"
  BY DEF GetTail
<1>2. "" \in Texts
  BY DEF Texts
<1>3. CASE wpc[w] = "null"
  BY <1>3, ThreadAt DEF NullFile, Dies
<1>4. CASE wpc[w] = "data"
  <2>1. GetData(w)
    BY <1>4, ThreadAt
  <2>2. Respond(w, "DATA", "") /\ WGoto(w, "eot") /\ toS' = toS
    BY <2>1 DEF GetData
  <2>0. wpc'[w] = "eot" /\ toS'[w] = toS[w]
    BY <2>2, Goes
  <2>3. PICK p \in Packets : /\ p = Pkt("DATA", wbuf[w].id, "") /\ p.id = wbuf[w].id
                             /\ wbuf'[w] = p /\ toC'[w] = Append(toC[w], p)
    BY <1>2, <2>2, OpenReply
  <2>4. s = <<>>
    BY <1>4 DEF GetTail
  <2>5. Append(s, p) = <<Pkt("DATA", "GET", "")>>
    BY <1>1, <2>3, <2>4, ShortAppends
  <2>6. GetTail(w, Append(s, p))'
    BY <1>1, <2>0, <2>3, <2>5 DEF GetTail
  <2> QED
    BY <2>0, <2>3, <2>6
<1>5. CASE wpc[w] = "eot"
  <2>1. GetEot(w)
    BY <1>5, ThreadAt
  <2>2. Respond(w, "EOT", "") /\ WGoto(w, "recv") /\ toS' = toS
    BY <2>1 DEF GetEot
  <2>0. wpc'[w] = "recv" /\ toS'[w] = toS[w]
    BY <2>2, Goes
  <2>3. PICK p \in Packets : /\ p = Pkt("EOT", wbuf[w].id, "") /\ p.id = wbuf[w].id
                             /\ wbuf'[w] = p /\ toC'[w] = Append(toC[w], p)
    BY <1>2, <2>2, OpenReply
  <2>4. s = <<>> \/ s = <<Pkt("DATA", "GET", "")>>
    BY <1>5 DEF GetTail
  <2>5. \A d, e : Append(<<d>>, e) = <<d, e>> /\ Append(<<>>, e) = <<e>>
    BY ShortAppends
  <2>6. Append(s, p) = <<Pkt("EOT", "GET", "")>> \/ Append(s, p) = <<Pkt("DATA", "GET", ""), Pkt("EOT", "GET", "")>>
    BY <1>1, <2>3, <2>4, <2>5
  <2>7. GetTail(w, Append(s, p))'
    BY <1>1, <2>0, <2>3, <2>6 DEF GetTail
  <2> QED
    BY <2>0, <2>3, <2>7
<1>6. CASE wpc[w] = "recv"
  BY <1>6, Idle
<1> QED
  BY <1>3, <1>4, <1>5, <1>6 DEF GetTail

\* The packets of LS.
LEMMA EnteringStep ==
  ASSUME TypeOK, NEW w \in Conns, ThreadStep(w), up', link[w] = "open", Entering(w)
  PROVE  Entering(w)'
<1>1. wpc[w] # "recv"
  BY Idle DEF Entering
<1>2. wpc[w] = "ls" /\ wbuf[w].id = "LS" /\ toS[w] = <<>>
  BY <1>1 DEF Entering
<1>3. LsEntry(w) \/ LsEnd(w)
  BY <1>2, ThreadAt
<1>4. PICK text \in Texts :
        \/ wpc' = wpc /\ Respond(w, "DATA", text)
        \/ WGoto(w, "recv") /\ Respond(w, "EOT", text)
  BY <1>3, LsSteps DEF TypeOK
<1>5. toS' = toS
  BY <1>3, LsSteps DEF TypeOK
<1>6. \E p \in Packets :
           /\ p.id = "LS" /\ wbuf'[w] = p /\ toC'[w] = Append(toC[w], p) /\ toS'[w] = <<>>
           /\ (p.type = "DATA" /\ wpc'[w] = "ls") \/ (p.type = "EOT" /\ wpc'[w] = "recv")
  <2>1. CASE wpc' = wpc /\ Respond(w, "DATA", text)
    <3>1. PICK p \in Packets : /\ p.id = wbuf[w].id /\ p.type = "DATA"
                               /\ wbuf'[w] = p /\ toC'[w] = Append(toC[w], p)
      BY <2>1, OpenReply
    <3> QED
      BY <1>2, <1>5, <2>1, <3>1
  <2>2. CASE WGoto(w, "recv") /\ Respond(w, "EOT", text)
    <3>1. PICK p \in Packets : /\ p.id = wbuf[w].id /\ p.type = "EOT"
                               /\ wbuf'[w] = p /\ toC'[w] = Append(toC[w], p)
      BY <2>2, OpenReply
    <3>2. wpc'[w] = "recv"
      BY <2>2, Goes
    <3> QED
      BY <1>2, <1>5, <3>1, <3>2
  <2> QED
    BY <1>4, <2>1, <2>2
<1>7. PICK p \in Packets :
           /\ p.id = "LS" /\ wbuf'[w] = p /\ toC'[w] = Append(toC[w], p) /\ toS'[w] = <<>>
           /\ (p.type = "DATA" /\ wpc'[w] = "ls") \/ (p.type = "EOT" /\ wpc'[w] = "recv")
  BY <1>6
<1>8. /\ toC[w] \in Seq(Packets) /\ Len(toC[w]) \in Nat
      /\ \A i \in 1..Len(toC[w]) : toC[w][i].id = "LS" /\ toC[w][i].type = "DATA"
  BY <1>2, LenProperties DEF Entering, TypeOK, NetTypes
<1>9. /\ Len(toC'[w]) = Len(toC[w]) + 1 /\ toC'[w] # <<>>
      /\ \A i \in 1..Len(toC[w]) : toC'[w][i] = toC[w][i]
      /\ toC'[w][Len(toC[w]) + 1] = p
  BY <1>7, <1>8, AppendProperties
<1>10. \A i \in 1..Len(toC'[w]) : i \in 1..Len(toC[w]) \/ i = Len(toC[w]) + 1
  BY <1>8, <1>9
<1>11. \A i \in 1..Len(toC'[w]) : toC'[w][i].id = "LS"
  BY <1>7, <1>8, <1>9, <1>10
<1>12. \A i \in 1..Len(toC'[w]) : toC'[w][i].type = IF i = Len(toC'[w]) THEN p.type ELSE "DATA"
  BY <1>8, <1>9, <1>10
<1> QED
  BY <1>7, <1>9, <1>11, <1>12 DEF Entering

\* execute_commands up to its first packet.
LEMMA WorkingStep ==
  ASSUME TypeOK, NEW c \in Clients, NEW w \in Conns, ThreadStep(w), up', link[w] = "open",
         Working(c, w), SameClient(c)
  PROVE  \/ Working(c, w)' /\ wpc[w] \in {"stat", "rm_stat", "stat_again"}
         \/ Replied(c, w)' /\ req[c].id # "LS"
         \/ Entering(w)' /\ req[c].id = "LS" /\ toC'[w] = <<>>
<1>1. /\ toS[w] = <<>> /\ toC[w] = <<>> /\ wpc[w] \in Work(req[c].id)
      /\ wbuf[w].id = req[c].id /\ wbuf[w] = Asked(c) /\ req'[c] = req[c]
  BY DEF Working, Asked, Pkt, SameClient
<1>2. wpc[w] \in WorkPlaces => wbuf[w].type = "REQU" /\ wbuf[w].id \in Commands /\ wpc[w] \in Work(wbuf[w].id)
  BY AtWork DEF TypeOK
<1>3. Asked(c)' = Asked(c)
  BY <1>1 DEF Asked
\* A step with the only reply of a command.
<1>4. ASSUME NEW type \in {"INF", "DATA", "EOT"}, NEW text \in Texts, NEW q, Respond(w, type, text), WGoto(w, q), toS' = toS,
             req[c].id \in {"GET", "PUT"} => type = "INF",
             req[c].id = "GET" => q \in {"null", "data", "eot"},
             req[c].id = "PUT" => q \in {"put_recv", "put_null"},
             req[c].id \notin {"GET", "PUT"} => q = "recv"
      PROVE  Replied(c, w)'
  <2>1. wpc'[w] = q
    BY <1>4, Goes
  <2>2. PICK p \in Packets : /\ p.id = wbuf[w].id /\ p.type = type
                             /\ wbuf'[w] = p /\ toC'[w] = Append(toC[w], p)
    BY <1>4, OpenReply
  <2>3. toC'[w] = <<p>>
    BY <1>1, <2>2, ShortAppends
  <2>4. <<p>> # <<>> /\ Head(<<p>>) = p /\ Tail(<<p>>) = <<>>
    OBVIOUS
  <2>5. toC'[w] # <<>> /\ Head(toC'[w]) = p /\ Tail(toC'[w]) = <<>> /\ toS'[w] = <<>>
    BY <1>1, <1>4, <2>3, <2>4
  <2>6. p.id = req'[c].id /\ wbuf'[w].id = req'[c].id
    BY <1>1, <2>2
  <2>7. CASE req[c].id = "GET"
    <3>1. GetTail(w, Tail(toC[w]))'
      BY <1>1, <1>4, <2>1, <2>5, <2>6, <2>7 DEF GetTail
    <3> QED
      BY <1>1, <1>4, <2>2, <2>5, <2>6, <2>7, <3>1 DEF Replied
  <2>8. CASE req[c].id = "PUT"
    BY <1>1, <1>4, <2>1, <2>2, <2>5, <2>6, <2>8 DEF Replied
  <2>9. CASE req[c].id \notin {"GET", "PUT"}
    BY <1>1, <1>4, <2>1, <2>5, <2>6, <2>9 DEF Replied
  <2> QED
    BY <2>7, <2>8, <2>9
<1>5. /\ {"", "garbage", "success", "fail", "failed", "error", "found", "created",
          "command success", "incorrect path"} \subseteq Texts
      /\ cwd \in Texts /\ tmp[w] \in Texts
  BY DEF Texts, TypeOK, ServerTypes
<1>6. req[c].id \in Commands
  <2>1. wbuf[w].type = "REQU" /\ Sound(wbuf[w])
    <3>1. wbuf[w] \in Held
      BY DEF TypeOK, ServerTypes
    <3>2. Asked(c).type = "REQU"
      BY DEF Asked, Pkt
    <3> QED
      BY <1>1, <3>1, <3>2 DEF Held
  <2> QED
    BY <1>1, <2>1, HeldCommand
<1>7. CASE req[c].id = "PWD"
  <2>1. Pwd(w) \/ PwdFails(w)
    BY <1>1, <1>7, ThreadAt DEF Work
  <2>2. (\E t \in Texts : Respond(w, "DATA", t)) /\ WGoto(w, "recv") /\ toS' = toS
    BY <2>1, PwdSteps DEF TypeOK
  <2> QED
    BY <1>4, <1>7, <2>2
<1>8. CASE req[c].id = "LS"
  <2>1. LsOpen(w) \/ LsAstray(w)
    <3>1. wpc[w] = "opendir"
      BY <1>1, <1>8 DEF Work
    <3> QED
      BY <3>1, ThreadAt DEF LsNull, Dies
  <2>2. WGoto(w, "ls") /\ UNCHANGED <<wbuf, toS, toC>>
    BY <2>1, OpenSteps DEF TypeOK
  <2>3. wpc'[w] = "ls" /\ wbuf'[w].id = "LS" /\ toS'[w] = <<>> /\ toC'[w] = <<>>
    BY <1>1, <1>8, <2>2, Goes
  <2>4. Len(toC'[w]) = 0
    BY <2>3
  <2>5. Entering(w)'
    BY <2>3, <2>4 DEF Entering
  <2> QED
    BY <1>8, <2>3, <2>5
<1>9. CASE req[c].id = "GET"
  <2>1. GetOpen(w) /\ tree[File(w)] \in {"none", "file", "dir"}
    <3>1. wpc[w] = "get"
      BY <1>1, <1>9 DEF Work
    <3>2. wpc[w] \in WorkPlaces
      BY <3>1 DEF WorkPlaces
    <3>3. tree[File(w)] \in {"none", "file", "dir"}
      BY <3>1, <3>2, AtWork DEF TypeOK
    <3> QED
      BY <3>1, <3>3, ThreadAt
  <2>2. /\ Respond(w, "INF", IF tree[File(w)] = "none" THEN "error" ELSE "found")
        /\ WGoto(w, CASE tree[File(w)] = "none" -> "null" [] tree[File(w)] = "file" -> "data"
                [] tree[File(w)] = "dir" -> "eot")
        /\ toS' = toS
    BY <2>1 DEF GetOpen
  <2>3. \E q \in {"null", "data", "eot"}, t \in {"error", "found"} : WGoto(w, q) /\ Respond(w, "INF", t)
    BY <2>1, <2>2
  <2> QED
    BY <1>4, <1>5, <1>9, <2>2, <2>3
<1>10. CASE req[c].id = "PUT"
  <2>1. PutOpen(w)
    BY <1>1, <1>10, ThreadAt DEF Work
  <2>2. toS' = toS /\ \E q \in {"put_null", "put_recv"}, t \in {"error", "created"} : WGoto(w, q) /\ Respond(w, "INF", t)
    BY <2>1 DEF PutOpen
  <2> QED
    BY <1>4, <1>5, <1>10, <2>2
\* A step that only looks at a name.
<1>11. ASSUME NEW q \in Work(req[c].id), WGoto(w, q), UNCHANGED <<wbuf, toS, toC>>
       PROVE  Working(c, w)'
  <2>1. wpc'[w] = q
    BY <1>11, Goes
  <2> QED
    BY <1>1, <1>3, <1>11, <2>1 DEF Working
<1>12. CASE req[c].id = "CD"
  <2>1. Cd(w)
    <3>1. wpc[w] = "cd"
      BY <1>1, <1>12 DEF Work
    <3> QED
      BY <3>1, ThreadAt DEF CdNull, Dies
  <2>2. /\ Respond(w, "INF", IF Target(Arg(w)) \in Dirs THEN "command success" ELSE "incorrect path")
        /\ WGoto(w, "recv") /\ toS' = toS
    BY <2>1 DEF Cd
  <2>3. \E t \in {"command success", "incorrect path"} : Respond(w, "INF", t)
    BY <2>2
  <2> QED
    BY <1>4, <1>5, <1>12, <2>2, <2>3
<1>13. CASE req[c].id = "RM"
  <2>1. wpc[w] \in {"rm_stat", "rm", "rm_failed"}
    BY <1>1, <1>13 DEF Work
  <2>2. CASE wpc[w] = "rm_stat"
    <3>1. RmStat(w)
      BY <2>2, ThreadAt
    <3>2. (\E q \in {"rm_failed", "rm"} : WGoto(w, q)) /\ UNCHANGED <<wbuf, toS, toC>>
      BY <3>1 DEF RmStat
    <3>3. {"rm_failed", "rm"} \subseteq Work(req[c].id)
      BY <1>13 DEF Work
    <3> QED
      BY <1>11, <2>2, <3>2, <3>3
  <2>3. CASE wpc[w] \in {"rm", "rm_failed"}
    <3>1. Rm(w) \/ RmRefused(w) \/ RmFailed(w)
      BY <2>3, ThreadAt
    <3>2. (\E t \in {"command success", "failed"} : Respond(w, "INF", t)) /\ WGoto(w, "recv") /\ toS' = toS
      BY <3>1 DEF Rm, RmRefused, RmSuccess, RmFailed
    <3> QED
      BY <1>4, <1>5, <1>13, <3>2
  <2> QED
    BY <2>1, <2>2, <2>3
<1>14. CASE req[c].id = "MKDIR"
  <2>1. wpc[w] \in {"stat", "mkdir", "stat_again", "exists", "fail"}
    BY <1>1, <1>14 DEF Work
  <2>2. CASE wpc[w] \in {"stat", "stat_again"}
    <3>1. MkdirStat(w) \/ MkdirExists(w) \/ MkdirFails(w)
      BY <2>2, ThreadAt
    <3>2. (\E q \in {"mkdir", "stat_again", "exists", "fail"} : WGoto(w, q)) /\ UNCHANGED <<wbuf, toS, toC>>
      BY <3>1 DEF MkdirStat, MkdirExists, MkdirFails
    <3>3. {"mkdir", "stat_again", "exists", "fail"} \subseteq Work(req[c].id)
      BY <1>14 DEF Work
    <3> QED
      BY <1>11, <2>2, <3>2, <3>3
  <2>3. CASE wpc[w] \in {"mkdir", "exists", "fail"}
    <3>1. Mkdir(w) \/ MkdirRefused(w) \/ MkdirReplyExists(w) \/ MkdirReplyFail(w)
      BY <2>3, ThreadAt
    <3>2. (\E t \in {"success", tmp[w], "garbage", "fail"} : Respond(w, "INF", t)) /\ WGoto(w, "recv") /\ toS' = toS
      BY <3>1 DEF Mkdir, MkdirRefused, MkdirSuccess, MkdirReplyExists, MkdirReplyFail
    <3>3. {"success", tmp[w], "garbage", "fail"} \subseteq Texts
      BY <1>5
    <3> QED
      BY <1>4, <1>14, <3>2, <3>3
  <2> QED
    BY <2>1, <2>2, <2>3
<1> QED
  BY <1>6, <1>7, <1>8, <1>9, <1>10, <1>12, <1>13, <1>14 DEF Commands

\* What stands at the end of a short sequence is one of its elements.
LEMMA AtTheEnd ==
  ASSUME NEW S, NEW a, NEW b, NEW p,
         <<p>> \in Seq(S) \/ <<a>> \o <<p>> \in Seq(S) \/ <<a, b>> \o <<p>> \in Seq(S)
  PROVE  p \in S
<1> DEFINE R == {a, b, p}
<1>1. a \in R /\ b \in R /\ <<p>> \in Seq(R)
  OBVIOUS
<1> HIDE DEF R
<1>0. PICK t : t = <<p>>
  OBVIOUS
<1>2. /\ <<a>> \o t # <<>> /\ Tail(<<a>> \o t) = t
      /\ <<a, b>> \o t # <<>> /\ Tail(<<a, b>> \o t) = <<b>> \o t
      /\ <<b>> \o t # <<>> /\ Tail(<<b>> \o t) = t
  <2>1. t \in Seq(R)
    BY <1>0, <1>1
  <2>2. <<a>> \o t # <<>> /\ Tail(<<a>> \o t) = t
    BY <1>1, <2>1, PrefixFacts
  <2>3. <<a, b>> \o t # <<>> /\ Tail(<<a, b>> \o t) = <<b>> \o t
    BY <1>1, <2>1, PrefixFacts
  <2>4. <<b>> \o t # <<>> /\ Tail(<<b>> \o t) = t
    BY <1>1, <2>1, PrefixFacts
  <2> QED
    BY <2>2, <2>3, <2>4
<1>3. \A s \in Seq(S) : s # <<>> => Tail(s) \in Seq(S)
  BY HeadTailProperties
<1>4. <<p>> \in Seq(S)
  BY <1>0, <1>2, <1>3
<1> QED
  BY <1>4

\* A connection whose client has ended comes to its end without a send to a reset socket.
LEMMA OverStep ==
  ASSUME TypeOK, NEW w \in Conns, ThreadStep(w), up', DiskOK(w), Over(w)
  PROVE  Over(w)'
<1>1. wpc[w] # "ended"
  BY ThreadAt
<1>2. link[w] = "fin"
  BY <1>1 DEF Over
<1>3. <<>> \in Seq(Incoming) /\ <<Term>> \in Seq(Incoming) /\ <<Term>> # <<>> /\ Head(<<Term>>) = Term
  BY ClientPackets
<1>4. CASE Behind(w, <<>>)
  BY <1>2, <1>3, <1>4, BehindStep DEF Over
<1>5. CASE Behind(w, <<Term>>)
  <2>1. Dispatch(Term) = "bye"
    BY DEF Dispatch, Term, Pkt
  <2>2. /\ link'[w] = link[w]
        /\ \/ Behind(w, <<Term>>)'
           \/ <<Term>> = <<>> /\ link[w] = "fin" /\ wpc'[w] = "bye"
           \/ /\ <<Term>> # <<>> /\ toC'[w] = <<>> /\ toS'[w] = Tail(<<Term>>)
              /\ wbuf'[w] = Head(<<Term>>) /\ wpc'[w] = Dispatch(Head(<<Term>>))
    <3>1. link[w] \in {"open", "fin"} /\ <<Term>> \in Seq(Incoming) /\ Behind(w, <<Term>>)
      BY <1>2, <1>3, <1>5
    <3> QED
      BY <3>1, BehindStep
  <2>3. link'[w] = "fin" /\ (Behind(w, <<Term>>)' \/ wpc'[w] = Dispatch(Term))
    BY <1>2, <1>3, <2>2
  <2> QED
    BY <2>1, <2>3 DEF Over
<1>6. CASE wpc[w] = "bye"
  <2>1. WGoto(w, "ended")
    BY <1>6, ThreadAt DEF Terminate
  <2> QED
    BY <2>1, Goes DEF Over
<1> QED
  BY <1>1, <1>4, <1>5, <1>6 DEF Over

\* A thread's step keeps what is said of its own connection.
LEMMA ThreadTalk ==
  ASSUME TypeOK, NEW c \in Clients, NEW k \in 1..MaxConnects, SocketsOf(c), Alone(c), Talk(c, k),
         ThreadStep(<<c, k>>), up', DiskOK(<<c, k>>)
  PROVE  Talk(c, k)'
<1> DEFINE w == <<c, k>>
<1>1. w \in Conns
  BY DEF Conns
<1> HIDE DEF w
<1>2. SameClient(c) /\ ThreadStep(w) /\ DiskOK(w)
  BY <1>1, ThreadElsewhere DEF w
<1>3. /\ cpc'[c] = cpc[c] /\ req'[c] = req[c] /\ conn'[c] = conn[c]
      /\ (Killed(c)' <=> Killed(c)) /\ Asked(c)' = Asked(c)
  BY <1>2 DEF SameClient, Killed, Asked
<1>4. CASE cpc[c] = "done"
  <2>1. ~Killed(c) => Over(w)
    BY <1>4 DEF Talk, w
  <2>2. ~Killed(c) => Over(w)'
    BY <1>1, <1>2, <2>1, OverStep
  <2> QED
    BY <1>3, <1>4, <2>2 DEF Talk, w
<1>5. ASSUME cpc[c] # "done", k # conn[c]
      PROVE  Talk(c, k)'
  <2>1. link[w] = "open"
    BY <1>5 DEF SocketsOf, w
  <2>2. cpc[c] # "lost" => Behind(w, <<>>)
    BY <1>5 DEF Talk, w
  <2>3. cpc[c] # "lost" => Behind(w, <<>>)'
    <3>1. <<>> \in Seq(Incoming)
      OBVIOUS
    <3> QED
      BY <1>1, <1>2, <2>1, <2>2, <3>1, BehindStep
  <2> QED
    BY <1>3, <1>5, <2>3 DEF Talk, w
<1>6. ASSUME cpc[c] # "done", k = conn[c]
      PROVE  Talk(c, k)'
  <2>1. link[w] = "open" /\ Current(c, w)
    BY <1>6 DEF SocketsOf, Talk, w
  <2>2. cpc[c] = "prompt" => Behind(w, <<>>)'
    <3>1. <<>> \in Seq(Incoming)
      OBVIOUS
    <3> QED
      BY <1>1, <1>2, <2>1, <3>1, BehindStep DEF Current
  <2>3. ASSUME cpc[c] = "greet"
        PROVE  toS'[w] = <<>> /\ wpc'[w] = "recv" /\ toC'[w] = <<Pkt("INF", "CONNECT", "welcome")>>
    <3>1. toS[w] = <<>> /\ wpc[w] \in {"connecting", "recv"} /\ (wpc[w] = "connecting" => toC[w] = <<>>)
      BY <2>1, <2>3 DEF Current
    <3>2. wpc[w] = "connecting"
      BY <1>1, <1>2, <2>1, <3>1, Idle
    <3>3. Accept(w)
      BY <1>1, <1>2, <3>2, ThreadAt
    <3>4. SendC(w, <<Pkt("INF", "CONNECT", "welcome")>>) /\ WGoto(w, "recv") /\ toS' = toS
      BY <3>3 DEF Accept
    <3>5. toC'[w] = toC[w] \o <<Pkt("INF", "CONNECT", "welcome")>>
      BY <1>1, <2>1, <3>4, OpenSends
    <3>6. \A p : <<>> \o <<p>> = <<p>>
      OBVIOUS
    <3> QED
      BY <1>1, <3>1, <3>2, <3>4, <3>5, <3>6, Goes
  <2>4. ASSUME Awaited(c, w), req[c].id \in Commands
        PROVE  Awaited(c, w)' \/ (Replied(c, w)' /\ req[c].id # "LS") \/ (Entering(w)' /\ req[c].id = "LS")
    <3>1. CASE Behind(w, <<Asked(c)>>)
      <4>1. PICK p : p = Asked(c)
        OBVIOUS
      <4>2. p \in Incoming
        <5>1. toS[w] = <<p>> \/ toS[w] = <<PutEot>> \o <<p>> \/ toS[w] = <<PutData, PutEot>> \o <<p>>
          BY <3>1, <4>1 DEF Behind
        <5>2. toS[w] \in Seq(Incoming)
          BY <1>1 DEF TypeOK, NetTypes
        <5> QED
          BY <5>1, <5>2, AtTheEnd
      <4>3. <<p>> \in Seq(Incoming) /\ <<p>> # <<>> /\ Head(<<p>>) = p /\ Tail(<<p>>) = <<>>
        BY <4>2
      <4>4. /\ link'[w] = link[w]
            /\ \/ Behind(w, <<p>>)'
               \/ toC'[w] = <<>> /\ toS'[w] = <<>> /\ wbuf'[w] = p /\ wpc'[w] = Dispatch(p)
        BY <1>1, <1>2, <2>1, <3>1, <4>1, <4>3, BehindStep
      <4>5. Dispatch(p) \in Work(req[c].id)
        <5>1. p.type = "REQU" /\ p.id = req[c].id /\ Sound(p)
          BY <4>1, <4>2 DEF Asked, Pkt, Incoming
        <5> QED
          BY <5>1, HeldCommand
      <4>6. p = Asked(c)'
        BY <1>3, <4>1
      <4>7. CASE Behind(w, <<p>>)'
        BY <4>6, <4>7 DEF Awaited
      <4>8. CASE toC'[w] = <<>> /\ toS'[w] = <<>> /\ wbuf'[w] = p /\ wpc'[w] = Dispatch(p)
        <5>1. Working(c, w)'
          BY <1>3, <4>5, <4>6, <4>8 DEF Working
        <5> QED
          BY <5>1 DEF Awaited
      <4> QED
        BY <4>4, <4>7, <4>8
    <3>2. CASE Working(c, w)
      BY <1>1, <1>2, <2>1, <3>2, WorkingStep DEF Awaited
    <3> QED
      BY <2>4, <3>1, <3>2 DEF Awaited
  <2>5. ASSUME Replied(c, w), req[c].id \in Commands
        PROVE  Replied(c, w)'
    <3>1. toS[w] = <<>> /\ toC[w] # <<>> /\ Head(toC[w]).id = req[c].id
      BY <2>5 DEF Replied
    <3>2. wpc[w] \notin {"recv", "put_recv", "put_null"}
      BY <1>1, <1>2, <2>1, <3>1, Idle
    <3>3. req[c].id = "GET"
      BY <2>5, <3>2 DEF Replied
    <3>4. Head(toC[w]).type = "INF" /\ GetTail(w, Tail(toC[w]))
      BY <2>5, <3>3 DEF Replied
    <3>5. PICK s : s = Tail(toC[w])
      OBVIOUS
    <3>6. PICK p \in Packets : toC'[w] = Append(toC[w], p) /\ toS'[w] = <<>> /\ GetTail(w, Append(s, p))'
      BY <1>1, <1>2, <2>1, <3>1, <3>4, <3>5, GetTailStep
    <3>7. toC[w] \in Seq(Packets)
      BY <1>1 DEF TypeOK, NetTypes
    <3>8. toC'[w] # <<>> /\ Head(toC'[w]) = Head(toC[w]) /\ Tail(toC'[w]) = Append(s, p)
      BY <3>1, <3>5, <3>6, <3>7, Appended
    <3>9. GetTail(w, Tail(toC[w]))'
      BY <3>6, <3>8
    <3> QED
      BY <1>3, <3>1, <3>3, <3>4, <3>6, <3>8, <3>9 DEF Replied
  <2>6. ASSUME cpc[c] = "reply"
        PROVE  /\ req[c].id \in {"PWD", "GET", "PUT", "MKDIR", "CD", "RM"}
               /\ Awaited(c, w)' \/ Replied(c, w)'
    <3>1. req[c].id \in {"PWD", "GET", "PUT", "MKDIR", "CD", "RM"} /\ (Awaited(c, w) \/ Replied(c, w))
      BY <2>1, <2>6 DEF Current
    <3> QED
      BY <2>4, <2>5, <3>1 DEF Commands
  <2>7. ASSUME cpc[c] = "get"
        PROVE  req[c].id = "GET" /\ toS'[w] = <<>> /\ GetTail(w, toC[w])'
    <3>1. req[c].id = "GET" /\ toS[w] = <<>> /\ GetTail(w, toC[w])
      BY <2>1, <2>7 DEF Current
    <3>2. PICK s : s = toC[w]
      OBVIOUS
    <3>3. PICK p \in Packets : toC'[w] = Append(s, p) /\ toS'[w] = <<>> /\ GetTail(w, Append(s, p))'
      BY <1>1, <1>2, <2>1, <3>1, <3>2, GetTailStep
    <3>4. GetTail(w, toC[w])'
      BY <3>3
    <3> QED
      BY <3>1, <3>3, <3>4
  <2>8. ASSUME cpc[c] \in {"put", "put_eot"}
        PROVE  req[c].id = "PUT" /\ toC'[w] = <<>> /\ wpc'[w] \in {"put_recv", "put_null"} /\ toS'[w] = <<>>
    <3>1. /\ req[c].id = "PUT" /\ toC[w] = <<>> /\ wpc[w] \in {"put_recv", "put_null"}
          /\ toS[w] = <<>> \/ toS[w] = <<PutData>>
      BY <2>1, <2>8 DEF Current
    <3>2. toS[w] = <<PutData>>
      BY <1>1, <1>2, <2>1, <3>1, Idle
    <3>3. PICK d : d = PutData
      OBVIOUS
    <3>4. <<d>> # <<>> /\ Head(<<d>>) = d /\ Tail(<<d>>) = <<>>
      OBVIOUS
    <3>5. PutData.type = "DATA"
      BY DEF PutData, Pkt
    <3>6. toS[w] # <<>> /\ Head(toS[w]).type = "DATA" /\ Tail(toS[w]) = <<>>
      BY <3>2, <3>3, <3>4, <3>5
    <3> QED
      BY <1>1, <1>2, <3>1, <3>6, PutReads
  <2>9. ASSUME cpc[c] = "ls"
        PROVE  req[c].id = "LS" /\ (Awaited(c, w)' \/ Entering(w)')
    <3>1. req[c].id = "LS" /\ (Awaited(c, w) \/ Entering(w))
      BY <2>1, <2>9 DEF Current
    <3> QED
      BY <1>1, <1>2, <2>1, <2>4, <3>1, EnteringStep DEF Commands
  <2>10. Current(c, w)'
    <3>1. cpc'[c] = "prompt" => Behind(w, <<>>)'
      BY <1>3, <2>2
    <3>2. cpc'[c] = "greet" =>
            req'[c].id = "CONNECT" /\ toS'[w] = <<>> /\ wpc'[w] = "recv" /\ toC'[w] = <<Pkt("INF", "CONNECT", "welcome")>>
      BY <1>3, <2>1, <2>3 DEF Current
    <3>3. cpc'[c] = "reply" =>
            /\ req'[c].id \in {"PWD", "GET", "PUT", "MKDIR", "CD", "RM"}
            /\ Awaited(c, w)' \/ Replied(c, w)'
      BY <1>3, <2>6
    <3>4. cpc'[c] = "get" => req'[c].id = "GET" /\ toS'[w] = <<>> /\ GetTail(w, toC[w])'
      BY <1>3, <2>7
    <3>5. cpc'[c] \in {"put", "put_eot"} =>
            req'[c].id = "PUT" /\ toC'[w] = <<>> /\ wpc'[w] \in {"put_recv", "put_null"} /\ toS'[w] = <<>>
      BY <1>3, <2>8
    <3>6. cpc'[c] = "ls" => req'[c].id = "LS" /\ (Awaited(c, w)' \/ Entering(w)')
      BY <1>3, <2>9
    <3> QED
      BY <3>1, <3>2, <3>3, <3>4, <3>5, <3>6 DEF Current
  <2> QED
    BY <1>3, <1>6, <2>10 DEF Talk, w
<1> QED
  BY <1>4, <1>5, <1>6

\* What is said of a client and its connections depends on them alone.
LEMMA TalkFrame ==
  ASSUME NEW c \in Clients, SameClient(c)
  PROVE  /\ Alone(c) => Alone(c)'
         /\ \A k \in 1..MaxConnects : SameConn(<<c, k>>) /\ Talk(c, k) => Talk(c, k)'
<1>1. /\ cpc'[c] = cpc[c] /\ req'[c] = req[c] /\ cbuf'[c] = cbuf[c] /\ conn'[c] = conn[c] /\ answer'[c] = answer[c]
      /\ Asked(c)' = Asked(c)
  BY DEF SameClient, Asked
<1>2. ASSUME NEW k \in 1..MaxConnects, SameConn(<<c, k>>), Talk(c, k)
      PROVE  Talk(c, k)'
  <2>1. PICK w : w = <<c, k>>
    OBVIOUS
  <2>2. wpc'[w] = wpc[w] /\ wbuf'[w] = wbuf[w] /\ link'[w] = link[w] /\ toS'[w] = toS[w] /\ toC'[w] = toC[w]
    BY <1>2, <2>1 DEF SameConn
  <2>3. \A rest : Behind(w, rest)' <=> Behind(w, rest)
    BY <2>2 DEF Behind
  <2>4. \A s : GetTail(w, s)' <=> GetTail(w, s)
    BY <2>2 DEF GetTail
  <2>5. Awaited(c, w)' <=> Awaited(c, w)
    BY <1>1, <2>2, <2>3 DEF Awaited, Working
  <2>6. Replied(c, w)' <=> Replied(c, w)
    <3>1. GetTail(w, Tail(toC[w]))' <=> GetTail(w, Tail(toC[w]))
      BY <2>2, <2>4 DEF GetTail
    <3> QED
      BY <1>1, <2>2, <3>1 DEF Replied
  <2>7. Entering(w)' <=> Entering(w)
    BY <2>2 DEF Entering
  <2>8. GetTail(w, toC[w])' <=> GetTail(w, toC[w])
    BY <2>2 DEF GetTail
  <2>9. Current(c, w)' <=> Current(c, w)
    BY <1>1, <2>2, <2>3, <2>5, <2>6, <2>7, <2>8 DEF Current
  <2>10. Over(w)' <=> Over(w)
    BY <2>2, <2>3 DEF Over
  <2>11. Behind(w, <<>>)' <=> Behind(w, <<>>)
    BY <2>3
  <2> QED
    BY <1>1, <1>2, <2>1, <2>9, <2>10, <2>11 DEF Talk, Killed
<1> QED
  BY <1>1, <1>2 DEF Alone

\* A connection on which nothing moves, and one on which a packet is sent.
LEMMA BehindKept ==
  ASSUME NEW w, NEW rest, Behind(w, rest), toC'[w] = toC[w], toS'[w] = toS[w], wpc'[w] = wpc[w]
  PROVE  Behind(w, rest)'
BY DEF Behind

\* A packet sent on a quiet connection is behind the end of an upload, at most.
LEMMA BehindSends ==
  ASSUME TypeOK, NEW w \in Conns, NEW p \in Incoming, Behind(w, <<>>),
         toC'[w] = <<>>, toS'[w] = Append(toS[w], p), wpc'[w] = wpc[w]
  PROVE  Behind(w, <<p>>)'
<1>1. PutEot \in Incoming /\ PutData \in Incoming
  BY ClientPackets
<1>2. PICK S, t, s, u : S = Incoming /\ t = <<PutEot>> /\ s = <<PutData, PutEot>> /\ u = <<>>
  OBVIOUS
<1>3. Append(t \o u, p) = t \o Append(u, p) /\ Append(s \o u, p) = s \o Append(u, p)
  <2>1. t \in Seq(S) /\ s \in Seq(S) /\ u \in Seq(S) /\ p \in S
    BY <1>1, <1>2
  <2>2. \A x \in Seq(S) : \A y \in Seq(S) : Append(x \o y, p) = x \o Append(y, p)
    BY <2>1, PrefixAppend
  <2> QED
    BY <2>1, <2>2
<1>4. Append(u, p) = <<p>>
  BY <1>2, ShortAppends
<1>5. CASE wpc[w] = "recv"
  <2>1. toS'[w] = <<p>>
    BY <1>2, <1>4, <1>5 DEF Behind
  <2> QED
    BY <1>5, <2>1 DEF Behind
<1>6. CASE wpc[w] # "recv"
  <2>1. wpc[w] \in {"put_recv", "put_null"} /\ (toS[w] = t \o u \/ toS[w] = s \o u)
    BY <1>2, <1>6 DEF Behind
  <2>2. toS'[w] = t \o <<p>> \/ toS'[w] = s \o <<p>>
    BY <1>3, <1>4, <2>1
  <2> QED
    BY <1>2, <2>1, <2>2 DEF Behind
<1> QED
  BY <1>5, <1>6

\* send and recv of a client whose server runs.
LEMMA Sends ==
  ASSUME TypeOK, NEW c \in Clients, NEW p, SendS(c, p), up
  PROVE  /\ HasConn(c) => toS'[Conn(c)] = Append(toS[Conn(c)], p)
         /\ ~HasConn(c) => toS' = toS
<1>1. CASE HasConn(c)
  <2>1. Conn(c) \in Conns
    BY <1>1, ConnInUse DEF TypeOK
  <2> QED
    BY <1>1, <2>1 DEF SendS, TypeOK, NetTypes
<1> QED
  BY <1>1 DEF SendS

\* The client takes the first packet on its way; without a connection it keeps the old one.
LEMMA Takes ==
  ASSUME TypeOK, NEW c \in Clients, Recv(c), up
  PROVE  /\ HasConn(c) => /\ toC[Conn(c)] # <<>> /\ cbuf'[c] = Head(toC[Conn(c)])
                          /\ toC'[Conn(c)] = Tail(toC[Conn(c)])
         /\ ~HasConn(c) => cbuf' = cbuf /\ toC' = toC
<1>1. CASE HasConn(c)
  <2>1. Conn(c) \in Conns
    BY <1>1, ConnInUse DEF TypeOK
  <2> QED
    BY <1>1, <2>1 DEF Recv, TypeOK, NetTypes, ClientTypes
<1> QED
  BY <1>1 DEF Recv

\* What a client leaves alone.
LEMMA ClientLeaves ==
  ASSUME NEW c \in Clients, ClientStep(c)
  PROVE  UNCHANGED <<up, cwd, tree, wbuf, tmp, list>>
BY DEF ClientStep, ClientWork, Connect, ConnectFails, ConnectExits, Refused, Request, NotSent, Exit, ClientSigpipe,
     ListingSplit, Kill, Greeting, Reply, Download, UploadData, UploadEot, Listing, ListingEnds, workerVars

\* At the prompt, all connections of a client are quiet.
LEMMA Prompted ==
  ASSUME TypeOK, NEW c \in Clients, cpc[c] = "prompt", NEW k \in 1..connects[c], Talk(c, k)
  PROVE  Behind(<<c, k>>, <<>>)
BY DEF Talk, Current

\* CONNECT leaves the old connection as it is, and the new one without a packet.
LEMMA ConnectTalk ==
  ASSUME TypeOK, NEW c \in Clients, SocketsOf(c), Connect(c) \/ ConnectFails(c),
         \A k \in 1..connects[c] : Talk(c, k)
  PROVE  Alone(c)' /\ \A k \in 1..connects'[c] : Talk(c, k)'
<1>1. cpc[c] = "prompt"
  BY DEF Connect, ConnectFails, Gives, At
<1>2. connects[c] \in 0..MaxConnects /\ MaxConnects \in Nat
  BY SessionAssumption DEF TypeOK, ClientTypes
<1>3. \A k \in 1..connects[c] : Behind(<<c, k>>, <<>>)
  BY <1>1, Prompted
<1>4. CASE Connect(c)
  <2>1. /\ connects'[c] = connects[c] + 1 /\ conn'[c] = connects[c] + 1 /\ connects[c] < MaxConnects
        /\ req'[c].id = "CONNECT" /\ cpc'[c] = "greet" /\ toS' = toS /\ toC' = toC
        /\ wpc' = [wpc EXCEPT ![<<c, connects[c] + 1>>] = "connecting"]
    BY <1>4 DEF Connect, CGoto, TypeOK, ClientTypes
  <2>2. ASSUME NEW k \in 1..connects[c]
        PROVE  Talk(c, k)'
    <3>1. PICK w : w = <<c, k>>
      OBVIOUS
    <3>2. w \in Conns /\ w # <<c, connects[c] + 1>>
      BY <1>2, <3>1 DEF Conns
    <3>3. wpc'[w] = wpc[w]
      BY <2>1, <3>2 DEF TypeOK, ServerTypes
    <3>4. Behind(w, <<>>)'
      BY <1>3, <2>1, <3>1, <3>3, BehindKept
    <3>5. k # conn'[c]
      BY <1>2, <2>1
    <3> QED
      BY <2>1, <3>1, <3>4, <3>5 DEF Talk
  <2>3. ASSUME NEW k \in 1..MaxConnects, k = connects[c] + 1
        PROVE  Talk(c, k)'
    <3>1. k > connects[c] /\ k = conn'[c]
      BY <1>2, <2>1, <2>3
    <3>2. PICK w : w = <<c, k>>
      OBVIOUS
    <3>3. w \in Conns
      BY <3>2 DEF Conns
    <3>4. toS[w] = <<>> /\ toC[w] = <<>> /\ wpc'[w] = "connecting"
      BY <2>1, <2>3, <3>1, <3>2, <3>3 DEF SocketsOf, TypeOK, ServerTypes
    <3>5. Current(c, w)'
      BY <2>1, <3>4 DEF Current
    <3> QED
      BY <2>1, <3>1, <3>2, <3>5 DEF Talk
  <2>4. Alone(c)'
    BY <1>2, <2>1 DEF Alone
  <2>5. \A k \in 1..connects'[c] : k \in 1..connects[c] \/ (k \in 1..MaxConnects /\ k = connects[c] + 1)
    BY <1>2, <2>1
  <2> QED
    BY <2>2, <2>3, <2>4, <2>5
<1>5. CASE ConnectFails(c)
  <2>1. /\ connects' = connects /\ conn'[c] = -1 /\ cpc'[c] = "prompt" /\ toS' = toS /\ toC' = toC /\ wpc' = wpc
    BY <1>5 DEF ConnectFails, Answer, CGoto, TypeOK, ClientTypes, workerVars
  <2>2. ASSUME NEW k \in 1..connects[c]
        PROVE  Talk(c, k)'
    <3>1. PICK w : w = <<c, k>>
      OBVIOUS
    <3>4. Behind(w, <<>>)'
      BY <1>3, <2>1, <3>1, BehindKept
    <3>5. k # conn'[c]
      BY <1>2, <2>1
    <3> QED
      BY <2>1, <3>1, <3>4, <3>5 DEF Talk
  <2> QED
    BY <2>1, <2>2 DEF Alone
<1> QED
  BY <1>4, <1>5

\* The end of a client: its own, or a kill.
LEMMA EndTalk ==
  ASSUME TypeOK, NEW c \in Clients, SocketsOf(c), Exit(c) \/ Kill(c), up,
         \A k \in 1..connects[c] : Talk(c, k)
  PROVE  Alone(c)' /\ \A k \in 1..connects'[c] : Talk(c, k)'
<1>1. cpc'[c] = "done" /\ connects' = connects /\ Ends(c) /\ conn' = conn
  BY DEF Exit, Kill, Ends, CGoto, TypeOK, ClientTypes
<1>2. Alone(c)'
  BY <1>1 DEF Alone
<1>3. connects[c] \in 0..MaxConnects /\ MaxConnects \in Nat
  BY SessionAssumption DEF TypeOK, ClientTypes
<1>4. CASE Kill(c)
  <2>1. Killed(c)'
    BY <1>4 DEF Kill, Killed, Pkt, TypeOK, ClientTypes
  <2> QED
    BY <1>1, <1>2, <2>1 DEF Talk
<1>5. CASE Exit(c)
  <2>1. cpc[c] = "prompt" /\ wpc' = wpc /\ (SendS(c, Term) \/ toS' = toS)
    BY <1>5 DEF Exit, Gives, At, workerVars, Term
  <2>2. ASSUME NEW k \in 1..connects[c]
        PROVE  Over(<<c, k>>)'
    <3>1. PICK w : w = <<c, k>>
      OBVIOUS
    <3>2. w \in Conns /\ k \in 1..MaxConnects /\ w[1] = c /\ w[2] = k /\ ~(k > connects[c])
      BY <1>3, <3>1 DEF Conns
    <3>3. Behind(w, <<>>) /\ toC[w] = <<>>
      BY <2>1, <3>1, Prompted DEF Behind
    <3>4. link'[w] = "fin" /\ toC'[w] = <<>>
      BY <1>1, <3>2, <3>3 DEF Ends
    <3>5. CASE toS'[w] = toS[w]
      BY <2>1, <3>1, <3>3, <3>4, <3>5, BehindKept DEF Over
    <3>6. CASE toS'[w] # toS[w]
      <4>1. SendS(c, Term) /\ HasConn(c) /\ w = Conn(c)
        <5>1. SendS(c, Term)
          BY <2>1, <3>6
        <5> QED
          BY <3>2, <3>6, <5>1 DEF SendS, TypeOK, NetTypes
      <4>2. toS'[w] = Append(toS[w], Term) /\ Term \in Incoming
        BY <4>1, Sends, ClientPackets
      <4>3. Behind(w, <<Term>>)'
        BY <2>1, <3>2, <3>3, <3>4, <4>2, BehindSends
      <4> QED
        BY <3>1, <3>4, <4>3 DEF Over
    <3> QED
      BY <3>5, <3>6
  <2> QED
    BY <1>1, <1>2, <2>2 DEF Talk
<1> QED
  BY <1>4, <1>5

\* Taking the first of one or two packets.
LEMMA ShortTails ==
  ASSUME NEW d, NEW e
  PROVE  /\ Head(<<d>>) = d /\ Tail(<<d>>) = <<>>
         /\ Head(<<d, e>>) = d /\ Tail(<<d, e>>) = <<e>>
<1>1. Head(<<d>>) = d /\ Tail(<<d>>) = <<>>
  OBVIOUS
<1>2. Head(<<d, e>>) = d
  OBVIOUS
<1>3. Tail(<<d, e>>) = <<e>>
  OBVIOUS
<1> QED
  BY <1>1, <1>2, <1>3

\* What is left after the first packet.
LEMMA TailFacts ==
  ASSUME NEW S, NEW s \in Seq(S), s # <<>>
  PROVE  /\ Len(s) \in Nat /\ 1 \in 1..Len(s) /\ Head(s) = s[1]
         /\ Tail(s) \in Seq(S) /\ Len(Tail(s)) = Len(s) - 1
         /\ \A i \in 1..Len(Tail(s)) : Tail(s)[i] = s[i + 1] /\ i + 1 \in 1..Len(s)
         /\ \A i \in 1..Len(Tail(s)) : i = Len(Tail(s)) <=> i + 1 = Len(s)
         /\ Tail(s) = <<>> <=> Len(s) = 1
<1>1. Len(s) \in Nat /\ Len(s) # 0
  BY EmptySeq, LenProperties
<1>2. Head(s) = s[1]
  OBVIOUS
<1>3. Tail(s) \in Seq(S) /\ Len(Tail(s)) = Len(s) - 1
  BY HeadTailProperties
<1>4. \A i \in 1..Len(Tail(s)) : Tail(s)[i] = s[i + 1]
  BY HeadTailProperties
<1>5. \A i \in 1..Len(Tail(s)) : i + 1 \in 1..Len(s)
  BY <1>1, <1>3
<1>7. \A i \in 1..Len(Tail(s)) : i = Len(Tail(s)) <=> i + 1 = Len(s)
  BY <1>1, <1>3
<1>8. 1 \in 1..Len(s)
  BY <1>1
<1>6. Tail(s) = <<>> <=> Len(Tail(s)) = 0
  BY <1>3, EmptySeq
<1> QED
  BY <1>1, <1>2, <1>3, <1>4, <1>5, <1>6, <1>7, <1>8

\* The client has told that its disk is full.
DiskFull(c) == answer[c].text = "write error"

\* The connection in use, when its client receives.
LEMMA RecvTalk ==
  ASSUME TypeOK, NEW c \in Clients, NEW w \in Conns, up, HasConn(c), w = Conn(c), Current(c, w),
         Greeting(c) \/ Reply(c) \/ Download(c) \/ Listing(c), ~DiskFull(c)'
  PROVE  Current(c, w)' /\ cpc'[c] # "done"
<1>1. Recv(c) /\ UNCHANGED <<wpc, wbuf, toS, req>>
  BY DEF Greeting, Reply, Download, Listing, workerVars
<1>2. toC[w] # <<>> /\ cbuf'[c] = Head(toC[w]) /\ toC'[w] = Tail(toC[w])
  BY <1>1, Takes
<1>3. toC[w] \in Seq(Packets)
  BY DEF TypeOK, NetTypes
<1>4. wpc'[w] = wpc[w] /\ toS'[w] = toS[w] /\ wbuf'[w] = wbuf[w] /\ req'[c] = req[c]
  BY <1>1
<1>5. \A p : Answer(c, p) => cpc'[c] = "prompt" /\ answer'[c] = p
  BY DEF Answer, CGoto, TypeOK, ClientTypes
\* A command that has its answer.
<1>6. ASSUME cpc'[c] = "prompt", toS[w] = <<>>, toC'[w] = <<>>, wpc[w] \in {"recv"}
      PROVE  Current(c, w)' /\ cpc'[c] # "done"
  <2>1. Behind(w, <<>>)'
    BY <1>4, <1>6 DEF Behind
  <2> QED
    BY <1>6, <2>1 DEF Current
<1>7. CASE Greeting(c)
  <2>1. cpc[c] = "greet" /\ cpc'[c] = "prompt"
    BY <1>5, <1>7 DEF Greeting, At
  <2>2. toS[w] = <<>> /\ wpc[w] = "recv" /\ toC[w] = <<Pkt("INF", "CONNECT", "welcome")>>
    BY <1>2, <2>1 DEF Current
  <2>3. toC'[w] = <<>>
    BY <1>2, <2>2, ShortTails
  <2> QED
    BY <1>6, <2>1, <2>2, <2>3
<1>8. CASE Reply(c)
  <2>1. /\ cpc[c] = "reply"
        /\ IF req[c].id \in {"GET", "PUT"} /\ IsReply(c, "INF")
           THEN cpc'[c] = IF req[c].id = "GET" THEN "get" ELSE "put"
           ELSE cpc'[c] = "prompt"
    BY <1>5, <1>8 DEF Reply, At, CGoto, TypeOK, ClientTypes
  <2>2. req[c].id \in {"PWD", "GET", "PUT", "MKDIR", "CD", "RM"} /\ Replied(c, w)
    BY <1>2, <2>1 DEF Current, Awaited, Behind, Working
  <2>3. toS[w] = <<>> /\ cbuf'[c].id = req[c].id
    BY <1>2, <2>2 DEF Replied
  <2>4. CASE req[c].id = "GET"
    <3>1. cbuf'[c].type = "INF" /\ GetTail(w, toC'[w])
      BY <1>2, <2>2, <2>4 DEF Replied
    <3>2. cpc'[c] = "get"
      BY <2>1, <2>3, <2>4, <3>1 DEF IsReply
    <3>3. GetTail(w, toC[w])'
      BY <1>4, <3>1 DEF GetTail
    <3> QED
      BY <1>4, <2>3, <2>4, <3>2, <3>3 DEF Current
  <2>5. CASE req[c].id = "PUT"
    <3>1. cbuf'[c].type = "INF" /\ toC'[w] = <<>> /\ wpc[w] \in {"put_recv", "put_null"}
      BY <1>2, <2>2, <2>5 DEF Replied
    <3>2. cpc'[c] = "put"
      BY <2>1, <2>3, <2>5, <3>1 DEF IsReply
    <3> QED
      BY <1>4, <2>3, <2>5, <3>1, <3>2 DEF Current
  <2>6. CASE req[c].id \notin {"GET", "PUT"}
    <3>1. toC'[w] = <<>> /\ wpc[w] = "recv"
      BY <1>2, <2>2, <2>6 DEF Replied
    <3> QED
      BY <1>6, <2>1, <2>3, <2>6, <3>1
  <2> QED
    BY <2>4, <2>5, <2>6
<1>9. CASE Download(c)
  <2>0. Pkt("", "GET", "write error").text = "write error"
    BY DEF Pkt
  <2>1. /\ cpc[c] = "get"
        /\ IF cbuf'[c].type = "DATA" THEN cpc'[c] = "get" ELSE cpc'[c] = "prompt"
    BY <1>5, <1>9, <2>0 DEF Download, At, DiskFull
  <2>2. req[c].id = "GET" /\ toS[w] = <<>> /\ GetTail(w, toC[w])
    BY <2>1 DEF Current
  <2>3. Pkt("DATA", "GET", "").type = "DATA" /\ Pkt("EOT", "GET", "").type = "EOT"
    BY DEF Pkt
  <2>4. PICK d, e : d = Pkt("DATA", "GET", "") /\ e = Pkt("EOT", "GET", "")
    OBVIOUS
  <2>5. /\ wbuf[w].id = "GET"
        /\ \/ wpc[w] = "eot" /\ toC[w] = <<d>>
           \/ wpc[w] = "recv" /\ toC[w] = <<e>>
           \/ wpc[w] = "recv" /\ toC[w] = <<d, e>>
    BY <1>2, <2>2, <2>4 DEF GetTail
  <2>6. CASE toC[w] = <<e>>
    <3>1. cbuf'[c] = e /\ toC'[w] = <<>> /\ wpc[w] = "recv"
      <4>1. <<d>> # <<e>> \/ d = e
        OBVIOUS
      <4>2. d # e
        BY <2>3, <2>4
      <4>3. cbuf'[c] = e /\ toC'[w] = <<>>
        BY <1>2, <2>6, ShortTails
      <4>4. <<d>>[1] # <<e>>[1]
        BY <4>2
      <4> QED
        BY <2>5, <2>6, <4>3, <4>4
    <3>2. cpc'[c] = "prompt"
      BY <2>1, <2>3, <2>4, <3>1
    <3> QED
      BY <1>6, <2>2, <3>1, <3>2
  <2>7. CASE toC[w] = <<d>> /\ wpc[w] = "eot"
    <3>1. cbuf'[c] = d /\ toC'[w] = <<>>
      BY <1>2, <2>7, ShortTails
    <3>2. cpc'[c] = "get"
      BY <2>1, <2>3, <2>4, <3>1
    <3>3. GetTail(w, toC[w])'
      BY <1>4, <2>5, <2>7, <3>1 DEF GetTail
    <3> QED
      BY <1>4, <2>2, <3>2, <3>3 DEF Current
  <2>8. CASE toC[w] = <<d, e>> /\ wpc[w] = "recv"
    <3>1. cbuf'[c] = d /\ toC'[w] = <<e>>
      <4>1. Head(<<d, e>>) = d /\ Tail(<<d, e>>) = <<e>>
        BY ShortTails
      <4> QED
        BY <1>2, <2>8, <4>1
    <3>2. cpc'[c] = "get"
      BY <2>1, <2>3, <2>4, <3>1
    <3>3. GetTail(w, toC[w])'
      BY <1>4, <2>4, <2>5, <2>8, <3>1 DEF GetTail
    <3> QED
      BY <1>4, <2>2, <3>2, <3>3 DEF Current
  <2> QED
    BY <2>5, <2>6, <2>7, <2>8
<1>10. CASE Listing(c)
  <2>1. /\ cpc[c] = "ls"
        /\ IF cbuf'[c].type = "EOT" THEN cpc'[c] = "prompt" ELSE cpc'[c] = "ls"
    BY <1>5, <1>10 DEF Listing, At
  <2>2. req[c].id = "LS" /\ Entering(w)
    BY <1>2, <2>1 DEF Current, Awaited, Behind, Working
  <2>3. /\ toS[w] = <<>> /\ wbuf[w].id = "LS"
        /\ \A i \in 1..Len(toC[w]) : toC[w][i].id = "LS"
    BY <2>2 DEF Entering
  <2>4. /\ Len(toC[w]) \in Nat /\ 1 \in 1..Len(toC[w]) /\ Len(toC'[w]) = Len(toC[w]) - 1
        /\ cbuf'[c] = toC[w][1]
        /\ \A i \in 1..Len(toC'[w]) : toC'[w][i] = toC[w][i + 1] /\ i + 1 \in 1..Len(toC[w])
        /\ \A i \in 1..Len(toC'[w]) : i = Len(toC'[w]) <=> i + 1 = Len(toC[w])
        /\ toC'[w] = <<>> <=> Len(toC[w]) = 1
    <3>1. PICK s \in Seq(Packets) : s = toC[w]
      BY <1>3
    <3>2. s # <<>> /\ cbuf'[c] = Head(s) /\ toC'[w] = Tail(s)
      BY <1>2, <3>1
    <3>3. /\ Len(s) \in Nat /\ 1 \in 1..Len(s) /\ Head(s) = s[1] /\ Len(Tail(s)) = Len(s) - 1
          /\ \A i \in 1..Len(Tail(s)) : Tail(s)[i] = s[i + 1] /\ i + 1 \in 1..Len(s)
          /\ \A i \in 1..Len(Tail(s)) : i = Len(Tail(s)) <=> i + 1 = Len(s)
          /\ Tail(s) = <<>> <=> Len(s) = 1
      BY <3>2, TailFacts
    <3> QED
      BY <3>1, <3>2, <3>3
  <2>7. \A i \in 1..Len(toC'[w]) : toC'[w][i] = toC[w][i + 1] /\ i + 1 \in 1..Len(toC[w])
    BY <2>4
  <2>8. /\ 1 \in 1..Len(toC[w]) /\ cbuf'[c] = toC[w][1] /\ Len(toC'[w]) = Len(toC[w]) - 1
        /\ Len(toC[w]) \in Nat
    BY <2>4
  <2>5. CASE wpc[w] = "ls"
    <3>1. \A i \in 1..Len(toC[w]) : toC[w][i].type = "DATA"
      BY <2>2, <2>5 DEF Entering
    <3>2. cpc'[c] = "ls"
      <4>1. cbuf'[c].type = "DATA"
        BY <2>8, <3>1
      <4> QED
        BY <2>1, <4>1
    <3>3. \A i \in 1..Len(toC'[w]) : toC'[w][i].id = "LS" /\ toC'[w][i].type = "DATA"
      <4> TAKE i \in 1..Len(toC'[w])
      <4>1. toC'[w][i] = toC[w][i + 1] /\ i + 1 \in 1..Len(toC[w])
        BY <2>7
      <4>2. toC[w][i + 1].type = "DATA"
        BY <3>1, <4>1
      <4> QED
        BY <2>3, <4>1, <4>2
    <3>4. Entering(w)'
      BY <1>4, <2>3, <2>5, <3>3 DEF Entering
    <3> QED
      BY <1>4, <2>2, <3>2, <3>4 DEF Current
  <2>6. CASE wpc[w] = "recv"
    <3>1. \A i \in 1..Len(toC[w]) : toC[w][i].type = IF i = Len(toC[w]) THEN "EOT" ELSE "DATA"
      BY <2>2, <2>6 DEF Entering
    <3>2. CASE Len(toC[w]) = 1
      <4>1. cbuf'[c].type = "EOT"
        BY <2>8, <3>1, <3>2
      <4>2. toC'[w] = <<>>
        BY <2>4, <3>2
      <4> QED
        BY <1>6, <2>1, <2>3, <2>6, <4>1, <4>2
    <3>3. CASE Len(toC[w]) # 1
      <4>1. cbuf'[c].type # "EOT"
        BY <2>8, <3>1, <3>3
      <4>2. \A i \in 1..Len(toC'[w]) : toC'[w][i].id = "LS"
        BY <2>3, <2>4
      <4>3. \A i \in 1..Len(toC'[w]) : toC'[w][i].type = IF i = Len(toC'[w]) THEN "EOT" ELSE "DATA"
        <5> TAKE i \in 1..Len(toC'[w])
        <5>1. i = Len(toC'[w]) <=> i + 1 = Len(toC[w])
          BY <2>4
        <5>2. toC'[w][i] = toC[w][i + 1] /\ i + 1 \in 1..Len(toC[w])
          BY <2>7
        <5>3. toC[w][i + 1].type = IF i + 1 = Len(toC[w]) THEN "EOT" ELSE "DATA"
          BY <3>1, <5>2
        <5> QED
          BY <5>1, <5>2, <5>3, Zenon
      <4>4. toC'[w] # <<>>
        BY <2>4, <3>3
      <4>5. Entering(w)'
        BY <1>4, <2>3, <2>6, <4>2, <4>3, <4>4 DEF Entering
      <4> QED
        BY <1>4, <2>1, <2>2, <4>1, <4>5 DEF Current
    <3> QED
      BY <3>2, <3>3
  <2> QED
    BY <2>2, <2>5, <2>6 DEF Entering
<1> QED
  BY <1>7, <1>8, <1>9, <1>10

\* The connection in use, when its client sends.
LEMMA SendTalk ==
  ASSUME TypeOK, NEW c \in Clients, NEW w \in Conns, up, HasConn(c), w = Conn(c), Current(c, w),
         Request(c) \/ UploadData(c) \/ UploadEot(c)
  PROVE  Current(c, w)' /\ cpc'[c] # "done"
<1>1. wpc'[w] = wpc[w] /\ toC'[w] = toC[w] /\ wbuf'[w] = wbuf[w]
  BY DEF Request, UploadData, UploadEot, workerVars
<1>2. \A p : SendS(c, p) => toS'[w] = Append(toS[w], p)
  BY Sends
<1>3. CASE Request(c)
  <2>1. PICK r \in Requests :
          /\ req' = [req EXCEPT ![c] = r]
          /\ SendS(c, Pkt("REQU", r.id, r.arg))
          /\ CGoto(c, IF r.id = "LS" THEN "ls" ELSE "reply")
    BY <1>3 DEF Request
  <2>2. cpc[c] = "prompt"
    BY <1>3 DEF Request, Gives, At
  <2>3. req'[c] = r /\ cpc'[c] = IF r.id = "LS" THEN "ls" ELSE "reply"
    BY <2>1 DEF CGoto, TypeOK, ClientTypes
  <2>4. PICK p : p = Pkt("REQU", r.id, r.arg)
    OBVIOUS
  <2>5. p \in Incoming /\ Behind(w, <<>>) /\ toC[w] = <<>>
    BY <2>2, <2>4, ClientPackets DEF Current, Behind
  <2>6. Behind(w, <<p>>)'
    BY <1>1, <1>2, <2>1, <2>4, <2>5, BehindSends
  <2>7. Asked(c)' = p
    BY <2>3, <2>4 DEF Asked
  <2>8. Awaited(c, w)'
    BY <2>6, <2>7 DEF Awaited
  <2>9. r.id \in Commands
    BY RequestCases
  <2> QED
    BY <2>3, <2>8, <2>9 DEF Current, Commands
<1>4. ASSUME cpc[c] \in {"put", "put_eot"}
      PROVE  /\ req[c].id = "PUT" /\ toC[w] = <<>> /\ wpc[w] \in {"put_recv", "put_null"}
             /\ toS[w] = <<>> \/ (cpc[c] = "put_eot" /\ toS[w] = <<PutData>>)
  BY <1>4 DEF Current
<1>5. CASE UploadData(c)
  <2>1. cpc[c] = "put" /\ cpc'[c] = "put_eot" /\ req' = req /\ SendS(c, PutData)
    BY <1>5 DEF UploadData, At, CGoto, PutData, TypeOK, ClientTypes
  <2>2. PICK d : d = PutData
    OBVIOUS
  <2>3. toS[w] = <<>> /\ toS'[w] = Append(toS[w], d)
    BY <1>2, <1>4, <2>1, <2>2
  <2>4. toS'[w] = <<d>>
    BY <2>3, ShortAppends
  <2>5. toS'[w] = <<PutData>>
    BY <2>2, <2>4
  <2> QED
    BY <1>1, <1>4, <2>1, <2>5 DEF Current
<1>6. CASE UploadEot(c)
  <2>1. cpc[c] \in {"put", "put_eot"} /\ cpc'[c] = "prompt" /\ SendS(c, PutEot)
    BY <1>6 DEF UploadEot, At, Answer, CGoto, PutEot, TypeOK, ClientTypes
  <2>2. PICK d, e, u : d = PutData /\ e = PutEot /\ u = <<>>
    OBVIOUS
  <2>3. toS'[w] = Append(toS[w], e) /\ (toS[w] = <<>> \/ toS[w] = <<d>>)
    BY <1>2, <1>4, <2>1, <2>2
  <2>4. Append(<<d>>, e) = <<d, e>> /\ Append(<<>>, e) = <<e>>
    BY ShortAppends
  <2>5. toS'[w] = <<e>> \/ toS'[w] = <<d, e>>
    BY <2>3, <2>4
  <2>6. <<e>> \o u = <<e>> /\ <<d, e>> \o u = <<d, e>>
    <3>1. PICK s, t, S : s = <<e>> /\ t = <<d, e>> /\ S = {d, e}
      OBVIOUS
    <3>2. s \in Seq(S) /\ t \in Seq(S)
      BY <3>1
    <3>3. \A x \in Seq(S) : x \o <<>> = x
      BY ConcatEmptySeq
    <3> QED
      BY <2>2, <3>1, <3>2, <3>3
  <2>7. toS'[w] = <<e>> \o u \/ toS'[w] = <<d, e>> \o u
    BY <2>5, <2>6
  <2>8. Behind(w, u)'
    BY <1>1, <1>4, <2>1, <2>2, <2>7 DEF Behind
  <2>9. Behind(w, <<>>)'
    BY <2>2, <2>8 DEF Behind
  <2> QED
    BY <2>1, <2>9 DEF Current
<1> QED
  BY <1>3, <1>5, <1>6

\* The number of a connection that was made.
LEMMA InRange ==
  ASSUME TypeOK, NEW c \in Clients, NEW k \in 1..connects[c]
  PROVE  k \in 1..MaxConnects /\ k > 0 /\ k # 0 /\ k # -1 /\ <<c, k>> \in Conns
<1>1. connects[c] \in 0..MaxConnects /\ MaxConnects \in Nat
  BY SessionAssumption DEF TypeOK, ClientTypes
<1>2. k \in 1..MaxConnects /\ k > 0 /\ k # 0 /\ k # -1
  BY <1>1
<1> QED
  BY <1>2 DEF Conns

\* The step of a client keeps what is said of its connections.
LEMMA ClientTalk ==
  ASSUME TypeOK, NEW c \in Clients, SocketsOf(c), Alone(c), \A k \in 1..connects[c] : Talk(c, k),
         ClientStep(c), up, ~DiskFull(c)'
  PROVE  Alone(c)' /\ \A k \in 1..connects'[c] : Talk(c, k)'
<1>1. CASE Connect(c) \/ ConnectFails(c)
  BY <1>1, ConnectTalk
<1>2. CASE Exit(c) \/ Kill(c)
  BY <1>2, EndTalk
<1>3. ~ConnectExits(c) /\ ~ClientSigpipe(c) /\ ~ListingEnds(c)
  BY DEF ConnectExits, ClientSigpipe, ListingEnds
<1>4. CASE Refused(c) \/ NotSent(c) \/ ListingSplit(c) \/ Greeting(c) \/ Reply(c) \/ Download(c) \/ Listing(c)
           \/ Request(c) \/ UploadData(c) \/ UploadEot(c)
  <2>1. cpc[c] # "done" /\ connects' = connects /\ wpc' = wpc /\ conn' = conn
    <3>1. connects' = connects /\ wpc' = wpc /\ conn' = conn
      BY <1>4 DEF Refused, NotSent, ListingSplit, Greeting, Reply, Download, Listing, Request, UploadData, UploadEot, workerVars
    <3> QED
      BY <3>1, OwnSockets
  <2>2. ~Ends(c) \/ cpc'[c] = "done"
    BY DEF Ends, CGoto, TypeOK, ClientTypes
  <2>3. connects[c] \in 0..MaxConnects /\ MaxConnects \in Nat /\ conn[c] \in -1..MaxConnects
    BY SessionAssumption DEF TypeOK, ClientTypes
  <2>4. cpc[c] # "lost"
    BY <1>4 DEF Refused, NotSent, ListingSplit, Greeting, Reply, Download, Listing, Request, UploadData, UploadEot, Gives, At
  <2>5. cpc'[c] # "done"
    <3>1. cpc' = cpc \/ \E q \in ClientPlaces \ {"done"} : CGoto(c, q)
      BY <1>4 DEF Refused, NotSent, ListingSplit, Greeting, Reply, Download, Listing, Request, UploadData, UploadEot,
                  Answer, ClientPlaces
    <3> QED
      BY <2>1, <3>1 DEF CGoto, TypeOK, ClientTypes
  \* The connections that were left for another.
  <2>6. ASSUME NEW k \in 1..connects[c], k # conn[c]
        PROVE  Talk(c, k)'
    <3>1. PICK w : w = <<c, k>>
      OBVIOUS
    <3>2. k \in 1..MaxConnects
      BY InRange
    <3>3. toS'[w] = toS[w] /\ toC'[w] = toC[w] /\ wpc'[w] = wpc[w]
      BY <2>1, <2>2, <2>5, <2>6, <3>1, <3>2, OwnSockets
    <3>4. Behind(w, <<>>)
      BY <2>1, <2>4, <2>6, <3>1 DEF Talk
    <3>5. Behind(w, <<>>)'
      BY <3>3, <3>4, BehindKept
    <3> QED
      BY <2>1, <2>5, <2>6, <3>1, <3>5 DEF Talk
  \* The one in use.
  <2>7. ASSUME NEW k \in 1..connects[c], k = conn[c]
        PROVE  Talk(c, k)'
    <3>1. PICK w : w = <<c, k>>
      OBVIOUS
    <3>2. HasConn(c) /\ w = Conn(c) /\ conn[c] # 0
      BY <2>7, <3>1, InRange DEF HasConn, Conn
    <3>3. w \in Conns
      BY <3>1, InRange
    <3>4. Current(c, w)
      BY <2>1, <2>7, <3>1 DEF Talk
    <3>5. Greeting(c) \/ Reply(c) \/ Download(c) \/ Listing(c) => Current(c, w)'
      BY <3>2, <3>3, <3>4, RecvTalk
    <3>6. Request(c) \/ UploadData(c) \/ UploadEot(c) => Current(c, w)'
      BY <3>2, <3>3, <3>4, SendTalk
    <3>7. ASSUME NotSent(c)
          PROVE  Current(c, w)'
      <4>1. cpc[c] = "prompt" /\ cpc'[c] = "prompt" /\ toS' = toS /\ toC' = toC
        BY <3>7 DEF NotSent, Gives, At, Answer, CGoto, TypeOK, ClientTypes
      <4>2. Behind(w, <<>>)'
        BY <2>1, <3>4, <4>1, BehindKept DEF Current
      <4> QED
        BY <4>1, <4>2 DEF Current
    <3>8. ASSUME ListingSplit(c)
          PROVE  Current(c, w)'
      <4>1. cpc'[c] = "lost"
        BY <3>8 DEF ListingSplit, CGoto, TypeOK, ClientTypes
      <4> QED
        BY <4>1 DEF Current
    <3>9. ~Refused(c)
      BY <3>2 DEF Refused
    <3>10. Current(c, w)'
      BY <1>4, <3>5, <3>6, <3>7, <3>8, <3>9
    <3> QED
      BY <2>1, <2>5, <2>7, <3>1, <3>10 DEF Talk
  \* A client without a connection.
  <2>8. Alone(c)'
    <3>1. CASE conn[c] = -1
      <4>1. /\ cpc[c] \in {"prompt", "reply", "ls", "done"} /\ ~HasConn(c)
            /\ cpc[c] = "reply" => cbuf[c].type = "REQU"
        <5>1. ~(conn[c] > 0)
          BY <3>1
        <5> QED
          BY <3>1, <5>1 DEF Alone, HasConn
      <4>2. CASE NotSent(c) \/ Refused(c)
        BY <2>1, <3>1, <4>2 DEF NotSent, Refused, Answer, CGoto, Alone, TypeOK, ClientTypes
      <4>3. CASE Reply(c)
        <5>1. cbuf'[c].type = "REQU"
          BY <4>1, <4>3, Takes DEF Reply, At
        <5>2. cpc'[c] = "prompt"
          BY <4>3, <5>1 DEF Reply, IsReply, Answer, CGoto, TypeOK, ClientTypes
        <5> QED
          BY <2>1, <3>1, <5>2 DEF Alone
      <4>4. CASE Request(c)
        <5>1. cbuf'[c].type = "REQU" /\ cpc'[c] \in {"ls", "reply"}
          <6>1. PICK r \in Requests : /\ cbuf' = [cbuf EXCEPT ![c] = Pkt("REQU", r.id, r.arg)]
                                      /\ CGoto(c, IF r.id = "LS" THEN "ls" ELSE "reply")
            BY <4>4 DEF Request
          <6>2. PICK p : p = Pkt("REQU", r.id, r.arg)
            OBVIOUS
          <6>3. p.type = "REQU"
            BY <6>2 DEF Pkt
          <6>4. cbuf'[c] = p /\ cpc'[c] \in {"ls", "reply"}
            BY <6>1, <6>2 DEF CGoto, TypeOK, ClientTypes
          <6> QED
            BY <6>3, <6>4
        <5> QED
          BY <2>1, <3>1, <5>1 DEF Alone
      <4>5. ~ListingSplit(c) /\ ~Greeting(c) /\ ~Download(c) /\ ~Listing(c) /\ ~UploadData(c) /\ ~UploadEot(c)
        BY <4>1 DEF ListingSplit, Greeting, Download, Listing, UploadData, UploadEot, At
      <4> QED
        BY <1>4, <4>2, <4>3, <4>4, <4>5
    <3>2. CASE conn[c] = 0
      <4>1. cpc[c] = "prompt"
        BY <2>1, <3>2 DEF Alone
      <4>2. Refused(c)
        BY <1>4, <3>2, <4>1 DEF ListingSplit, Greeting, Reply, Download, Listing, UploadData, UploadEot, At, Request, NotSent
      <4> QED
        BY <2>1, <3>2, <4>2 DEF Refused, Answer, CGoto, Alone, TypeOK, ClientTypes
    <3> QED
      BY <2>1, <3>1, <3>2 DEF Alone
  <2> QED
    BY <2>1, <2>6, <2>7, <2>8
<1> QED
  BY <1>1, <1>2, <1>3, <1>4 DEF ClientStep, ClientWork

\* What Observe remembers of broken transfers.
LEMMA Remembers ==
  ASSUME Observe
  PROVE  /\ full \subseteq full'
         /\ \A c \in Clients \ full' : ~DiskFull(c)' /\ \A k \in 1..MaxConnects : DiskOK(<<c, k>>)
<1>1. full \subseteq full'
  BY DEF Observe
<1>2. ASSUME NEW c \in Clients \ full'
      PROVE  ~DiskFull(c)' /\ \A k \in 1..MaxConnects : DiskOK(<<c, k>>)
  BY DEF Observe, DiskFull, DiskOK
<1> QED
  BY <1>1, <1>2

\* Every step keeps what is said of the connections.
LEMMA TalksStep ==
  ASSUME TypeOK, Sockets, Talks, Next
  PROVE  Talks'
<1> SUFFICES ASSUME up', NEW d \in Clients \ full'
             PROVE  Alone(d)' /\ \A k \in 1..connects'[d] : Talk(d, k)'
  BY DEF Talks
<1>1. Observe
  BY DEF Next
<1>2. d \in Clients \ full /\ ~DiskFull(d)' /\ \A k \in 1..MaxConnects : DiskOK(<<d, k>>)
  BY <1>1, Remembers
<1>3. SocketsOf(d)
  BY <1>2 DEF Sockets
<1>4. up => Alone(d) /\ \A k \in 1..connects[d] : Talk(d, k)
  BY <1>2 DEF Talks
<1>5. ASSUME NEW c \in Clients, ClientStep(c)
      PROVE  Alone(d)' /\ \A k \in 1..connects'[d] : Talk(d, k)'
  <2>1. up
    BY <1>5, ClientLeaves
  <2>2. CASE d = c
    BY <1>2, <1>3, <1>4, <1>5, <2>1, <2>2, ClientTalk
  <2>3. CASE d # c
    <3>1. SameClient(d) /\ \A k \in 1..MaxConnects : SameConn(<<d, k>>)
      BY <1>2, <1>5, <2>3, ClientElsewhere
    <3>2. connects'[d] = connects[d] /\ \A k \in 1..connects[d] : k \in 1..MaxConnects
      BY <1>2, <3>1, InRange DEF SameClient
    <3> QED
      BY <1>2, <1>4, <2>1, <3>1, <3>2, TalkFrame
  <2> QED
    BY <2>2, <2>3
<1>6. ASSUME NEW w \in Conns, ThreadStep(w) \/ Sigpipe(w)
      PROVE  Alone(d)' /\ \A k \in 1..connects'[d] : Talk(d, k)'
  <2>1. ThreadStep(w)
    BY <1>6 DEF Sigpipe, Dies
  <2>2. up /\ wpc[w] # "none"
    BY <2>1, ThreadAt
  <2>3. PICK c \in Clients, l \in 1..MaxConnects : w = <<c, l>>
    BY DEF Conns
  <2>4. SameClient(d) /\ \A v \in Conns \ {w} : SameConn(v)
    BY <1>2, <1>6, ThreadElsewhere
  <2>5. connects'[d] = connects[d] /\ Alone(d)'
    BY <1>2, <1>4, <2>2, <2>4, TalkFrame DEF SameClient
  <2>6. ASSUME NEW k \in 1..connects[d]
        PROVE  Talk(d, k)'
    <3>1. k \in 1..MaxConnects /\ <<d, k>> \in Conns
      BY <1>2, InRange
    <3>2. CASE <<d, k>> = w
      BY <1>2, <1>3, <1>4, <2>1, <2>2, <3>1, <3>2, ThreadTalk
    <3>3. CASE <<d, k>> # w
      BY <1>2, <1>4, <2>2, <2>4, <3>1, <3>3, TalkFrame
    <3> QED
      BY <3>2, <3>3
  <2> QED
    BY <2>5, <2>6
<1> QED
  BY <1>5, <1>6 DEF Next

SessionInv == TypeOK /\ Sockets /\ Talks

\* The invariant of the sessions: types, sockets, and what is on its way.
THEOREM SessionInvariant == Spec => []SessionInv
<1>1. Init => SessionInv
  <2>1. Init => Talks
    <3> SUFFICES ASSUME Init, NEW c \in Clients PROVE Alone(c) /\ \A k \in 1..connects[c] : Talk(c, k)
      BY DEF Talks
    <3>1. conn[c] = 0 /\ cpc[c] = "prompt" /\ connects[c] = 0
      BY DEF Init
    <3>2. 1..0 = {} /\ 0 # -1
      OBVIOUS
    <3> QED
      BY <3>1, <3>2 DEF Alone
  <2> QED
    BY <2>1, TypesInit, SocketsInit DEF SessionInv
<1>2. SessionInv /\ [Next]_vars => SessionInv'
  <2> SUFFICES ASSUME SessionInv, [Next]_vars PROVE SessionInv'
    OBVIOUS
  <2> USE DEF SessionInv
  <2>1. CASE Next
    <3>1. TypeOK'
      BY <2>1, TypesClient, TypesThread DEF Next
    <3> QED
      BY <2>1, <3>1, SocketsStep, TalksStep
  <2>2. CASE UNCHANGED vars
    <3>1. TypeOK'
      BY <2>2 DEF vars, clientVars, workerVars, TypeOK, ClientTypes, NetTypes, ServerTypes
    <3>2. \A c \in Clients : SameClient(c) /\ \A k \in 1..MaxConnects : SameConn(<<c, k>>)
      BY <2>2 DEF vars, clientVars, workerVars, SameClient, SameConn
    <3>3. Sockets'
      BY <3>2, SocketsFrame DEF Sockets
    <3>4. Talks'
      <4>1. up' = up /\ full' = full /\ connects' = connects
        BY <2>2 DEF vars, clientVars
      <4>2. \A c \in Clients : \A k \in 1..connects[c] : k \in 1..MaxConnects
        BY InRange
      <4> QED
        BY <3>2, <4>1, <4>2, TalkFrame DEF Talks
    <3> QED
      BY <3>1, <3>3, <3>4
  <2> QED
    BY <2>1, <2>2
<1> QED
  BY <1>1, <1>2, PTL DEF Spec

\* Between two commands no packet is on its way to the client, and its thread has at
\* most the end of an upload to read.
THEOREM AlwaysInStep == Spec => []InStep
<1>1. SessionInv => InStep
  <2> SUFFICES ASSUME SessionInv, NEW c \in Clients, At(c, "prompt"), HasConn(c), up, c \notin full
               PROVE  /\ toC[Conn(c)] = <<>>
                      /\ \/ wpc[Conn(c)] = "recv" /\ toS[Conn(c)] = <<>>
                         \/ /\ wpc[Conn(c)] \in {"put_recv", "put_null"} /\ toS[Conn(c)] # <<>>
                            /\ Last(toS[Conn(c)]).type = "EOT"
    BY DEF InStep
  <2>1. conn[c] \in 1..connects[c]
    <3>1. conn[c] \in 1..MaxConnects
      BY ConnInUse DEF SessionInv, TypeOK
    <3>2. conn[c] = connects[c]
      BY DEF SessionInv, Sockets, SocketsOf, HasConn
    <3>3. \A n \in 1..MaxConnects : n \in 1..n
      BY SessionAssumption
    <3> QED
      BY <3>1, <3>2, <3>3
  <2>2. Talk(c, conn[c])
    BY <2>1 DEF SessionInv, Talks
  <2>3. Behind(Conn(c), <<>>)
    BY <2>2 DEF Talk, At, Current, Conn
  <2>4. \A s \in Seq(Incoming) : s = <<PutEot>> \o <<>> \/ s = <<PutData, PutEot>> \o <<>> => s # <<>> /\ Last(s).type = "EOT"
    <3>1. PICK d, e, u : d = PutData /\ e = PutEot /\ u = <<>>
      OBVIOUS
    <3>2. <<e>> \o u = <<e>> /\ <<d, e>> \o u = <<d, e>>
      <4>1. PICK s, t, S : s = <<e>> /\ t = <<d, e>> /\ S = {d, e}
        OBVIOUS
      <4>2. s \in Seq(S) /\ t \in Seq(S)
        BY <4>1
      <4>3. \A x \in Seq(S) : x \o <<>> = x
        BY ConcatEmptySeq
      <4> QED
        BY <3>1, <4>1, <4>2, <4>3
    <3>3. <<e>> # <<>> /\ Last(<<e>>) = e
      BY DEF Last
    <3>4. <<d, e>> # <<>> /\ Last(<<d, e>>) = e
      BY DEF Last
    <3>5. PutEot.type = "EOT"
      BY DEF PutEot, Pkt
    <3> QED
      BY <3>1, <3>2, <3>3, <3>4, <3>5
  <2>5. toS[Conn(c)] \in Seq(Incoming)
    BY ConnInUse DEF SessionInv, TypeOK, NetTypes
  <2> QED
    BY <2>3, <2>4, <2>5 DEF Behind
<1> QED
  BY <1>1, SessionInvariant, PTL

\* A client that ends by itself does not take the server with it.
THEOREM KillsCauseSigpipe == Spec => []OnlyKillsCauseSigpipe
<1>1. Init => OnlyKillsCauseSigpipe
  BY DEF Init, OnlyKillsCauseSigpipe
<1>2. SessionInv /\ OnlyKillsCauseSigpipe /\ [Next]_vars => OnlyKillsCauseSigpipe'
  <2> SUFFICES ASSUME SessionInv, OnlyKillsCauseSigpipe, [Next]_vars, reason' = "sigpipe"
               PROVE  full' # {} \/ \E c \in Clients : answer'[c].id = "killed"
    BY DEF OnlyKillsCauseSigpipe
  <2>1. CASE UNCHANGED vars
    BY <2>1 DEF vars, clientVars, OnlyKillsCauseSigpipe
  <2>2. CASE Next
    <3>1. full \subseteq full'
      BY <2>2, Remembers DEF Next
    <3>2. \A c \in Clients : Killed(c) => Killed(c)'
      <4>1. ASSUME NEW c \in Clients, Killed(c), NEW d \in Clients, ClientStep(d)
            PROVE  Killed(c)'
        <5>1. cpc[c] = "done" /\ SocketsOf(d)
          BY <4>1 DEF SessionInv, Sockets, SocketsOf, Killed
        <5>2. c # d
          BY <4>1, <5>1, OwnSockets DEF SessionInv
        <5> QED
          BY <4>1, <5>2, ClientElsewhere DEF SessionInv, SameClient, Killed
      <4>2. ASSUME NEW c \in Clients, Killed(c), NEW w \in Conns, ThreadStep(w) \/ Sigpipe(w)
            PROVE  Killed(c)'
        BY <4>2, ThreadElsewhere DEF SessionInv, SameClient, Killed
      <4> QED
        BY <2>2, <4>1, <4>2 DEF Next
    <3>3. CASE reason = "sigpipe"
      BY <3>1, <3>2, <3>3 DEF OnlyKillsCauseSigpipe, Killed
    <3>4. CASE reason # "sigpipe"
      <4>1. ASSUME NEW c \in Clients, ClientStep(c) PROVE reason' = reason
        BY <4>1 DEF ClientStep, ClientWork, Connect, ConnectFails, ConnectExits, Refused, Request, NotSent, Exit, ClientSigpipe,
           ListingSplit, Kill, Greeting, Reply, Download, UploadData, UploadEot, Listing, ListingEnds
      <4>2. ASSUME NEW w \in Conns, ThreadStep(w)
            PROVE  reason' = reason \/ reason' = "null"
        <5>1. CASE NullFile(w) \/ CdNull(w) \/ LsNull(w)
          BY <5>1 DEF NullFile, CdNull, LsNull, Dies
        <5>2. CASE Accept(w) \/ ThreadRecv(w) \/ ThreadEof(w) \/ ThreadReset(w) \/ Terminate(w)
          BY <5>2 DEF Accept, ThreadRecv, ThreadEof, ThreadReset, Terminate
        <5>3. CASE \/ Pwd(w) \/ PwdFails(w) \/ LsOpen(w) \/ LsAstray(w) \/ LsEntry(w) \/ LsEnd(w)
                   \/ GetOpen(w) \/ GetData(w) \/ GetEot(w)
          BY <5>3 DEF Pwd, PwdFails, LsOpen, LsAstray, LsEntry, LsEnd, GetOpen, GetData, GetEot
        <5>4. CASE PutOpen(w) \/ PutRecv(w) \/ Cd(w) \/ RmStat(w) \/ Rm(w) \/ RmRefused(w) \/ RmFailed(w)
          BY <5>4 DEF PutOpen, PutRecv, Cd, RmStat, Rm, RmRefused, RmSuccess, RmFailed
        <5>5. CASE \/ MkdirStat(w) \/ Mkdir(w) \/ MkdirRefused(w) \/ MkdirExists(w) \/ MkdirReplyExists(w)
                   \/ MkdirFails(w) \/ MkdirReplyFail(w)
          BY <5>5 DEF MkdirStat, Mkdir, MkdirRefused, MkdirSuccess, MkdirExists, MkdirReplyExists, MkdirFails, MkdirReplyFail
        <5> QED
          BY <4>2, <5>1, <5>2, <5>3, <5>4, <5>5 DEF ThreadStep
      <4>3. PICK w \in Conns : Sigpipe(w)
        BY <2>2, <3>4, <4>1, <4>2 DEF Next
      <4>4. PICK c \in Clients, k \in 1..MaxConnects : w = <<c, k>>
        BY DEF Conns
      <4>5. up /\ wpc[w] \in Sending /\ link[w] = "pipe"
        BY <4>3 DEF Sigpipe
      <4>6. cpc[c] = "done" /\ k <= connects[c]
        BY <4>4, <4>5 DEF SessionInv, Sockets, SocketsOf
      <4>7. ~Over(w)
        BY <4>5 DEF Over, Sending
      <4>8. c \in full \/ Killed(c)
        <5>1. k \in 1..connects[c]
          <6>1. connects[c] \in 0..MaxConnects
            BY DEF SessionInv, TypeOK, ClientTypes
          <6> QED
            BY <4>6, <6>1
        <5>2. c \notin full => Talk(c, k)
          BY <4>5, <5>1 DEF SessionInv, Talks
        <5> QED
          BY <4>4, <4>6, <4>7, <5>2 DEF Talk
      <4> QED
        BY <3>1, <3>2, <4>8 DEF Killed
    <3> QED
      BY <3>3, <3>4
  <2> QED
    BY <2>1, <2>2
<1> QED
  BY <1>1, <1>2, SessionInvariant, PTL DEF Spec

-----------------------------------------------------------------------------
(* The truth of an answer.                                                 *)

\* The name was, or was not, in the working directory at some moment of the command.
Was(c, f) == \E v \in views[c] : f \in v.names[v.dir]
WasNot(c, f) == \E v \in views[c] : f \notin v.names[v.dir]

Seen == \A c \in Clients : cpc[c] \notin {"prompt", "done"} => View \in views[c]

\* What the thread has found out, while it works on the command.
Found(c, w) ==
  /\ wpc[w] \in {"stat_again", "exists", "fail", "rm"} => Was(c, req[c].arg)
  /\ wpc[w] = "rm_failed" => WasNot(c, req[c].arg)

\* The text is a true answer to the command of c.
TrueText(c, text) ==
  /\ req[c].id = "PWD" => \E v \in views[c] : v.dir = text
  /\ req[c].id = "CD" /\ text = "command success" => \E v \in views[c] : v.dir = Target(req[c].arg)
  /\ req[c].id = "MKDIR" \/ (req[c].id = "RM" /\ text # "failed") => Was(c, req[c].arg)
  /\ req[c].id = "RM" => WasNot(c, req[c].arg)

\* A file that is sent was there.
Fetched(c, w) == req[c].id = "GET" /\ wpc[w] # "null" => Was(c, req[c].arg)

\* What d had at some moment of the command, and what it had always.
Ever(c, d) == UNION { v.names[d] : v \in views[c] }
IsAlways(c, d, f) == \A v \in views[c] : f \in v.names[d]
WasDir(c, d) == \E v \in views[c] : v.dir = d
IsListing(c, d, names) == /\ WasDir(c, d) /\ names \subseteq Ever(c, d)
                          /\ \A f \in Names : IsAlways(c, d, f) => f \in names

\* The names a stream has read were there, and those that always were are read or due.
StreamTrue(c, s) == /\ s.dir \in Dirs /\ WasDir(c, s.dir) /\ s.read \subseteq Ever(c, s.dir)
                    /\ \A f \in Names : IsAlways(c, s.dir, f) => f \in s.read \cup s.due

\* The entries listed and on their way are those the stream has returned, and at its
\* end a listing.
Coming(w) == { p.text : p \in { q \in ToSet(toC[w]) : q.type = "DATA" } }
Listed(c, w) ==
  /\ wpc[w] = "ls" => StreamTrue(c, list[w]) /\ (got[c] \cup Coming(w)) \cup list[w].buf = list[w].read
  /\ wpc[w] = "recv" => \E d \in Dirs : IsListing(c, d, got[c] \cup Coming(w))

Truth(c, w) ==
  /\ cpc[c] = "reply" /\ Working(c, w) => Found(c, w)
  /\ cpc[c] = "reply" /\ Replied(c, w) => TrueText(c, Head(toC[w]).text) /\ Fetched(c, w)
  /\ cpc[c] = "get" => Fetched(c, w)
  /\ cpc[c] = "ls" /\ Awaited(c, w) => got[c] = {}
  /\ cpc[c] = "ls" /\ Entering(w) => Listed(c, w)

Truths == up => \A c \in Clients \ (full \cup failed) : \A k \in 1..MaxConnects : conn[c] = k => Truth(c, <<c, k>>)

\* The views of a command are only added to.
LEMMA ViewsGrow ==
  ASSUME Observe, NEW c \in Clients
  PROVE  /\ cpc'[c] \notin {"prompt", "done"} => View' \in views'[c]
         /\ cpc[c] # "prompt" => views[c] \subseteq views'[c]
         /\ cpc'[c] \in {"prompt", "done"} => views'[c] = views[c]
BY DEF Observe, Begins, At

\* What stat finds is what the view has.
LEMMA StatIsView ==
  ASSUME TypeOK, NEW w, Arg(w) \in Names
  PROVE  tree[File(w)] # "none" <=> Arg(w) \in View.names[View.dir]
<1>1. View.dir = cwd /\ View.names[cwd] = Entries(tree, cwd)
  BY DEF View, TypeOK, ServerTypes
<1> QED
  BY <1>1 DEF File, Entries

\* What was true at some moment of a command stays so: its views are only added to.
LEMMA StaysTrue ==
  ASSUME NEW c \in Clients, views[c] \subseteq views'[c], req'[c] = req[c]
  PROVE  /\ \A f : (Was(c, f) => Was(c, f)') /\ (WasNot(c, f) => WasNot(c, f)')
         /\ \A text : TrueText(c, text) => TrueText(c, text)'
         /\ \A d : /\ WasDir(c, d) => WasDir(c, d)'
                  /\ Ever(c, d) \subseteq Ever(c, d)'
                  /\ \A f : IsAlways(c, d, f)' => IsAlways(c, d, f)
                  /\ \A names : IsListing(c, d, names) => IsListing(c, d, names)'
<1>1. \A f : (Was(c, f) => Was(c, f)') /\ (WasNot(c, f) => WasNot(c, f)')
  BY DEF Was, WasNot
<1>2. ASSUME NEW text, TrueText(c, text)
      PROVE  TrueText(c, text)'
  BY <1>1, <1>2 DEF TrueText
<1>3. ASSUME NEW d
      PROVE  /\ WasDir(c, d) => WasDir(c, d)'
             /\ Ever(c, d) \subseteq Ever(c, d)'
             /\ \A f : IsAlways(c, d, f)' => IsAlways(c, d, f)
  BY DEF WasDir, Ever, IsAlways
<1>4. ASSUME NEW d, NEW names, IsListing(c, d, names)
      PROVE  IsListing(c, d, names)'
  BY <1>3, <1>4 DEF IsListing
<1> QED
  BY <1>1, <1>2, <1>3, <1>4

\* A listing stays one.
LEMMA ListingStays ==
  ASSUME NEW c \in Clients, views[c] \subseteq views'[c], req'[c] = req[c], NEW d, NEW names,
         IsListing(c, d, names)
  PROVE  IsListing(c, d, names)'
<1>1. /\ WasDir(c, d) => WasDir(c, d)'
      /\ Ever(c, d) \subseteq Ever(c, d)'
      /\ \A f : IsAlways(c, d, f)' => IsAlways(c, d, f)
  BY StaysTrue
<1> QED
  BY <1>1 DEF IsListing

\* A stream that this step does not read: at most a name is gone from its directory.
StreamKept(w) ==
  \/ list'[w] = list[w]
  \/ \E f : /\ list'[w] = [list[w] EXCEPT !.due = @ \ {f}]
            /\ list[w].dir \in Dirs => f \notin View'.names[list[w].dir]

\* Which names a directory has.
LEMMA InEntries ==
  ASSUME NEW t, NEW d, NEW f, NEW x, x = <<d, f>>
  PROVE  f \in Entries(t, d) <=> f \in Names /\ t[x] # "none"
BY DEF Entries

\* The threads leave one another's streams alone, but for the names they remove.
LEMMA OtherStreams ==
  ASSUME TypeOK, NEW w \in Conns, ThreadStep(w), NEW v \in Conns \ {w}
  PROVE  StreamKept(v)
<1>1. CASE LsOpen(w) \/ LsAstray(w) \/ LsEntry(w) \/ LsEnd(w)
  BY <1>1, OpenSteps, LsSteps DEF StreamKept, TypeOK
<1>2. CASE Rm(w) \/ RmRefused(w)
  <2>1. CASE list'[v] = list[v]
    BY <2>1 DEF StreamKept
  <2>2. CASE list'[v] # list[v]
    <3>1. Rm(w) /\ wpc[w] = "rm" /\ cwd' = cwd
      BY <1>2, <2>2 DEF Rm, RmRefused, RmSuccess, WAt
    <3>2. list[v].dir = cwd /\ list'[v] = [list[v] EXCEPT !.due = @ \ {Arg(w)}]
      BY <2>2, <3>1 DEF Rm
    <3>3. Arg(w) \in Names /\ File(w) \in Dirs \X Names /\ wpc[w] \in WorkPlaces
      BY <3>1, AtWork DEF TypeOK, WorkPlaces
    <3>4. tree' = [tree EXCEPT ![File(w)] = "none"] /\ tree \in [Dirs \X Names -> {"none", "file", "dir"}]
      BY <3>1 DEF Rm, TypeOK, ServerTypes
    <3>5. PICK x \in Dirs \X Names : x = File(w) /\ x = <<cwd, Arg(w)>>
      BY <3>3 DEF File
    <3>8. tree'[x] = "none"
      BY <3>4, <3>5
    <3>6. View'.names[cwd] = Entries(tree', cwd)
      BY <3>1 DEF View, TypeOK, ServerTypes
    <3>7. Arg(w) \notin View'.names[cwd]
      BY <3>5, <3>6, <3>8, InEntries
    <3> QED
      BY <3>2, <3>7 DEF StreamKept
  <2> QED
    BY <2>1, <2>2
<1>3. CASE Pwd(w) \/ PwdFails(w) \/ Mkdir(w) \/ MkdirRefused(w)
  BY <1>3, PwdSteps, MkdirSteps DEF StreamKept, TypeOK
<1>4. CASE \/ Accept(w) \/ ThreadRecv(w) \/ ThreadEof(w) \/ ThreadReset(w) \/ Terminate(w)
           \/ LsNull(w) \/ GetOpen(w) \/ GetData(w) \/ GetEot(w) \/ PutOpen(w) \/ PutRecv(w) \/ NullFile(w)
  BY <1>4 DEF Accept, ThreadRecv, ThreadEof, ThreadReset, Terminate, LsNull, GetOpen, GetData, GetEot,
     PutOpen, PutRecv, NullFile, workerVars, StreamKept
<1>5. CASE \/ MkdirStat(w) \/ MkdirExists(w) \/ MkdirReplyExists(w) \/ MkdirFails(w) \/ MkdirReplyFail(w)
           \/ Cd(w) \/ CdNull(w) \/ RmStat(w) \/ RmFailed(w)
  BY <1>5 DEF MkdirStat, MkdirExists, MkdirReplyExists, MkdirFails, MkdirReplyFail, Cd, CdNull, RmStat, RmFailed,
     workerVars, StreamKept
<1> QED
  BY <1>1, <1>2, <1>3, <1>4, <1>5 DEF ThreadStep

\* What is said of a stream is not lost when a name goes from its directory.
LEMMA StreamStays ==
  ASSUME TypeOK, NEW c \in Clients, NEW w \in Conns, StreamKept(w), StreamTrue(c, list[w]),
         views[c] \subseteq views'[c], View' \in views'[c], req'[c] = req[c]
  PROVE  StreamTrue(c, list[w])' /\ list'[w].buf = list[w].buf /\ list'[w].read = list[w].read
<1>1. PICK s \in Streams : s = list[w]
  BY DEF TypeOK, ServerTypes
<1>2. PICK t : t = list'[w]
  OBVIOUS
<1>3. /\ t.dir = s.dir /\ t.buf = s.buf /\ t.read = s.read
      /\ \A f \in s.due : f \in t.due \/ f \notin View'.names[s.dir]
  <2>1. CASE t = s
    BY <2>1
  <2>2. CASE t # s
    <3>0. PICK f : /\ list'[w] = [list[w] EXCEPT !.due = @ \ {f}]
                   /\ list[w].dir \in Dirs => f \notin View'.names[list[w].dir]
      BY <1>1, <1>2, <2>2 DEF StreamKept
    <3>1. t = [s EXCEPT !.due = @ \ {f}] /\ (s.dir \in Dirs => f \notin View'.names[s.dir])
      BY <1>1, <1>2, <3>0
    <3>2. t.dir = s.dir /\ t.buf = s.buf /\ t.read = s.read /\ t.due = s.due \ {f}
      BY <3>1 DEF Streams
    <3>3. s.dir \in Dirs
      BY <1>1 DEF StreamTrue
    <3> QED
      BY <3>1, <3>2, <3>3
  <2> QED
    BY <2>1, <2>2
<1>4. PICK d \in Dirs : d = s.dir
  BY <1>1 DEF StreamTrue
<1>5. /\ WasDir(c, d) /\ s.read \subseteq Ever(c, d)
      /\ \A f \in Names : IsAlways(c, d, f) => f \in s.read \cup s.due
  BY <1>1, <1>4 DEF StreamTrue
<1>6. WasDir(c, d)' /\ t.read \subseteq Ever(c, d)'
  BY <1>3, <1>5, StaysTrue
<1>7. ASSUME NEW f \in Names, IsAlways(c, d, f)'
      PROVE  f \in t.read \cup t.due
  <2>1. IsAlways(c, d, f)
    BY <1>7, StaysTrue
  <2>2. f \in View'.names[d]
    BY <1>7 DEF IsAlways
  <2> QED
    BY <1>3, <1>4, <1>5, <2>1, <2>2
<1>8. StreamTrue(c, list[w])'
  BY <1>2, <1>3, <1>4, <1>6, <1>7 DEF StreamTrue, WasDir, Ever, IsAlways
<1> QED
  BY <1>1, <1>2, <1>3, <1>8

\* What is said of the truth of an answer depends on the client, its connection and the views.
LEMMA TruthFrame ==
  ASSUME TypeOK, NEW c \in Clients, NEW w \in Conns, SameClient(c), SameConn(w), StreamKept(w), Truth(c, w),
         cpc[c] # "prompt" => views[c] \subseteq views'[c],
         cpc[c] \notin {"prompt", "done"} => View' \in views'[c]
  PROVE  Truth(c, w)'
<1>1. /\ cpc'[c] = cpc[c] /\ req'[c] = req[c] /\ got'[c] = got[c] /\ Asked(c)' = Asked(c)
  BY DEF SameClient, Asked
<1>2. wpc'[w] = wpc[w] /\ wbuf'[w] = wbuf[w] /\ toS'[w] = toS[w] /\ toC'[w] = toC[w]
  BY DEF SameConn
<1>3. Working(c, w)' <=> Working(c, w)
  BY <1>1, <1>2 DEF Working
<1>4. Awaited(c, w)' <=> Awaited(c, w)
  BY <1>1, <1>2, <1>3 DEF Awaited, Behind
<1>5. Replied(c, w)' <=> Replied(c, w)
  BY <1>1, <1>2 DEF Replied, GetTail
<1>6. Entering(w)' <=> Entering(w)
  BY <1>2 DEF Entering
<1>7. CASE cpc[c] \in {"reply", "get", "ls"}
  <2>1. views[c] \subseteq views'[c] /\ View' \in views'[c]
    BY <1>7
  <2>2. \A f : (Was(c, f) => Was(c, f)') /\ (WasNot(c, f) => WasNot(c, f)')
    BY <1>1, <2>1, StaysTrue
  <2>3. \A text : TrueText(c, text) => TrueText(c, text)'
    BY <1>1, <2>1, StaysTrue
  <2>4. Found(c, w) => Found(c, w)'
    BY <1>1, <1>2, <2>2 DEF Found
  <2>5. TrueText(c, Head(toC[w]).text) => TrueText(c, Head(toC[w]).text)'
    <3>1. PICK t : t = Head(toC[w]).text
      OBVIOUS
    <3>2. t = Head(toC'[w]).text
      BY <1>2, <3>1
    <3>3. TrueText(c, t) => TrueText(c, t)'
      BY <2>3
    <3> QED
      BY <3>1, <3>2, <3>3 DEF TrueText
  <2>6. Listed(c, w) => Listed(c, w)'
    <3>1. PICK names : names = got[c] \cup Coming(w)
      OBVIOUS
    <3>2. names = (got[c] \cup Coming(w))'
      BY <1>1, <1>2, <3>1 DEF Coming
    <3>3. ASSUME wpc[w] = "ls", StreamTrue(c, list[w]), names \cup list[w].buf = list[w].read
          PROVE  StreamTrue(c, list[w])' /\ names \cup list'[w].buf = list'[w].read
      BY <1>1, <2>1, <3>3, StreamStays
    <3>4. ASSUME NEW d \in Dirs, IsListing(c, d, names)
          PROVE  IsListing(c, d, names)'
      BY <1>1, <2>1, <3>4, ListingStays DEF SameClient
    <3>5. Listed(c, w) =>
            /\ wpc[w] = "ls" => StreamTrue(c, list[w])' /\ names \cup list'[w].buf = list'[w].read
            /\ wpc[w] = "recv" => \E d \in Dirs : IsListing(c, d, names)'
      BY <3>1, <3>3, <3>4 DEF Listed
    <3> QED
      BY <1>2, <3>2, <3>5 DEF Listed, IsListing
  <2>7. Fetched(c, w) => Fetched(c, w)'
    BY <1>1, <1>2, <2>2 DEF Fetched
  <2> QED
    BY <1>1, <1>3, <1>4, <1>5, <1>6, <2>4, <2>5, <2>6, <2>7 DEF Truth
<1>8. CASE cpc[c] \notin {"reply", "get", "ls"}
  BY <1>1, <1>8 DEF Truth
<1> QED
  BY <1>7, <1>8

\* execute_commands finds out what is so at that moment, and says what it has found.
LEMMA WorkingTruth ==
  ASSUME TypeOK, Seen, NEW c \in Clients, NEW w \in Conns, ThreadStep(w), up', link[w] = "open",
         cpc[c] = "reply", Working(c, w), Found(c, w), SameClient(c), Observe, ~FailedCall(w)
  PROVE  /\ Working(c, w)' => Found(c, w)'
         /\ Replied(c, w)' => TrueText(c, Head(toC[w]).text)' /\ Fetched(c, w)'
<1>1. /\ toS[w] = <<>> /\ toC[w] = <<>> /\ wpc[w] \in Work(req[c].id)
      /\ Arg(w) = req[c].arg /\ req'[c] = req[c] /\ cpc'[c] = "reply" /\ wbuf[w] = Asked(c)
  BY DEF Working, Asked, Pkt, SameClient, Arg
<1>2. /\ View \in views[c] /\ View' \in views'[c] /\ views[c] \subseteq views'[c] /\ View \in views'[c]
  BY <1>1, ViewsGrow DEF Seen
<1>3. \A f : (Was(c, f) => Was(c, f)') /\ (WasNot(c, f) => WasNot(c, f)')
  BY <1>1, <1>2, StaysTrue
<1>4. PICK f : f = req[c].arg
  OBVIOUS
<1>5. Found(c, w) => /\ wpc[w] \in {"stat_again", "exists", "fail", "rm"} => Was(c, f)'
                     /\ wpc[w] = "rm_failed" => WasNot(c, f)'
  BY <1>3, <1>4 DEF Found
\* A reply: the client will read its text.
<1>6. ASSUME NEW type \in {"INF", "DATA", "EOT"}, NEW text \in Texts, NEW q, Respond(w, type, text), WGoto(w, q),
             q \notin {"stat_again", "exists", "fail", "rm", "rm_failed"}, TrueText(c, text)',
             req[c].id = "GET" /\ q # "null" => Was(c, f)'
      PROVE  /\ Working(c, w)' => Found(c, w)'
             /\ Replied(c, w)' => TrueText(c, Head(toC[w]).text)' /\ Fetched(c, w)'
  <2>1. wpc'[w] = q
    BY <1>6, Goes
  <2>2. Found(c, w)'
    BY <1>6, <2>1 DEF Found
  <2>3. wbuf'[w].text = text /\ toC'[w] = Append(toC[w], wbuf'[w])
    BY <1>6, OpenReply
  <2>4. PICK p : p = wbuf'[w]
    OBVIOUS
  <2>5. toC'[w] = <<p>>
    BY <1>1, <2>3, <2>4, ShortAppends
  <2>6. Head(toC'[w]) = p
    BY <2>5, ShortTails
  <2>7. Head(toC'[w]).text = text
    BY <2>3, <2>4, <2>6
  <2>8. TrueText(c, Head(toC[w]).text)'
    BY <1>6, <2>7 DEF TrueText
  <2>9. Fetched(c, w)'
    BY <1>1, <1>4, <1>6, <2>1 DEF Fetched
  <2> QED
    BY <2>2, <2>8, <2>9
<1>7. /\ {"", "garbage", "success", "fail", "failed", "error", "found", "created",
          "command success", "incorrect path"} \subseteq Texts
      /\ cwd \in Texts /\ tmp[w] \in Texts
  BY DEF Texts, TypeOK, ServerTypes
<1>8. /\ req[c].id \in Commands
      /\ req[c].id \in {"MKDIR", "RM", "GET"} => Arg(w) \in Names /\ f \in Names /\ f = Arg(w)
  <2>1. wbuf[w] \in Held /\ Asked(c).type = "REQU" /\ Asked(c).id = req[c].id
    BY DEF TypeOK, ServerTypes, Asked, Pkt
  <2>2. wbuf[w].type = "REQU" /\ Sound(wbuf[w]) /\ wbuf[w].id = req[c].id
    BY <1>1, <2>1 DEF Held
  <2> QED
    BY <1>1, <1>4, <2>2, HeldCommand DEF Arg
\* A step that only looks at a name: nothing is sent.
<1>9. ASSUME NEW q, WGoto(w, q), toC' = toC,
             q \in {"stat_again", "exists", "fail", "rm"} => Was(c, f)',
             q = "rm_failed" => WasNot(c, f)'
      PROVE  /\ Working(c, w)' => Found(c, w)'
             /\ Replied(c, w)' => TrueText(c, Head(toC[w]).text)' /\ Fetched(c, w)'
  <2>1. wpc'[w] = q /\ toC'[w] = <<>>
    BY <1>1, <1>9, Goes
  <2>2. Found(c, w)'
    BY <1>1, <1>4, <1>9, <2>1 DEF Found
  <2>3. ~Replied(c, w)'
    BY <2>1 DEF Replied
  <2> QED
    BY <2>2, <2>3
\* What is there and what is not, before the step and after it.
<1>10. /\ req[c].id \in {"MKDIR", "RM", "GET"} /\ tree[File(w)] # "none" => Was(c, f)'
       /\ req[c].id \in {"MKDIR", "RM", "GET"} /\ tree[File(w)] = "none" => WasNot(c, f)'
  <2>1. ASSUME req[c].id \in {"MKDIR", "RM", "GET"}
        PROVE  (tree[File(w)] # "none" <=> f \in View.names[View.dir])
    BY <1>8, <2>1, StatIsView
  <2>2. f \in View.names[View.dir] => Was(c, f)
    BY <1>2 DEF Was
  <2>3. f \notin View.names[View.dir] => WasNot(c, f)
    BY <1>2 DEF WasNot
  <2> QED
    BY <1>3, <2>1, <2>2, <2>3
<1>17. ASSUME cwd' = cwd, f \in Names, NEW x, x = <<cwd, f>>
       PROVE  /\ tree'[x] # "none" => Was(c, f)'
              /\ tree'[x] = "none" => WasNot(c, f)'
  <2>1. View'.dir = cwd /\ View'.names[cwd] = Entries(tree', cwd)
    BY <1>17 DEF View, TypeOK, ServerTypes
  <2>2. tree'[x] # "none" <=> f \in View'.names[View'.dir]
    BY <1>17, <2>1, InEntries
  <2> QED
    BY <1>2, <2>2 DEF Was, WasNot
<1>11. CASE req[c].id = "PWD"
  <2>1. Pwd(w)
    BY <1>1, <1>11, ThreadAt DEF Work, FailedCall
  <2>2. Respond(w, "DATA", cwd) /\ WGoto(w, "recv")
    BY <2>1 DEF Pwd
  <2>3. \E v \in views'[c] : v.dir = cwd
    BY <1>2 DEF View
  <2>4. PICK d : d = cwd
    OBVIOUS
  <2>5. TrueText(c, d)'
    BY <1>1, <1>11, <2>3, <2>4 DEF TrueText
  <2> QED
    BY <1>6, <1>7, <1>11, <2>2, <2>4, <2>5
<1>12. CASE req[c].id = "LS"
  <2>1. LsOpen(w) \/ LsAstray(w)
    <3>1. wpc[w] = "opendir"
      BY <1>1, <1>12 DEF Work
    <3> QED
      BY <3>1, ThreadAt DEF LsNull, Dies
  <2>2. WGoto(w, "ls") /\ toC' = toC
    BY <2>1, OpenSteps DEF TypeOK
  <2> QED
    BY <1>9, <2>2
<1>13. CASE req[c].id \in {"GET", "PUT"}
  <2>1. \A text : TrueText(c, text)'
    BY <1>1, <1>13 DEF TrueText
  <2>2. CASE req[c].id = "PUT"
    <3>1. PutOpen(w)
      BY <1>1, <2>2, ThreadAt DEF Work
    <3>2. PICK q \in {"put_null", "put_recv"}, t \in {"error", "created"} : WGoto(w, q) /\ Respond(w, "INF", t)
      BY <3>1 DEF PutOpen
    <3>3. t \in Texts /\ TrueText(c, t)'
      BY <1>7, <2>1
    <3> QED
      BY <1>6, <2>2, <3>2, <3>3
  <2>3. CASE req[c].id = "GET"
    <3>1. GetOpen(w) /\ wpc[w] = "get"
      BY <1>1, <2>3, ThreadAt DEF Work
    <3>2. wpc[w] \in WorkPlaces
      BY <3>1 DEF WorkPlaces
    <3>3. tree[File(w)] \in {"none", "file", "dir"}
      BY <3>1, <3>2, AtWork DEF TypeOK
    <3>4. PICK q \in {"null", "data", "eot"}, t \in {"error", "found"} :
            WGoto(w, q) /\ Respond(w, "INF", t) /\ (q # "null" => tree[File(w)] # "none")
      BY <3>1, <3>3 DEF GetOpen
    <3>5. t \in Texts /\ TrueText(c, t)'
      BY <1>7, <2>1
    <3>6. q # "null" => Was(c, f)'
      BY <1>10, <2>3, <3>4
    <3> QED
      BY <1>6, <3>4, <3>5, <3>6
  <2> QED
    BY <1>13, <2>2, <2>3
<1>14. CASE req[c].id = "CD"
  <2>1. Cd(w)
    <3>1. wpc[w] = "cd"
      BY <1>1, <1>14 DEF Work
    <3> QED
      BY <3>1, ThreadAt DEF CdNull, Dies
  <2>2. /\ cwd' = IF Target(Arg(w)) \in Dirs THEN Target(Arg(w)) ELSE cwd
        /\ Respond(w, "INF", IF Target(Arg(w)) \in Dirs THEN "command success" ELSE "incorrect path")
        /\ WGoto(w, "recv")
    BY <2>1 DEF Cd
  <2>3. CASE Target(Arg(w)) \in Dirs
    <3>1. cwd' = Target(f)
      BY <1>1, <1>4, <2>2, <2>3
    <3>2. \E v \in views'[c] : v.dir = Target(f)
      BY <1>2, <3>1 DEF View
    <3>3. TrueText(c, "command success")'
      BY <1>1, <1>4, <1>14, <3>2 DEF TrueText, Target
    <3> QED
      BY <1>6, <1>7, <1>14, <2>2, <2>3, <3>3
  <2>4. CASE Target(Arg(w)) \notin Dirs
    <3>1. TrueText(c, "incorrect path")'
      BY <1>1, <1>14 DEF TrueText
    <3> QED
      BY <1>6, <1>7, <1>14, <2>2, <2>4, <3>1
  <2> QED
    BY <2>3, <2>4
<1>15. CASE req[c].id = "RM"
  <2>1. wpc[w] \in {"rm_stat", "rm", "rm_failed"}
    BY <1>1, <1>15 DEF Work
  <2>2. CASE wpc[w] = "rm_stat"
    <3>1. WGoto(w, IF tree[File(w)] = "none" THEN "rm_failed" ELSE "rm") /\ toC' = toC
      BY <2>2, ThreadAt DEF RmStat
    <3> QED
      BY <1>9, <1>10, <1>15, <3>1
  <2>3. CASE wpc[w] = "rm"
    <3>1. Rm(w)
      BY <2>3, ThreadAt DEF FailedCall
    <3>2. Respond(w, "INF", "command success") /\ WGoto(w, "recv") /\ cwd' = cwd
          /\ tree' = [tree EXCEPT ![File(w)] = "none"]
      BY <3>1 DEF Rm, RmSuccess
    <3>3. Was(c, f)'
      BY <1>5, <2>3
    <3>4. File(w) = <<cwd, f>> /\ f \in Names /\ cwd \in Dirs
      BY <1>8, <1>15 DEF File, TypeOK, ServerTypes
    <3>7. PICK x \in Dirs \X Names : x = File(w) /\ x = <<cwd, f>>
      BY <3>4
    <3>5. tree'[x] = "none"
      BY <3>2, <3>7 DEF TypeOK, ServerTypes
    <3>8. WasNot(c, f)'
      BY <1>17, <3>2, <3>4, <3>5, <3>7
    <3>6. TrueText(c, "command success")'
      BY <1>1, <1>4, <1>15, <3>3, <3>8 DEF TrueText
    <3> QED
      BY <1>6, <1>7, <1>15, <3>2, <3>6
  <2>4. CASE wpc[w] = "rm_failed"
    <3>1. Respond(w, "INF", "failed") /\ WGoto(w, "recv")
      BY <2>4, ThreadAt DEF RmFailed
    <3>2. TrueText(c, "failed")'
      BY <1>1, <1>4, <1>5, <1>15, <2>4 DEF TrueText
    <3> QED
      BY <1>6, <1>7, <1>15, <3>1, <3>2
  <2> QED
    BY <2>1, <2>2, <2>3, <2>4
<1>16. CASE req[c].id = "MKDIR"
  <2>1. wpc[w] \in {"stat", "mkdir", "stat_again", "exists", "fail"}
    BY <1>1, <1>16 DEF Work
  <2>2. CASE wpc[w] = "stat"
    <3>1. WGoto(w, IF tree[File(w)] = "none" THEN "mkdir" ELSE "stat_again") /\ toC' = toC
      BY <2>2, ThreadAt DEF MkdirStat
    <3> QED
      BY <1>9, <1>10, <1>16, <3>1
  <2>3. CASE wpc[w] = "stat_again"
    <3>1. MkdirExists(w) \/ MkdirFails(w)
      BY <2>3, ThreadAt
    <3>2. toC' = toC /\ \E q \in {"exists", "fail"} : WGoto(w, q)
      BY <3>1 DEF MkdirExists, MkdirFails
    <3>3. Was(c, f)'
      BY <1>5, <2>3
    <3> QED
      BY <1>9, <3>2, <3>3
  <2>4. CASE wpc[w] = "mkdir"
    <3>1. Mkdir(w)
      BY <2>4, ThreadAt DEF FailedCall
    <3>2. Respond(w, "INF", "success") /\ WGoto(w, "recv") /\ cwd' = cwd
          /\ tree' = IF tree[File(w)] = "none" THEN [tree EXCEPT ![File(w)] = "dir"] ELSE tree
      BY <3>1 DEF Mkdir, MkdirSuccess
    <3>3. File(w) = <<cwd, f>> /\ f \in Names /\ cwd \in Dirs
      BY <1>8, <1>16 DEF File, TypeOK, ServerTypes
    <3>7. PICK x \in Dirs \X Names : x = File(w) /\ x = <<cwd, f>>
      BY <3>3
    <3>4. tree'[x] # "none"
      <4>1. CASE tree[x] = "none"
        BY <3>2, <3>7, <4>1 DEF TypeOK, ServerTypes
      <4>2. CASE tree[x] # "none"
        BY <3>2, <3>7, <4>2 DEF TypeOK, ServerTypes
      <4> QED
        BY <4>1, <4>2
    <3>5. Was(c, f)'
      BY <1>17, <3>2, <3>3, <3>4, <3>7
    <3>6. TrueText(c, "success")'
      BY <1>1, <1>4, <1>16, <3>5 DEF TrueText
    <3> QED
      BY <1>6, <1>7, <1>16, <3>2, <3>6
  <2>5. CASE wpc[w] \in {"exists", "fail"}
    <3>1. MkdirReplyExists(w) \/ MkdirReplyFail(w)
      BY <2>5, ThreadAt
    <3>2. PICK t \in {tmp[w], "garbage", "fail"} : Respond(w, "INF", t) /\ WGoto(w, "recv")
      BY <3>1 DEF MkdirReplyExists, MkdirReplyFail
    <3>3. TrueText(c, t)' /\ t \in Texts
      BY <1>1, <1>4, <1>5, <1>7, <1>16, <2>5 DEF TrueText
    <3> QED
      BY <1>6, <1>16, <3>2, <3>3
  <2> QED
    BY <2>1, <2>2, <2>3, <2>4, <2>5
<1> QED
  BY <1>8, <1>11, <1>12, <1>13, <1>14, <1>15, <1>16 DEF Commands

\* What a sequence has, when one is added or taken.
LEMMA ToSetFacts ==
  ASSUME NEW S, NEW s \in Seq(S)
  PROVE  /\ ToSet(<<>>) = {}
         /\ \A p \in S : ToSet(Append(s, p)) = ToSet(s) \cup {p}
         /\ s # <<>> => ToSet(s) = {Head(s)} \cup ToSet(Tail(s))
<1>1. /\ DOMAIN s = 1..Len(s) /\ Len(s) \in Nat
  BY LenProperties
<1>2. ToSet(<<>>) = {}
  <2>1. DOMAIN <<>> = {}
    OBVIOUS
  <2> QED
    BY <2>1 DEF ToSet
<1>3. ASSUME NEW p \in S
      PROVE  ToSet(Append(s, p)) = ToSet(s) \cup {p}
  <2>1. /\ Append(s, p) \in Seq(S) /\ Len(Append(s, p)) = Len(s) + 1
        /\ \A i \in 1..Len(s) : Append(s, p)[i] = s[i]
        /\ Append(s, p)[Len(s) + 1] = p
    BY AppendProperties
  <2>2. DOMAIN Append(s, p) = 1..Len(s) + 1
    BY <2>1, LenProperties
  <2>3. \A i \in 1..Len(s) + 1 : i \in 1..Len(s) \/ i = Len(s) + 1
    BY <1>1
  <2>4. \A i \in 1..Len(s) : i \in 1..Len(s) + 1
    BY <1>1
  <2>5. Len(s) + 1 \in 1..Len(s) + 1
    BY <1>1
  <2> QED
    BY <1>1, <2>1, <2>2, <2>3, <2>4, <2>5 DEF ToSet
<1>4. ASSUME s # <<>>
      PROVE  ToSet(s) = {Head(s)} \cup ToSet(Tail(s))
  <2>1. /\ 1 \in 1..Len(s) /\ Head(s) = s[1]
        /\ Tail(s) \in Seq(S) /\ Len(Tail(s)) = Len(s) - 1
        /\ \A i \in 1..Len(Tail(s)) : Tail(s)[i] = s[i + 1] /\ i + 1 \in 1..Len(s)
    BY <1>4, TailFacts
  <2>2. DOMAIN Tail(s) = 1..Len(Tail(s))
    BY <2>1, LenProperties
  <2>3. ASSUME NEW i \in 1..Len(s), i # 1
        PROVE  i - 1 \in 1..Len(Tail(s)) /\ s[i] = Tail(s)[i - 1]
    <3>1. i - 1 \in 1..Len(Tail(s)) /\ (i - 1) + 1 = i
      BY <1>1, <2>1, <2>3
    <3> QED
      BY <2>1, <3>1
  <2>4. ASSUME NEW x \in ToSet(s)
        PROVE  x \in {Head(s)} \cup ToSet(Tail(s))
    <3>1. PICK i \in 1..Len(s) : x = s[i]
      BY <1>1 DEF ToSet
    <3>2. CASE i = 1
      BY <2>1, <3>1, <3>2
    <3>3. CASE i # 1
      BY <2>2, <2>3, <3>1, <3>3 DEF ToSet
    <3> QED
      BY <3>2, <3>3
  <2>5. Head(s) \in ToSet(s)
    BY <1>1, <2>1 DEF ToSet
  <2>6. ASSUME NEW x \in ToSet(Tail(s))
        PROVE  x \in ToSet(s)
    <3>1. PICK i \in 1..Len(Tail(s)) : x = Tail(s)[i]
      BY <2>2 DEF ToSet
    <3> QED
      BY <1>1, <2>1, <3>1 DEF ToSet
  <2> QED
    BY <2>4, <2>5, <2>6
<1> QED
  BY <1>2, <1>3, <1>4

\* The stream that LS opens.
LEMMA OpensTrue ==
  ASSUME TypeOK, NEW c \in Clients, NEW w \in Conns, LsOpen(w), View \in views[c], views[c] \subseteq views'[c]
  PROVE  StreamTrue(c, list[w])' /\ list'[w].buf = {} /\ list'[w].read = {} /\ toC' = toC
<1>1. list' = [list EXCEPT ![w] = Opened(cwd)] /\ toC' = toC /\ cwd \in Dirs
  BY DEF LsOpen, TypeOK, ServerTypes
<1>2. PICK t : t = list'[w]
  OBVIOUS
<1>3. t = Opened(cwd)
  BY <1>1, <1>2 DEF TypeOK, ServerTypes
<1>4. t.dir = cwd /\ t.read = {} /\ t.buf = {} /\ t.due = Entries(tree, cwd)
  BY <1>3 DEF Opened
<1>5. View.dir = cwd /\ View.names[cwd] = Entries(tree, cwd) /\ View \in views'[c]
  BY <1>1 DEF View
<1>6. /\ \E v \in views'[c] : v.dir = cwd
      /\ \A f \in Names : (\A v \in views'[c] : f \in v.names[cwd]) => f \in t.due
  BY <1>4, <1>5
<1>7. StreamTrue(c, list[w])'
  BY <1>1, <1>2, <1>4, <1>6 DEF StreamTrue, WasDir, Ever, IsAlways
<1> QED
  BY <1>1, <1>2, <1>4, <1>7

\* What is on its way after a reply.
LEMMA ComingGrows ==
  ASSUME TypeOK, NEW w \in Conns, NEW p \in Packets, toC'[w] = Append(toC[w], p)
  PROVE  Coming(w)' = Coming(w) \cup IF p.type = "DATA" THEN {p.text} ELSE {}
<1>1. PICK s \in Seq(Packets) : s = toC[w]
  BY DEF TypeOK, NetTypes
<1>2. ToSet(Append(s, p)) = ToSet(s) \cup {p}
  BY ToSetFacts
<1>3. PICK t : t = toC'[w]
  OBVIOUS
<1>4. ToSet(t) = ToSet(s) \cup {p}
  BY <1>1, <1>2, <1>3
<1>5. Coming(w) = { q.text : q \in { r \in ToSet(s) : r.type = "DATA" } }
  BY <1>1 DEF Coming
<1>6. Coming(w)' = { q.text : q \in { r \in ToSet(t) : r.type = "DATA" } }
  BY <1>3 DEF Coming
<1> QED
  BY <1>4, <1>5, <1>6

\* A call of readdir: the entry that is sent was there, and at the end all that
\* always were are sent.
LEMMA ListedStep ==
  ASSUME TypeOK, NEW c \in Clients, NEW w \in Conns, ThreadStep(w), up', link[w] = "open",
         Entering(w), Listed(c, w), got'[c] = got[c], req'[c] = req[c],
         View \in views[c], views[c] \subseteq views'[c]
  PROVE  Listed(c, w)'
<1>1. wpc[w] = "ls" /\ wbuf[w].id = "LS"
  BY Idle DEF Entering
<1>2. LsEntry(w) \/ LsEnd(w)
  BY <1>1, ThreadAt
<1>3. PICK r \in Streams : r = list[w]
  BY DEF TypeOK, ServerTypes
<1>4. PICK all : all = got[c] \cup Coming(w)
  OBVIOUS
<1>5. PICK d \in Dirs : d = r.dir
  BY <1>1, <1>3 DEF Listed, StreamTrue
<1>6. /\ WasDir(c, d) /\ r.read \subseteq Ever(c, d)
      /\ \A f \in Names : IsAlways(c, d, f) => f \in r.read \cup r.due
      /\ all \cup r.buf = r.read
  BY <1>1, <1>3, <1>4, <1>5 DEF Listed, StreamTrue
<1>7. WasDir(c, d)' /\ Ever(c, d) \subseteq Ever(c, d)' /\ \A f : IsAlways(c, d, f)' => IsAlways(c, d, f)
  BY <1>6, StaysTrue
<1>8. CASE LsEntry(w)
  <2>1. PICK s \in Filled(r) : \E n \in s.buf :
          Respond(w, "DATA", n) /\ list' = [list EXCEPT ![w] = [s EXCEPT !.buf = @ \ {n}]]
    BY <1>3, <1>8 DEF LsEntry
  <2>2. PICK n \in s.buf : Respond(w, "DATA", n) /\ list' = [list EXCEPT ![w] = [s EXCEPT !.buf = @ \ {n}]]
    BY <2>1
  <2>3. s \in Streams /\ s.buf \subseteq Names /\ n \in Texts
    BY <1>3, <2>1, <2>2, StreamFacts DEF TypeOK, Texts
  \* What filling the buffer adds was there just now.
  <2>4. /\ s.dir = d /\ s.read \subseteq Ever(c, d)
        /\ r.read \cup r.due \subseteq s.read \cup s.due
        /\ all \cup s.buf = s.read
    <3>1. CASE r.buf # {}
      BY <1>5, <1>6, <2>1, <3>1 DEF Filled
    <3>2. CASE r.buf = {}
      <4>1. PICK b \in SUBSET (Entries(tree, d) \ r.read) :
              s = [r EXCEPT !.read = @ \cup b, !.buf = b, !.due = @ \ b]
        BY <1>5, <2>1, <3>2 DEF Filled
      <4>2. s.dir = d /\ s.read = r.read \cup b /\ s.buf = b /\ s.due = r.due \ b
        BY <1>5, <4>1 DEF Streams
      <4>3. View.names[d] = Entries(tree, d)
        BY DEF View
      <4>4. b \subseteq Ever(c, d)
        BY <4>3 DEF Ever
      <4> QED
        BY <1>6, <3>2, <4>2, <4>4
    <3> QED
      BY <3>1, <3>2
  <2>5. PICK p \in Packets : p.type = "DATA" /\ p.text = n /\ toC'[w] = Append(toC[w], p)
    BY <2>2, <2>3, OpenReply
  <2>6. Coming(w)' = Coming(w) \cup {n}
    BY <2>5, ComingGrows
  <2>7. PICK t : t = list'[w]
    OBVIOUS
  <2>8. t.dir = d /\ t.read = s.read /\ t.due = s.due /\ t.buf = s.buf \ {n}
    BY <2>2, <2>3, <2>4, <2>7 DEF Streams, TypeOK, ServerTypes
  <2>9. /\ WasDir(c, d)' /\ t.read \subseteq Ever(c, d)'
        /\ \A f \in Names : IsAlways(c, d, f)' => f \in t.read \cup t.due
    BY <1>6, <1>7, <2>4, <2>8
  <2>10. StreamTrue(c, list[w])'
    BY <2>7, <2>8, <2>9 DEF StreamTrue, WasDir, Ever, IsAlways
  <2>11. (got'[c] \cup Coming(w)') \cup t.buf = t.read
    BY <1>4, <2>2, <2>4, <2>6, <2>8
  <2>12. wpc'[w] = "ls"
    BY <1>1, <1>8 DEF LsEntry
  <2> QED
    BY <2>7, <2>10, <2>11, <2>12 DEF Listed
<1>9. CASE LsEnd(w)
  <2>1. Respond(w, "EOT", "") /\ WGoto(w, "recv") /\ r.buf = {} /\ r.due = {}
    BY <1>3, <1>9 DEF LsEnd, LsRead
  <2>2. "" \in Texts
    BY DEF Texts
  <2>3. PICK p \in Packets : p.type = "EOT" /\ toC'[w] = Append(toC[w], p)
    BY <2>1, <2>2, OpenReply
  <2>4. Coming(w)' = Coming(w)
    BY <2>3, ComingGrows
  <2>5. IsListing(c, d, all)
    BY <1>6, <2>1 DEF IsListing
  <2>6. IsListing(c, d, all)'
    BY <2>5, ListingStays
  <2>7. all = got'[c] \cup Coming(w)'
    BY <1>4, <2>4
  <2>8. wpc'[w] = "recv"
    BY <2>1, Goes
  <2> QED
    BY <2>6, <2>7, <2>8 DEF Listed, IsListing
<1> QED
  BY <1>2, <1>8, <1>9

\* The step of the client's thread.
LEMMA TruthThread ==
  ASSUME TypeOK, Seen, NEW c \in Clients, NEW w \in Conns, ThreadStep(w), up', link[w] = "open", DiskOK(w),
         Current(c, w), Truth(c, w), SameClient(c), Observe, ~FailedCall(w)
  PROVE  Truth(c, w)'
<1>1. /\ cpc'[c] = cpc[c] /\ req'[c] = req[c] /\ got'[c] = got[c] /\ Asked(c)' = Asked(c)
  BY DEF SameClient, Asked
<1>2. ASSUME cpc[c] \in {"reply", "get", "ls"}
      PROVE  View \in views[c] /\ View' \in views'[c] /\ views[c] \subseteq views'[c]
  BY <1>1, <1>2, ViewsGrow DEF Seen
\* The command has not been read.
<1>3. ASSUME cpc[c] \in {"reply", "ls"}, Behind(w, <<Asked(c)>>)
      PROVE  /\ toC'[w] = <<>>
             /\ wpc'[w] \notin {"stat_again", "exists", "fail", "rm", "rm_failed", "ls"}
  <2>1. PICK p : p = Asked(c)
    OBVIOUS
  <2>2. p \in Incoming /\ p.type = "REQU"
    <3>1. toS[w] = <<p>> \/ toS[w] = <<PutEot>> \o <<p>> \/ toS[w] = <<PutData, PutEot>> \o <<p>>
      BY <1>3, <2>1 DEF Behind
    <3>2. toS[w] \in Seq(Incoming)
      BY DEF TypeOK, NetTypes
    <3>3. p \in Incoming
      BY <3>1, <3>2, AtTheEnd
    <3> QED
      BY <2>1, <3>3 DEF Asked, Pkt
  <2>3. <<p>> \in Seq(Incoming) /\ <<p>> # <<>> /\ Head(<<p>>) = p
    BY <2>2
  <2>4. \/ Behind(w, <<p>>)'
        \/ toC'[w] = <<>> /\ wpc'[w] = Dispatch(p)
    BY <1>3, <2>1, <2>3, BehindStep
  <2>5. Dispatch(p) \notin {"stat_again", "exists", "fail", "rm", "rm_failed", "ls"}
    <3>1. Dispatch(p) = Execute(p.id) /\ p.id \in Commands
      BY <2>2, HeldCommand DEF Incoming
    <3> QED
      BY <3>1 DEF Execute, Commands
  <2> QED
    BY <2>4, <2>5 DEF Behind
\* The rest of GET.
<1>7. ASSUME cpc[c] \in {"reply", "get"}, Fetched(c, w), NEW x, GetTail(w, x), toS[w] = <<>>
      PROVE  Fetched(c, w)'
  <2>1. wpc[w] # "null"
    BY ThreadAt DEF NullFile, Dies
  <2>2. req[c].id = "GET" => Was(c, req[c].arg)
    BY <1>7, <2>1 DEF Fetched
  <2>3. \A f : Was(c, f) => Was(c, f)'
    BY <1>1, <1>2, <1>7, StaysTrue
  <2> QED
    BY <1>1, <2>2, <2>3 DEF Fetched
<1>4. CASE cpc[c] = "reply"
  <2>1. (Awaited(c, w) \/ Replied(c, w)) /\ req[c].id \in Commands
    BY <1>4 DEF Current, Commands
  <2>2. CASE Behind(w, <<Asked(c)>>)
    <3>1. ~Replied(c, w)' /\ Found(c, w)'
      BY <1>3, <1>4, <2>2 DEF Replied, Found
    <3> QED
      BY <1>1, <1>4, <3>1 DEF Truth
  <2>3. CASE Working(c, w)
    <3>1. Found(c, w)
      BY <1>4, <2>3 DEF Truth
    <3>2. /\ Working(c, w)' => Found(c, w)'
          /\ Replied(c, w)' => TrueText(c, Head(toC[w]).text)' /\ Fetched(c, w)'
      BY <1>4, <2>3, <3>1, WorkingTruth
    <3> QED
      BY <1>1, <1>4, <3>2 DEF Truth
  <2>4. CASE Replied(c, w)
    <3>1. toS[w] = <<>> /\ toC[w] # <<>>
      BY <2>4 DEF Replied
    <3>2. wpc[w] \notin {"recv", "put_recv", "put_null"}
      BY <3>1, Idle
    <3>3. req[c].id = "GET" /\ GetTail(w, Tail(toC[w]))
      BY <2>1, <2>4, <3>2 DEF Replied
    <3>4. TrueText(c, Head(toC[w]).text)'
      BY <1>1, <3>3 DEF TrueText
    <3>5. PICK s : s = Tail(toC[w])
      OBVIOUS
    <3>6. PICK p \in Packets : toC'[w] = Append(toC[w], p)
      BY <3>1, <3>3, <3>5, GetTailStep
    <3>7. toC'[w] # <<>>
      BY <3>6, AppendProperties DEF TypeOK, NetTypes
    <3>8. ~Working(c, w)'
      BY <3>7 DEF Working
    <3>9. Fetched(c, w)'
      <4>1. Fetched(c, w)
        BY <1>4, <2>4 DEF Truth
      <4>2. GetTail(w, s)
        BY <3>3, <3>5
      <4> QED
        BY <1>4, <1>7, <3>1, <4>1, <4>2
    <3> QED
      BY <1>1, <1>4, <3>4, <3>8, <3>9 DEF Truth
  <2> QED
    BY <2>1, <2>2, <2>3, <2>4 DEF Awaited
<1>5. CASE cpc[c] = "ls"
  <2>1. req[c].id = "LS" /\ (Awaited(c, w) \/ Entering(w))
    BY <1>5 DEF Current
  <2>2. CASE Behind(w, <<Asked(c)>>)
    <3>1. got[c] = {}
      BY <1>5, <2>2 DEF Truth, Awaited
    <3>2. ~Entering(w)'
      BY <1>3, <1>5, <2>2 DEF Entering
    <3> QED
      BY <1>1, <1>5, <3>1, <3>2 DEF Truth
  <2>3. CASE Working(c, w)
    <3>1. got[c] = {}
      BY <1>5, <2>3 DEF Truth, Awaited
    <3>2. LsOpen(w) /\ toC[w] = <<>>
      <4>1. wpc[w] = "opendir"
        BY <2>1, <2>3 DEF Working, Work
      <4> QED
        BY <2>3, <4>1, ThreadAt DEF Working, FailedCall, LsNull, Dies
    <3>3. /\ StreamTrue(c, list[w])' /\ list'[w].buf = {} /\ list'[w].read = {}
          /\ toC'[w] = <<>> /\ wpc'[w] = "ls"
      BY <1>2, <1>5, <3>2, OpensTrue, Goes DEF LsOpen
    <3>4. Coming(w)' = {}
      <4>1. ToSet(<<>>) = {}
        <5>1. <<>> \in Seq(Packets)
          OBVIOUS
        <5> QED
          BY <5>1, ToSetFacts
      <4> QED
        BY <3>3, <4>1 DEF Coming
    <3>5. Listed(c, w)'
      BY <1>1, <3>1, <3>3, <3>4 DEF Listed
    <3> QED
      BY <1>1, <1>5, <3>1, <3>5 DEF Truth
  <2>4. CASE Entering(w)
    <3>1. Listed(c, w)'
      BY <1>1, <1>2, <1>5, <2>4, ListedStep DEF Truth
    <3>2. wbuf[w].id = "LS" /\ wpc[w] = "ls" /\ toS[w] = <<>>
      BY <2>4, Idle DEF Entering
    <3>3. toC'[w] # <<>>
      <4>1. LsEntry(w) \/ LsEnd(w)
        BY <3>2, ThreadAt
      <4>2. \E text \in Texts, type \in {"DATA", "EOT"} : Respond(w, type, text)
        BY <4>1, LsSteps DEF TypeOK
      <4>3. PICK p \in Packets : toC'[w] = Append(toC[w], p)
        BY <4>2, OpenReply
      <4> QED
        BY <4>3, AppendProperties DEF TypeOK, NetTypes
    <3>4. ~Awaited(c, w)'
      BY <3>3 DEF Awaited, Behind, Working
    <3> QED
      BY <1>1, <1>5, <3>1, <3>4 DEF Truth
  <2> QED
    BY <2>1, <2>2, <2>3, <2>4 DEF Awaited
<1>6. CASE cpc[c] = "get"
  <2>1. GetTail(w, toC[w]) /\ toS[w] = <<>>
    BY <1>6 DEF Current
  <2>2. Fetched(c, w)'
    BY <1>6, <1>7, <2>1 DEF Truth
  <2> QED
    BY <1>1, <1>6, <2>2 DEF Truth
<1>8. CASE cpc[c] \notin {"reply", "get", "ls"}
  BY <1>1, <1>8 DEF Truth
<1> QED
  BY <1>4, <1>5, <1>6, <1>8

\* The client asks: nothing has been answered yet.
LEMMA TruthRequest ==
  ASSUME TypeOK, NEW c \in Clients, NEW w \in Conns, up, HasConn(c), w = Conn(c), Current(c, w), Request(c)
  PROVE  Truth(c, w)'
<1>1. cpc[c] = "prompt" /\ got' = [got EXCEPT ![c] = {}] /\ toC' = toC /\ wpc' = wpc
  BY DEF Request, Gives, At, workerVars
<1>2. got'[c] = {}
  BY <1>1 DEF TypeOK, ClientTypes
<1>3. PICK r \in Requests : SendS(c, Pkt("REQU", r.id, r.arg))
  BY DEF Request
<1>4. PICK p : p = Pkt("REQU", r.id, r.arg)
  OBVIOUS
<1>5. p \in Incoming /\ toS'[w] = Append(toS[w], p)
  BY <1>3, <1>4, Sends, ClientPackets
<1>6. toS'[w] # <<>>
  <2>1. PICK S, s : S = Incoming /\ s = toS[w]
    OBVIOUS
  <2>2. s \in Seq(S) /\ p \in S
    BY <1>5, <2>1 DEF TypeOK, NetTypes
  <2>3. Append(s, p) # <<>>
    BY <2>2, Appended
  <2> QED
    BY <1>5, <2>1, <2>3
<1>7. ~Working(c, w)' /\ ~Replied(c, w)' /\ ~Entering(w)'
  BY <1>6 DEF Working, Replied, Entering
<1>8. cpc'[c] # "get"
  BY DEF Request, CGoto, TypeOK, ClientTypes
<1> QED
  BY <1>2, <1>7, <1>8 DEF Truth

\* The client takes an entry: it is listed, and no longer on its way.
LEMMA TruthListing ==
  ASSUME TypeOK, NEW c \in Clients, NEW w \in Conns, up, HasConn(c), w = Conn(c), Current(c, w), Truth(c, w),
         Listing(c), Observe
  PROVE  Truth(c, w)'
<1>1. /\ cpc[c] = "ls" /\ Recv(c) /\ wpc' = wpc /\ list' = list /\ toS' = toS /\ req' = req /\ wbuf' = wbuf
      /\ IF cbuf'[c].type = "EOT" THEN cpc'[c] = "prompt"
         ELSE /\ cpc' = cpc
              /\ got' = IF IsReply(c, "DATA") THEN [got EXCEPT ![c] = @ \cup {cbuf'[c].text}] ELSE got
  BY DEF Listing, At, Answer, CGoto, workerVars, TypeOK, ClientTypes
<1>2. toC[w] # <<>> /\ cbuf'[c] = Head(toC[w]) /\ toC'[w] = Tail(toC[w])
  BY <1>1, Takes
<1>3. Entering(w) /\ req[c].id = "LS"
  BY <1>1, <1>2 DEF Current, Awaited, Behind, Working
<1>4. PICK s \in Seq(Packets) : s = toC[w]
  BY DEF TypeOK, NetTypes
<1>5. PICK p : p = Head(s)
  OBVIOUS
<1>6. s # <<>> /\ cbuf'[c] = p /\ toC'[w] = Tail(s) /\ p = s[1] /\ 1 \in 1..Len(s)
  BY <1>2, <1>4, <1>5, TailFacts
<1>7. CASE p.type = "EOT"
  BY <1>1, <1>6, <1>7 DEF Truth
<1>8. CASE p.type # "EOT"
  <2>1. p.id = "LS" /\ p.type = "DATA"
    BY <1>3, <1>4, <1>6, <1>8 DEF Entering
  <2>2. cpc'[c] = "ls" /\ got'[c] = got[c] \cup {p.text}
    BY <1>1, <1>3, <1>6, <2>1 DEF IsReply, TypeOK, ClientTypes
  <2>3. ToSet(s) = {p} \cup ToSet(Tail(s))
    BY <1>5, <1>6, ToSetFacts
  <2>4. Coming(w) = {p.text} \cup Coming(w)'
    BY <1>4, <1>6, <2>1, <2>3 DEF Coming
  <2>5. views[c] \subseteq views'[c] /\ View' \in views'[c]
    BY <1>1, <2>2, ViewsGrow
  <2>6. PICK all : all = got[c] \cup Coming(w)
    OBVIOUS
  <2>7. all = got'[c] \cup Coming(w)'
    BY <2>2, <2>4, <2>6
  <2>8. Listed(c, w)'
    <3>1. Listed(c, w)
      BY <1>1, <1>3 DEF Truth
    <3>2. ASSUME wpc[w] = "ls"
          PROVE  StreamTrue(c, list[w])' /\ all \cup list'[w].buf = list'[w].read
      <4>1. StreamTrue(c, list[w]) /\ all \cup list[w].buf = list[w].read
        BY <2>6, <3>1, <3>2 DEF Listed
      <4>2. StreamKept(w)
        BY <1>1 DEF StreamKept
      <4> QED
        BY <1>1, <2>5, <4>1, <4>2, StreamStays
    <3>3. ASSUME wpc[w] = "recv"
          PROVE  \E d \in Dirs : IsListing(c, d, all)'
      <4>1. PICK d \in Dirs : IsListing(c, d, all)
        BY <2>6, <3>1, <3>3 DEF Listed
      <4>2. IsListing(c, d, all)'
        BY <1>1, <2>5, <4>1, ListingStays
      <4> QED
        BY <4>2
    <3> QED
      BY <1>1, <2>7, <3>2, <3>3 DEF Listed, IsListing
  <2>9. ~Awaited(c, w)'
    <3>1. toS'[w] = <<>> /\ wpc'[w] \in {"ls", "recv"} /\ req'[c].id = "LS"
      BY <1>1, <1>3 DEF Entering
    <3>2. PICK q : q = Asked(c)'
      OBVIOUS
    <3>3. <<>> # <<q>>
      OBVIOUS
    <3> QED
      BY <3>1, <3>2, <3>3 DEF Awaited, Behind, Working, Work
  <2> QED
    BY <2>2, <2>8, <2>9 DEF Truth
<1> QED
  BY <1>7, <1>8

\* Any step of the client that leaves it with a connection.
LEMMA TruthClient ==
  ASSUME TypeOK, NEW c \in Clients, NEW k \in 1..MaxConnects, conn'[c] = k, up, ClientStep(c), Observe,
         conn[c] = k => Current(c, <<c, k>>) /\ Truth(c, <<c, k>>)
  PROVE  Truth(c, <<c, k>>)'
<1>1. PICK w : w = <<c, k>>
  OBVIOUS
<1>2. w \in Conns /\ k > 0
  BY <1>1 DEF Conns
<1>3. conn[c] = k => HasConn(c) /\ w = Conn(c)
  BY <1>1, <1>2 DEF HasConn, Conn
<1>4. CASE Request(c) \/ Listing(c)
  <2>1. conn[c] = k
    BY <1>4 DEF Request, Listing
  <2> QED
    BY <1>1, <1>2, <1>3, <1>4, <2>1, TruthRequest, TruthListing
<1>6. CASE Reply(c) \/ Download(c)
  <2>1. /\ wpc' = wpc /\ req' = req /\ conn' = conn
        /\ cpc[c] \in {"reply", "get"} /\ Recv(c)
        /\ cpc'[c] \in {"get", "put", "prompt"}
    BY <1>6 DEF Reply, Download, At, Answer, CGoto, workerVars, IsReply, TypeOK, ClientTypes
  <2>4. conn[c] = k
    BY <2>1
  <2>2. CASE cpc'[c] # "get"
    BY <1>1, <2>1, <2>2 DEF Truth
  <2>3. CASE cpc'[c] = "get"
    <3>1. toC[w] # <<>>
      BY <1>3, <2>1, <2>4, Takes
    <3>2. Fetched(c, w)
      BY <1>1, <1>6, <2>1, <2>3, <2>4, <3>1 DEF Current, Truth, Awaited, Behind, Working
    <3>3. views[c] \subseteq views'[c]
      BY <2>1, ViewsGrow
    <3>4. Fetched(c, w)'
      BY <2>1, <3>2, <3>3, StaysTrue DEF Fetched
    <3> QED
      BY <1>1, <2>3, <3>4 DEF Truth
  <2> QED
    BY <2>2, <2>3
<1>5. CASE ~Request(c) /\ ~Listing(c) /\ ~Reply(c) /\ ~Download(c)
  <2>1. cpc'[c] \notin {"reply", "get", "ls"}
    <3>1. ~ConnectExits(c) /\ ~ClientSigpipe(c) /\ ~ListingEnds(c)
      BY DEF ConnectExits, ClientSigpipe, ListingEnds
    <3>2. \A q : CGoto(c, q) => cpc'[c] = q
      BY DEF CGoto, TypeOK, ClientTypes
    <3>3. CASE Connect(c) \/ ConnectFails(c) \/ Refused(c) \/ NotSent(c) \/ Exit(c) \/ Kill(c) \/ ListingSplit(c)
      BY <3>2, <3>3 DEF Connect, ConnectFails, Refused, NotSent, Exit, Kill, ListingSplit, Answer, Ends
    <3>4. CASE Greeting(c)
      BY <3>2, <3>4 DEF Greeting, Answer, At
    <3>5. CASE UploadData(c) \/ UploadEot(c)
      BY <3>2, <3>5 DEF UploadData, UploadEot, Answer
    <3> QED
      BY <1>5, <3>1, <3>3, <3>4, <3>5 DEF ClientStep, ClientWork
  <2> QED
    BY <2>1 DEF Truth
<1> QED
  BY <1>4, <1>5, <1>6

\* A command under way has seen the directory as it is.
LEMMA SeenStep ==
  ASSUME Next PROVE Seen'
<1>1. Observe
  BY DEF Next
<1> QED
  BY <1>1, ViewsGrow DEF Seen

\* A client reads no directory.
LEMMA ClientStreams ==
  ASSUME NEW c \in Clients, ClientStep(c)
  PROVE  list' = list
BY DEF ClientStep, ClientWork, Connect, ConnectFails, ConnectExits, Refused, Request, NotSent, Exit, ClientSigpipe,
   ListingSplit, Kill, Greeting, Reply, Download, UploadData, UploadEot, Listing, ListingEnds, workerVars

\* Every step keeps what is said to the clients true.
LEMMA TruthsStep ==
  ASSUME TypeOK, Sockets, Talks, Seen, Truths, Next
  PROVE  Truths'
<1> SUFFICES ASSUME up', NEW d \in Clients \ (full' \cup failed'), NEW k \in 1..MaxConnects, conn'[d] = k
             PROVE  Truth(d, <<d, k>>)'
  BY DEF Truths
<1>1. Observe
  BY DEF Next
<1>2. d \in Clients \ full /\ ~DiskFull(d)' /\ \A l \in 1..MaxConnects : DiskOK(<<d, l>>)
  BY <1>1, Remembers
<1>3. PICK w : w = <<d, k>>
  OBVIOUS
<1>4. w \in Conns /\ k \in Nat /\ k > 0
  BY <1>3 DEF Conns
<1>5. ASSUME up, conn[d] = k
      PROVE  /\ Truth(d, w)
             /\ cpc[d] # "done" => link[w] = "open" /\ Current(d, w)
  <2>1. SocketsOf(d)
    BY <1>2 DEF Sockets
  <2>2. connects[d] = k /\ k \in 1..k
    BY <1>4, <1>5, <2>1 DEF SocketsOf
  <2>3. Talk(d, k)
    BY <1>2, <1>5, <2>2 DEF Talks
  <2>4. cpc[d] # "done" => link[w] = "open"
    BY <1>3, <2>1 DEF SocketsOf
  <2>5. cpc[d] # "done" => Current(d, w)
    BY <1>3, <1>5, <2>3 DEF Talk
  <2>6. Truth(d, w)
    <3>1. CASE d \notin failed
      BY <1>2, <1>3, <1>5, <3>1 DEF Truths
    <3>2. CASE d \in failed
      <4>1. cpc[d] = "prompt"
        BY <1>1, <1>2, <3>2 DEF Observe, Begins, At
      <4> QED
        BY <4>1 DEF Truth
    <3> QED
      BY <3>1, <3>2
  <2> QED
    BY <2>4, <2>5, <2>6
<1>6. cpc[d] = "done" => Current(d, w) /\ Truth(d, w)
  BY DEF Current, Truth
<1>7. ASSUME NEW c \in Clients, ClientStep(c)
      PROVE  Truth(d, w)'
  <2>1. up
    BY <1>7, ClientLeaves
  <2>2. CASE d = c
    BY <1>1, <1>2, <1>3, <1>5, <1>6, <1>7, <2>1, <2>2, TruthClient
  <2>3. CASE d # c
    <3>1. SameClient(d) /\ SameConn(w)
      BY <1>2, <1>3, <1>7, <2>3, ClientElsewhere
    <3>2. conn[d] = k /\ cpc'[d] = cpc[d]
      BY <3>1 DEF SameClient
    <3>3. StreamKept(w)
      BY <1>7, ClientStreams DEF StreamKept
    <3>4. /\ cpc[d] # "prompt" => views[d] \subseteq views'[d]
          /\ cpc[d] \notin {"prompt", "done"} => View' \in views'[d]
      BY <1>1, <1>2, <3>2, ViewsGrow
    <3> QED
      BY <1>2, <1>4, <1>5, <2>1, <3>1, <3>2, <3>3, <3>4, TruthFrame
  <2> QED
    BY <2>2, <2>3
<1>8. ASSUME NEW v \in Conns, ThreadStep(v) \/ Sigpipe(v)
      PROVE  Truth(d, w)'
  <2>1. ThreadStep(v)
    BY <1>8 DEF Sigpipe, Dies
  <2>2. up
    BY <2>1, ThreadAt
  <2>3. SameClient(d) /\ \A x \in Conns \ {v} : SameConn(x)
    BY <1>2, <1>8, ThreadElsewhere
  <2>4. conn[d] = k /\ cpc'[d] = cpc[d]
    BY <2>3 DEF SameClient
  <2>5. CASE v = w /\ cpc[d] # "done"
    <3>1. DiskOK(w) /\ ~FailedCall(w)
      BY <1>1, <1>2, <1>3 DEF Observe
    <3> QED
      BY <1>1, <1>2, <1>4, <1>5, <2>1, <2>2, <2>3, <2>4, <2>5, <3>1, TruthThread
  <2>6. CASE v # w
    <3>1. StreamKept(w)
      BY <1>4, <2>1, <2>6, OtherStreams
    <3>2. /\ cpc[d] # "prompt" => views[d] \subseteq views'[d]
          /\ cpc[d] \notin {"prompt", "done"} => View' \in views'[d]
      BY <1>1, <1>2, <2>4, ViewsGrow
    <3> QED
      BY <1>2, <1>4, <1>5, <2>2, <2>3, <2>4, <2>6, <3>1, <3>2, TruthFrame
  <2>7. CASE cpc[d] = "done"
    BY <2>4, <2>7 DEF Truth
  <2> QED
    BY <2>5, <2>6, <2>7
<1>9. Truth(d, w)'
  BY <1>7, <1>8 DEF Next
<1> QED
  BY <1>3, <1>9

\* At the beginning nothing has been asked.
LEMMA TruthsInit ==
  ASSUME Init PROVE Seen /\ Truths
<1>1. \A c \in Clients : cpc[c] = "prompt" /\ conn[c] = 0
  BY DEF Init
<1>2. \A k \in 1..MaxConnects : k # 0
  OBVIOUS
<1> QED
  BY <1>1, <1>2 DEF Seen, Truths

\* AnswerJustified, for one client.
Justly(c) ==
  cpc[c] = "prompt" /\ answer[c].type \in {"INF", "DATA", "EOT"} =>
    /\ answer[c].id = req[c].id
    /\ TrueText(c, answer[c].text)
    /\ req[c].id = "GET" => Was(c, req[c].arg)
    /\ req[c].id = "LS" => \E d \in Dirs : IsListing(c, d, got[c])

Justified == up => \A c \in Clients \ (full \cup failed) : Justly(c)

\* The property, from its parts.
LEMMA JustifiedIs ==
  Justified => AnswerJustified
<1> SUFFICES ASSUME Justified, NEW c \in Clients, At(c, "prompt"), answer[c].type \in {"INF", "DATA", "EOT"},
                    up, c \notin full \cup failed
             PROVE  /\ answer[c].id = req[c].id
                    /\ req[c].id = "PWD" => \E v \in views[c] : v.dir = answer[c].text
                    /\ req[c].id = "CD" /\ answer[c].text = "command success" =>
                         \E v \in views[c] : v.dir = Target(req[c].arg)
                    /\ req[c].id = "LS" =>
                         \E v \in views[c] :
                           /\ got[c] \subseteq UNION { u.names[v.dir] : u \in views[c] }
                           /\ \A f \in Names : (\A u \in views[c] : f \in u.names[v.dir]) => f \in got[c]
                    /\ req[c].id \in {"GET", "MKDIR"} \/ (req[c].id = "RM" /\ answer[c].text # "failed") =>
                         \E v \in views[c] : req[c].arg \in v.names[v.dir]
                    /\ req[c].id = "RM" => \E v \in views[c] : req[c].arg \notin v.names[v.dir]
  BY DEF AnswerJustified
<1>1. Justly(c)
  BY DEF Justified
<1>2. answer[c].id = req[c].id /\ TrueText(c, answer[c].text)
  BY <1>1 DEF Justly, At
<1>3. req[c].id = "GET" => Was(c, req[c].arg)
  BY <1>1 DEF Justly, At
<1>4. ASSUME req[c].id = "LS"
      PROVE  \E v \in views[c] :
               /\ got[c] \subseteq UNION { u.names[v.dir] : u \in views[c] }
               /\ \A f \in Names : (\A u \in views[c] : f \in u.names[v.dir]) => f \in got[c]
  <2>1. PICK d \in Dirs : IsListing(c, d, got[c])
    BY <1>1, <1>4 DEF Justly, At
  <2>2. PICK v \in views[c] : v.dir = d
    BY <2>1 DEF IsListing, WasDir
  <2>3. /\ got[c] \subseteq UNION { u.names[d] : u \in views[c] }
        /\ \A f \in Names : (\A u \in views[c] : f \in u.names[d]) => f \in got[c]
    BY <2>1 DEF IsListing, Ever, IsAlways
  <2> QED
    BY <2>2, <2>3
<1> QED
  BY <1>2, <1>3, <1>4 DEF TrueText, Was, WasNot

\* The end of the listing: all the entries of one view have come.
LEMMA ListingJustly ==
  ASSUME TypeOK, NEW c \in Clients, NEW w \in Conns, up, HasConn(c), w = Conn(c), Current(c, w), Truth(c, w),
         Listing(c), Observe, cpc'[c] = "prompt"
  PROVE  Justly(c)'
<1>1. /\ cpc[c] = "ls" /\ Recv(c) /\ req' = req
      /\ cbuf'[c].type # "EOT" => cpc' = cpc
      /\ cbuf'[c].type = "EOT" => Answer(c, cbuf'[c]) /\ got' = got
  BY DEF Listing, At
<1>2. cbuf'[c].type = "EOT" /\ answer'[c] = cbuf'[c] /\ got' = got
  BY <1>1 DEF Answer, TypeOK, ClientTypes
<1>3. toC[w] # <<>> /\ cbuf'[c] = Head(toC[w])
  BY <1>1, Takes
<1>4. Entering(w) /\ req[c].id = "LS" /\ Listed(c, w)
  BY <1>1, <1>3 DEF Current, Awaited, Behind, Working, Truth
<1>5. PICK s \in Seq(Packets) : s = toC[w]
  BY DEF TypeOK, NetTypes
<1>6. PICK p : p = Head(s)
  OBVIOUS
<1>7. /\ s # <<>> /\ answer'[c] = p /\ p = s[1] /\ 1 \in 1..Len(s)
      /\ Tail(s) = <<>> <=> Len(s) = 1
      /\ Len(s) \in Nat
  BY <1>2, <1>3, <1>5, <1>6, TailFacts
<1>8. p.id = "LS" /\ p.type = "EOT"
  BY <1>2, <1>4, <1>5, <1>7 DEF Entering
<1>9. wpc[w] = "recv" /\ Len(s) = 1
  BY <1>4, <1>5, <1>7, <1>8 DEF Entering
<1>10. Coming(w) = {}
  <2>1. ToSet(s) = {p} \cup ToSet(Tail(s)) /\ ToSet(<<>>) = {}
    BY <1>6, <1>7, ToSetFacts
  <2>2. ToSet(s) = {p}
    BY <1>7, <1>9, <2>1
  <2> QED
    BY <1>5, <1>8, <2>2 DEF Coming
<1>12. \E d \in Dirs : IsListing(c, d, got[c])'
  <2>1. views'[c] = views[c]
    BY ViewsGrow
  <2>2. PICK d \in Dirs : IsListing(c, d, got[c] \cup Coming(w))
    BY <1>4, <1>9 DEF Listed
  <2>3. IsListing(c, d, got[c])
    BY <1>10, <2>2
  <2>4. PICK x : x = got[c]
    OBVIOUS
  <2>5. IsListing(c, d, x)'
    BY <1>1, <2>1, <2>3, <2>4, ListingStays
  <2>6. IsListing(c, d, got[c])'
    BY <1>2, <2>4, <2>5 DEF IsListing
  <2> QED
    BY <2>6
<1>13. TrueText(c, answer[c].text)'
  BY <1>1, <1>4 DEF TrueText
<1> QED
  BY <1>1, <1>4, <1>7, <1>8, <1>12, <1>13 DEF Justly

\* Any other step of the client back to its prompt.
LEMMA OwnJustly ==
  ASSUME TypeOK, NEW c \in Clients, Alone(c), up, up', ClientStep(c), Observe, cpc'[c] = "prompt",
         HasConn(c) => Current(c, Conn(c)) /\ Truth(c, Conn(c))
  PROVE  Justly(c)'
<1>1. /\ \A q : CGoto(c, q) => cpc'[c] = q
      /\ \A p : Answer(c, p) => cpc'[c] = "prompt" /\ answer'[c] = p
  BY DEF CGoto, Answer, TypeOK, ClientTypes
<1>2. ASSUME answer'[c].type \notin {"INF", "DATA", "EOT"}
      PROVE  Justly(c)'
  BY <1>2 DEF Justly
<1>3. CASE ConnectFails(c) \/ Refused(c) \/ NotSent(c)
  <2>1. \E id, text : Answer(c, Pkt("", id, text))
    BY <1>3 DEF ConnectFails, Refused, NotSent
  <2>2. answer'[c].type = ""
    <3>1. PICK id, text : Answer(c, Pkt("", id, text))
      BY <2>1
    <3>2. PICK p : p = Pkt("", id, text)
      OBVIOUS
    <3>3. p.type = ""
      BY <3>2 DEF Pkt
    <3> QED
      BY <1>1, <3>1, <3>2, <3>3
  <2> QED
    BY <1>2, <2>2
\* What the connection owes.
<1>4. ASSUME HasConn(c)
      PROVE  Conn(c) \in Conns
  BY <1>4, ConnInUse DEF TypeOK
<1>5. ASSUME cpc[c] \in {"greet", "get", "put", "put_eot", "ls"}, ~HasConn(c)
      PROVE  cpc[c] = "ls"
  <2>1. conn[c] \in {-1, 0}
    <3>1. conn[c] \in -1..MaxConnects /\ ~(conn[c] > 0) /\ MaxConnects \in Nat
      BY <1>5, SessionAssumption DEF HasConn, TypeOK, ClientTypes
    <3> QED
      BY <3>1
  <2> QED
    BY <1>5, <2>1 DEF Alone
<1>6. CASE Listing(c)
  BY <1>4, <1>6, ListingJustly DEF Listing
\* An answer to a command of which nothing is told but its name.
<1>7. ASSUME NEW p \in Packets, answer'[c] = p, p.id = req[c].id, req' = req, req[c].id \in {"CONNECT", "GET", "PUT"},
             req[c].id = "GET" => Was(c, req[c].arg)'
      PROVE  Justly(c)'
  <2>1. TrueText(c, answer[c].text)'
    BY <1>7 DEF TrueText
  <2> QED
    BY <1>7, <2>1 DEF Justly
<1>8. CASE Greeting(c)
  <2>1. cpc[c] = "greet" /\ Recv(c) /\ answer'[c] = cbuf'[c] /\ req' = req
    BY <1>1, <1>8 DEF Greeting, At
  <2>2. HasConn(c)
    BY <1>5, <2>1
  <2>3. PICK w \in Conns : w = Conn(c)
    BY <1>4, <2>2
  <2>4. toC[w] # <<>> /\ cbuf'[c] = Head(toC[w])
    BY <2>1, <2>2, <2>3, Takes
  <2>5. req[c].id = "CONNECT" /\ toC[w] = <<Pkt("INF", "CONNECT", "welcome")>>
    BY <2>1, <2>2, <2>3, <2>4 DEF Current
  <2>6. PICK p : p = Pkt("INF", "CONNECT", "welcome")
    OBVIOUS
  <2>7. p.id = "CONNECT" /\ answer'[c] = p
    BY <2>1, <2>4, <2>5, <2>6, ShortTails DEF Pkt
  <2>8. p \in Packets
    BY <2>6 DEF Pkt, Packets, Types, Ids, Texts
  <2> QED
    BY <1>7, <2>1, <2>5, <2>7, <2>8
<1>9. CASE Reply(c)
  <2>1. cpc[c] = "reply" /\ Recv(c) /\ req' = req
    BY <1>9 DEF Reply, At
  <2>2. answer'[c] = cbuf'[c]
    <3>1. ~CGoto(c, "get") /\ ~CGoto(c, "put")
      BY <1>1
    <3> QED
      BY <1>1, <1>9, <3>1 DEF Reply
  <2>3. CASE HasConn(c)
    <3>1. PICK w \in Conns : w = Conn(c)
      BY <1>4, <2>3
    <3>2. toC[w] # <<>> /\ answer'[c] = Head(toC[w])
      BY <2>1, <2>2, <2>3, <3>1, Takes
    <3>3. Current(c, w) /\ Truth(c, w)
      BY <2>3, <3>1
    <3>4. Replied(c, w) /\ req[c].id # "LS"
      BY <2>1, <3>2, <3>3 DEF Current, Awaited, Behind, Working
    <3>5. TrueText(c, Head(toC[w]).text)
      BY <2>1, <3>3, <3>4 DEF Truth
    <3>6. Head(toC[w]).id = req[c].id
      BY <3>4 DEF Replied
    <3>7. views'[c] = views[c]
      BY ViewsGrow
    <3>8. PICK p : p = Head(toC[w])
      OBVIOUS
    <3>9. answer'[c] = p /\ p.id = req'[c].id /\ TrueText(c, p.text)
      BY <2>1, <3>2, <3>5, <3>6, <3>8
    <3>10. TrueText(c, p.text)'
      BY <2>1, <3>7, <3>9, StaysTrue
    <3>11. TrueText(c, answer[c].text)'
      BY <3>9, <3>10 DEF TrueText
    <3>12. req[c].id = "GET" => Was(c, req[c].arg)'
      <4>1. ASSUME req[c].id = "GET"
            PROVE  FALSE
        <5>1. p.type = "INF" /\ cbuf'[c] = p
          BY <2>2, <3>4, <3>8, <3>9, <4>1 DEF Replied
        <5>2. IsReply(c, "INF")
          BY <3>9, <2>1, <5>1 DEF IsReply
        <5>3. CGoto(c, "get")
          BY <1>9, <4>1, <5>2 DEF Reply
        <5> QED
          BY <1>1, <5>3
      <4> QED
        BY <4>1
    <3> QED
      BY <2>1, <3>4, <3>9, <3>11, <3>12 DEF Justly
  <2>4. CASE ~HasConn(c)
    <3>1. conn[c] \in {-1, 0}
      <4>1. conn[c] \in -1..MaxConnects /\ ~(conn[c] > 0) /\ MaxConnects \in Nat
        BY <2>4, SessionAssumption DEF HasConn, TypeOK, ClientTypes
      <4> QED
        BY <4>1
    <3>2. cbuf[c].type = "REQU"
      BY <2>1, <3>1 DEF Alone
    <3>3. answer'[c].type = "REQU"
      BY <2>1, <2>2, <2>4, <3>2, Takes
    <3> QED
      BY <1>2, <3>3
  <2> QED
    BY <2>3, <2>4
<1>10. CASE Download(c)
  <2>1. cpc[c] = "get" /\ Recv(c) /\ req' = req
    BY <1>10 DEF Download, At
  <2>2. answer'[c] = cbuf'[c] \/ answer'[c] = Pkt("", "GET", "write error")
    BY <1>1, <1>10, <2>1 DEF Download
  <2>3. PICK w \in Conns : HasConn(c) /\ w = Conn(c)
    BY <1>4, <1>5, <2>1
  <2>4. toC[w] # <<>> /\ cbuf'[c] = Head(toC[w])
    BY <2>1, <2>3, Takes
  <2>5. req[c].id = "GET" /\ GetTail(w, toC[w])
    BY <2>1, <2>3 DEF Current
  <2>6. PICK d, e : d = Pkt("DATA", "GET", "") /\ e = Pkt("EOT", "GET", "")
    OBVIOUS
  <2>7. toC[w] = <<d>> \/ toC[w] = <<e>> \/ toC[w] = <<d, e>>
    BY <2>4, <2>5, <2>6 DEF GetTail
  <2>8. cbuf'[c] = d \/ cbuf'[c] = e
    BY <2>4, <2>7, ShortTails
  <2>9. d.id = "GET" /\ e.id = "GET" /\ d \in Packets /\ e \in Packets
    BY <2>6 DEF Pkt, Packets, Types, Ids, Texts
  <2>10. Pkt("", "GET", "write error").type = ""
    BY DEF Pkt
  <2>11. CASE answer'[c] = cbuf'[c]
    <3>1. wpc[w] # "null"
      <4>1. <<d>> # <<>> /\ <<e>> # <<>> /\ <<d, e>> # <<>>
        OBVIOUS
      <4> QED
        BY <2>4, <2>5 DEF GetTail
    <3>2. Was(c, req[c].arg)
      BY <2>1, <2>3, <2>5, <3>1 DEF Truth, Fetched
    <3>3. views'[c] = views[c]
      BY ViewsGrow
    <3>4. Was(c, req[c].arg)'
      BY <2>1, <3>2, <3>3 DEF Was
    <3> QED
      BY <1>7, <2>1, <2>5, <2>8, <2>9, <2>11, <3>4
  <2>12. CASE answer'[c] = Pkt("", "GET", "write error")
    BY <1>2, <2>10, <2>12
  <2> QED
    BY <2>2, <2>11, <2>12
<1>11. CASE UploadEot(c)
  <2>1. cpc[c] \in {"put", "put_eot"} /\ req' = req /\ answer'[c] = Pkt("EOT", "PUT", "")
    BY <1>1, <1>11 DEF UploadEot, At
  <2>2. PICK w \in Conns : HasConn(c) /\ w = Conn(c)
    BY <1>4, <1>5, <2>1
  <2>3. req[c].id = "PUT"
    BY <2>1, <2>2 DEF Current
  <2>4. PICK p : p = Pkt("EOT", "PUT", "")
    OBVIOUS
  <2>5. p \in Packets /\ p.id = "PUT"
    BY <2>4 DEF Pkt, Packets, Types, Ids, Texts
  <2> QED
    BY <1>7, <2>1, <2>3, <2>4, <2>5
<1>12. /\ ~Connect(c) /\ ~ConnectExits(c) /\ ~Request(c) /\ ~Exit(c) /\ ~ClientSigpipe(c) /\ ~ListingSplit(c)
       /\ ~Kill(c) /\ ~UploadData(c) /\ ~ListingEnds(c)
  <2>1. ~CGoto(c, "greet") /\ ~CGoto(c, "done") /\ ~CGoto(c, "lost") /\ ~CGoto(c, "put_eot")
        /\ ~CGoto(c, "ls") /\ ~CGoto(c, "reply")
    BY <1>1
  <2>2. ~Request(c)
    BY <1>1 DEF Request
  <2> QED
    BY <2>1, <2>2 DEF Connect, ConnectExits, Exit, ClientSigpipe, ListingSplit, Kill, UploadData, ListingEnds, Ends
<1> QED
  BY <1>3, <1>6, <1>8, <1>9, <1>10, <1>11, <1>12 DEF ClientStep, ClientWork

\* A client that has its answer keeps it, whatever the others do; a new one is true.
LEMMA JustifiedStep ==
  ASSUME TypeOK, Talks, Sockets, Truths, Justified, Next
  PROVE  Justified'
<1> SUFFICES ASSUME up', NEW d \in Clients \ (full' \cup failed'), cpc'[d] = "prompt"
             PROVE  Justly(d)'
  BY DEF Justified, Justly
<1>1. Observe
  BY DEF Next
<1>2. d \in Clients \ (full \cup failed)
  BY <1>1, Remembers DEF Observe, Begins
<1>3. ASSUME SameClient(d), up
      PROVE  Justly(d)'
  <2>1. cpc[d] = "prompt" /\ req'[d] = req[d] /\ got'[d] = got[d] /\ answer'[d] = answer[d]
    BY <1>3 DEF SameClient
  <2>2. Justly(d) /\ views'[d] = views[d]
    BY <1>1, <1>2, <1>3, ViewsGrow DEF Justified
  <2>3. PICK t : t = answer[d].text
    OBVIOUS
  <2>4. TrueText(d, t) => TrueText(d, t)'
    BY <1>2, <2>1, <2>2, StaysTrue
  <2>5. TrueText(d, answer[d].text) => TrueText(d, answer[d].text)'
    BY <2>1, <2>3, <2>4 DEF TrueText
  <2> QED
    BY <2>1, <2>2, <2>5 DEF Justly, Was, IsListing, WasDir, Ever, IsAlways
<1>4. ASSUME NEW c \in Clients, ClientStep(c)
      PROVE  Justly(d)'
  <2>1. up
    BY <1>4, ClientLeaves
  <2>2. CASE d = c
    <3>1. Alone(c)
      BY <1>2, <2>1, <2>2 DEF Talks
    <3>2. ASSUME HasConn(c)
          PROVE  Current(c, Conn(c)) /\ Truth(c, Conn(c))
      <4>1. PICK k : k = conn[c]
        OBVIOUS
      <4>2. k \in 1..MaxConnects /\ Conn(c) = <<c, k>> /\ k > 0
        BY <3>2, <4>1, ConnInUse DEF TypeOK, Conn, HasConn
      <4>3. Truth(c, <<c, k>>)
        BY <1>2, <2>1, <2>2, <4>1, <4>2 DEF Truths
      <4>4. connects[c] = k
        BY <4>1, <4>2 DEF Sockets, SocketsOf
      <4>5. Talk(c, k)
        <5>1. k \in 1..connects[c]
          BY <4>2, <4>4
        <5> QED
          BY <1>2, <2>1, <2>2, <5>1 DEF Talks
      <4>6. cpc[c] # "done" => Current(c, <<c, k>>)
        BY <4>1, <4>5 DEF Talk
      <4>7. cpc[c] = "done" => Current(c, <<c, k>>)
        BY DEF Current
      <4> QED
        BY <4>2, <4>3, <4>6, <4>7
    <3> QED
      BY <1>1, <1>4, <2>1, <2>2, <3>1, <3>2, OwnJustly
  <2>3. CASE d # c
    BY <1>2, <1>3, <1>4, <2>1, <2>3, ClientElsewhere
  <2> QED
    BY <2>2, <2>3
<1>5. ASSUME NEW v \in Conns, ThreadStep(v) \/ Sigpipe(v)
      PROVE  Justly(d)'
  <2>1. ThreadStep(v)
    BY <1>5 DEF Sigpipe, Dies
  <2>2. up
    BY <2>1, ThreadAt
  <2> QED
    BY <1>2, <1>3, <1>5, <2>2, ThreadElsewhere
<1> QED
  BY <1>4, <1>5 DEF Next

\* The truth of what is answered and listed so far, and of the answers given.
AnswersInv == Seen /\ Truths /\ Justified

\* Whatever the other clients do to the shared directory, an answer was true at some
\* moment of its command.
THEOREM AnswersAreJustified == Spec => []AnswerJustified
<1>1. Init => AnswersInv
  <2>1. Init => Justified
    <3>1. ASSUME Init, NEW c \in Clients
          PROVE  Justly(c)
      <4>1. answer[c] = Pkt("", "", "")
        BY <3>1 DEF Init
      <4>2. PICK p : p = Pkt("", "", "")
        OBVIOUS
      <4>3. p.type = ""
        BY <4>2 DEF Pkt
      <4> QED
        BY <4>1, <4>2, <4>3 DEF Justly
    <3> QED
      BY <3>1 DEF Justified
  <2> QED
    BY <2>1, TruthsInit DEF AnswersInv
<1>2. SessionInv /\ AnswersInv /\ [Next]_vars => AnswersInv'
  <2> SUFFICES ASSUME SessionInv, AnswersInv, [Next]_vars PROVE AnswersInv'
    OBVIOUS
  <2> USE DEF SessionInv
  <2>1. CASE Next
    BY <2>1, SeenStep, TruthsStep, JustifiedStep DEF AnswersInv
  <2>2. CASE UNCHANGED vars
    <3>1. /\ \A c \in Clients : SameClient(c) /\ \A k \in 1..MaxConnects : SameConn(<<c, k>>)
          /\ views' = views /\ up' = up /\ full' = full /\ failed' = failed /\ View' = View /\ list' = list
      BY <2>2 DEF vars, clientVars, workerVars, SameClient, SameConn, View, Entries
    <3>2. Seen'
      BY <3>1 DEF Seen, AnswersInv, SameClient
    <3>3. Truths'
      <4> SUFFICES ASSUME up', NEW c \in Clients \ (full' \cup failed'), NEW k \in 1..MaxConnects, conn'[c] = k
                   PROVE  Truth(c, <<c, k>>)'
        BY DEF Truths
      <4>1. PICK w \in Conns : w = <<c, k>>
        BY DEF Conns
      <4>2. SameClient(c) /\ SameConn(w) /\ c \in Clients
        BY <3>1, <4>1
      <4>3. Truth(c, w)
        BY <3>1, <4>1, <4>2 DEF AnswersInv, Truths, SameClient
      <4>4. StreamKept(w) /\ (cpc[c] \notin {"prompt", "done"} => View' \in views'[c])
        BY <3>1, <4>2 DEF StreamKept, Seen, AnswersInv
      <4> QED
        BY <3>1, <4>1, <4>2, <4>3, <4>4, TruthFrame
    <3>4. Justified'
      <4> SUFFICES ASSUME up', NEW c \in Clients \ (full' \cup failed')
                   PROVE  Justly(c)'
        BY DEF Justified
      <4>1. /\ cpc'[c] = cpc[c] /\ req'[c] = req[c] /\ got'[c] = got[c] /\ answer'[c] = answer[c]
            /\ views'[c] = views[c] /\ c \in Clients
        BY <3>1 DEF SameClient
      <4>2. Justly(c)
        BY <3>1 DEF AnswersInv, Justified
      <4> QED
        BY <4>1, <4>2 DEF Justly, TrueText, Was, WasNot, IsListing, WasDir, Ever, IsAlways
    <3> QED
      BY <3>2, <3>3, <3>4 DEF AnswersInv
  <2> QED
    BY <2>1, <2>2
<1>3. AnswersInv => AnswerJustified
  BY JustifiedIs DEF AnswersInv
<1> QED
  BY <1>1, <1>2, <1>3, SessionInvariant, PTL DEF Spec

=============================================================================
