----------------------------- MODULE FtpSession -----------------------------
(***************************************************************************)
(* Sessions of the CLI clients with the FTP server, one thread per         *)
(* connection: ftp-server/cli_ftp_client.c (ftp_execute_command),          *)
(* ftp-server/ftp-server.c (client_thread, execute_commands) and the       *)
(* packet functions of ftp-server/utils.c.                                 *)
(*                                                                         *)
(* The threads share the process: its working directory, the files, and    *)
(* its life. A client sends one command at a time and takes the next       *)
(* packets on its connection for the answer. FtpTransfer has the contents  *)
(* of a transfer; here it is its packets, at most one of them data.        *)
(***************************************************************************)
EXTENDS Integers, Sequences, FiniteSets, SequencesExt

CONSTANTS
  Clients,       \* CLI processes
  Dirs,          \* directories of the server
  Names,         \* names of files and directories below them
  Env,           \* HOME and OLDPWD of the server, by the path that stands for them
  MaxConnects,   \* bound: CONNECT commands of a client
  MaxCommands,   \* bound: commands of a client
  Faults         \* faults that may happen: subset of FaultKinds

FaultKinds == {"kill", "disk_full", "split", "syscall"}
Null == "NULL"

ASSUME SessionAssumption ==
  /\ Dirs # {} /\ IsFiniteSet(Names)
  /\ Env \in [{"~", "-"} -> Dirs \cup {Null}]
  /\ MaxConnects \in Nat \ {0} /\ MaxCommands \in Nat
  /\ Faults \subseteq FaultKinds

VARIABLES
  cpc,        \* per client: where ftp_execute_command is
  req,        \* per client: the command it executes
  cbuf,       \* per client: the packet in client_data
  conn,       \* per client: connected (0: not yet, -1: the last connect failed)
  connects,   \* per client: connections made
  count,      \* per client: commands given
  got,        \* per client: entries listed by LS
  answer,     \* history, per client: what the last command returned
  views,      \* history, per client: what the directory was during the command
  up,         \* the server process runs
  cwd,        \* its working directory
  tree,       \* what every name is
  wpc,        \* per connection: where client_thread is
  wbuf,       \* per connection: the packet in data
  tmp,        \* per connection: the bytes in the memory of temp_buffer
  list,       \* per connection: the directory stream of LS
  link,       \* per connection: what the server's socket knows of its peer
  toS, toC,   \* per connection: packets on their way
  full,       \* history: clients whose transfer met a full disk
  failed,     \* history: clients in whose command a system call failed
  reason      \* history: why the server process ended

clientVars == <<cpc, req, cbuf, conn, connects, count, got, answer>>
workerVars == <<wpc, wbuf, tmp, list>>
vars == <<clientVars, views, full, failed, up, cwd, tree, workerVars, link, toS, toC, reason>>

Conns == Clients \X (1..MaxConnects)
Types == {"INF", "REQU", "TERM", "DATA", "EOT"}
Pkt(type, id, text) == [type |-> type, id |-> id, text |-> text]

Paths == Dirs \cup {"~", "-", "nowhere"}
\* The commands that are sent, with their argument.
Requests ==
  [id : {"PWD", "LS"}, arg : {""}] \cup
  [id : {"MKDIR", "RM", "GET", "PUT"}, arg : Names] \cup
  [id : {"CD"}, arg : Paths]

Entries(t, d) == { f \in Names : t[d, f] # "none" }
View == [dir |-> cwd, names |-> [d \in Dirs |-> Entries(tree, d)]]

\* A directory stream: its directory, the names read from it, those of them that
\* readdir has still to return, and those that are there since opendir but not read.
Streams == [dir : Dirs \cup {Null}, read : SUBSET Names, buf : SUBSET Names, due : SUBSET Names]
Closed == [dir |-> Null, read |-> {}, buf |-> {}, due |-> {}]
Opened(d) == [dir |-> d, read |-> {}, buf |-> {}, due |-> Entries(tree, d)]

Init ==
  /\ cpc = [c \in Clients |-> "prompt"]
  /\ req = [c \in Clients |-> [id |-> "", arg |-> ""]]
  /\ cbuf = [c \in Clients |-> Pkt("REQU", "", "")]
  /\ conn = [c \in Clients |-> 0]
  /\ connects = [c \in Clients |-> 0]
  /\ count = [c \in Clients |-> 0]
  /\ got = [c \in Clients |-> {}]
  /\ answer = [c \in Clients |-> Pkt("", "", "")]
  /\ views = [c \in Clients |-> {}]
  /\ full = {} /\ failed = {}
  /\ up = TRUE
  /\ cwd = CHOOSE d \in Dirs : TRUE
  /\ tree = [x \in Dirs \X Names |-> "none"]
  /\ wpc = [w \in Conns |-> "none"]
  /\ wbuf = [w \in Conns |-> Pkt("", "", "")]
  /\ tmp = [w \in Conns |-> "garbage"]
  /\ list = [w \in Conns |-> Closed]
  /\ link = [w \in Conns |-> "open"]
  /\ toS = [w \in Conns |-> <<>>]
  /\ toC = [w \in Conns |-> <<>>]
  /\ reason = "none"

-----------------------------------------------------------------------------
(* The client: ftp_execute_command.                                        *)

Conn(c) == <<c, conn[c]>>
HasConn(c) == conn[c] > 0

\* send on the socket connected: nothing reaches a server that is gone, and
\* there is no socket -1.
SendS(c, p) == toS' = IF HasConn(c) /\ up THEN [toS EXCEPT ![Conn(c)] = Append(@, p)]
                                          ELSE toS

At(c, p) == cpc[c] = p
CGoto(c, p) == cpc' = [cpc EXCEPT ![c] = p]
Answer(c, p) == /\ CGoto(c, "prompt")
                /\ answer' = [answer EXCEPT ![c] = p]

\* The client's sockets are closed, with a reset when there are unread replies
\* or when replies arrive later.
Ends(c) ==
  /\ CGoto(c, "done")
  /\ \E unread \in {"rst", "pipe"} :
       link' = [w \in Conns |-> IF w[1] # c \/ w[2] > connects[c] THEN link[w]
                               ELSE IF toC[w] # <<>> THEN unread ELSE "fin"]
  /\ toC' = [w \in Conns |-> IF w[1] = c THEN <<>> ELSE toC[w]]

\* The next command line.
Gives(c) == /\ At(c, "prompt")
            /\ count[c] < MaxCommands
            /\ count' = [count EXCEPT ![c] = @ + 1]

\* CONNECT reaches the server's listening socket.
Connect(c) ==
  /\ Gives(c)
  /\ up
  /\ connects[c] < MaxConnects
  /\ connects' = [connects EXCEPT ![c] = @ + 1]
  /\ conn' = [conn EXCEPT ![c] = connects[c] + 1]
  /\ req' = [req EXCEPT ![c] = [id |-> "CONNECT", arg |-> ""]]
  /\ wpc' = [wpc EXCEPT ![<<c, connects[c] + 1>>] = "connecting"]
  /\ CGoto(c, "greet")
  /\ UNCHANGED <<cbuf, got, answer, up, cwd, tree, wbuf, tmp, list, link, toS, toC, reason>>

\* CONNECT to a badly formatted address.
ConnectFails(c) ==
  /\ Gives(c)
  /\ conn' = [conn EXCEPT ![c] = -1]
  /\ Answer(c, Pkt("", "CONNECT", "failed"))
  /\ UNCHANGED <<req, cbuf, connects, got, up, cwd, tree, workerVars, link, toS, toC, reason>>

\* CONNECT while the server is gone: exit(1).
ConnectExits(c) ==
  /\ Gives(c)
  /\ ~up
  /\ Ends(c)
  /\ UNCHANGED <<req, cbuf, conn, connects, got, answer, up, cwd, tree, workerVars, toS, reason>>

\* if (!connected): every other command is refused.
Refused(c) ==
  /\ Gives(c)
  /\ conn[c] = 0
  /\ \E id \in {"PWD", "EXIT"} : Answer(c, Pkt("", id, "refused"))
  /\ UNCHANGED <<req, cbuf, conn, connects, got, up, cwd, tree, workerVars, link, toS, toC, reason>>

\* A command is sent. GET and PUT have opened the local file.
Request(c) ==
  /\ Gives(c)
  /\ conn[c] # 0
  /\ \E r \in Requests :
       /\ req' = [req EXCEPT ![c] = r]
       /\ cbuf' = [cbuf EXCEPT ![c] = Pkt("REQU", r.id, r.arg)]
       /\ SendS(c, Pkt("REQU", r.id, r.arg))
       /\ CGoto(c, IF r.id = "LS" THEN "ls" ELSE "reply")
  /\ got' = [got EXCEPT ![c] = {}]
  /\ UNCHANGED <<conn, connects, answer, up, cwd, tree, workerVars, link, toC, reason>>

\* A local file cannot be opened, or RM has no argument: nothing is sent.
NotSent(c) ==
  /\ Gives(c)
  /\ conn[c] # 0
  /\ \E id \in {"GET", "PUT", "RM"} : Answer(c, Pkt("", id, "not sent"))
  /\ UNCHANGED <<req, cbuf, conn, connects, got, up, cwd, tree, workerVars, link, toS, toC, reason>>

\* EXIT, and CD or MKDIR without an argument, whose strcpy(NULL) ends the process.
Exit(c) ==
  /\ Gives(c)
  /\ conn[c] # 0
  /\ \/ SendS(c, Pkt("TERM", "", ""))
     \/ toS' = toS
  /\ Ends(c)
  /\ answer' = [answer EXCEPT ![c] = Pkt("", "EXIT", "")]
  /\ UNCHANGED <<req, cbuf, conn, connects, got, up, cwd, tree, workerVars, reason>>

\* A send to a server that is gone raises SIGPIPE.
ClientSigpipe(c) ==
  /\ ~up
  /\ Gives(c) \/ (cpc[c] \in {"put", "put_eot"} /\ count' = count)
  /\ HasConn(c)
  /\ Ends(c)
  /\ UNCHANGED <<req, cbuf, conn, connects, got, answer, up, cwd, tree, workerVars, toS, reason>>

\* recv_data. It fails only when the server is gone or there is no socket; the
\* packet is then the old one.
Recv(c) ==
  IF HasConn(c) /\ toC[Conn(c)] # <<>>
  THEN /\ cbuf' = [cbuf EXCEPT ![c] = Head(toC[Conn(c)])]
       /\ toC' = [toC EXCEPT ![Conn(c)] = Tail(@)]
  ELSE /\ ~up \/ ~HasConn(c)
       /\ UNCHANGED <<cbuf, toC>>

\* The greeting after CONNECT: it is only logged.
Greeting(c) ==
  /\ At(c, "greet")
  /\ Recv(c)
  /\ Answer(c, cbuf'[c])
  /\ UNCHANGED <<req, conn, connects, count, got, up, cwd, tree, workerVars, link, toS, reason>>

IsReply(c, type) == cbuf'[c].type = type /\ cbuf'[c].id = req[c].id

\* The reply, or the INF packet that starts a transfer.
Reply(c) ==
  /\ At(c, "reply")
  /\ Recv(c)
  /\ IF req[c].id \in {"GET", "PUT"} /\ IsReply(c, "INF")
     THEN CGoto(c, IF req[c].id = "GET" THEN "get" ELSE "put") /\ answer' = answer
     ELSE Answer(c, cbuf'[c])
  /\ UNCHANGED <<req, conn, connects, count, got, up, cwd, tree, workerVars, link, toS, reason>>

\* The loop of GET: write the data packets, stop at any other.
Download(c) ==
  /\ At(c, "get")
  /\ Recv(c)
  /\ IF cbuf'[c].type = "DATA"
     THEN \/ UNCHANGED <<cpc, answer>>
          \/ "disk_full" \in Faults /\ Answer(c, Pkt("", "GET", "write error"))
     ELSE Answer(c, cbuf'[c])
  /\ UNCHANGED <<req, conn, connects, count, got, up, cwd, tree, workerVars, link, toS, reason>>

\* The loop of PUT: the local file is empty or one packet long.
UploadData(c) ==
  /\ At(c, "put")
  /\ SendS(c, Pkt("DATA", "PUT", ""))
  /\ CGoto(c, "put_eot")
  /\ UNCHANGED <<req, cbuf, conn, connects, count, got, answer, up, cwd, tree, workerVars, link, toC, reason>>

\* end_of_transfer: PUT does not wait for an answer.
UploadEot(c) ==
  /\ At(c, "put") \/ At(c, "put_eot")
  /\ SendS(c, Pkt("EOT", "PUT", ""))
  /\ Answer(c, Pkt("EOT", "PUT", ""))
  /\ UNCHANGED <<req, cbuf, conn, connects, count, got, up, cwd, tree, workerVars, link, toC, reason>>

\* The loop of LS, one recv for each packet.
Listing(c) ==
  /\ At(c, "ls")
  /\ HasConn(c)
  /\ toC[Conn(c)] # <<>>
  /\ Recv(c)
  /\ IF cbuf'[c].type = "EOT"
     THEN Answer(c, cbuf'[c]) /\ got' = got
     ELSE /\ got' = IF IsReply(c, "DATA") THEN [got EXCEPT ![c] = @ \cup {cbuf'[c].text}] ELSE got
          /\ UNCHANGED <<cpc, answer>>
  /\ UNCHANGED <<req, conn, connects, count, up, cwd, tree, workerVars, link, toS, reason>>

\* The one recv returns a part of a packet: the client is out of step with the
\* stream for good, and is not followed any further.
ListingSplit(c) ==
  /\ "split" \in Faults
  /\ At(c, "ls")
  /\ HasConn(c)
  /\ toC[Conn(c)] # <<>>
  /\ CGoto(c, "lost")
  /\ UNCHANGED <<req, cbuf, conn, connects, count, got, answer, up, cwd, tree, workerVars, link, toS, toC, reason>>

\* recv returned 0. On the socket -1 it returns -1, and the loop never ends.
ListingEnds(c) ==
  /\ At(c, "ls")
  /\ HasConn(c) /\ ~up
  /\ toC[Conn(c)] = <<>>
  /\ Answer(c, Pkt("", "LS", "read error"))
  /\ UNCHANGED <<req, cbuf, conn, connects, count, got, up, cwd, tree, workerVars, link, toS, toC, reason>>

\* The client is killed, between any two steps.
Kill(c) ==
  /\ "kill" \in Faults
  /\ ~At(c, "done")
  /\ Ends(c)
  /\ answer' = [answer EXCEPT ![c] = Pkt("", "killed", "")]
  /\ UNCHANGED <<req, cbuf, conn, connects, count, got, up, cwd, tree, workerVars, toS, reason>>

-----------------------------------------------------------------------------
(* The server: client_thread.                                              *)

WAt(w, p) == up /\ wpc[w] = p
WGoto(w, p) == wpc' = [wpc EXCEPT ![w] = p]

\* A send. To a peer that closed, it is lost; the answer to it is a reset.
SendC(w, ps) ==
  \/ /\ link[w] = "open"
     /\ toC' = [toC EXCEPT ![w] = @ \o ps]
     /\ link' = link
  \/ /\ link[w] # "open"
     /\ \E l \in {link[w], "pipe"} : link' = [link EXCEPT ![w] = l]
     /\ toC' = toC

Dies(why) == up' = FALSE /\ reason' = why

\* ... and a send after a reset raises SIGPIPE: the process ends.
Sending == {"term", "bye", "pwd", "ls", "get", "data", "eot", "put", "mkdir", "exists", "fail",
            "cd", "rm", "rm_failed"}

Sigpipe(w) ==
  /\ up
  /\ wpc[w] \in Sending
  /\ link[w] = "pipe"
  /\ Dies("sigpipe")
  /\ UNCHANGED <<clientVars, cwd, tree, workerVars, link, toS, toC>>

\* accept, pthread_create, and the first packet of the thread.
Accept(w) ==
  /\ WAt(w, "connecting")
  /\ SendC(w, <<Pkt("INF", "CONNECT", "welcome")>>)
  /\ wbuf' = [wbuf EXCEPT ![w] = Pkt("INF", "CONNECT", "welcome")]
  /\ WGoto(w, "recv")
  /\ UNCHANGED <<clientVars, up, cwd, tree, tmp, list, toS, reason>>

Execute(id) ==
  CASE id = "PWD" -> "pwd" [] id = "LS" -> "opendir" [] id = "GET" -> "get" [] id = "PUT" -> "put"
    [] id = "MKDIR" -> "stat" [] id = "CD" -> "cd" [] id = "RM" -> "rm_stat"

\* What client_thread does with a packet.
Dispatch_NoTerm(p) == IF p.type = "REQU" THEN Execute(p.id) ELSE "term"
Dispatch(p) == IF p.type = "TERM" THEN "bye"
               ELSE IF p.type = "REQU" THEN Execute(p.id) ELSE "term"

ThreadRecv(w) ==
  /\ WAt(w, "recv")
  /\ toS[w] # <<>>
  /\ wbuf' = [wbuf EXCEPT ![w] = Head(toS[w])]
  /\ toS' = [toS EXCEPT ![w] = Tail(@)]
  /\ WGoto(w, Dispatch(Head(toS[w])))
  /\ UNCHANGED <<clientVars, up, cwd, tree, tmp, list, link, toC, reason>>

\* recv returned 0: recv_data returns -1, and the thread says TERM and ends.
ThreadEof(w) ==
  /\ WAt(w, "recv")
  /\ toS[w] = <<>>
  /\ link[w] \in {"fin", "pipe"}
  /\ WGoto(w, "bye")
  /\ UNCHANGED <<clientVars, up, cwd, tree, wbuf, tmp, list, link, toS, toC, reason>>

\* recv returned -1, as a size_t: recv_data returns 0 and the old packet counts.
ThreadReset(w) ==
  /\ WAt(w, "recv")
  /\ toS[w] = <<>>
  /\ link[w] = "rst"
  /\ link' = [link EXCEPT ![w] = "pipe"]
  /\ WGoto(w, Dispatch(wbuf[w]))
  /\ UNCHANGED <<clientVars, up, cwd, tree, wbuf, tmp, list, toS, toC, reason>>

\* terminate_connection, in the loop or before the thread ends.
Terminate(w) ==
  /\ WAt(w, "term") \/ WAt(w, "bye")
  /\ wbuf' = [wbuf EXCEPT ![w].type = "TERM"]
  /\ SendC(w, <<[wbuf[w] EXCEPT !.type = "TERM"]>>)
  /\ WGoto(w, IF wpc[w] = "bye" THEN "ended" ELSE "recv")
  /\ UNCHANGED <<clientVars, up, cwd, tree, tmp, list, toS, reason>>

-----------------------------------------------------------------------------
(* The server: execute_commands. What another thread can do between two    *)
(* calls on the file system is a step between them here.                   *)

Arg(w) == wbuf[w].text
File(w) == <<cwd, Arg(w)>>

\* The packet becomes the reply, and is sent.
Respond(w, type, text) ==
  /\ wbuf' = [wbuf EXCEPT ![w] = Pkt(type, @.id, text)]
  /\ SendC(w, <<Pkt(type, wbuf[w].id, text)>>)

Pwd(w) ==
  /\ WAt(w, "pwd")
  /\ Respond(w, "DATA", cwd)
  /\ tmp' = [tmp EXCEPT ![w] = cwd]
  /\ WGoto(w, "recv")
  /\ UNCHANGED <<clientVars, up, cwd, tree, list, toS, reason>>

\* When getcwd fails, the reply is what temp_buffer held before.
PwdFails(w) ==
  /\ WAt(w, "pwd")
  /\ "syscall" \in Faults
  /\ \E t \in {tmp[w], "garbage"} \ {cwd} : /\ Respond(w, "DATA", t)
                                           /\ tmp' = [tmp EXCEPT ![w] = t]
  /\ WGoto(w, "recv")
  /\ UNCHANGED <<clientVars, up, cwd, tree, list, toS, reason>>

\* LS: getcwd, and opendir of what it found.
LsOpen(w) ==
  /\ WAt(w, "opendir")
  /\ list' = [list EXCEPT ![w] = Opened(cwd)]
  /\ tmp' = [tmp EXCEPT ![w] = cwd]
  /\ WGoto(w, "ls")
  /\ UNCHANGED <<clientVars, up, cwd, tree, wbuf, link, toS, toC, reason>>

\* getcwd fails, and opendir is given an older path.
LsAstray(w) ==
  /\ WAt(w, "opendir")
  /\ "syscall" \in Faults
  /\ tmp[w] \in Dirs \ {cwd}
  /\ list' = [list EXCEPT ![w] = Opened(tmp[w])]
  /\ WGoto(w, "ls")
  /\ UNCHANGED <<clientVars, up, cwd, tree, wbuf, tmp, link, toS, toC, reason>>

\* opendir fails: readdir(NULL).
LsNull(w) ==
  /\ WAt(w, "opendir")
  /\ "syscall" \in Faults
  /\ Dies("null")
  /\ UNCHANGED <<clientVars, cwd, tree, workerVars, link, toS, toC>>

\* What a stream can be when readdir looks into its buffer: the empty buffer was
\* filled from the directory as it is now. A name that came or went since opendir
\* may be read or not.
Filled(s) ==
  IF s.buf # {} THEN {s}
  ELSE { [s EXCEPT !.read = @ \cup b, !.buf = b, !.due = @ \ b] :
           b \in SUBSET (Entries(tree, s.dir) \ s.read) }

\* readdir returns an entry, which is sent. The other threads go on between two.
LsEntry(w) ==
  /\ WAt(w, "ls")
  /\ \E s \in Filled(list[w]) : \E n \in s.buf :
       /\ Respond(w, "DATA", n)
       /\ list' = [list EXCEPT ![w] = [s EXCEPT !.buf = @ \ {n}]]
  /\ UNCHANGED <<clientVars, up, cwd, tree, wpc, tmp, toS, reason>>

LsRead(w) == list[w].buf = {} /\ list[w].due = {}

LsEnd_NoEot(w) ==
  /\ WAt(w, "ls")
  /\ LsRead(w)
  /\ list' = [list EXCEPT ![w] = Closed]
  /\ WGoto(w, "recv")
  /\ UNCHANGED <<clientVars, up, cwd, tree, wbuf, tmp, link, toS, toC, reason>>

LsEnd_AnotherEot(w) ==
  /\ WAt(w, "ls")
  /\ LsRead(w)
  /\ list' = [list EXCEPT ![w] = Closed]
  /\ Respond(w, "EOT", "")
  /\ WGoto(w, "eot")
  /\ UNCHANGED <<clientVars, up, cwd, tree, tmp, toS, reason>>

\* readdir returns NULL: end_of_transfer.
LsEnd(w) ==
  /\ WAt(w, "ls")
  /\ LsRead(w)
  /\ list' = [list EXCEPT ![w] = Closed]
  /\ Respond(w, "EOT", "")
  /\ WGoto(w, "recv")
  /\ UNCHANGED <<clientVars, up, cwd, tree, tmp, toS, reason>>

\* fopen fails for a missing name only.
GetOpen(w) ==
  /\ WAt(w, "get")
  /\ Respond(w, "INF", IF tree[File(w)] = "none" THEN "error" ELSE "found")
  /\ WGoto(w, CASE tree[File(w)] = "none" -> "null" [] tree[File(w)] = "file" -> "data"
                [] tree[File(w)] = "dir" -> "eot")
  /\ UNCHANGED <<clientVars, up, cwd, tree, tmp, list, toS, reason>>

\* The file is one packet long: an empty one sends its EOT at once, as a directory does.
GetData(w) ==
  /\ WAt(w, "data")
  /\ Respond(w, "DATA", "")
  /\ WGoto(w, "eot")
  /\ UNCHANGED <<clientVars, up, cwd, tree, tmp, list, toS, reason>>

GetEot(w) ==
  /\ WAt(w, "eot")
  /\ Respond(w, "EOT", "")
  /\ WGoto(w, "recv")
  /\ UNCHANGED <<clientVars, up, cwd, tree, tmp, list, toS, reason>>

\* fopen for writing creates the file, and fails for a directory.
PutOpen(w) ==
  /\ WAt(w, "put")
  /\ IF tree[File(w)] = "dir"
     THEN WGoto(w, "put_null") /\ Respond(w, "INF", "error") /\ tree' = tree
     ELSE /\ WGoto(w, "put_recv")
          /\ Respond(w, "INF", "created")
          /\ tree' = [tree EXCEPT ![File(w)] = "file"]
  /\ UNCHANGED <<clientVars, up, cwd, tmp, list, toS, reason>>

\* The loop of PUT. recv_data's result is not used: without a packet the old one
\* counts, and a DATA packet is written again.
PutRecv(w) ==
  /\ WAt(w, "put_recv")
  /\ \/ /\ toS[w] # <<>>
        /\ wbuf' = [wbuf EXCEPT ![w] = Head(toS[w])]
        /\ toS' = [toS EXCEPT ![w] = Tail(@)]
        /\ link' = link
     \/ /\ toS[w] = <<>>
        /\ link[w] # "open"
        /\ link' = [link EXCEPT ![w] = IF @ = "rst" THEN "pipe" ELSE @]
        /\ UNCHANGED <<wbuf, toS>>
  /\ \/ wbuf'[w].type = "DATA" /\ wpc' = wpc
     \/ wbuf'[w].type = "DATA" /\ "disk_full" \in Faults /\ WGoto(w, "recv")
     \/ wbuf'[w].type # "DATA" /\ WGoto(w, "recv")
  /\ UNCHANGED <<clientVars, up, cwd, tree, tmp, list, toC, reason>>

\* fclose(NULL), or fwrite and fclose after the next packet.
NullFile(w) ==
  /\ \/ WAt(w, "null")
     \/ WAt(w, "put_null") /\ (toS[w] # <<>> \/ link[w] # "open")
  /\ Dies("null")
  /\ UNCHANGED <<clientVars, cwd, tree, workerVars, link, toS, toC>>

\* MKDIR: the first stat.
MkdirStat(w) ==
  /\ WAt(w, "stat")
  /\ WGoto(w, IF tree[File(w)] = "none" THEN "mkdir" ELSE "stat_again")
  /\ UNCHANGED <<clientVars, up, cwd, tree, wbuf, tmp, list, link, toS, toC, reason>>

\* mkdir; the reply is "success" whatever it returns.
MkdirSuccess(w) ==
  /\ WAt(w, "mkdir")
  /\ tmp' = [tmp EXCEPT ![w] = "success"]
  /\ Respond(w, "INF", "success")
  /\ WGoto(w, "recv")
  /\ UNCHANGED <<clientVars, up, cwd, list, toS, reason>>

\* It makes the directory, or finds the name taken since the stat.
Mkdir(w) ==
  /\ MkdirSuccess(w)
  /\ tree' = IF tree[File(w)] = "none" THEN [tree EXCEPT ![File(w)] = "dir"] ELSE tree

\* It fails for another reason.
MkdirRefused(w) ==
  /\ MkdirSuccess(w)
  /\ "syscall" \in Faults
  /\ tree[File(w)] = "none"
  /\ tree' = tree

\* The second stat. "Directory already exists" is overwritten with temp_buffer,
\* which this call has not written.
MkdirExists(w) ==
  /\ WAt(w, "stat_again")
  /\ tree[File(w)] # "none"
  /\ WGoto(w, "exists")
  /\ UNCHANGED <<clientVars, up, cwd, tree, wbuf, tmp, list, link, toS, toC, reason>>

MkdirReplyExists(w) ==
  /\ WAt(w, "exists")
  /\ \E t \in {tmp[w], "garbage"} : Respond(w, "INF", t)
  /\ WGoto(w, "recv")
  /\ UNCHANGED <<clientVars, up, cwd, tree, tmp, list, toS, reason>>

\* It is gone since the first stat: "fail".
MkdirFails(w) ==
  /\ WAt(w, "stat_again")
  /\ tree[File(w)] = "none"
  /\ WGoto(w, "fail")
  /\ UNCHANGED <<clientVars, up, cwd, tree, wbuf, tmp, list, link, toS, toC, reason>>

MkdirReplyFail(w) ==
  /\ WAt(w, "fail")
  /\ Respond(w, "INF", "fail")
  /\ tmp' = [tmp EXCEPT ![w] = "fail"]
  /\ WGoto(w, "recv")
  /\ UNCHANGED <<clientVars, up, cwd, tree, list, toS, reason>>

Target(path) == IF path \in {"~", "-"} THEN Env[path] ELSE path

Cd_KeepsCwd(w) ==
  /\ WAt(w, "cd")
  /\ Target(Arg(w)) \in Dirs \cup {"nowhere"}
  /\ cwd' = cwd
  /\ Respond(w, "INF", IF Target(Arg(w)) \in Dirs THEN "command success" ELSE "incorrect path")
  /\ WGoto(w, "recv")
  /\ UNCHANGED <<clientVars, up, tree, tmp, list, toS, reason>>

Cd(w) ==
  /\ WAt(w, "cd")
  /\ Target(Arg(w)) \in Dirs \cup {"nowhere"}
  /\ cwd' = IF Target(Arg(w)) \in Dirs THEN Target(Arg(w)) ELSE cwd
  /\ Respond(w, "INF", IF Target(Arg(w)) \in Dirs THEN "command success" ELSE "incorrect path")
  /\ WGoto(w, "recv")
  /\ UNCHANGED <<clientVars, up, tree, tmp, list, toS, reason>>

\* strcpy of a getenv that found nothing.
CdNull(w) ==
  /\ WAt(w, "cd")
  /\ Target(Arg(w)) = Null
  /\ Dies("null")
  /\ UNCHANGED <<clientVars, cwd, tree, workerVars, link, toS, toC>>

RmStat(w) ==
  /\ WAt(w, "rm_stat")
  /\ WGoto(w, IF tree[File(w)] = "none" THEN "rm_failed" ELSE "rm")
  /\ UNCHANGED <<clientVars, up, cwd, tree, wbuf, tmp, list, link, toS, toC, reason>>

\* remove, in the directory that is the working directory now; the reply is
\* "command success" whatever it returns.
RmSuccess(w) ==
  /\ WAt(w, "rm")
  /\ Respond(w, "INF", "command success")
  /\ WGoto(w, "recv")
  /\ UNCHANGED <<clientVars, up, cwd, tmp, toS, reason>>

\* It removes the name, if it is still there. No stream has to return it any more.
Rm(w) ==
  /\ RmSuccess(w)
  /\ tree' = [tree EXCEPT ![File(w)] = "none"]
  /\ list' = [x \in Conns |-> IF list[x].dir = cwd THEN [list[x] EXCEPT !.due = @ \ {Arg(w)}]
                              ELSE list[x]]

\* It fails.
RmRefused(w) ==
  /\ RmSuccess(w)
  /\ "syscall" \in Faults
  /\ tree[File(w)] # "none"
  /\ UNCHANGED <<tree, list>>

RmFailed(w) ==
  /\ WAt(w, "rm_failed")
  /\ Respond(w, "INF", "failed")
  /\ WGoto(w, "recv")
  /\ UNCHANGED <<clientVars, up, cwd, tree, tmp, list, toS, reason>>

-----------------------------------------------------------------------------

ClientWork(c) == \/ Greeting(c) \/ Reply(c) \/ Download(c) \/ UploadData(c) \/ UploadEot(c)
                 \/ Listing(c) \/ ListingEnds(c)

ClientStep(c) ==
  \/ Connect(c) \/ ConnectFails(c) \/ ConnectExits(c) \/ Refused(c) \/ Request(c)
  \/ NotSent(c) \/ Exit(c) \/ ClientSigpipe(c) \/ ListingSplit(c) \/ Kill(c)
  \/ ClientWork(c)

ThreadStep(w) ==
  \/ Accept(w) \/ ThreadRecv(w) \/ ThreadEof(w) \/ ThreadReset(w) \/ Terminate(w)
  \/ Pwd(w) \/ PwdFails(w) \/ LsOpen(w) \/ LsAstray(w) \/ LsNull(w) \/ LsEntry(w) \/ LsEnd(w)
  \/ GetOpen(w) \/ GetData(w) \/ GetEot(w)
  \/ PutOpen(w) \/ PutRecv(w) \/ NullFile(w)
  \/ MkdirStat(w) \/ Mkdir(w) \/ MkdirRefused(w) \/ MkdirExists(w) \/ MkdirReplyExists(w)
  \/ MkdirFails(w) \/ MkdirReplyFail(w) \/ Cd(w) \/ CdNull(w)
  \/ RmStat(w) \/ Rm(w) \/ RmRefused(w) \/ RmFailed(w)

\* A system call fails, and the reply is what it would have been.
FailedCall(w) == PwdFails(w) \/ LsAstray(w) \/ MkdirRefused(w) \/ RmRefused(w)

Begins(c) == At(c, "prompt") /\ cpc'[c] \notin {"prompt", "done"}

\* The histories: what the working directory was while a command runs, in which a
\* system call failed, and which transfers were broken off by a full disk.
Observe ==
  /\ views' = [c \in Clients |-> IF cpc'[c] \in {"prompt", "done"} THEN views[c]
                                 ELSE IF Begins(c) THEN {View, View'}
                                 ELSE views[c] \cup {View'}]
  /\ failed' = { c \in Clients : \/ c \in failed /\ ~Begins(c)
                                 \/ \E k \in 1..MaxConnects : FailedCall(<<c, k>>) }
  /\ full' = full \cup { c \in Clients :
       \/ answer'[c].text = "write error"
       \/ \E k \in 1..MaxConnects : LET w == <<c, k>> IN
            wpc[w] = "put_recv" /\ wpc'[w] = "recv" /\ wbuf'[w].type = "DATA" }

Next == /\ \/ \E c \in Clients : ClientStep(c)
           \/ \E w \in Conns : ThreadStep(w) \/ Sigpipe(w)
        /\ Observe

\* The clients' programs and the server's threads are scheduled; users owe nothing.
Fairness == /\ \A c \in Clients : WF_vars(ClientWork(c) /\ Observe)
            /\ \A w \in Conns : WF_vars(ThreadStep(w) /\ Observe)

Spec == Init /\ [][Next]_vars /\ Fairness

-----------------------------------------------------------------------------
(* Properties.                                                             *)

\* Between two commands nothing is on its way to the client, and its thread waits
\* for the next command or still has the end of an upload to read: no packet of
\* one command is ever taken for the answer to another, unless a full disk broke a
\* transfer off.
InStep ==
  \A c \in Clients :
    (At(c, "prompt") /\ HasConn(c) /\ up /\ c \notin full) =>
      LET w == Conn(c) IN
        /\ toC[w] = <<>>
        /\ \/ wpc[w] = "recv" /\ toS[w] = <<>>
           \/ wpc[w] \in {"put_recv", "put_null"} /\ toS[w] # <<>> /\ Last(toS[w]).type = "EOT"

\* Whatever the other clients do, an answer was true at some moment of the command:
\* the working directory PWD and CD name; the name that GET found, that MKDIR reports
\* and RM removed was there; what RM removed or did not find was missing; and LS lists
\* what was the working directory, nothing that was never in it and everything that
\* always was. The reply to PUT says nothing, and no reply means much when a system
\* call failed whose result the thread does not look at.
AnswerJustified ==
  \A c \in Clients :
    LET a == answer[c]
        r == req[c]
        Once(P(_)) == \E v \in views[c] : P(v)
        Was == Once(LAMBDA v : r.arg \in v.names[v.dir])
        WasNot == Once(LAMBDA v : r.arg \notin v.names[v.dir])
        IsListing(d) == /\ got[c] \subseteq UNION { v.names[d] : v \in views[c] }
                        /\ \A f \in Names : (\A v \in views[c] : f \in v.names[d]) => f \in got[c]
    IN (At(c, "prompt") /\ a.type \in {"INF", "DATA", "EOT"} /\ up /\ c \notin full \cup failed) =>
         /\ a.id = r.id
         /\ r.id = "PWD" => Once(LAMBDA v : v.dir = a.text)
         /\ r.id = "CD" /\ a.text = "command success" => Once(LAMBDA v : v.dir = Target(r.arg))
         /\ r.id = "LS" => Once(LAMBDA v : IsListing(v.dir))
         /\ r.id \in {"GET", "MKDIR"} \/ (r.id = "RM" /\ a.text # "failed") => Was
         /\ r.id = "RM" => WasNot

\* A client that comes to its end by itself, by EXIT or in its own error, does not
\* take the server with it: SIGPIPE needs a client that was killed, or one that a
\* full disk put out of step.
OnlyKillsCauseSigpipe ==
  reason = "sigpipe" => full # {} \/ \E c \in Clients : answer[c].id = "killed"

\* Every command comes back to the prompt while the server runs. LS on the socket
\* -1 does not, and a client that lost its place in the stream may not.
CommandReturns ==
  \A c \in Clients :
    (cpc[c] \notin {"prompt", "done"}) ~>
      \/ cpc[c] \in {"prompt", "done", "lost"}
      \/ ~up \/ c \in full \/ (At(c, "ls") /\ conn[c] = -1)
=============================================================================
