---------------------------- MODULE FtpLifecycle -----------------------------
(***************************************************************************)
(* The life of the FTP server around the sessions: main, which accepts     *)
(* connections and gives each a structure and a thread, the loop of        *)
(* client_thread, and the signals that end the server                      *)
(* (ftp-server/ftp-server.c; client_info_storage in utils.c).              *)
(*                                                                         *)
(* Connections are numbered in the order they are accepted; the structure  *)
(* malloc gives to a connection and its thread have the same number.  What *)
(* a session says is in FtpSession; here it is that it sends and ends.     *)
(***************************************************************************)
EXTENDS Integers, Sequences, FiniteSets

CONSTANTS
  Bytes,         \* 256: the values of a u_int8_t, as socket and connection ids are
  Base,          \* the first descriptor accept may give, after the listener's
  MaxFd,         \* the last one the process may have
  MaxConnects    \* bound: clients that connect

ASSUME LifecycleAssumption ==
  /\ Bytes \in Nat \ {0} /\ MaxConnects \in Nat
  /\ Base \in Nat \ {0} /\ MaxFd \in Nat /\ Base <= MaxFd

VARIABLES
  mpc,       \* where main is
  keep,      \* keep_running
  caught,    \* the signals that were handled
  connects,  \* clients that connected so far
  waiting,   \* those of them that are not accepted yet
  sock,      \* client_socket
  ci,        \* ci, a pointer; 0 before the first client
  mem,       \* the structures: what they hold and whether they are freed
  open,      \* per descriptor: the connection it is, 0 when it is none
  tpc,       \* per connection: where its thread is
  wild       \* history: the threads that read a structure after it was freed

vars == <<mpc, keep, caught, connects, waiting, sock, ci, mem, open, tpc, wild>>
mainVars == <<mpc, sock, ci, mem, open>>
signalVars == <<keep, caught>>

Fds == Base .. MaxFd
Byte(n) == n % Bytes
Running == mpc \notin {"ended", "crashed"}
Alive == {p \in DOMAIN mem : tpc[p] \notin {"none", "ended"}}

Init ==
  /\ mpc = "loop" /\ keep = TRUE /\ caught = {}
  /\ connects = 0 /\ waiting = 0
  /\ sock = 0 /\ ci = 0 /\ mem = <<>>
  /\ open = [f \in Fds |-> 0]
  /\ tpc = [p \in 1 .. MaxConnects |-> "none"]
  /\ wild = {}

Connect ==
  /\ Running /\ connects < MaxConnects
  /\ connects' = connects + 1 /\ waiting' = waiting + 1
  /\ UNCHANGED <<mainVars, signalVars, tpc, wild>>

\* With _XOPEN_SOURCE signal has the semantics of System V: a call that the handler
\* interrupts fails, and the next signal of that number has its default action.
\* The process's threads all take signals: one that runs a handler in recv goes on
\* as if it had a packet, which is a Request or Terminate below.
Handle(s) ==
  /\ Running /\ s \notin caught
  /\ keep' = FALSE /\ caught' = caught \cup {s}
  /\ UNCHANGED <<sock, ci, mem, open, connects, waiting, tpc, wild>>
SignalMain(s) == Handle(s) /\ mpc' = IF mpc = "blocked" THEN "interrupted" ELSE mpc
SignalThread(s) == Handle(s) /\ Alive # {} /\ UNCHANGED mpc
SignalAgain(s) ==
  /\ Running /\ s \in caught
  /\ mpc' = "ended"
  /\ UNCHANGED <<signalVars, sock, ci, mem, open, connects, waiting, tpc, wild>>

Signal == \E s \in {"INT", "TERM"} : SignalMain(s) \/ SignalThread(s) \/ SignalAgain(s)

-----------------------------------------------------------------------------
(* main                                                                    *)
LoopTest_Once == mpc' = "accept"    \* mutant: the loop does not look again
LoopTest == mpc' = IF keep THEN "accept" ELSE "close"
Loop ==
  /\ mpc = "loop" /\ LoopTest
  /\ UNCHANGED <<signalVars, connects, waiting, sock, ci, mem, open, tpc, wild>>

\* accept is called: from here on a signal interrupts it.
Block ==
  /\ mpc = "accept" /\ mpc' = "blocked"
  /\ UNCHANGED <<signalVars, connects, waiting, sock, ci, mem, open, tpc, wild>>

FreeFds == {f \in Fds : open[f] = 0}
\* The descriptor accept gives, in a set of one or none.
Lowest == {f \in FreeFds : \A g \in FreeFds : f <= g}

Stored_OneForAll(fd, id) == [p \in 1 .. id |-> [sock |-> Byte(fd), id |-> Byte(id), freed |-> FALSE]]
\* client_info_storage: both arguments are u_int8_t.
Stored(fd, id) == Append(mem, [sock |-> Byte(fd), id |-> Byte(id), freed |-> FALSE])

Accept ==
  /\ mpc = "blocked" /\ waiting > 0
  /\ \E fd \in Lowest :
       LET id == Len(mem) + 1 IN
         /\ sock' = fd
         /\ open' = [open EXCEPT ![fd] = id]
         /\ mem' = Stored(fd, id)
         /\ ci' = id
  /\ waiting' = waiting - 1
  /\ mpc' = "create"
  /\ UNCHANGED <<signalVars, connects, tpc, wild>>

\* A signal, or no descriptor is left: main leaves the loop.
AcceptFails ==
  /\ mpc = "interrupted" \/ (mpc = "blocked" /\ waiting > 0 /\ FreeFds = {})
  /\ sock' = -1
  /\ mpc' = "close"
  /\ UNCHANGED <<signalVars, connects, waiting, ci, mem, open, tpc, wild>>

Create ==
  /\ mpc = "create"
  /\ tpc' = [tpc EXCEPT ![ci] = "greet"]
  /\ mpc' = "loop"
  /\ UNCHANGED <<signalVars, connects, waiting, sock, ci, mem, open, wild>>

CreateFails ==
  /\ mpc = "create"
  /\ open' = [open EXCEPT ![sock] = 0]
  /\ mem' = [mem EXCEPT ![ci].freed = TRUE]
  /\ mpc' = "loop"
  /\ UNCHANGED <<signalVars, connects, waiting, sock, ci, tpc, wild>>

\* After the loop: the last client's socket is closed and its structure freed,
\* whatever its thread is doing.
CloseLast ==
  /\ mpc = "close"
  /\ open' = IF sock \in Fds THEN [open EXCEPT ![sock] = 0] ELSE open
  /\ mpc' = "free"
  /\ UNCHANGED <<signalVars, connects, waiting, sock, ci, mem, tpc, wild>>

\* A pointer that is not set, or freed already, may end the process instead.
FreeLast ==
  /\ mpc = "free"
  /\ IF ci \in DOMAIN mem /\ ~mem[ci].freed
     THEN mpc' = "exit" /\ mem' = [mem EXCEPT ![ci].freed = TRUE]
     ELSE mpc' \in {"exit", "crashed"} /\ UNCHANGED mem
  /\ UNCHANGED <<signalVars, connects, waiting, sock, ci, open, tpc, wild>>

Exit ==
  /\ mpc = "exit"
  /\ mpc' = "ended"
  /\ UNCHANGED <<signalVars, connects, waiting, sock, ci, mem, open, tpc, wild>>

Main == Loop \/ Block \/ Accept \/ AcceptFails \/ Create \/ CreateFails \/ CloseLast \/ FreeLast \/ Exit

-----------------------------------------------------------------------------
(* client_thread.  Every step but the test of keep_running reads ci.       *)
ThreadStep(p, from, to) ==
  /\ Running /\ tpc[p] = from
  /\ tpc' = [tpc EXCEPT ![p] = to]
  /\ wild' = IF mem[p].freed THEN wild \cup {p} ELSE wild
  /\ UNCHANGED <<mainVars, signalVars, connects, waiting>>

Greet(p) == ThreadStep(p, "greet", "loop")
StartRecv(p) == keep /\ ThreadStep(p, "loop", "recv")
\* A request, or a packet that is none and is answered with TERM.
Request(p) == ThreadStep(p, "recv", "loop")
\* TERM or the end of the stream: TERM is sent, the socket stays open.
Terminate(p) == ThreadStep(p, "recv", "ended")
Stop(p) ==
  /\ Running /\ ~keep /\ tpc[p] = "loop"
  /\ tpc' = [tpc EXCEPT ![p] = "ended"]
  /\ UNCHANGED <<mainVars, signalVars, connects, waiting, wild>>

Thread(p) == Greet(p) \/ StartRecv(p) \/ Request(p) \/ Terminate(p) \/ Stop(p)

Next == Connect \/ Signal \/ Main \/ \E p \in 1 .. MaxConnects : Thread(p)

Spec == Init /\ [][Next]_vars /\ WF_vars(Main)

-----------------------------------------------------------------------------
AllBytes == \A f \in Fds : open[f] # 0 => f = Byte(f)
Closed(p) == p = ci /\ mpc \in {"free", "exit", "ended", "crashed"}

(* Threads do not get into each other's way: while every descriptor in use *)
(* fits the byte it is kept in, each thread talks on the socket of its own *)
(* client; while fewer than Bytes clients were accepted, the connection    *)
(* ids of running threads differ and are not 0, which the packets take for *)
(* none; only the last client's thread can read a structure that main has  *)
(* freed; the process can only crash there if its thread could not be      *)
(* created or no client was accepted before the signal.                    *)
OwnSocket == AllBytes => \A p \in Alive : Closed(p) \/ open[mem[p].sock] = p
OwnId == Len(mem) < Bytes =>
           /\ \A p \in Alive : mem[p].id # 0
           /\ \A p, q \in Alive : mem[p].id = mem[q].id => p = q
OnlyLastFreed == wild \subseteq {ci} /\ (wild # {} => mpc \in {"exit", "ended"})
CrashNeedsCause == mpc = "crashed" => ci = 0 \/ tpc[ci] = "none"
ThreadsApart == OwnSocket /\ OwnId /\ OnlyLastFreed /\ CrashNeedsCause

(* After a signal the server ends, if need be when one more client         *)
(* connects: a signal that finds main in accept, or anywhere before the    *)
(* next test of keep_running, ends it without; one that main takes between *)
(* the test and accept, or that another thread takes, is seen when accept  *)
(* returns.                                                                *)
ShutdownEnds == ~keep /\ (waiting > 0 \/ mpc \notin {"accept", "blocked"}) ~> ~Running
=============================================================================
