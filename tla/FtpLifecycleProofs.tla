------------------------- MODULE FtpLifecycleProofs --------------------------
(***************************************************************************)
(* ThreadsApart of FtpLifecycle for every number of clients and            *)
(* descriptors and every width of an id.                                   *)
(*                                                                         *)
(* It does not hold by itself from step to step.  What main does with sock *)
(* and ci after a thread could not be created depends on what the          *)
(* descriptor and the structure have become since, and what a thread may   *)
(* read depends on which structures were freed before it was created: this *)
(* is what the invariant below adds.                                       *)
(***************************************************************************)
EXTENDS FtpLifecycle, SequenceTheorems, TLAPS

Structure == [sock : Int, id : Int, freed : BOOLEAN]

TypeOK ==
  /\ mpc \in {"loop", "accept", "blocked", "interrupted", "create", "close", "free", "exit",
              "ended", "crashed"}
  /\ keep \in BOOLEAN
  /\ waiting \in Nat /\ connects \in 0 .. MaxConnects /\ connects = waiting + Len(mem)
  /\ mem \in Seq(Structure) /\ ci = Len(mem)
  /\ sock \in Int
  /\ open \in [Fds -> 0 .. Len(mem)]
  /\ tpc \in [1 .. MaxConnects -> {"none", "greet", "loop", "recv", "ended"}]
  /\ wild \subseteq 1 .. Len(mem)

\* Threads have structures, numbered as they are; a structure is only freed when
\* no thread got it, or at the end.
StructuresOK ==
  /\ \A p \in 1 .. MaxConnects : tpc[p] # "none" => p \in 1 .. Len(mem)
  /\ \A p \in 1 .. Len(mem) : mem[p].id = Byte(p)
  /\ \A p \in 1 .. Len(mem) :
       mem[p].freed => tpc[p] = "none" \/ (p = ci /\ mpc \in {"exit", "ended"})
  /\ mpc = "create" => ci > 0 /\ tpc[ci] = "none" /\ ~mem[ci].freed

\* A connection whose thread runs, or is about to be created, has a descriptor, and
\* its structure holds what fits of it.
Kept(p) == Closed(p) \/ \E f \in Fds : open[f] = p /\ mem[p].sock = Byte(f)
SocketsOK ==
  /\ sock \in Fds => open[sock] \in {0, ci}
  /\ \A p \in Alive : Kept(p)
  /\ mpc = "create" => Kept(ci)

IndInv == TypeOK /\ StructuresOK /\ SocketsOK /\ OnlyLastFreed /\ CrashNeedsCause

-----------------------------------------------------------------------------
LEMMA ByteInt == \A n \in Int : Byte(n) \in Int /\ (n \in 0 .. Bytes - 1 => Byte(n) = n)
BY LifecycleAssumption DEF Byte

LEMMA FdsInt == Fds \subseteq Nat \ {0}
BY LifecycleAssumption DEF Fds

\* free changes one flag of one structure.
LEMMA FreeKeeps ==
  ASSUME NEW m \in Seq(Structure), NEW c \in 1 .. Len(m)
  PROVE  LET f == [m EXCEPT ![c].freed = TRUE] IN
         /\ f \in Seq(Structure) /\ Len(f) = Len(m) /\ DOMAIN f = 1 .. Len(m)
         /\ \A p \in 1 .. Len(m) : /\ p # c => f[p] = m[p]
                                   /\ f[p].sock = m[p].sock /\ f[p].id = m[p].id
<1> DEFINE e == [m[c] EXCEPT !.freed = TRUE]
           f == [m EXCEPT ![c] = e]
<1>1. m[c] \in Structure
  OBVIOUS
<1>2. e \in Structure /\ e.sock = m[c].sock /\ e.id = m[c].id
  BY <1>1 DEF Structure
<1> HIDE DEF e
<1>3. /\ f \in Seq(Structure) /\ Len(f) = Len(m)
      /\ \A p \in 1 .. Len(m) : f[p] = IF p = c THEN e ELSE m[p]
  BY <1>2, ExceptSeq
<1>4. DOMAIN f = 1 .. Len(m)
  BY <1>3
<1> HIDE DEF f
<1>5. /\ f \in Seq(Structure) /\ Len(f) = Len(m) /\ DOMAIN f = 1 .. Len(m)
      /\ \A p \in 1 .. Len(m) : /\ p # c => f[p] = m[p]
                                /\ f[p].sock = m[p].sock /\ f[p].id = m[p].id
  BY <1>2, <1>3, <1>4
<1> QED
  BY <1>5 DEF e, f

LEMMA InitIndInv == Init => IndInv
BY LifecycleAssumption, FdsInt
  DEF Init, IndInv, TypeOK, StructuresOK, SocketsOK, OnlyLastFreed, CrashNeedsCause, Alive, Structure

\* What accept, client_info_storage and pthread_create do to the structures.
LEMMA AcceptKeeps == IndInv /\ Accept => IndInv'
<1> SUFFICES ASSUME IndInv, Accept PROVE IndInv'
  OBVIOUS
<1> DEFINE id == Len(mem) + 1
<1>1. PICK fd \in Lowest :
        /\ sock' = fd /\ open' = [open EXCEPT ![fd] = id]
        /\ mem' = Append(mem, [sock |-> Byte(fd), id |-> Byte(id), freed |-> FALSE])
        /\ ci' = id
  BY DEF Accept, Stored
<1>2. /\ mpc = "blocked" /\ mpc' = "create" /\ waiting > 0 /\ waiting' = waiting - 1
      /\ UNCHANGED <<signalVars, connects, tpc, wild>>
  BY DEF Accept
<1>3. fd \in Fds /\ open[fd] = 0 /\ fd \in Int
  BY FdsInt DEF Lowest, FreeFds
<1>4. /\ TypeOK /\ StructuresOK /\ SocketsOK /\ OnlyLastFreed
      /\ Len(mem) \in Nat /\ id <= MaxConnects
  BY <1>2, LifecycleAssumption DEF IndInv, TypeOK
<1>5. /\ mem' \in Seq(Structure) /\ Len(mem') = id
      /\ \A p \in 1 .. Len(mem) : mem'[p] = mem[p]
      /\ mem'[id] = [sock |-> Byte(fd), id |-> Byte(id), freed |-> FALSE]
  <2>1. [sock |-> Byte(fd), id |-> Byte(id), freed |-> FALSE] \in Structure
    BY <1>3, <1>4, ByteInt DEF Structure
  <2> QED
    BY <1>1, <1>4, <2>1 DEF TypeOK
<1>6. TypeOK'
  BY <1>1, <1>2, <1>3, <1>4, <1>5 DEF TypeOK, signalVars
<1>7. tpc[id] = "none"
  BY <1>4 DEF StructuresOK, TypeOK
<1>8. StructuresOK'
  <2>1. \A p \in 1 .. id : p \in 1 .. Len(mem) \/ p = id
    BY <1>4
  <2>2. \A p \in 1 .. MaxConnects : tpc'[p] # "none" => p \in 1 .. Len(mem')
    BY <1>2, <1>4, <1>5 DEF StructuresOK
  <2>3. \A p \in 1 .. Len(mem') : mem'[p].id = Byte(p)
    BY <1>4, <1>5, <2>1 DEF StructuresOK
  <2>4. \A p \in 1 .. Len(mem') : mem'[p].freed => tpc'[p] = "none"
    BY <1>2, <1>4, <1>5, <2>1 DEF StructuresOK
  <2>5. ci' > 0 /\ tpc'[ci'] = "none" /\ ~mem'[ci'].freed
    BY <1>1, <1>2, <1>4, <1>5, <1>7
  <2> QED
    BY <2>2, <2>3, <2>4, <2>5 DEF StructuresOK
<1>9. SocketsOK'
  <2>1. open'[fd] = id /\ \A f \in Fds : f # fd => open'[f] = open[f]
    BY <1>1, <1>3, <1>4 DEF TypeOK
  <2>2. Kept(ci)'
    BY <1>1, <1>3, <1>5, <2>1 DEF Kept
  <2>3. ASSUME NEW p \in Alive PROVE Kept(p)'
    <3>1. p \in 1 .. Len(mem) /\ ~Closed(p)
      BY <1>2, <1>4 DEF Alive, Closed, TypeOK
    <3>2. PICK f \in Fds : open[f] = p /\ mem[p].sock = Byte(f)
      BY <1>4, <3>1 DEF SocketsOK, Kept
    <3>3. f # fd
      BY <1>3, <3>1, <3>2
    <3> QED
      BY <1>5, <2>1, <3>1, <3>2, <3>3 DEF Kept
  <2>4. Alive' \subseteq Alive
    BY <1>2, <1>4, <1>5, <1>7 DEF Alive, TypeOK
  <2> QED
    BY <1>1, <2>1, <2>2, <2>3, <2>4 DEF SocketsOK
<1>10. OnlyLastFreed' /\ CrashNeedsCause'
  BY <1>2, <1>4 DEF OnlyLastFreed, CrashNeedsCause
<1> QED
  BY <1>6, <1>8, <1>9, <1>10 DEF IndInv

\* The rest of main.
LEMMA MainKeeps ==
  IndInv /\ (Loop \/ Block \/ AcceptFails \/ Create \/ CreateFails \/ CloseLast \/ FreeLast \/ Exit) => IndInv'
<1> SUFFICES ASSUME IndInv
             PROVE  Loop \/ Block \/ AcceptFails \/ Create \/ CreateFails \/ CloseLast \/ FreeLast \/ Exit
                      => IndInv'
  OBVIOUS
<1> USE LifecycleAssumption, FdsInt DEF signalVars
<1>0. /\ TypeOK /\ StructuresOK /\ SocketsOK /\ OnlyLastFreed /\ CrashNeedsCause
      /\ DOMAIN mem = 1 .. Len(mem) /\ Len(mem) \in Nat
      /\ Alive = {p \in 1 .. Len(mem) : tpc[p] \notin {"none", "ended"}}
      /\ 1 .. Len(mem) \subseteq 1 .. MaxConnects
  BY DEF IndInv, TypeOK, Alive
<1>1. CASE Loop \/ Block \/ AcceptFails \/ Exit
  <2>1. /\ UNCHANGED <<signalVars, connects, waiting, ci, mem, open, tpc, wild>>
        /\ mpc' \in {"accept", "blocked", "close", "ended"}
        /\ mpc' = "ended" <=> mpc = "exit"
        /\ mpc' # "ended" => mpc \in {"loop", "accept", "blocked", "interrupted"}
        /\ sock' \in {sock, -1}
    BY <1>0, <1>1 DEF Loop, LoopTest, Block, AcceptFails, Exit
  <2>2. TypeOK' /\ StructuresOK'
    BY <1>0, <2>1 DEF TypeOK, StructuresOK
  <2>3. SocketsOK'
    BY <1>0, <2>1 DEF SocketsOK, Kept, Closed, Alive
  <2>4. OnlyLastFreed' /\ CrashNeedsCause'
    BY <1>0, <2>1 DEF OnlyLastFreed, CrashNeedsCause
  <2> QED
    BY <2>2, <2>3, <2>4 DEF IndInv
<1>2. CASE Create
  <2>1. /\ mpc = "create" /\ mpc' = "loop" /\ tpc' = [tpc EXCEPT ![ci] = "greet"]
        /\ UNCHANGED <<signalVars, connects, waiting, sock, ci, mem, open, wild>>
    BY <1>2 DEF Create
  <2>2. ci \in 1 .. Len(mem) /\ ci \in 1 .. MaxConnects
    BY <1>0, <2>1 DEF TypeOK, StructuresOK
  <2>3. TypeOK' /\ StructuresOK'
    BY <1>0, <2>1, <2>2 DEF TypeOK, StructuresOK
  <2>4. SocketsOK'
    <3>1. Alive' \subseteq Alive \cup {ci}
      BY <1>0, <2>1, <2>2 DEF Alive, TypeOK
    <3>2. \A p \in 1 .. Len(mem) : Kept(p) => Kept(p)'
      BY <2>1 DEF Kept, Closed
    <3> QED
      BY <1>0, <2>1, <2>2, <3>1, <3>2 DEF SocketsOK, Alive
  <2>5. OnlyLastFreed' /\ CrashNeedsCause'
    BY <1>0, <2>1 DEF OnlyLastFreed, CrashNeedsCause
  <2> QED
    BY <2>3, <2>4, <2>5 DEF IndInv
<1>3. CASE CreateFails
  <2>1. /\ mpc = "create" /\ mpc' = "loop"
        /\ open' = [open EXCEPT ![sock] = 0] /\ mem' = [mem EXCEPT ![ci].freed = TRUE]
        /\ UNCHANGED <<signalVars, connects, waiting, sock, ci, tpc, wild>>
    BY <1>3 DEF CreateFails
  <2>2. ci \in 1 .. Len(mem) /\ tpc[ci] = "none"
    BY <1>0, <2>1 DEF TypeOK, StructuresOK
  <2>3. /\ mem' \in Seq(Structure) /\ Len(mem') = Len(mem) /\ DOMAIN mem' = DOMAIN mem
        /\ \A p \in 1 .. Len(mem) : /\ p # ci => mem'[p] = mem[p]
                                    /\ mem'[p].sock = mem[p].sock /\ mem'[p].id = mem[p].id
    <3>1. mem \in Seq(Structure) /\ DOMAIN mem = 1 .. Len(mem)
      BY <1>0 DEF TypeOK
    <3> QED
      BY ONLY <2>1, <2>2, <3>1, FreeKeeps
  <2>4. TypeOK'
    <3>1. open' \in [Fds -> 0 .. Len(mem)]
      <4>1. open \in [Fds -> 0 .. Len(mem)] /\ 0 \in 0 .. Len(mem)
        BY <1>0 DEF TypeOK
      <4> QED
        BY ONLY <2>1, <4>1
    <3> QED
      BY <1>0, <2>1, <2>3, <3>1 DEF TypeOK
  <2>5. StructuresOK'
    BY <1>0, <2>1, <2>2, <2>3 DEF StructuresOK
  <2>6. SocketsOK'
    <3>1. Alive' = Alive /\ ci \notin Alive
      BY <2>1, <2>2, <2>3 DEF Alive
    <3>2. ASSUME NEW p \in Alive PROVE Kept(p)'
      <4>1. PICK f \in Fds : open[f] = p /\ mem[p].sock = Byte(f)
        BY <1>0, <2>1 DEF SocketsOK, Kept, Closed
      <4>2. f # sock /\ p \in 1 .. Len(mem)
        BY <1>0, <3>1, <4>1 DEF SocketsOK
      <4> QED
        BY <1>0, <2>1, <2>3, <4>1, <4>2 DEF Kept, TypeOK
    <3> QED
      BY <1>0, <2>1, <3>1, <3>2 DEF SocketsOK, TypeOK
  <2>7. OnlyLastFreed' /\ CrashNeedsCause'
    BY <1>0, <2>1 DEF OnlyLastFreed, CrashNeedsCause
  <2> QED
    BY <2>4, <2>5, <2>6, <2>7 DEF IndInv
<1>4. CASE CloseLast
  <2>1. /\ mpc = "close" /\ mpc' = "free"
        /\ open' = IF sock \in Fds THEN [open EXCEPT ![sock] = 0] ELSE open
        /\ UNCHANGED <<signalVars, connects, waiting, sock, ci, mem, tpc, wild>>
    BY <1>4 DEF CloseLast
  <2>2. TypeOK' /\ StructuresOK'
    BY <1>0, <2>1 DEF TypeOK, StructuresOK
  <2>3. SocketsOK'
    <3>1. ASSUME NEW p \in Alive, p # ci PROVE Kept(p)'
      <4>1. PICK f \in Fds : open[f] = p /\ mem[p].sock = Byte(f)
        BY <1>0, <3>1 DEF SocketsOK, Kept, Closed
      <4>2. f # sock
        BY <1>0, <3>1, <4>1 DEF SocketsOK
      <4> QED
        BY <1>0, <2>1, <4>1, <4>2 DEF Kept, TypeOK
    <3>2. Kept(ci)'
      BY <2>1 DEF Kept, Closed
    <3> QED
      BY <1>0, <2>1, <3>1, <3>2 DEF SocketsOK, TypeOK, Alive
  <2>4. OnlyLastFreed' /\ CrashNeedsCause'
    BY <1>0, <2>1 DEF OnlyLastFreed, CrashNeedsCause
  <2> QED
    BY <2>2, <2>3, <2>4 DEF IndInv
<1>5. CASE FreeLast
  <2>1. /\ mpc = "free"
        /\ UNCHANGED <<signalVars, connects, waiting, sock, ci, open, tpc, wild>>
    BY <1>5 DEF FreeLast
  <2>2. CASE ci \in DOMAIN mem /\ ~mem[ci].freed
    <3>1. mpc' = "exit" /\ mem' = [mem EXCEPT ![ci].freed = TRUE]
      BY <1>5, <2>2 DEF FreeLast
    <3>2. /\ mem' \in Seq(Structure) /\ Len(mem') = Len(mem) /\ DOMAIN mem' = DOMAIN mem
          /\ \A p \in 1 .. Len(mem) : /\ p # ci => mem'[p] = mem[p]
                                      /\ mem'[p].sock = mem[p].sock /\ mem'[p].id = mem[p].id
      <4>1. mem \in Seq(Structure) /\ DOMAIN mem = 1 .. Len(mem)
        BY <1>0 DEF TypeOK
      <4> QED
        BY ONLY <2>2, <3>1, <4>1, FreeKeeps
    <3>3. TypeOK' /\ StructuresOK'
      BY <1>0, <2>1, <3>1, <3>2 DEF TypeOK, StructuresOK
    <3>4. SocketsOK'
      BY <1>0, <2>1, <3>1, <3>2 DEF SocketsOK, Kept, Closed, Alive
    <3>5. OnlyLastFreed' /\ CrashNeedsCause'
      BY <1>0, <2>1, <3>1 DEF OnlyLastFreed, CrashNeedsCause
    <3> QED
      BY <3>3, <3>4, <3>5 DEF IndInv
  <2>3. CASE ~(ci \in DOMAIN mem /\ ~mem[ci].freed)
    <3>1. mpc' \in {"exit", "crashed"} /\ mem' = mem
      BY <1>5, <2>3 DEF FreeLast
    <3>2. ci = 0 \/ tpc[ci] = "none"
      BY <1>0, <2>1, <2>3 DEF TypeOK, StructuresOK
    <3>3. TypeOK' /\ StructuresOK'
      BY <1>0, <2>1, <3>1 DEF TypeOK, StructuresOK
    <3>4. SocketsOK'
      BY <1>0, <2>1, <3>1 DEF SocketsOK, Kept, Closed, Alive
    <3>5. OnlyLastFreed' /\ CrashNeedsCause'
      BY <1>0, <2>1, <3>1, <3>2 DEF OnlyLastFreed, CrashNeedsCause
    <3> QED
      BY <3>3, <3>4, <3>5 DEF IndInv
  <2> QED
    BY <2>2, <2>3
<1> QED
  BY <1>1, <1>2, <1>3, <1>4, <1>5

\* A thread reads its structure and moves on.
LEMMA ThreadKeeps == ASSUME NEW p \in 1 .. MaxConnects, IndInv, Thread(p) PROVE IndInv'
<1>1. /\ UNCHANGED <<mpc, sock, ci, mem, open, signalVars, connects, waiting>>
      /\ Running /\ tpc[p] \in {"greet", "loop", "recv"}
      /\ \E to \in {"loop", "recv", "ended"} : tpc' = [tpc EXCEPT ![p] = to]
      /\ wild' \in {wild, IF mem[p].freed THEN wild \cup {p} ELSE wild}
  BY DEF Thread, Greet, StartRecv, Request, Terminate, Stop, ThreadStep, mainVars
<1>2. /\ TypeOK /\ StructuresOK /\ SocketsOK /\ OnlyLastFreed /\ CrashNeedsCause
      /\ DOMAIN mem = 1 .. Len(mem) /\ Len(mem) \in Nat
  BY DEF IndInv, TypeOK
<1>3. p \in 1 .. Len(mem) /\ (mem[p].freed => p = ci /\ mpc = "exit")
  BY <1>1, <1>2 DEF StructuresOK, Running
<1>4. TypeOK' /\ StructuresOK'
  BY <1>1, <1>2, <1>3 DEF TypeOK, signalVars, StructuresOK
<1>5. SocketsOK'
  <2>1. Alive' \subseteq Alive
    BY <1>1, <1>2, <1>3 DEF Alive, TypeOK
  <2>2. \A q : Kept(q) => Kept(q)'
    BY <1>1 DEF Kept, Closed
  <2> QED
    BY <1>1, <1>2, <2>1, <2>2 DEF SocketsOK
<1>6. OnlyLastFreed' /\ CrashNeedsCause'
  <2>1. wild' \subseteq {ci} /\ (wild' # {} => mpc \in {"exit", "ended"})
    BY <1>1, <1>2, <1>3 DEF OnlyLastFreed
  <2> QED
    BY <1>1, <2>1 DEF OnlyLastFreed, CrashNeedsCause, Running
<1> QED
  BY <1>4, <1>5, <1>6 DEF IndInv

LEMMA NextIndInv == IndInv /\ [Next]_vars => IndInv'
<1> SUFFICES ASSUME IndInv, [Next]_vars PROVE IndInv'
  OBVIOUS
<1>1. CASE Main
  BY <1>1, AcceptKeeps, MainKeeps DEF Main
<1>2. CASE \E p \in 1 .. MaxConnects : Thread(p)
  BY <1>2, ThreadKeeps
<1>3. CASE Connect \/ UNCHANGED vars
  <2>1. /\ UNCHANGED <<mpc, sock, ci, mem, open, tpc, wild>>
        /\ keep' \in BOOLEAN
        /\ \/ UNCHANGED <<connects, waiting>>
           \/ connects < MaxConnects /\ connects' = connects + 1 /\ waiting' = waiting + 1
    BY <1>3 DEF IndInv, TypeOK, Connect, vars, mainVars, signalVars
  <2>2. TypeOK'
    <3>1. TypeOK /\ Len(mem) \in Nat
      BY DEF IndInv, TypeOK
    <3>2. waiting' \in Nat /\ connects' \in 0 .. MaxConnects /\ connects' = waiting' + Len(mem')
      BY <2>1, <3>1, LifecycleAssumption DEF TypeOK
    <3> QED
      BY <2>1, <3>1, <3>2 DEF TypeOK
  <2> QED
    BY <2>1, <2>2 DEF IndInv, StructuresOK, SocketsOK, Kept, Closed, Alive,
      OnlyLastFreed, CrashNeedsCause
<1>4. CASE Signal
  <2>1. /\ UNCHANGED <<sock, ci, mem, open, tpc, wild, connects, waiting>>
        /\ keep' \in BOOLEAN /\ mpc \notin {"ended", "crashed"}
        /\ mpc' \in {mpc, "ended"} \/ (mpc = "blocked" /\ mpc' = "interrupted")
    BY <1>4 DEF IndInv, TypeOK, Signal, SignalMain, SignalThread, SignalAgain, Handle, signalVars, Running
  <2>2. TypeOK'
    BY <2>1 DEF IndInv, TypeOK
  <2>3. StructuresOK' /\ OnlyLastFreed' /\ CrashNeedsCause'
    BY <2>1 DEF IndInv, TypeOK, StructuresOK, OnlyLastFreed, CrashNeedsCause
  <2>4. \A p : Kept(p) => Kept(p)'
    BY <2>1 DEF Kept, Closed
  <2>5. SocketsOK'
    BY <2>1, <2>4 DEF IndInv, SocketsOK, Alive
  <2> QED
    BY <2>2, <2>3, <2>5 DEF IndInv
<1> QED
  BY <1>1, <1>2, <1>3, <1>4 DEF Next

-----------------------------------------------------------------------------
\* However many clients come and go, threads keep to their own sockets and ids as
\* long as those fit into a byte, and main frees no structure under a thread but
\* the last client's.
THEOREM ThreadsStayApart == Spec => []ThreadsApart
<1>1. IndInv => ThreadsApart
  <2> SUFFICES ASSUME IndInv PROVE ThreadsApart
    OBVIOUS
  <2>1. /\ TypeOK /\ StructuresOK /\ SocketsOK /\ OnlyLastFreed /\ CrashNeedsCause
        /\ Alive \subseteq 1 .. Len(mem) /\ Len(mem) \in Nat
    BY DEF IndInv, TypeOK, Alive
  <2>2. OwnSocket
    <3> SUFFICES ASSUME AllBytes, NEW p \in Alive, ~Closed(p) PROVE open[mem[p].sock] = p
      BY DEF OwnSocket
    <3>1. PICK f \in Fds : open[f] = p /\ mem[p].sock = Byte(f)
      BY <2>1 DEF SocketsOK, Kept
    <3>2. p # 0
      BY <2>1
    <3> QED
      BY <3>1, <3>2 DEF AllBytes
  <2>3. OwnId
    <3> SUFFICES ASSUME Len(mem) < Bytes PROVE \A p \in Alive : mem[p].id = p /\ p # 0
      BY DEF OwnId
    <3>1. \A p \in 1 .. Len(mem) : Byte(p) = p
      BY <2>1, ByteInt, LifecycleAssumption
    <3> QED
      BY <2>1, <3>1 DEF StructuresOK
  <2> QED
    BY <2>1, <2>2, <2>3 DEF ThreadsApart
<1> QED
  BY <1>1, InitIndInv, NextIndInv, PTL DEF Spec
=============================================================================
