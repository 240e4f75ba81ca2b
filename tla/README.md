# A verification project for c-deep-dive

The repository is a collection of C programs about sockets, threads, polling, parsing and terminals. Three servers
have state that several parties change in an order nobody controls; a JSON parser and the string library under it
do pointer arithmetic that no test reaches. They are what this project is about. The TLA+ modules here describe
them as the source is written, TLC checks them on small instances, and TLAPS proves the most important facts for
every size.

Contents: 1 inventory, 2 the modules, 3 what each run shows, 4 fairness, 5 proofs, 6 findings and other
observations, 7 what is not modelled, 8 what is left, 9 how to run it.

## 1. Inventory

### Chat poll server (`chat-app/server/src/main.c`, `core/poll_server.c`) - modelled

- State: the array `pollfds` with `n_pollfds` and `max_pollfds`, the descriptors of the process, the backlog and
  socket buffers in the kernel, and the position of the two nested loops.
- Operations: `init_pollfd`, `accept_connections` (accept, add a slot, greet), `add_clients_to_poll` (double the
  array), `read_from_client` (recv, broadcast, or close and delete), `del_client_from_poll`, and `main`'s
  poll-and-scan loop.
- Interaction: clients connect, write, read, close and reset at any time. Everything the loop reads about them
  was true when `poll` returned, and may not be when it is used.
- Hard: slots move while an index into them is held; `del_client_from_poll` takes a descriptor for an index;
  memory from `realloc` is scanned before `poll` filled it; the listener's `accept` result is unsigned; a send
  may block, fail or raise SIGPIPE.
- Right when: no peer hears itself or hears a sender out of order, only a peer that left is closed, the listener
  stays, the list stays bounded, broadcasts are complete, waiting clients are accepted.

### FTP server (`ftp-server/ftp-server.c`, `utils.c`, `ftp.h`) and client (`cli_ftp_client.c`) - modelled

- State: per client its connection, the packet buffer it reuses for everything, and where in a command it is; per
  connection one detached thread with its own packet and a structure with its descriptor and id; shared by all
  threads the working directory, the files and the life of the process.
- Operations: CONNECT, GET, PUT, LS, CD, PWD, MKDIR, RM and EXIT on the client; one branch of
  `execute_commands` each on the server; `send_packet`, `recv_data`, `end_of_transfer`, `terminate_connection`;
  `main`'s accept loop, `client_info_storage` and the handler of SIGINT and SIGTERM (System V semantics, which `ftp.h:4` selects); `ftp_getline`, `ftp_commands`.
- Interaction: 512-byte packets over TCP. A request is answered by one packet, or by DATA packets and an EOT.
- Hard: recv may return a part of a packet, an error is not seen as one, threads change one directory under each
  other, `stat` and the operation after it are two steps and so are two entries of a listing, system calls fail unnoticed, a
  client can be killed anywhere; a signal comes to any thread at any step; ids and descriptors are kept in 8 bits; `main` frees the last client's structure while its thread runs.
- Right when: files arrive complete, no packet is taken for the answer to another command, every answer was true
  at some moment of its command, every command returns, one client does not end the server, and a thread talks
  to its own client.

### WebSocket chat server (`sockets/webserver-v3.c`) - partly modelled

- State: the array of polled slots, the sockets, the index of the scan and of a broadcast, and the message buffer
  of `receive_text_frame`; what was sent to Redis (left out).
- Operations: `accept_connections` with `handle_handshake`, `intro` and the announcement to everyone;
  `receive_text_frame` (frames, pings, close, pauses); the text and the binary broadcast; the exit.
- Interaction: as for the poll server, with a handshake first and messages of several frames.
- Hard: a handshake or a frame is read blocking and a request by one `read`, sends block too, a pause loses the frames
  read so far, slots are deleted by descriptor under the scan and under a broadcast, the listening socket is not spared
  by a broadcast.
- Right when: relayed messages are whole and in order, they reach everyone but the sender, nobody who is just silent
  is dropped, every open socket is watched, the list fits its allocation.

### JSON parser (`cmd-pamodoro/jsense/jsense.h`) - modelled

- State: the document, a tree of chunks of twenty slots that are chained when a container has more; while it is
  parsed the chunk `st`, the stack of open containers and the type of the last token; afterwards `last_returned`
  and its index, which the query functions keep from call to call.
- Operations: `j_get_token`, `j_parse_number`, `j_unescape_string`, the parser behind `jse_from_file`, `jse_get`,
  `jse_get_next`, `jse_free`.
- Interaction: the timer asks for labels such as `a[2].b` and goes on from an answer with `jse_get_next`. Strings
  are unescaped, and numbers cut off, in the text itself when they are first asked for.
- Hard: offsets in chunks and positions in containers are converted into each other everywhere; a value is changed
  in place by being read; errors free a half-built document.
- Right when: what is built is the document's tree whatever the chunks, a valid document is never refused, a label
  gets the value at its address, a text is unescaped once, everything is freed once.

### String library (`cmd-pamodoro/jsense/technical.c`, `technical.h`) - partly modelled

- State: none of its own but a table for pieces; the functions change the caller's buffers, and files.
- Operations: copies, concatenation, cutting, comparing a machine word at a time, splitting into a table that grows,
  UTF-8, numbers from and to text, paths, files.
- Right when: results are what the header's comments say and never leave their buffers or split a codepoint.

### Everything else

| Part | State and behaviour | Why it is left out |
| --- | --- | --- |
| `sockets/webserver-v2.c` | the ancestor of version 3 | version 3 is this file with one announcement more; the rest is the same lines |
| `sockets/websocket.c` | one client at a time, for ever | one thread, one blocking socket, no state from frame to frame |
| `chat-app/server/src/epoll.c`, `core/epoll.c` | an epoll loop | unfinished: the listener is never added to the set, the loop never runs |
| `libuv/*` | callbacks on a handle | one request each, ordered inside libuv, which is not in the repository |
| `cmd-pamodoro/lib.c`, `lt.c`, `timer.c`, `req.c` | a countdown, drawing, one HTTP request | sequential; what it asks of the JSON parser is in `JsonQuery` |
| `cmd-pamodoro/asciigen/*` | conversion of images | floating-point arithmetic |
| `bits/*` | one bit operation each | no state; a test of every input says as much |
| `sockets/async_redis.c`, `redis.c` | hiredis demonstrations | the event loop is in the library |
| `sockets/lz4.c`, `getaddrinfo.c`, `socket.c`, ... | one library call each | no state |
| `ftp-server/log.c`, `utils/log.c`, `ftp-server/test/*` | messages, trials | nothing reads what they write |
| `tui/*`, `python_tui/*`, chat clients | terminal drawing | frameworks do the work; the servers' peers stand for clients |

## 2. The modules

| Module | Models | Composition |
| --- | --- | --- |
| `PollServer` | the chat poll server with its clients and the kernel's part | `MCPollServer` adds symmetry for TLC |
| `PollServerProofs` | theorems about `PollServer` | extends it |
| `FtpTransfer` | one GET or PUT: the bytes, packets and file of a transfer | `MCFtpTransfer` adds the file sizes |
| `FtpTransferProofs` | theorems about `FtpTransfer` | extends it |
| `FtpSession` | several clients, their threads and the shared process; a transfer is its packets | `MCFtpSession` adds directories, names and environment |
| `FtpSessionProofs` | theorems about `FtpSession` | extends it |
| `FtpLifecycle` | `main` of the FTP server around its threads | |
| `FtpLifecycleProofs` | theorem about `FtpLifecycle` | extends it |
| `WebSocketServer` | the WebSocket server with its clients | `MCWebSocketServer` adds the frame bounds |
| `WebSocketServerProofs` | theorems about the list, the sockets and a broadcast | extends `WebSocketServer` |
| `WebSocketMessageProofs` | theorems about what is read and relayed, and whom the server cuts off | extends `WebSocketServerProofs` |
| `JsonNesting` | how deep each token of a sequence stands, and when brackets match | |
| `JsonParser` | the parser over tokens, with chunks and stack | extends `JsonNesting` |
| `JsonTree` | abstract: the containers a caller is promised | `JsonQuery` implements it (`BuildsTree`) |
| `JsonGrammar` | which sequences of tokens are a JSON text: the reference for what is refused | extends `JsonNesting` |
| `JsonText` | which value of a text a path leads to: the reference for the answers | extends `JsonGrammar` |
| `JsonQuery` | `JsonParser` and its callers: get, get next, free | extends `JsonParser` |
| `JsonQueryProofs` | theorems about the parser's bounds and brackets and about the memory of `JsonQuery` | extends it |
| `JsonDocument` | that texts are accepted, and the refinement mapping: the document that the chunks stand for | extends `JsonQuery` and `JsonGrammar`, with `JsonTree` |
| `JsonDocumentProofs` | the theorems that `JsonQuery` implements `JsonTree` and refuses no text | extends `JsonDocument` and `JsonQueryProofs` |
| `JsonAnswers` | that a label gets the value it leads to | extends `JsonDocument`, with `JsonText`; `MCJson` adds documents and labels |
| `JsonLexer` | tokens and escapes byte by byte | extends `TecString` |
| `TecString`, `TecPath`, `TecFile` | the string library as operators | |
| `FtpLine` | how the FTP client reads and splits its line | extends `TecString` |
| `TextCalls` | one call of each of these functions on a buffer, with reference definitions | `MCText` adds the arguments |

The FTP modules split one protocol: `FtpTransfer` keeps the lengths and the chunks and has one transfer;
`FtpSession` forgets the contents and has everything that clients can do to each other; `FtpLifecycle` forgets what is
said and keeps the threads, descriptors and structures.

**PollServer.** `slots` is `pollfds` (a slot is a descriptor and whether `revents` has POLLIN; the capacity is the
length of the sequence), `n` and `max` its counters, `sock` the peer behind each descriptor, `pc`, `i` and `j` the
position in the loops. `Poll`, `Skip`, `EndScan` and `PollFails` are `main`; `Accept` and its variants are
`accept_connections` with the outcome of accept and of the greeting; `Recv` and `Hangup` are the two branches of
`read_from_client`; `SendSkip`, `SendDelivers`, `SendLost`, `SendFails` and `SendKilled` are one turn of its
broadcast loop. `Hangup` contains the close and `del_client_from_poll`, as the code does both. The peers'
actions are the environment: each can connect, write, read, close and reset. What `realloc` adds is any value.

**FtpTransfer.** `buf` is the packet structure each program reuses, which is why a failed receive shows the packet
before; `chan` is the stream in each direction, `off` and `file` the two files. `ByteLen` is the conversion of a
length to the byte that carries it. `Command` opens the file, `SendChunk` and `SendEot` are the sending loop,
`RecvNext`, `Write` and `WriteEnd` the receiving one, the same for both directions because both use the functions of
`utils.c`. `SizeFails` is a server that cannot `fstat` the file, `WriteFails` the way out of the receiving loop when `fwrite`
fails. `Cut` and `Kill` end a process and leave the stream cut at or inside a packet.

**FtpSession.** `cpc` is the position of a client in `ftp_execute_command`, `wpc` that of a connection's thread in
`client_thread` and `execute_commands`. `stat` and what follows it are separate actions (`MkdirStat`/`Mkdir`,
`RmStat`/`Rm`), as are `opendir` and the entries of LS, because other threads run in between: `list` is a directory stream, which
reads some of the names at a time and says which of them it has still to return. A name that is made or removed after `opendir`
may be returned or not, as POSIX leaves it. With the fault "syscall" `getcwd`, `opendir`, `mkdir` and `remove` may fail
(`PwdFails`, `LsAstray`, `MkdirRefused`, `RmRefused`); the code goes on as if they had not, and the history `failed` keeps in whose
command that happened. `tmp` holds what is in the
memory of `temp_buffer`, `conn` is the variable `connected` with its value -1. `SendS` and `SendC` model a send to a
peer that ended: it is lost first, and a later one raises SIGPIPE. `views` is a history variable that collects what
the directory was during a command.

**WebSocketServer.** A frame is one element of its peer's stream, with its opcode, FIN bit, which part of which message
it carries, and where it is cut if its peer died inside it. A peer's upgrade request is the first of its frames. `Accept`, `Handshake`, `HandshakeEarly` or
`HandshakeFails`, and the `announce` loop are `accept_connections`. The request is taken by a single `read`: of the peers in `Long`, whose request
may come in several segments or be larger than the buffer, it takes a piece, which has the key (`HandshakeEarly`, the rest is taken for frames later) or
has not (`HandshakeFails`); and since the buffer is not cleared a request without a key may be answered with what an earlier one left
there (`StaleKey`). `StartReceive` enters `receive_text_frame`; `Idle`, `Disconnected`, `Ping`,
`Unsupported`, `MoreData` and `MessageEnds` are its returns and turns. `SendSkip`, `SendFrame` and `SendFrameFails` are a
turn of the text broadcast and of the announcement, `SendBinary` one of the binary broadcast. Peers in `Endless` may ping without end (`PingOn`). `MayBlock` says that the thread's next step is a send to a
client that is there, which may not return. After an unsupported opcode the payload is left unread: `Unsupported` and `Misread` let it be taken for any header.

**FtpLifecycle.** `mpc` is the position of `main`; `sock`, `ci` and `keep` are `client_socket`, `ci` and `keep_running`;
`mem` the structures `client_info_storage` allocates, `open` the descriptors of the process. Every step of a thread
reads its structure, which `wild` records when it was freed before. `ftp.h:4` defines `_XOPEN_SOURCE` before the first include, so `signal` has the
semantics of System V: the blocked `accept` of a `main` that takes the signal returns EINTR (`Block`, `SignalMain`, then `AcceptFails`), a thread may
take it instead (`SignalThread`), and a second signal of the same number ends the process (`SignalAgain`). `Accept` gives the lowest free descriptor, as POSIX has it.
Threads never close their socket, so that descriptors only come back when `pthread_create` fails or the server ends.

**JsonParser, JsonQuery.** A chunk has `ChunkSize` slots, a key, a value (the number of its token) and a sub-container, and the next chunk. A place on
the stack is the kind of a container, its chunk and the position in it. `OpenContainer`, `CloseContainer`, `PutScalar`, `Colon`, `Comma` and
`BadToken` are the cases of `j_parse`'s loop, each with its refusal, which frees the chunks. The walk of `jse_get` is an operator that returns where
the code's pointer is; reads behind a chunk are "wild". The keys it compares on the way are unescaped first, once each (`plainKeys`, `keyRuns`), and a
label that is null or too long gets NULL (`GetUnasked`). A value is marked for unescaping when the last string read had escapes, even if it is a literal:
`needs_escaping` keeps what that string left (`NeedsEscaping`). `JsonTree` has no chunks: a container has a name and is a sequence of any length, and a key,
value or new container goes to the end of the innermost open one, or takes the place of the key that waits there. The document is handed over when
everything is closed, or not at all. `JsonDocument` reads it from the chunks: a container is named by its first chunk and holds what is in that and
those behind it, and what is open is found from the stack, where each container hangs in the last slot of the one around it.

**TecString and the others.** Strings are sequences of bytes. The functions that go word by word keep their words (`Word`), tables their first size
(`SplitLimit`), numbers their width (`IntBits`, `HexBits`). `TextCalls` is a program that calls one function on a buffer: edits change it,
questions answer about it. The file functions take a fault, an `fopen` that fails or a byte from which reading or writing
does. `Commands` writes a word where the doubled position says, inside or outside the table. Arguments are all strings over small alphabets of the bytes a function tells apart.

## 3. What the runs show

| Run | Question | Bounds |
| --- | --- | --- |
| `poll_clients` | Is chat delivered rightly while clients come and go? | 3 peers, 1 of them writes 3 chunks, descriptors up to 7 |
| `poll_limits` | Does it hold when descriptors and the array run out, and does it make progress? | 3 peers for 2 descriptors, array of 2 that doubles |
| `poll_broadcast` | Does a broadcast reach everybody? No. | 4 peers, 1 chunk |
| `ftp_faults` | Are transfers complete and in order, and do they end? | up to 3 packets, 12 sizes, a kill at any step |
| `ftp_copied` | Is the file copied? No. | the same sizes |
| `session_two` | Do two clients get the right answers? | 2 clients of 3 commands, 2 directories, 1 name |
| `session_faults` | Do failures of a client stay its own, and do commands return? | 1 client, 2 connections, 4 commands, kill, split packets, full disk, failing system calls |
| `ftp_lifecycle` | Do threads keep to their own client, and does the server end when told to? | 6 clients, 5 descriptors, ids of 4 values |
| `ws_clients` | Is the list of slots right through joins, failures and leaves? | 3 peers: one writes its request and a frame, or pings for ever; the request of one may not fit one `read`; one only connects |
| `ws_messages` | Are messages relayed whole, in order and to all? | 2 peers, one with 2 frames behind its request and a cut one, messages of up to 2 frames |
| `json_documents` | Does a caller of the JSON parser get what the document says? | all sequences of 6 tokens and 400 documents, chunks of 2, stack of 3, 2 gets, 2 nexts |
| `text_calls` | Do the text functions return what their comments say? | strings of 2 to 9 bytes, words of 2, tables of 2 pieces and 4 words, 8-bit numbers |

**poll_clients.** `NoEcho` and `SenderOrder` hold always, even with stale slots, reused descriptors
and duplicate slots. `WatchListExact`, `BroadcastExact` and `RecvNeverBlocks` are stated until the first disconnect,
because afterwards the code breaks them (see `poll_broadcast`); before it they say that adding, doubling and
scanning are right. Three peers are what it takes to have a sender, a peer that leaves and one whose slot is lost;
four descriptors are reused by them. Three chunks let one be received in two pieces and still be followed.

**poll_limits.** The listener has descriptor 1 here, the smallest number for which taking a descriptor for an index
can hit live slots of a short list. `TypeOK` includes that the array is as long as the bookkeeping says at every doubling.
`ListenerFirst` says that no deletion overwrites the listener; `WatchListBounded` that only failed accepts leave slots for ever;
`EndsForCause` that `main` returns only when `poll` refuses a list with more such slots than there are descriptors below the clients': the stale slots of
clients that came and went never do it. (SIGPIPE ends the server too: a send to a client that reset its connection, which a closed client does
when it is sent something.) `PendingAccepted`, `HangupNoticed` and `BroadcastEnds` are the liveness of the loop: a waiting connection is accepted, a peer
that left is closed while it is watched, though the slots move and the descriptors come back, and a broadcast ends.

**ftp_faults.** The sizes are those around 255/256, 508/509 and 1016/1017: the ends of the length byte and of a
packet. `ChunkOrder` holds while the sender lives, and says exactly how it can fail when it died; `CompleteTransfer` says
that a receiver which was told the end has every chunk, and what must have happened when it stops without: a process went, one of its writes
failed, or the server could not size the file. `TransferEnds` says that a transfer nobody interrupts comes to its end on both sides; when a
write fails it need not, for the sender may block behind packets that nobody reads.

**session_two, session_faults.** Two clients of three commands include every pair of a `stat` and a foreign `chdir`,
`mkdir` or `remove`. `InStep` says that the stream and the client's position in it agree at every prompt;
`AnswerJustified` that an answer was true at some moment of the command, which is the most a server with one shared directory
can promise: LS lists nothing that was never there and everything that always was. An answer after a system call that failed unnoticed is
excepted (`failed`), and so is PUT, whose reply says nothing. `OnlyKillsCauseSigpipe` says that a client's own errors and its EXIT never end the server, and
`CommandReturns` that every command comes back to the prompt.

**ftp_lifecycle.** Six clients are more than the descriptors and more than the ids, so that both run out, in either order and with
threads that could not be created in between. `ThreadsApart` says what the code achieves and names its limits: a thread talks on its own client's
socket while every descriptor in use fits its byte, ids differ while fewer clients were accepted than a byte has values, only the last client's
thread can read a freed structure, and freeing it twice needs a thread that was not created. `ShutdownEnds` is the
shutdown as it is: a signal that finds `main` in `accept`, or before the next test of `keep_running`, ends the server; one that `main` takes between
the test and `accept`, or that another thread takes, is seen when one more client connects.

**ws_clients.** `SlotsFit` is the surprising one: the array is allocated with 8 bytes, yet no write leaves what
malloc gives (24 bytes, three slots), because the announcement of the second client closes the listening socket, so
that no third one comes. Repairing the listener alone breaks it, which is what its mutant does. `OpenIsWatched`
says that deleting by descriptor, under a scan and a broadcast that hold indices, never loses an open socket;
`DropsOnlyTheGone` that silence never costs a client its connection: who is cut off has left, closed, written what cannot be placed, or got no answer to its
request, as happens to a good one whose key the one `read` does not take. `ScanEnds` says that the thread always comes back to `poll` unless it waits for the
bytes of one client, blocks in a send to one, or is kept by one that pings without end, all of which the code can do for ever.

**ws_messages.** `MessageIntegrity` is about what is left out: when a peer pauses inside a message, the frames read are
dropped, and the rest must never come out as a message. The bounds let the first message be cut, paused, ended by another
and followed by a second. It does not speak of peers that sent a pong: those are misread from then on.

**json_documents.** A chunk of two slots makes a container of five values three chunks long, so that values, keys and
containers stand at the first and the last place of a chunk and in later ones; the real size is twenty, and nothing in the code depends on
it otherwise. Every sequence of six tokens over a reduced alphabet is read too, valid or not. `RefusesOnlyErrors`, `AcceptedIsNested` and `FreedOnce` are about
parsing: the code accepts much that is no JSON, but refuses nothing that is, and what it accepts has matching brackets. `GetExact` compares `jse_get` with
the address of a value by the grammar (`JsonText`), twice in a row, since the second get finds texts that the first one changed; `NextExact` does so for
`jse_get_next` over the end of a chunk. `BuildsTree` is the refinement: the chunks are invisible (section 5). `MaxSize` stands for
`JSE_MAX_SIZE`, the most bytes a document has, and so the most tokens; it is the length of the longest one here.

**text_calls.** One call from every argument. A codepoint is of one to four bytes, a word of two bytes has every alignment with it, a table of two
entries doubles, an index of three bits wraps. The reference definitions are written from the comments of `technical.h` and from RFC 8259 and share
with the model only the classes of characters and a few helpers on bytes. `PiecesExact` is about what is cut into pieces, `AnswersExact` about what is
returned, `EditsExact` about what is changed. `LaunchExact` says of a command line what the words are and that nothing is cut inside quotes. Where the code is wrong
the property excepts it by name (`LastNameLost`, `LongestRefused`, `TooManyWords`, `Unnoticed`, ...); the exceptions are listed in section 6.

Runs without deadlock checking: all of them, since every server may rightly wait for clients that have nothing left to
do, a document that was freed and a call that returned are the end, and the clients' bounds end every behaviour.

Symmetry is used only in runs without liveness, over peers (or clients) the model treats alike.

## 4. Fairness

- `PollServer`: weak fairness of the server's thread, which is runnable whenever a step is enabled, and of each peer
  reading what was sent to it. Without the second a full buffer blocks the server for ever, as it does in the code.
  Only `PendingAccepted`, `HangupNoticed` and `BroadcastEnds` use it.
- `FtpTransfer`, `FtpSession`: weak fairness of each program's and each thread's next step. None is assumed of users, kills, splits or
  full disks.
- `FtpLifecycle`: weak fairness of `main` only. No client is assumed to connect, no thread to run and no signal to come.
- `WebSocketServer`: weak fairness of the one thread's steps that do not send to a client that is there (`~MayBlock`): such a send may
  block for ever when the client does not read. No peer is assumed to write, read or leave.

Weak fairness is enough: every one of these steps, once enabled, stays enabled until it is taken, and what is
assumed is that the operating system schedules the thread.

## 5. Proofs

Each theorem is for every value of the constants; the only assumptions are the named ones of the modules, which TLC evaluates in the runs.
Every safety invariant and action property that the passing runs of the servers check is proved, and of the JSON parser all but those about the answers: the
refinement of `JsonTree` and that no JSON text is refused are among them.

**PollServerProofs** (`ConstantsAssumption`: finitely many peers, a descriptor limit above the listener's
descriptor, a positive initial size and a socket buffer that takes at least one message):

- `TypeCorrect`, `ListenerStays`: the bookkeeping and the listener's slot.
- `NobodyHearsItself`: no peer is sent its own message.
- `WatchListStaysBounded`, `EndsOnlyForCause`: the size of the list, and the reason why `main` returns.
- `WatchesEveryClient`, `NoStaleRead`, `BroadcastsExactly`: until the first disconnect the slots are exactly the open descriptors, `recv` is
  called only where there is something, and a broadcast reaches every other peer once.
- `SentInOrder`: what one peer is sent of another is in the other's order, without a gap, before and after disconnects.

*The argument.* The type invariant is not inductive alone: a deletion writes the slot whose index is the descriptor, so that the
types of the slots depend on the listener's descriptor being in slot 0 only, and a broadcast writes for the sender of the
current chunk, who must still have a socket. `IndInv` is therefore the conjunction of `TypeOK`, `ListenerFirst` and `SenderOpen`.
`InitIndInv` and `NextIndInv` show it inductive, with one step per action; `AddKeepsSlots` and `DelKeepsSlots` are the
lemmas on the two operations of the array, `AllocatedCovers` the one on its size. On it rest two more invariants. `PeersInv` adds
that a peer has at most one descriptor and is not both accepted and waiting: without it one peer could be sender and
receiver under two descriptors, and `NoEcho` would not follow from the comparison of descriptors. `CountInv` adds
`WatchListBounded` and `EndsForCause`, with a count of open descriptors: `poll` refuses the list when it is longer than the descriptor limit, and as there is
at most one slot for the listener, for each open connection and for each failed accept, that takes failed accepts.

Before the first disconnect only nine of the server's steps can happen (`QuietSteps`), which makes `WatchListExact` inductive. `Fresh` adds that the
slots behind the list have no events and those the scan has still to look at only true ones, which gives `RecvNeverBlocks` as long as the array is the
first one. `HalfSent` says of a broadcast at slot `j` that the peers of the slots before have the chunk once and those behind not at all.
`SentInOrder` cannot use that, for after a disconnect a peer may have two slots or none. There the invariant (`CaughtUp`) is about peers that can
still be reached: the last chunk such a peer was sent of a sender ends where the received data ends, or, while a chunk of that sender is being
broadcast, where that chunk begins until the first slot of the peer is passed, and from then on it is that chunk. A peer out of reach never comes back
(`HearsBefore`), and one that was not accepted has been sent nothing (`Unheard`).

**FtpTransferProofs** (`TransferAssumption`: a packet holds at least a byte, a length at least a value):

- `TypeCorrect`: lengths fit their byte and the sender stays inside its file.
- `TransferComplete`: the receiver that was told the end has every chunk in order; one that stops without being told has seen a failure.
- `WrittenInOrder`: whoever dies and when, the file is the first chunks in order, with at most repeats of the packet the receiver holds behind them
  and these only when the sender died.

*The argument.* `CompleteTransfer` speaks of the end only. The invariant speaks of the stream: what was written, the packet that is being
looked at and those on their way are the chunks in order, then the EOT (`InStream`). It holds while the sender runs; and afterwards as long
as an EOT is on its way, because a kill loses the end of the stream and nothing in front of it (`CutKeeps`, `EotIsLast`). Once the sender is
gone and the EOT lost, nothing is claimed but that the EOT will not appear. `CountOK` adds that nothing is missing while both run, which
places the next packet; `ControlOK` says where the two programs can be at the same time, which is why the answer to the request is the
first packet of the stream and the request the only one of the other. One lemma per action shows that it keeps the invariant.
`WrittenInOrder` follows the stream after the EOT is lost: its DATA packets are still at their places but for the last, which may have been
cut (`InPlace`), and once it is empty the receiver writes what it holds again and again (`Repeats`).

**FtpSessionProofs** (`SessionAssumption`: there is a directory, the names are finitely many, a client may connect once):

- `SessionInvariant`: the types, the sockets and the conversation of every client with its thread.
- `AlwaysInStep`: between two commands nothing is on its way to the client, and its thread waits for the next command or still has the end of an
  upload to read; for any number of clients, commands and connections, unless a full disk broke a transfer off.
- `KillsCauseSigpipe`: only a client that was killed, or a full disk, brings the server a SIGPIPE.
- `AnswersAreJustified`: every answer but the one to PUT was true at some moment of the command, unless a system call failed unnoticed; a listing,
  read entry by entry, leaves out nothing that was always in the directory and has nothing that never was.

*The argument.* `SessionInv` has three parts. `Sockets` says that a connection is open until its client ends and that one that was never made carries
nothing. `Talks` goes through the places of a client in a command and says for each, packet by packet, what is on its way and where the thread can be:
at the prompt nothing, or the end of an upload; after a request the request, or the thread at work on it, or the answer; and so on through both
transfers. A connection that its client left behind is quiet, and a thread whose client ended winds up without a send to a reset socket (`Over`). A
step of a client or of a thread touches one conversation only (`ClientElsewhere`, `ThreadElsewhere`), which is why they can be proved one by one.
`AnswersInv` stands on it. `Seen` says that while a command runs the current directory and tree are among its views; `Truths` what is true of some
view at every stage of the work: what `stat` found (`Found`), the text of the answer on its way (`TrueText`), and of a listing (`Listed`) that what was printed,
what is on its way and what the stream has read were each in the directory at some moment, and that a name which was always there is among
them or still to be returned.

**FtpLifecycleProofs** (`LifecycleAssumption`: a byte has a value, there is a descriptor):

- `ThreadsStayApart`: `ThreadsApart` for every number of clients and descriptors and every width of an id.

*The argument.* What `main` does with `sock` and `ci` after a thread could not be created depends on what the descriptor has become since, and what a thread
may read on which structures were freed before it was created. `StructuresOK` says that a structure is freed only when no thread got it or at
the end, `SocketsOK` that a running thread's descriptor is still its own, and that the one in `sock` is the last client's or free.

**WebSocketServerProofs** (`WebSocketAssumption`: finitely many peers, at least one unread frame, messages of at least one part):

- `TypeCorrect`, `ListFits`, `Watched`: the list stays inside the 24 bytes it has, and every open socket is in it.
- `BroadcastReachesAll`: when a text broadcast ends, every connected client but the sender was sent the message.

*The argument.* `ListOK` is about the listening socket: as long as it is open there are at most two clients, and two only until the second one was announced,
which closes it; after that nobody is accepted. `IndexOK` bounds the scan in each of its calls, so that a deletion of a slot is one of three small cases.
`SocketsOK` gives a peer one descriptor, and gives every waiting connection a free one: there are as many descriptors as peers, and two never share a peer.
`Pending` says of a broadcast that whoever was not sent the message has a slot that is still to come, whatever is deleted meanwhile.

**WebSocketMessageProofs** (the same assumption):

- `NobodySilentDropped`: until it exits, the server closes only the sockets of clients that left, sent a close frame or bytes it cannot
  place, or whose request it did not answer.
- `MessagesIntact`, `MessagesInOrder`: what is relayed is a whole message of its author, as it was written, and in the author's order.

*The argument.* What a peer wrote is kept as a history, and what the server has not read is the end of it (`Suffix`); so the frame that comes next has a
number (`At`), the message and the part. `Partial` says that the buffer holds the parts of that message before it, all of them or none: a pause that drops frames cannot
leave a gap, for behind it come continuations only, which are never relayed because no first frame gave them an opcode. `Relaying` and `GotOK` say that what is relayed
lies before what comes next. The invariant excepts peers that cut a frame or sent a pong, as the property does.

**JsonQueryProofs** (`ConstantsAssumption` of `JsonParser`: a chunk and a stack of at least one place). The parser by itself:

- `ParserStaysInside`: whatever the input, the parser indexes stack, chunks and document inside their bounds.
- `AcceptsOnlyNested`: in what is accepted, JSON or not, every bracket is closed by one of its own kind and nothing is left open.

*The argument.* A key is written through `st` and the position on top of the stack, which are kept separately. `Bare` adds to the types when `st` may stand
while nothing is open: after the bracket that closed the document only, after which a colon is refused, so that no key follows. For the second theorem
`Nests` relates the stack to the input: it is as high as the input is deep at its end, and each of its places is of the kind of a bracket that stands at that depth and
after which everything stood deeper. So the bracket that is closed is the one on top (`NestsClose`), and a bracket inside cannot be matched by accident.

The whole program:

- `FreesEachOnce`: whatever the file holds and whatever was asked of it, `j_free` gives no chunk back twice; `jse_free` gives back all, and after an error
  nothing is lost but the container that was just opened.
- `MemoryIsForest`: until then the chunks are a forest, in which `j_free` finds everything.
- `CallsStayInside`, `AnswersOnlyNested`: the two theorems about the parser hold in the whole program.

*The argument.* `j_free` follows the pointers and recurses, so that it ends, and frees a chunk once, only if they make a forest (`Forest`): each leads
to a chunk, no two to the same, none in a circle. There is no numbering to show the last by, for a container is allocated before the chunk that its
parent may grow by, and hangs in that one afterwards; so it says that in any set of chunks one points to none of the set (`Acyclic`). A new chunk that
is not yet hung up is `loose`, and the only way to lose memory; `HungUp` is the one step that makes a pointer, `Written` stands for all other writes.
`Filled` is about the code's own condition: `j_free` stops at the first unused slot, so nothing may hang behind one. That it stays so is due to the
stack: every place on it (`Spot`) is behind used slots only, in a chunk of its own, with nothing from there on. `Freed` is a recursive function over
the chunks. That it satisfies its equation (`FreedDef`), that what two pointers lead to is disjoint (`Reached`) and that a root reaches all
(`Topmost`) are each shown on a smallest set of chunks where it fails (`SmallestSet`). `jse_get` writes into the document too, the marks of texts it
unescaped, at the place its walk ended; `ClearRawKeeps` needs nothing of the walk, as no pointer changes wherever that is.

**JsonDocumentProofs** (also `SizeAssumption` of `JsonDocument`: no document has more tokens than `MaxSize`):

- `BuildsTheTree`: `Spec => BuildsTree`. Every step of `j_parse` is one of `JsonTree`, which knows no chunks, and every call on the finished document leaves
  it as it is, for any size of chunk and stack, any document and any calls.

*The argument.* A step of `JsonTree` appends to one sequence. A step of the code writes a slot and perhaps a link, and `Contents` reads every
container anew from all chunks. `Owned` says whose each chunk is: a map `own` from chunks to containers that is constant along `next`, and in which
every container has one chunk without a next one. `Full` says that a chunk with a next one holds complete elements only, so that what is written last
is read last and a key that waits is in the last chunk. `Placed` ties the stack to this: each place on it is the end of a container, behind complete
elements and with nothing from there on but a key (`Tidy`), and its container is the open one that `JsonTree` has at that depth. So a write at a place
changes the end of one container, and of no other (`ChangedAtEnd`, `SameChains`); a new chunk changes none (`GrownContents`), and the first chunk of a
new container adds an empty one (`OneMoreContainer`). `SlotSettled` is about the one slot in which the key and what it waits for come in different
steps. `Contents` follows `next` recursively; its equation (`FromDef`) is shown, like that of `Freed`, on a smallest set of chunks where it fails, for
which the chunks must make a forest: the refinement stands on `MemoryIsForest`. That the names of containers suffice is counted: a token allocates two
chunks at most, and a document has at most `MaxSize` tokens.

- `RefusesNoText`: no token of a document that is a JSON text and nests within the stack is refused, and neither is its end.

*The argument.* The code decides by the token before, by `next_key_value` and by the top of its stack; the grammar (`JsonGrammar`) says where a value
or the elements of a container may end. `ReadingInv` relates the two for every text that begins with what was read, whichever of them the input
becomes: there are places in the text, one for each container on the stack, where it is closed, each such that after it the container around goes on
(`Around`), and the token that comes next is one of five things that the innermost container admits, together with the checks that this thing passes
(`Innermost`). A token opens one container, closes one, or stays in it, and unfolds the grammar once (`ValueBegins`, `ListBegins`). So the proof needs
no induction over texts, which would be out of reach; the one induction it has is over a number, that the recursive function `Ends` satisfies its
equation (`EndsDef`). That the stack is never full is `LevelsBegin` with `Nests`: it is as high as the text is deep.

**Only model-checked.** Liveness (`PendingAccepted`, `HangupNoticed`, `BroadcastEnds`, `TransferEnds`, `CommandReturns`, `ScanEnds`, `ShutdownEnds`): `ENABLED` and fairness are
outside what the prover does. `GetExact` and `NextExact` compare a walk with paths through the text, whose operators (`JsonText`, `JsonAnswers`) are RECURSIVE, and
`PiecesExact`, `AnswersExact` and `EditsExact` with definitions that are recursive too: what they say for every text needs an induction over it.

## 6. Findings and other observations

Two disagreements between the code and what it says of itself are runs that TLC must find violated:

1. `poll_broadcast` - after one client disconnects another connected one loses its slot (`poll_server.c:208` uses the
   descriptor as an index), and gets no broadcast any more.
2. `ftp_copied` - a packet's length is one byte but its payload is up to 508: files of more than 255 bytes lose bytes.

Seen on the way, in the models and without a run of their own. FTP:

- A missing file in GET, or one that cannot be written in PUT, ends in `fclose(NULL)` and takes the server with it.
- For an existing directory MKDIR answers what is in `temp_buffer`, not "Directory already exists" (`ftp-server.c:168`).
- A failed CONNECT leaves -1 in `connected`, which `!connected` takes for a connection (`cli_ftp_client.c:138-140`).
- RM answers "command success" while the client compares with "success" (`ftp-server.c:214`, `cli_ftp_client.c:381`).
- EXIT is refused before the first CONNECT.
- Threads never close their sockets: descriptors leak until `accept` fails, which ends the server. The 256th client gets id 0 and later ones an id
  that was given before, although the comment at `ftp-server.c:267` speaks of a unique one; descriptors from 256 on are cut off alike.
- A signal that `main` takes between its test of `keep_running` and `accept`, or that another thread takes, ends the server only when one more client
  connects; one before the first client frees an uninitialised pointer. In a thread's `recv` it is taken for a packet.
- `ftp_commands` doubles its position instead of the size of its array: with 64 words or more the rest is written outside (`TooManyWords`).
- The results of `getcwd`, `opendir`, `mkdir` and `remove` are not looked at: MKDIR and RM answer success when they fail, LS lists an older directory or
  ends the server in `readdir(NULL)`. A receiver whose `fwrite`
  fails stops reading and leaves the sender to fill the stream.

WebSocket and chat:

- The first text broadcast sends to the listening socket and closes it: the comparison is with descriptor 1 (`webserver-v3.c:337-338`).
  Then the server exits when its list has one slot, which is a client that is still connected.
- An upgrade request that comes in two segments, or is longer than the buffer, is refused, or what is left of it taken for frames: there is one `read`
  (`webserver-v3.c:703`), whose buffer still holds what an earlier request left.
- A client that does not read what it is sent, sends nothing after it connected, or pings without end stops the server for everybody.
- A failed WebSocket handshake leaves a slot with a closed descriptor, for which `poll` returns at once, for ever.
- The comment of `del_client_from_poll` says that the last slot is copied over that of the client; the index is not its slot.

JSON parser:

- It accepts much that is no JSON: `{"a"}`, `{"a","b":1}`, `{:1}`, `{true}`, `1 2`, an empty file. After the last two `jse_get` follows a null pointer.
- A name in the last place of a chunk whose value is a container sends `jse_get` on to the wrong chunk; a name without a value gets the value
  of the first element; `jse_get` of a container returns its first value with a stale index.
- After `jse_get` with an index above 0, `jse_get_next` counts it twice; it cuts off and unescapes nothing, and does not remember the next chunk, so that
  a container that is longer than a chunk and one element is walked for ever.
- A literal behind a string with escapes is marked for unescaping (`needs_escaping` is not reset).
- An error loses the container that was just opened; `j_unescape_string` drops escapes with a bit of 0xd800 that are no pair.

String library (the exceptions of `text_calls`):

- `tec_string_split` and `split_for_args` put the last end outside their table when the pieces just fill it.
- `tec_buf_cmp` compares whole words, past the end it was given; `buf_find_str` reads one byte more than there is.
- The bounds of UTF-8 are 65636 for 65536 and 1114112 for 1114111.
- `dir_make` of "dir/x" makes "dir" (`LastNameLost`) and refuses a path of the `MAX_PATH - 12` characters that `technical.h:366-372` allows when the last
  of them is the slash (`LongestRefused`, `technical.c:1130-1136`); the smallest int is written as "-(".
- `launch_exe` makes one space of several, between quotes too.
- Copying a file onto itself empties it; copying a directory, or a file that cannot be read to its end, never ends; a copy that could not be written whole
  returns 1. The contents of a directory, or of a file that cannot be read, are memory nobody wrote.

## 7. What is not modelled

- Bytes of the network: packets, frames and chunks are records; splitting of a stream is modelled where code depends on it (a
  packet cut in LS, a frame cut by the end of a stream), not at every byte. A WebSocket text is relayed up to its first zero
  byte (`strlen`, `webserver-v3.c:341`), which `MessageIntegrity` does not see.
- Memory: allocation failures, and the addresses behind an overrun (`PollServer` stops where an index leaves the array, the text functions
  return whether they stayed inside).
- Redis, SHA-1, base64, logging, terminal output.
- EAGAIN in `send_frame`: all sockets are blocking, so that the retry loop is not reached.
- Of a WebSocket request in pieces: that the later ones come while the server does something else. What one `read` left is there when the server
  reads again. A message of endless continuation frames is cut at `MaxParts`; that a client can keep the thread by never pausing is
  modelled with pings.
- What `opendir`, `stat` and `fopen` do with other failures than those named in section 2.
- A command of 1024 characters or more, which `launch_exe` refuses before it does anything.
- Of the string library: `tec_sys_launch_process`, its pipes and its threads, which nothing in the repository calls; the printing of errors
  (`t_error`); the branches for Windows, which this build does not contain.
- The errors of the servers before they listen: nothing is served yet.
- The parts the table of section 1 names.

## 8. What is left

Every component with state that several parties share, and every module another one depends on, is modelled. What could still be added,
by worth:

1. An abstract chat specification (a message is accepted, then delivered once to every member but the sender) that
   `PollServer` implements until the first disconnect, and an abstract relay for `WebSocketServer`.
2. Proofs: that `jse_get` walks to the address a label has in the sequences of `JsonTree`, on top of `BuildsTheTree`.
3. The pipes and threads of `tec_sys_launch_process`.

## 9. Running it

- `tlc -workers 2 -config PollServer_clients.cfg MCPollServer.tla`, and so on: every `.cfg` is named after the module it configures
  (`PROJECT.json` names the module TLC is started with).
- `tlapm PollServerProofs.tla`, and likewise for the other `*Proofs` modules, checks the proofs.
- `PROJECT.json` lists components, runs, what each definition models (`map`), the hazards and which property watches
  them, and for every property a mutant of the model that breaks it. The mutated forms stand in the modules beside the
  definitions they vary, with a suffix after an underscore (`Sending_Everybody` beside `Sending`).
