# Verification of Code_Repository_Utils

TLA+ modules of the programs in `src/`, TLC configurations that check them on
small instances, and proofs by TLAPS for every value of the constants. The
heart of the repository is the **lighting gateway** (`src/lighting-gateway`): a
daemon between a ZigBee SoC on a serial port and clients on TCP sockets, and
the library its clients use. Around it stand smaller utilities: an epoll chat
service, a reconnecting TCP client and server, a timer manager on epoll and
timerfd, two serial-port wrappers and two textbook algorithms.

Short names of the files used below: `zbFwStart.c`, `zbSocSocketServer.c`,
`zbSocCmd.c`, `socket_client.c` (all under `src/lighting-gateway/`),
`service.c`, `socket.c`, `Tcp_client.c` (`src/socket_tcp/`), `Timer.c`
(`src/Timer/`), `Uart.c`, `uart.c` (`src/Uart/v1.0`, `v2.0`).

## 1. Inventory

| component | state it keeps | operations | hard behaviours | correct when |
|---|---|---|---|---|
| gateway main loop, `zbFwStart.c` | array of `pollfd` built anew in each round | poll; serve the serial port; sweep over the entries | entries and events are a copy: serving one changes the list and the descriptors the rest refer to | every ready client is served, a descriptor is only acted on for its own event |
| gateway socket server, `zbSocSocketServer.c` | linked list of socket records, head = listening socket | `socketSeverInit`, `createSocketRec`, `deleteSocketRec`, `socketSeverPoll`, `socketSeverSendAllclients`, `zbSocSocketServerProcess`, `Socket_ProcessIncoming`, `CheckcalcFcs` | failed `accept`/`write`, SIGPIPE, shutdown with data in the same event, commands split or joined by TCP | list and descriptor table agree, broadcasts in order, commands executed as sent and before the close |
| gateway SoC driver, `zbSocCmd.c` | serial descriptor, static retry counter | `zbSocOpen`, `zbSocUartConfig`, `zbSocProcessRpc`, `zbSocSetDevice`, `zbSocGetDeviceData`, `zbSocTransportWrite` | bytes that have not come yet or are lost, retries, `uint8_t` lengths and counters, a SoC that stops | a broadcast is one frame, only a loss makes it read over the end of a frame, the loop gets control back |
| client library, `socket_client.c` | `rxBuf`, `rxProcBuf`, `messageCount`, mutex, condition variable, the header read | `rxThreadFunc`, `handleThreadFunc`, `socketClientSendData`, init, close | two threads, a lost signal, a list overwritten, freed or unlocked under the other thread; broadcasts joined, split or cut | messages handled once, in order; the list is used by one thread at a time; the place in the stream is found again |
| echo example, `Socket/server_thread.c`, `client.c` | `com_fd` shared by all threads | accept, one thread per client | every thread is given the address of the same variable | each client is served by one thread |
| epoll service, `service.c`, `socket.c`, `client.c` | epoll set, list of clients | accept, receive, broadcast, remove | edge-triggered events, one `accept`/`read` for each; errors of `SocketRecv` unused | no event is forgotten, no closed descriptor is kept |
| reconnecting TCP client and server, `Tcp_client.c` | connection, list of remotes, indices into `polling_fds`, one receive buffer | connect and reconnect, create server, accept, receive, delete | stale indices, no free slot, failures at every stage, partial reads, one buffer for all | reconnects, an index leads to its owner, one remote's bytes never reach another |
| timer manager, `Timer.c` | list of timers, epoll set of timerfds | create, add, remove, destroy, run, terminate | timers removed while their events are served | a timer that was removed is never called, a stop stops |
| Uart v1.0, `Uart.c`, `main.c` | `wait_flag`, descriptor | SIGIO handler against the main loop; open, configure, close | a signal between the last read and the clearing of the flag | bytes are read in the end |
| Uart v2.0, `uart.c` | descriptor | open, set, read, write, close | a descriptor that outlives its port, refusals without a value | a call acts on the port, what is said to be set is set |
| sorting and reversing, `bubbleSort.c`, `revstr.c` | none | two sorts, reverse a string | exchanges by a running index | the result is sorted, or reversed |

How they interact: the main loop calls the socket server to fill its `pollfd`
array and to serve each ready entry, and the SoC driver to serve the serial
port. The driver calls back into the server (`socketSeverSendAllclients`) for
each frame, and the server calls the driver (`zbSocSetDevice`,
`zbSocGetDeviceData`) for each command, so both sides change the record list
inside one round of the loop. The client library speaks to the server over TCP;
inside, its reader hands lists of messages to its handler. The other components
share no state with the gateway or with each other.

## 2. Modules

| module | code | on top of it |
|---|---|---|
| `Hub` | none: what the gateway promises its clients | |
| `Gateway` | main loop, record list, broadcast, descriptor table, clients and SoC as environment | `GatewayHub` (Gateway implements Hub), `GatewayProofs`, `MCGateway` |
| `CommandStream` | a client's commands as bytes: `zbSocSocketServerProcess`, `Socket_ProcessIncoming`, `CheckcalcFcs` | `SocketClientProofs`, `MCCommandStream` |
| `SerialRpc` | a frame from the serial port: `zbSocProcessRpc` | `SerialRpcProofs`, `MCSerialRpc` |
| `SocketClient` | the client's two receive threads | `SocketClientProofs`, `MCSocketClient` |
| `ClientFrames` | the broadcasts as bytes, and the two `recv()` of `rxThreadFunc` | `SocketClientProofs`, `MCSocketClient` |
| `EpollService` | epoll loop, record list and broadcast of the chat service | `EpollServiceProofs`, `MCEpollService` |
| `TcpPackets` | the bytes of `Tcp_client.c`'s connections and the buffer they share | `TcpProofs`, `MCTcp` |
| `TcpTable` | its connections, records and poll table | `TcpProofs`, `MCTcp` |
| `TimerMgr` | `Timer.c` and what callbacks do, as in `test.c` | `UtilProofs`, `MCUtil` |
| `EchoThreads` | `server_thread.c`, with `client.c` as environment | `EchoThreadsProofs`, `MCEchoThreads` |
| `UartLoop`, `UartPort` | `main.c` of Uart v1.0; the three serial port libraries | `UtilProofs`, `MCUtil` |
| `Sorting` | `bubbleSort.c`, `revstr.c` | `UtilProofs`, `MCUtil` |
| `Filter` | none: `Only(s, T)`, the elements of *s* in *T*, where the provers need a `SelectSeq` they can expand | `EpollService`, `TimerMgr`, `CommandStream`, `SequenceFacts` |
| `SequenceFacts` | none: lemmas on `RemoveAt`, `Append`, `Tail`, `SubSeq`, ranges, `Only` | used by all proof modules |

`Gateway` takes a command and a frame as one unit, or as its start with the rest
still to come. `CommandStream` is what is
under its action `ReadCommands`, `SerialRpc` what is under `ServeNoise` and
`TakeFrame`; `ClientFrames` is what a client makes of the broadcasts, and the
choice that `SocketClient` leaves open between its inputs. Two modules that
share an MC module (`MCTcp`, `MCSocketClient`; four in `MCUtil`) share nothing else:
its variable `program` says which of them a behaviour is about.

### Gateway

`records` is the list from `socketRecordHead` on: only its descriptors, in
order, because `next` pointers and addresses are never compared. `fdTable`,
`backlog`, `unread` and `peer` are the kernel's: which connection a descriptor
refers to (`accept` takes the lowest free one, so numbers are **reused**), which
connections wait, what is readable, and what the other end did. `pollFds` holds
the entries of this round that the sweep has not reached.

| action | code |
|---|---|
| `PollReturns` | copy of the list and `poll()`, `zbFwStart.c:38-70` |
| `ServeNoise`, `SendAllClients`, `SendStopsAtError`, `SendIsKilled` | the serial entry: a byte or frame thrown away; a broadcast that reaches all; one that stops at record *k*, which is deleted; one in which the write to record *k* raises SIGPIPE |
| `SkipIdle`, `ServeListener`, `LoopAgain` | the sweep, `zbFwStart.c:81-95`, with `socketSeverPoll` |
| `ReadClient`, `ReadMore`, `ReadEnds`, `CloseClient` | a client's entry: its reads, `zbSocSocketServer.c:349-396`, and then its close, `:426-436` |
| `Connect`, `SendCommand`, `SendStart`, `SendRest`, `Shutdown`, `ResetArrives`, `SocSends`, `SocFinishes` | the environment, between any two steps, those of one entry included |

The reads and the close of an entry are separate steps (`pc = "close"` between
them), because a descriptor may belong to another connection than the one `poll()`
reported; `of` in an entry remembers which one that was. Commands of `Splits` may
come in two parts (`split`). While whole commands are there the count of FIONREAD
comes out even and one step reads them; otherwise (`Odd`) the reads go on,
`pc = "rest"`: they stop when one finds nothing (-1), or the sum meets the count or
falls short of the length by chance, or the FCS of a lone start of frame runs out
of the buffer (`"dead"`). After a FIN reads give 0, and the loop stays at `"rest"`
with no step to take. In the same way the gateway stays at `"serial"` while the
item in front is a `"part"` of a frame, and at `"print"` behind a frame with
`cmd0 >= 251` (`"loud"`). `Halted` names these states. What the environment does
once the gateway is dead or prints for ever is left out.

`createSocketRec` appends a record with descriptor -1 when `accept()` fails, as
the code does. `deleteSocketRec` deletes the first record with the descriptor
unless it is the head.

### Hub and the refinement

`Hub` knows members in the order they were admitted, frames, and failures.
`Admit`, `Remove`, `ReachAll`, `ReachSome`, `ReachAndStop` and `Stop` are all that
can happen. `GatewayHub` maps `Gateway` to it: members are the connections that a
descriptor refers to, their order is that of their records, `frame` is the
number of broadcasts, `failures` the failed writes, `running` is
`pc # "dead"`. What the mapping hides is what could go wrong: descriptor numbers
and their reuse, the copied poll entries, records of failed `accept`s, resets
not yet noticed. Every step of `Gateway` is then a step of `Hub` or changes
nothing clients could see (`ImplementsHub`).

### CommandStream

One client. `rcv` holds bytes that can be read, `flight` those on their way; with
`splits` an arrival may be any part of a command. `byteToRead` is FIONREAD's answer
less what was read, `byteRead` the sum of two results of `read()`, a -1 included,
`buffer` the buffer behind `bzero`. One action per system call: poll, ioctl, first
read, second read (which always goes to `buffer[4]`), then the message is checked
and executed: `done` is what was handed to `write()`. The `tcflush(TCOFLUSH)` behind
that (`zbSocCmd.c:115`) discards what has not left the port yet; how much that is
depends on the driver, and nothing is claimed of it. `signedChar` is the build's
choice: the length goes through a `char`. The exclusive or is counted bit by bit
(`XorOf`): a bit is set if an odd number of the bytes have it.

### SerialRpc

Bytes are records of frame, place and value, so that a property can say *whose*
byte was sent. One action per `read()` and its outcome: start of frame, length,
body, retry, give up, broadcast. `emptyRead` is the system's choice of what a
read returns when nothing has come: 0 on a terminal with VMIN = VTIME = 0, which
is what `zbSocUartConfig` asks for and what Linux does, or -1 with EAGAIN, which the
retry limit in the code is made for and which read errors give. `ReadSof` leaves out
that a hang-up of the port also ends `poll()`: the first read then finds nothing, its
result is not looked at, and `sofByte` keeps whatever was on the stack.

Each byte the SoC sends may be lost instead (`ByteLost`, at most `MaxLost`); no
FCS is looked at on this side. After the broadcast a `uint8_t` counts to
`cmd0 + 5`: from 251 on it does not get there (`pc` stays `"print"`).

### SocketClient

`rxPc` and `hPc` are the two threads. `messageCount++` and `--` are a load and a
store each. A list is the sequence of the numbers of its messages; `freed` says
which nodes are given back, and a pointer into a freed list keeps its sequence,
which is how `TouchFreed` is noticed. When `poll()` reports neither POLLIN nor
POLLPRI, `n` is read uninitialised: input `"hup"` may go any of the three ways.

### ClientFrames

A broadcast is six bytes, whatever the length in it. `RecvHeader` takes two
(one alone is dropped), `RecvBody` what the length asks for plus three, or what
there is. `apart` remembers whether broadcasts have come whole and one at a time
since the client had last read everything; it is set again then, which is the
claim: every disorder ends when the client has caught up.

### EpollService

The record list as in `Gateway`, but descriptors are watched by the kernel:
`interest` is the epoll set (of open files, as in the kernel, so that closing
takes a file out), `ready` its ready list. Something new puts a watched file on
`ready`; `EpollWait` takes all of them off and leaves events for what can be
read. Being **edge-triggered**, a file is not put back for what it still holds.
`Accept`, `AcceptFailed`, `Relay`, `RelayStopsAtError`, `RelayIsKilled` and
`ServeClosed` are the branches for one event (`service.c:104-142`), the broadcast
included. A read that fails is not looked at: `Empty` is broadcast. Errors of
epoll itself and short writes are left out.

### TcpPackets

`Servers` are connections this host makes (`tcp_socket_event_handler`), which
are made again when they end; `Remotes` are accepted ones
(`tcp_ServerClient_handler`), which are deleted on POLLRDHUP. All are read into
one `buffer`; `CutOne` is one round of the loop that cuts it, `CutPackets` the
loop, as many rounds as the buffer has bytes because each round that goes on
takes one. TCP
delivers byte by byte, so that `recv()` may find any number of them; peers end
in order or by a reset, in the middle of a packet, too. `comParse.h` and
`Polling.h` are not in the repository; assumed of them: a header is one byte
that occurs nowhere else in a packet, the FCS holds for exactly the bytes of one
packet, `MinCmdPacketLength` is no longer than any packet, and
`MaxCacheBufferLength` no shorter.

### TcpTable

`conn` and `connIndex` are the connection to the server (`connected`,
`fd_index`), `list` the records from `SocketHead` on, `slots` is `polling_fds`,
`open` the kernel's descriptors. `Connects` and `ConnectFails` are the outcomes
of `tcp_connect_to_server`, all its stages in one step because nothing else
touches the table meanwhile; the uninitialised `error` is one of the ways to
fail. `head = "freed"` is the pointer to the record that
`tcp_new_server_ap_connection` frees when the server cannot be created.
`inFront` is the word before `polling_fds`, which the walk of
`tcp_Server_deleteSocketRec` reads for a record that got no slot. Of Polling.h,
which is not in the repository, it is assumed that a slot is used until it is
given back and that a handler is called while poll() reports something for it.

### TimerMgr

`heap` maps addresses to timerfds, so that an address can be given again;
`watched` holds the address the kernel hands back; `events` are the addresses of
this round. `callers = "own"` touch from a callback only the timer it is for, as
`test.c` does, `"any"` every timer: then an event can be stale, and
`TouchFreed` ends the behaviour. The stop flag is not initialised
(`terminated \in BOOLEAN`).

### EchoThreads

One action per system call of each thread: `Begin` copies `com_fd`, `CallRead`
fixes the connection a blocked `read()` stays with, `Write` and `Close` look the
descriptor up again. `overtaken` says that `com_fd` was overwritten before a
thread had copied it, `orphans` are clients whose `pthread_create()` failed.

### UartLoop and UartPort

`UartLoop` has the steps of one round of `main.c` and a `Handler` that may run
between any two of them; `gap` collects the bytes whose signal is cleared with
an older one. `UartPort` is one machine for the three libraries: `lib` says which
one, `Config` what it does to `termios`, `fdTable` what else the process has
open.

### Sorting

`Outer`, `BubbleSort`, `ChoiseSort` and `revstr` are single rounds of the loops,
so that what holds in the middle can be stated.

## 3. Runs

| run | instance | shows |
|---|---|---|
| `Gateway_all` | 2 clients, 1 slow, 3 descriptors, `accept` may fail, 2 frames | list and descriptors; who misses a frame; whose SIGPIPE it is; the gateway implements `Hub` |
| `Gateway_split` | 2 clients, 1 with split commands, 3 descriptors, 1 frame | input before close; clients that come or go are served unless the gateway stays in one of its endless loops |
| `CommandStream_all` | 2 commands of 2 kinds, both modes of arrival, both signs of `char` | whole commands are executed in order and before the close; split ones make up LED off and nothing else |
| `SerialRpc_all` | 3 frames of lengths 0 and 1, 1 lost byte, both kinds of empty read, 3 values of `cmd0` | broadcasts start a frame, are in order; only a loss, and no more than it took, is made up for from later frames, unless the length was lost; only unfinished frames are given up, control returns from whole ones |
| `SocketClient_all` | threads: 4 messages, 2 other inputs of every kind; frames: 3 broadcasts of 3 lengths | order, no loss of the last message, exclusion, the reader gets the mutex; broadcasts are found, and found again |
| `EpollService_all` | 3 clients, 1 slow, 3 descriptors, 2 messages | list, descriptors and epoll agree; all see one conversation; when an edge is lost; no close without a cause |
| `Tcp_all` | packets: a server, a remote, 3 packets, 1 end or reset; table: a server, 2 remotes, 4 descriptors, 3 slots, 2 failures | unmixed, every packet read is handled; mixed, none twice or out of order; an index leads to its owner; who ends is removed, the connection made again |
| `EchoThreads_all` | 2 clients, 2 characters each, 2 or 3 descriptors | own answers in order, everyone is served |
| `Util_all` | timers: 3, 3 addresses, 2 events a round; Uart loop: 5 bytes, room for 3; port: 3 libraries, 8 requests; sorting: arrays of up to 4 of 3 values | events are current, a stop stops, what is due is called; only bytes of the gap wait; order; acting on the own port; told is set; sorted, reversed, kept |
| `Gateway_reuse` | 2 clients, 3 descriptors | **violated**: the sweep closes a connection that did not shut down |
| `SerialRpc_stalls` | 2 frames, an empty read is 0 | **violated**: a frame that is never finished is never left |
| `SocketClient_freed` | 2 messages | **violated**: the handler walks a list it has freed |

### Where code and comments disagree

The violated properties, each with the comment it comes from:

* `SweepClosesOnlyShutdown`: a failed broadcast closes descriptor *f*, the
  listener's entry, first in the sweep, gives *f* to a new connection, and the
  entry of *f*'s former owner, with its old POLLRDHUP, closes the new one
  (`zbFwStart.c:87`; "its a shut down close the socket").
* `StalledFrameIsLeft`: `retryAttempts++ < 5`, then "something went wrong."
  (`zbSocCmd.c:218-226`), gives up a frame whose rest does not come. With
  VMIN = VTIME = 0 (`:371-372`) an empty read returns 0, which is no error there;
  the attempts are never counted, and the gateway, which has one thread, reads on
  until bytes come.
* `NeverWalksFreed`: `rxProcBuf` is never cleared (`socket_client.c:362`;
  "Impossible error, must abort").

Seen while modelling, without a run of their own:

* `zbSocSocketServer.c:381`: the sum of both reads is compared with the data
  length alone, and the FCS of `fe 01 01` matches the zero behind it, so the
  first bytes of a split LED on are executed as LED off, where the comment says
  "full message not read". `LedOffIsTheOnlyInvention` says that there is nothing
  worse.
* `zbSocSocketServer.c:364`: when the rest of a split command comes after
  FIONREAD, `byteToRead` goes below 0, and `while (byteToRead)` reads on. A read
  that finds nothing is -1 and ends the function; but once the client has sent its
  FIN reads give 0, and the loop never ends, nor does it while the client goes on
  sending. `ExecutedAsSent` and `CommandsAreServed` are stated for commands that
  arrive whole; in `Gateway` it is `pc = "rest"`.
* `Tcp_client.c:275`: one byte of a packet and a packet of another connection
  behind it give a length that is never reached; the shared buffer fills,
  `recv()` is offered no room and returns 0, and the connection is closed, and
  again after each reconnection. `ClosedByPeer` says that it takes mixed bytes.
* `Tcp_client.c:628-633`: when the server cannot be created, its record is freed
  and `SocketHead` points to it all the same; no later call tries again
  (`NewServerFails`), and `tcp_recreate_Server`, which would, is never called.
* `Tcp_client.c:518-540`: an `accept` that fails still takes a record and a slot
  for descriptor -1, which nothing gives back; once they fill the table the
  connection to the server cannot be made again (`Full` in `FollowsPeers`).
* `Tcp_client.c:88`: `tcp_send_packet` looks at the index only. After a
  disconnection the index may lead to somebody else's slot; `SlotsAreOwned` says
  that it does not while `connected` is true, which callers have to look at.
* `zbSocSocketServer.c:487` and `socket.c:321`: SIGPIPE is neither handled nor
  ignored, so a write to a client that has gone away can end the program, where
  "closing client socket" (`:491`) means to go on. The models have it
  (`SendIsKilled`, `RelayIsKilled`).
* `zbSocCmd.c:235`: six bytes are sent whatever the length of the frame, so the
  client finds its place only for frames of one byte of data
  (`QueuedAreBroadcasts`); `socket_client.c:498` copies `len + 2` bytes of a
  message of `len + 5`.
* `zbSocCmd.c:241`: the bytes printed are counted to `rpcBuff[2] + 5`, cmd0 where
  the length was meant: out of the buffer, and without end from 251 on.
* `socket_client.c:554`: the handler's wait has no condition, so a signal given
  before it is lost and the message waits for the next one.
* `service.c:125-135`: an error of `SocketRecv` is not looked at; a buffer of
  zeros is sent to all, and if the error was a reset, nothing reports that
  client's end again until a write to it fails or kills.
* `zbSocSocketServer.c:470` says "Send a buffer to all clients"; the function
  returns at the first error (`SendStopsAtError`), and `MissesBoundedByDrops`
  says what is left of the promise.
* `zbSocSocketServer.c:165-174`: a failed `accept` leaves a record with
  descriptor -1, which the next broadcast tries to write to.
* `zbSocSocketServer.c:266`: a lone start of frame gives size 0 and
  `CheckcalcFcs` walks out of its buffer (`HandleOverrun` in `CommandStream`).
* `zbSocCmd.c:115` and `main.c:77` (Uart v1.0): `tcflush(TCOFLUSH)` after
  `write` discards what has not been transmitted.
* `zbSocCmd.c:193`: no FCS is looked at, so when the length is lost the next byte,
  `cmd0`, is taken for it: 7 or 8 make the reader take 10 or 11 bytes more, the
  three that are left of a 6-byte frame, the next frame, and the start of a third.
  There is no bound in frames on what one lost byte spoils; `OverreadsAsLost` bounds
  it in bytes where the length itself was not lost.
* `socket_client.c:525` unlocks a mutex the reader does not hold; `:540`
  overwrites a list that was not walked; `:485` and `:390` change
  `messageCount` without a common lock.
* `server_thread.c:122`: `pthread_create` returns a positive number when it
  fails and is compared with -1; `accept` failing ends the server.
* `Timer.c`: a stop requested before `RunTimerMgr` is forgotten; timerfds are
  never closed.
* `Uart.h:14,24`: `STOPBIT_2` is 1 and `BAUDRATE_460800` is 115200;
  `uart.c:182` (v2.0) refuses bad stop bits by a `return` without a value;
  `main.c:60` (v1.0) does not look whether `buff` has room.
* `bubbleSort.c:56`: `ChoiseSort` goes on from the index it exchanged, and does
  not sort 3 1 2.

## 4. Bounds, and why they are enough

* `Gateway`: two clients, because every property relates at most two
  connections, and three descriptors, so that the table is full with both
  accepted. `accept` may fail while there are fewer than `MaxRecords` 3 records,
  so a failed one can come before, between or after the clients. Two frames let
  a client miss one and get the next, `MaxSerial` 1 puts each behind noise or
  another one, `MaxCmds` 1 suffices because a read takes all commands at once.
  `Gateway_split` has one frame and one client whose commands are split, which is
  enough for a broadcast that closes a descriptor, its reuse in the same sweep, and
  bytes that come between the reads and the close of the stale entry.
  Connections are not reused: a client that comes back is a new connection. The
  proofs of section 6 hold without these bounds.
* `CommandStream`: two commands show everything that a boundary between
  commands can do, for a SET command (6 bytes) and a GET command (5 bytes).
  `LedOffIsTheOnlyInvention` depends on the values sent and is claimed for
  these; it was also checked with LED on (1) and buzzer on.
* `SerialRpc`: `ByteMod` 12 stands for 256: SOF, the lengths used and the sums
  with 3 and 5 keep their order, and the wrap of `uint8_t` is at 12. Frames of five
  and six bytes are those the gateway's own protocol has; the values of `cmd0` are 1
  and 6, which taken for a length cover less than a frame and more than one (6 takes
  three frames of five bytes, as 7 and 8 do of six), and 7, from which on the print
  loop does not end. Three frames let one be lost or given up between two that are
  sent, and one lost length spoil all three.
  Data that looks like SOF is left out: the frame format has no escape, and no
  property could hold.
* `EpollService`: three clients and descriptors for two, because the hazard takes
  three: one whose message is relayed, one who is dropped for it, and one who is
  given the dropped one's descriptor in the same round. Two messages in all.
* `TcpPackets`: three packets, so that there is one before, in and after a
  mixture; five bytes each in a buffer of six, so that a packet and a part of
  the next are cut. Two packets of lengths 1 and 3 in a buffer of seven were
  checked as well.
* `TcpTable`: three slots for a listener, the connection and two remotes: one
  has to go without. Two failures are a failed `accept` and a failed connection,
  or two of one kind.
* `SocketClient`: four messages let a list be overwritten while another is
  walked and a third one is read; two other inputs let two wrong lengths hit
  one walk. `ClientFrames`: lengths below, at and above the one that fits; three
  broadcasts are two that get in each other's way and one after that.
* `TimerMgr`: three timers against two events a round, so that one is left over;
  as many addresses, so that one can be given again while another is due.
* `EchoThreads`: two threads are all the race needs; with two descriptors a
  closed one is reused, with three there is one to spare.
* `UartLoop`: five bytes and room for three fill `buff` in one round or none in
  several; a gap byte can be followed by a rescuing one.
* `UartPort`: the requests hold every case the three libraries tell apart.
* `Sorting`: three values show ties and every order; four elements exceed the
  three that `ChoiseSort` gets wrong.

## 5. Fairness

Only what the scheduler gives. The gateway is one process that always runs when
it has work (`WF_vars(GatewayStep)`, `ServerStep`, `RpcStep`); both client
threads are scheduled, and a mutex that stays free is taken
(`WF_vars(HandleStep)`, `WF_vars(RxStep)`). In `EchoThreads` main and each thread
are scheduled; in `TimerMgr` the steps of `RunTimerMgr`, callbacks included, go
on; in `UartLoop` the program runs and a pending signal is delivered; in
`TcpTable` the reconnection timer runs out and each ready slot gets its turn,
because one poll() reports all of them. `CommandStream` adds that TCP
delivers what was sent (`Arrive`, `FinArrives`): retransmission is the kernel's.
Nothing is assumed of clients, peers, devices or the SoC: they may stop at any
point, and liveness is stated after what they have done. Where a handler waits in a
loop of its own for bytes that need not come, liveness says so in its premise:
`ClientsAreServed` if the gateway is again and again not in a state of `Halted`
(killed, printing for ever, waiting for the rest of a frame, or reading on after a
split command), `RpcReturns` if the SoC finishes each frame it begins, and of frames
that lost nothing. Calls fail only finitely
often where a bound says so. CHECK_DEADLOCK is FALSE in the runs whose program
really waits when nobody sends anything, or whose history bounds end it.

## 6. What is proved

Assumptions: the one each module names (`ConstAssumption`, `CmdAssumption`, ...),
and in three theorems about `SerialRpc` a hypothesis they state; nothing else. Every
theorem is for any number of clients, connections, descriptors, bytes, messages or
timers.

**Gateway** (`GatewayProofs`):

* `RecordInv` = `TypeOK` + `SerialInv` (something is there when the loop serves the
  serial port, and an entry when it reads or closes one) + `HeadIsListener` +
  `RecordsAreOpenFds`. The last two need each other: the head survives because its
  descriptor is open, so `accept` never returns it again, so no other record carries
  it. Theorems `RecordInvariant`, `TypeCorrect`, `HeadStaysListener`,
  `OpenFdsAreRecords`.
* `ClientInv` = `RecordInv` + `PlaceInv` (a connection is held by one descriptor
  at most, waits in the backlog once, has no frame before it is accepted) +
  `MissesBoundedByDrops` + `EarlierRecordsMissLess`. The last is
  inductive because records are appended at the end and a broadcast serves a
  prefix of the list. Theorems `ClientInvariant`, `MissesAreBounded`,
  `EarlierMissLess`.
* `DrainedBeforeClose`: the action property `ClosedAfterDrain`. `EntryInv` says of
  the entries of this round that one with POLLRDHUP carries POLLIN too, and that
  the connection it is of (`of`) has ended and can send nothing more; `DrainInv`,
  that at `pc = "close"` nothing of that connection is left to read. The reads and
  the close are two steps, so what a connection that reused the descriptor sends
  between them stays unread; the property is about the connection that `poll()`
  reported.
* `SigpipeComesReported`: the action property `KilledByReported`. `ReportInv`: while
  the loop serves the serial port, the list and the descriptors are still those
  `poll()` was given, and each end that it reported is in an entry. A write raises
  SIGPIPE only where a reset was answered to an earlier write, or read, so the end
  of that connection is older than this round.
* `GatewayImplementsHub`: `Init` maps to the hub's, and every step to a step of
  the hub or a stutter, from `RecordInv` and `PlaceInv`. Three facts carry it: an
  accepted connection comes behind all members, because its record does;
  unlinking a record keeps the order of the others; and the records a broadcast
  reaches, a prefix of the list, are a prefix of the members.

**SocketClient** (`SocketClientProofs`): `ListInv` = `TypeOK` + `ReaderInv` +
`WalkInv` + `FreedInv` + `HandledInOrder`. The point is that a list never holds
more than one message, which is at least as late as all those handled before, and
that what was handled is freed, so that the handler meets a freed node
(`TouchFreed`) rather than handle a message a second time. Theorems
`ListInvariant`, `TypeCorrect`, `InOrder`, `LastKept`; and `Exclusion`, from an
invariant that says who holds the mutex until it is misused.

**ClientFrames** (`SocketClientProofs`): `FramesInv` = `FramesTypes` + `WayInv` +
`ApartInv` + `InStep` while `Fits`. `WayInv`: what the network holds is whole
broadcasts, except that TCP may have split the first. `ApartInv`: while broadcasts
come one at a time, the client has read nothing of the one that is there, or its
header, or all but its last byte; the last byte alone is read as a header and
dropped, which is why a length of 0 does no lasting harm. `InStep`, when all
lengths are 1 and nothing is split: the bytes waiting and those on their way are
one chain of broadcasts that goes on exactly where the messages queued and the
header read end. Theorems `FramesInvariant`, `FindsItsPlace`.

**CommandStream** (`SocketClientProofs`): `StreamInv` says, when no command is
split, that the commands sent are those handled (`past`), those whose bytes are in
the buffer and the socket (`cs`), and those on their way (`on`); that the k-th of
`cs` ends at byte `at[k]`; that FIONREAD's answer, less what was read, is the end
`at[j]` of one of them, so that the second `read()` finds the rest that the length
announces and the next turn of the loop starts at a start of frame. With POLLRDHUP
among the events *j* is the last, for the FIN came behind all commands: that is
why nothing is left behind when the connection is closed. `FcsCloses` carries
the check: an exclusive or behind the bytes it was made of leaves 0, because each
bit is then in an even number of them; and the zero behind the message, to which
the code compares, is there because the buffer was cleared. Neither the sign of
`char` nor what arrives after FIONREAD plays a role, and `HandleOverrun` is not
reached. The assumption on the constants is that commands to read a sensor carry
no data, as the client library sends them. Theorems `StreamInvariant`,
`CommandsExecutedAsSent`.

**SerialRpc** (`SerialRpcProofs`). `TypeCorrect` has no hypothesis: whatever bytes
come, what was read and what is still asked for fit into the `rpcLen + 2` bytes of
`malloc()`, where `rpcLen` may have wrapped. `RpcInv` = `TypeOK` + `BufferInv` +
`SocInv` + `FlowInv`. `FlowInv` looks at the bytes read of a frame, those on
the line and those the SoC has still to send as one sequence, `Whole`: frames in
order and bytes in place, and each byte of a frame that lost nothing has all the
rest of its frame behind it (`Complete`). From the length that was read it follows
then where the frame ends. `FlowInv` is proved under the hypothesis `SofIsStart`:
no data byte has the value of a start of frame. The frame format has no escape, so
without it bytes in the middle of a frame can pass for another frame, and no
property of broadcasts can hold. Theorems `RpcInvariant`, `BroadcastsAreFrames`,
`OnlyLossOverreads` (the part `OverreadsForLoss` of `OverreadsAsLost`: the bytes in
the buffer and those behind it are one flow, in which a frame that lost nothing ends
where its length says), and the action property `GivesUpForCause`.

**EpollService** (`EpollServiceProofs`): `ServiceInv` = `Types` + `TableInv` +
`CountInv` + `EdgeInv` + `ReadInv` + `OneOrder`. `TableInv` joins the record list,
the descriptor table and the epoll instance as `RecordInv` does for the gateway;
`CountInv` says that two things to read at once have spent the edge, and so
`EdgeInv` need not: whatever can be read is on the ready list, among the fetched
events, or spent. `OneOrder` needs `ReadInv`: the message read next is in nobody's
conversation yet. Theorems `ServiceInvariant`, `RecordsStayWatched`, `EdgesStay`,
`OneOrderForAll`, and the action property `ClosesForCause`.

**TcpTable** (`TcpProofs`): `TableInv` says of the record list, `polling_fds` and
the descriptor table together who holds what: a record's slot leads to the
descriptor of the remote it is of, no two records and not the connection to the
server have one slot, no two slots one descriptor. Theorems `TableInvariant`,
`SlotsStayOwned`.

**TcpPackets** (`TcpProofs`): `PacketInv` = `PacketTypes` + `OrderInv` +
`UnmixedInv`.

* `OrderInv` holds whatever is mixed: of one sender, the packets handled, the
  bytes in the buffer, those received and those on the way are in the order sent.
  Nothing is then handled twice.
* `UnmixedInv` holds until bytes of two connections meet in the buffer: what was
  handled is what was read, the buffer is the beginning of one packet, and the
  unread bytes of its connection go on with it to the end of a packet. So the
  buffer is shorter than a packet, and `recv()` is offered room: `ClosedByPeer`.
* Both rest on what the loop does (`CutPacketsAre`): for any bytes, what it
  handles ends among those it takes, in their order; for one run of packets it
  takes and handles just those that end. That the bound of the rounds is enough
  is a part of it: each round that goes on makes the buffer shorter.

Theorems `PacketInvariant`, `EachPacketOnce`, and the action property
`OnlyPeersClose`.

**TimerMgr** (`UtilProofs`): `TimerInv` = `TimerTypes` + `WatchInv` +
`EventInv`. A round has at most one event of each timer, because the ready list
has each descriptor once and no two watched entries share an address; so a
callback that removes its own timer takes away no later event. Theorems
`TimerInvariant`, `ServesCurrent`.

**EchoThreads** (`EchoThreadsProofs`): `EchoInv` = `TypeInv` and, until a thread
copies `com_fd` too late (`overtaken`), `OwnInv`: where each client is (backlog,
accepted last, or with the thread that copied its descriptor), and what it was
answered. Theorems `EchoInvariant`, `EchoStaysOwn`.

**UartPort and UartLoop** (`UtilProofs`): `PortInv` says of the port libraries
what the descriptor they keep refers to, and that the settings last reported as
done are in force. `LoopInv` orders all bytes that ever came: on the wire, in the
output queue, in `buff` behind those written, in the input queue, and none is
forgotten. Theorems `PortInvariant`, `ActsOnOwn`, `ToldMeansSet`, `LoopInvariant`,
`EchoInOrder`.

**Sorting** (`UtilProofs`): `SortInv` has the loop invariants. `ExchangeCounts`
says that an exchange of two places keeps how often each value is there; that
they are two is what the three exclusive ors need, and what the bounds of the
loops give. Theorems `SortInvariant`, `ArraysAreSorted`.

**SequenceFacts** has the lemmas these proofs share. What `Only` returns is
defined by recursion on the length. The induction it takes is made by hand: a set
of naturals that is not empty has a least element (`LeastNat`), so what holds of 0
and carries over to the next index holds up to any bound (`UpTo`, for a set of
indices in the place of a predicate).

`HeadIsListener` is proved and not run: it is a part of `RecordInv`.

**Model-checked only**

* Liveness under fairness, which the prover does not do.
* `LedOffIsTheOnlyInvention` of `CommandStream`, about commands that are split:
  what a part of one is taken for depends on the bytes it carries, and the run has
  those of one LED command and one sensor; it is not claimed for all data.
* `OverreadsNoMore` of `SerialRpc`, the other part of `OverreadsAsLost`: that a frame
  whose length came takes no more bytes of others than it lost. It counts bytes of
  a set against losses; the run shows it for its instance.

## 7. What is not modelled, and the plan

The plan is carried out: every component is modelled as far as stated above,
every safety invariant and action property of a passing run is proved but
`LedOffIsTheOnlyInvention` and the second part of `OverreadsAsLost`, which are
claimed of their instance only.

Not modelled, for good: headers, makefiles and debug macros (no behaviour),
logging and messages. `socketSeverClose`, `socketSeverSend`,
`tcp_recreate_Server` and `socketClientClose`, which nothing calls or nothing
reaches; `tcp_disconnect_from_server`, which is empty. `socketClientInit` and
`start` of the epoll service run once, before anything that they could race
with. The times given to timers: a timer is due at any time. Errors of epoll
itself, and writes that take a part of what they were given. What a `connect()`
interrupted by a signal leaves (`Tcp_client.c:164`): the connection then counts as
made and ends like any other when it fails.
