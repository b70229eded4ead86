# Verification of the user-space TCP network layer

This directory holds TLA+ models of the C program in `src/`: a small TCP over
named pipes. A *network manager* process per ip owns all sockets of that ip;
application programs reach it through a *client library* (`network.c`) and
fifos. The models are checked with TLC on small instances, and the parts that
matter most are proved with TLAPS for all values of the constants.

    tlc -config DataTransfer.cfg MCDataTransfer      # a run
    tlapm DataTransferProofs.tla                     # a proof

## 1. The system

### Components

| component | source | state it keeps | operations |
|---|---|---|---|
| Socket structure, windows | `socket_utils.c`, `util_types.h` | TCP state, `send_seq`, `recv_seq`, `send_window` (queue), `recv_window` and its validity bits, timers | construct a socket or a packet; write the ready part of the receive window; acknowledge |
| Segment handlers | `packet_handlers.c` | none of their own | one handler per TCP state, called with the socket and the segment, returning a reply |
| Send window queue | `array_queue.c/.h` | head, tail, size, array, iterator | enqueue, dequeue, `QUEUE_FOR_EACH` |
| Network manager | `network_manager.c` | the table of sockets, the bind fifo, the in-packet fifo | the loop: bind requests, then per socket: listen, connect and close requests, the send fifo, timers and state changes; then packets |
| Client library | `network.c` | nothing between calls but the fifos and the id | `SocketBind/Listen/Connect/Accept/Send/Recv/Close/Destroy` |
| Socket table | `Hashmap.c` | two flat arrays of 100 rows (`HASH_MAP_DEFAULT_SIZE`), to sockets and to their ids, a counter and the iterator | insert, find, remove (linear scans), iterate |
| Fifo utilities | `fifo_utils.c` | none | make and remove pairs, non-blocking opens, partial reads and writes |
| Wire format | `ip.c`, `tcp.c` | none | print, cut, scan and checksum packets as text |
| Start and stop | `manager_main.c`, `createNetworkManager`, `terminate_manager`, `destroyNetworkManager` | four fifos per ip | start, terminate on a byte in the terminate fifo, clean up (`stopManager` is declared in `network_manager.h` and has no body) |
| Helpers, harness, demo | `Functions.c`, `main.c`, `queue_main.c`, build files | none | - |

### How they interact

A program and its manager never share memory. `SocketBind` writes to the bind
fifo and polls a fifo for the answer; all later calls use fifos whose *names are
built from the socket's id* `(src ip, src port, dst ip, dst port)`: two *end*
fifos (created at the bind; `SocketClose` removes them), an *accept* fifo
while listening or connecting, and a *send* and a *recv* fifo when connected.
The manager loop polls all of them without blocking, except for a few opens and
reads that do block; those decide whether one program can stop everybody. Two
managers (or one with itself) exchange segments through the receiver's in-packet
fifo. Nothing acknowledges or repeats a request between a program and its manager,
and a send that fails is ignored unless a state change depends on it.

### What is hard

- A library call is several steps, and the manager runs between any two of them:
  `SocketConnect` removes the end fifos of the bound id and makes those of the
  connected id after the manager has changed the socket's key in place.
- `SocketRecv` opens the recv fifo, reads, and closes it; the manager writes into
  it at any of these points, or finds no reader and keeps the bytes.
- Every segment may be sent again at any time, before and after its ACK; replies
  may be lost; segments of an earlier connection between the same ports may
  arrive in the next one.
- Every timeout can fire while the answer is on its way.
- Capacity limits: the table, the backlog, the send queue, the receive window, the
  pipes.
- The handlers insert, remove and rename sockets in the table while the manager's
  loop walks over it.
- A close, a reset, a timer or the end of the manager comes while data is in the
  windows, on its way and in the fifos.
- Segments travel as text without separators in a stream without borders.
- Fifos are files: those of programs survive their manager.

`PROJECT.json` lists each of these hazards at its source line with the properties
that cover it, or the reason why none does yet.

### What makes each component correct

- *Established connection*: what one program sends arrives in the recv fifo of the
  other in order, once, uncorrupted; a byte is forgotten by the sender only after
  it was delivered; whatever was written arrives eventually.
- *Send window queue*: a bounded first-in-first-out queue, whose loop macro shows the
  front in order.
- *Network manager*: the table is a map; nobody gets someone else's socket or
  answer; two established ends agree on the sequence numbers; a socket can always
  be closed and a close is carried through; a listener respects its limit; the
  manager never blocks on a program.
- *Socket table*: a bounded map; its arrays, counter and iterator agree; a turn of the
  loop leaves out nobody, and nobody is starved; no socket is leaked.
- *End of a connection*: each end has a prefix of the stream, is told of the end only
  when there is one, and every close ends.
- *Wire format*: the reader keeps the borders of the packets, and what it passes on was
  sent.

## 2. Modules

| module | models | uses |
|---|---|---|
| `TcpSocket` | the socket structure, segments, and every segment handler of `packet_handlers.c`, as operators without state | |
| `ByteStream` | *abstract*: a reliable ordered stream per sender | |
| `DataTransfer` | two ESTABLISHED sockets, both applications, the fifos and the network between them | `TcpSocket`, `ByteStream` |
| `NetworkManager` | the managers' tables and the life cycle of sockets with all programs and their fifos | `TcpSocket` |
| `Handshake` | the numbers of connections: `NetworkManager` with a history of where a number was drawn again | `NetworkManager` |
| `ClosableStream` | *abstract*: a stream per sender that either end may close | |
| `Teardown` | the end of a connection with data under way: everything of `DataTransfer`, the close command, FINs, timers, removal, the `CONN_CLOSED` byte and the end of the manager | `DataTransfer`, `ClosableStream` |
| `SocketMap` | *abstract*: a bounded map from keys to sockets | |
| `SocketTable` | `Hashmap.c`, and the manager loop over it with the handlers that change it | `SocketMap` |
| `WireFormat` | `tcp.c`, `ip.c`, and the in-packet fifo as a stream of characters | |
| `ByteQueue` | *abstract*: a bounded queue of bytes | |
| `ArrayQueue` | the circular buffer of `array_queue.c` and its iterator | `ByteQueue` |
| `TcpSocketTheorems` | lemmas on the operators of `TcpSocket` | proofs |
| `DataTransferProofs` | theorems on `DataTransfer` | proofs |
| `ArrayQueueProofs` | theorems on `ArrayQueue` | proofs |
| `SocketTableProofs` | theorems on `SocketTable` | proofs |
| `NetworkManagerProofs` | the effect of every action of `NetworkManager`, and its types | `TcpSocketTheorems` |
| `SocketIdProofs` | theorems on the keys, end fifos and answers of `NetworkManager`, and on the limit of listeners | `NetworkManagerProofs` |
| `HandshakeProofs` | theorems on the agreement of the two ends of a connection in `Handshake` | `SocketIdProofs` |
| `TeardownProofs` | theorems on `Teardown` | `DataTransferProofs` |
| `MCDataTransfer`, `MCNetworkManager`, `MCHandshake`, `MCTeardown`, `MCWireFormat`, `MCArrayQueue` | the constants of the runs | |

### TcpSocket

`Socket` is the C structure without timers and descriptors. `recv_window` together
with its validity bits is one function from slots to a byte or `NoByte`; the send
window is a sequence (that the circular buffer is one is what `ArrayQueue` shows).
A segment is a record of flags, numbers and data. The C code passes data as a C
string, so `get_next_socket_packet_data` stops at a zero byte: `DataLength`
has that rule. Handlers return the new socket, the reply (a sequence of at most
one segment) and the bytes that `update_recv_window` writes to the recv fifo; the
caller says whether that write succeeds. Numbers are integers without a width, and a
segment arrives as it was sent or not at all; `WireFormat` says when it does.

### DataTransfer

Variables: `sock` (both sockets), `inPackets` (segments in the in-packet fifos),
`written` (how much each program has given to `SocketSend`), `sendFifo`,
`recvFifo`, `recvCall` (where `SocketRecv` is), and two histories, `delivered`
(put into a recv fifo) and `received` (returned by `SocketRecv`).

| action | code |
|---|---|
| `SocketSend` | `SocketSend`: the next byte goes into the send fifo |
| `RecvOpen`, `RecvRead`, `RecvClose` | the three steps of `SocketRecv`; the close drops what the fifo still holds |
| `ReadSendFifo` | the ESTABLISHED branch of the manager loop: one byte per visit, because the descriptor is closed inside the loop, and only with room in the queue |
| `SendWindow` | the send timer: a segment from the front of the send window |
| `HandlePacket` | `handle_incoming_ip_packet` with `handle_packet_established`; the reply is sent or lost |

There is no separate loss of segments sent by the timer: a `SendWindow` that is
not taken is the same.

### NetworkManager

Variables: `table` (rows of id and socket per ip), `net` (in-packet fifos), `fifos`
(the set of fifos that exist, by kind and id), `mgr` (running, stopped by an error,
or hung in a blocking call), `call` (where each program is, and what the fifo it
polls holds), `held` (ids a program has), `binds` (a bound on the binds).

| actions | code |
|---|---|
| `SocketBind`, `SocketListen`, `SocketDestroy` | the library call with the handler of its request: the program waits for the answer and touches nothing meanwhile |
| `SocketConnect`, `ConnectReturn`, `ConnectTimeout`, `HandleConnectRequest`, `HandleDroppedRequest` | `SocketConnect` split at its poll, and `check_and_handle_connect_request` |
| `SocketAccept`, `AcceptReturn`, `AcceptTimeout` | `SocketAccept` split at its poll |
| `SocketClose`, `HandleCloseCommand`, `HandleClosedSocket` | the close request, `check_and_handle_close_command`, removal and clean-up of a CLOSED socket |
| `IgnorePacket`, `HandleReset`, `handle_packet_listen`, `HandleSynSent`, `HandleSynReceived`, `HandleConnected` | `handle_incoming_ip_packet` with the handler of the receiver's state |
| `ResendSyn`, `ResendSynAck`, `SendWindow`, `ResendFin`, `ResendFinAck`, `GiveUp`, `CloseWaitToLastAck`, `TimeWaitToClosed` | the timers and state changes of the manager loop |
| `TerminateManager` | the terminate fifo is written: `terminate_manager` wakes programs in `SocketClose`, `destroyNetworkManager` unlinks the fifos of the sockets in the table |
| `StartManager`, `StartAfterCrash` | a start after a clean stop; a start after a crash, which fails because the four fifos exist, and whose clean-up unlinks them but not the sockets' |

A timer is an action that may happen at any time while the state lasts: programs
and the manager measure time with different clocks, so no order between them is
justified. The manager's loop is replaced by visits to any row in any order; that
contains every order the table's iterator can produce (`SocketTable`). User data is left out
(that is `DataTransfer`): a connection carries only empty segments.

### Handshake

`check_and_handle_connect_request` draws `rand() % 2000 + 1` and `handle_packet_listen` draws
`rand()`, each after `srand(time(NULL))` (`network_manager.c:732-733`,
`packet_handlers.c:116-117`), and neither asks whether the number is in use: draws within
one second come from the same `rand()`, and two clients that connect in that second have the
same number. So a draw is any member of `ConnectIsn` or `AcceptIsn`, each time.

Two properties, `EstablishedInSync` and `NoHalfClose`, are not true of *every* connection then: one
that gets the number of an earlier connection between the same two addresses can take what is
left of that one for its own (section 3 has the behaviour). `Handshake` adds the
variable `repeated`, the pairs of addresses between which that has happened (`IsRepeat`: a
socket of the pair expects the new number, a segment of the pair carries it, or it is 0,
which a socket expects that has not heard from its partner). A pair is taken out when no
socket is left between its addresses. No action looks at `repeated`, so it excludes no
behaviour; only the two properties speak of the pairs that are not in it. What happens between
other addresses does not matter, whatever numbers are drawn there.

### Teardown

`DataTransfer` with `inTable` (the socket is in the table and its data fifos have names),
`up` (the manager runs), `closeCall` (where the `SocketClose` of an end is) and three
histories: `told` (ends whose `SocketRecv` returned -1 for the `CONN_CLOSED` byte),
`finTaken` and `finAcked` (ends that took the other's FIN, and a segment for the ACK
of their own). It starts from an established connection.

| actions | code |
|---|---|
| `TransferCall`, `TellingRead`, `Transfer`, `HandleEstablished` | the actions of `DataTransfer` while they apply; a read that ends with `CONN_CLOSED` is noted |
| `SocketClose`, `HandleCloseCommand` | the close request and its handler, in whatever state the socket is |
| `HandleClosing`, `HandleOther` | the segment handlers of FIN_WAIT_1, FIN_WAIT_2, CLOSING and LAST_ACK; resets, and segments nobody waits for |
| `ResendFin`, `GiveUp`, `CloseWaitToLastAck`, `TimeWaitToClosed` | timers |
| `RemoveSocket`, `TellPartner` | `check_and_handle_closed_socket` with `unlink_socket_fifos_server_side`, which writes `CONN_CLOSED` into the partner's recv fifo if somebody reads it |
| `StopManager` | `terminate_manager` with both sockets in the table |

Both ends belong to one manager, as those of every connection that gets established do
(`network_manager.c:267`, section 3): a peer whose manager alone is gone does not arise.

### SocketTable

`map` is `struct HashMap_t`; a pointer to an id is written as the socket that owns it, and
`key` holds what the ids say, so that changing an id in place changes what the table
finds. `current`, `visited` and `running` are the state of the loop. Between two turns
come bind requests and SYNs (`handle_bind_request`, `handle_packet_listen`); a turn is
`StartTurn` and, per socket, one of `LeaveAlone`, `ConnectSocket`, `CloseSynSent` and
`RemoveSocket`, with `BREAK_ITERATION` where the handler returns it. After
`managerLoop` has returned, `hashDestroy` frees every socket.

### WireFormat

Characters are ASCII codes, so digits, blanks, signs and flag bytes can be mistaken for
each other as in the code. `fifo` is the text in the in-packet fifo, `lengthRead` and
`handed` are the local variables of `read_ip_packet_from_file` and
`handle_incoming_ip_packet`, `unread` is the history of what was sent. A packet has at most
219 characters, less than `PIPE_BUF`, so a write is one step; the reader takes a packet
in two. `Scan` and `Printed` are `%d` of the C library (external).

### ArrayQueue

The fields of the C structure, plus `returned` (the result of the last call) and
`seen` (what the loop has shown so far). A zero element is what both "empty" and
the end of a loop return, and it is also a legal element: `Byte` contains `NUL`.

## 3. Runs

### Runs that pass

| run | instance | what it shows |
|---|---|---|
| `data_transfer` | client sends 4 bytes, server 1; queue 3, window 3, 2 bytes per segment, pipe 2, buffer 2, 2 segments in flight (347,000 states) | all safety properties of the connection, the inductive invariant of the proofs, and the refinement of `ByteStream` |
| `data_transfer_live` | 3 bytes one way, queue 2 (6,000 states) | `WrittenIsDelivered` |
| `network_manager` | `MCHandshake`: a server and two clients that want the same port, on one ip; two numbers to draw from for connects, 3 rows, a backlog of 1 (893,000 states up to symmetry) | types, ids against states, no half close, synchronised sequence numbers, end fifos of open sockets, backlog; the table is a map, no port in two hands, no answer to the wrong attempt |
| `network_close` | server and client, 3 rows, two segments in flight, managers are terminated and start again; timers are fair (97,000 states) | a close that the manager has taken is carried through, whether nobody answers, the other end closes later or both close at once |
| `network_restart` | server and client on different ports; the client binds its port twice; managers are terminated, crash and start again; 3 rows, so the table fills up (372,000 states) | the fifo of the manager's blocking open always exists |
| `socket_table` | 3 rows, 4 places for a socket, 2 ports, 5 requests (144,000 states) | the inductive invariant of the proofs, arrays and counter, no leak, the loop is at its socket, turns and fairness of the loop, refinement of `SocketMap` |
| `teardown` | client sends 2 bytes; window 2, 1 byte per segment and in the queue, pipe 2 (391,000 states) | an ACK taken for that of a FIN is one; every close ends; refinement of `ClosableStream` |
| `wire_format` | numbers of 3 digits, ints below 214, two writers, room for two packets (69,000 states) | packets stay whole; what is passed on was sent; which segments get through |
| `array_queue` | capacity 3, two letters and the zero byte (1,200 states) | structure, loop order, loop end, refinement of `ByteQueue` |

### Why the bounds are enough

*DataTransfer.* The message is longer than the send queue and the receive window,
so both fill up and slide; a segment is shorter than the window, so that a
window could in principle hold two (`WindowHoldsOneSegment` says it never does); a
pipe of 2 is full with data still waiting; two segments in flight are what is
needed for one to overtake the effect of another (old ACK after new, data sent
again before its ACK). The initial numbers differ so that no property holds
by coincidence. The theorems remove every one of these bounds.

*NetworkManager.* Two programs on one manager already give both directions, as
the manager sends to itself through the same fifo; the third one contends for a
port. Three rows hold a listener, its connection and the client, so the table is
full and a second bind is refused. One segment in flight per manager bounds *timer*
segments only: replies are sent regardless, so old segments meet new
connections. `ConnectIsn = {2, 5}` lets a second attempt draw another number or the first one
again; `AcceptIsn = {8}` has one value, because the listener accepts once.
The numbers are far enough apart that none is another one plus 1. The backlog
is 1, the smallest that is used up: the first request is taken and every later one refused,
as the backlog is never given back. A listener that serves several connections, restarts
and reuse together with several numbers are left to the theorems. An earlier form of the inductive
invariant of `HandshakeProofs`, for managers that draw only new numbers, was checked with a
backlog of 2, more numbers and at most 3 or 4 segments in the fifo before it was proved: a client
that binds three times (551,000 states) and restarts with reuse (15,000), both complete for a server that does not
close, and two programs that connect to each other or to themselves, stopped without a violation
after 2,300,000 states each; that the numbers of other pairs do not matter was left to the proof.
The other runs of `NetworkManager` have one number each; their properties do not
depend on it.
Deadlock is not checked for `NetworkManager`: a program may have finished or may be
blocked in an `open` for good (section 6), and a manager may have stopped.

Two more instances: in `network_manager` the clients are symmetric (same home, target
and backlog; the properties name no program), and the other two runs leave out the third
program, whose contention the first run has. In `network_close` three rows hold the listener,
its accepted socket and the client, so that a close meets a peer that is ESTABLISHED,
CLOSE_WAIT, LAST_ACK or closing as well; with two segments in flight the two FINs
cross and both ends are in CLOSING. FIN_WAIT_2 is the one state no run reaches: nobody
acknowledges a FIN without sending its own (`NoHalfClose`). `network_restart` has the same table
and lets the client bind again, so that a request for a connection that still exists hangs
the manager and the next one starts after a crash. A manager may end and start any number of
times at any point, with sockets in every state, in both runs; as the programs have different
ports, `EndFifosPaired` holds in spite of it (section 4 has the counterexample for one port).

Programs that use an id after closing it (`ReuseClosed`) are in no regular run: with three
rows and two binds the states are too many for one. `EndFifosPaired` was checked with it, and with
restarts, for a client that binds once (3 rows, 854,000 states) and for a table of two
rows and two binds (38,000 states); without restarts `EndFifosStayPaired` has it for every instance.

*Teardown.* Two bytes with one per segment leave one byte in the send window and one on
its way or delivered when the close comes, which is what the additions of the send
window to `send_seq` are about. `MaxInFlight` is the number of segments a timer may add
per direction; replies and resets come on top. All of CLOSING, TIME_WAIT and LAST_ACK
are reached, as is a `SocketRecv` that is told; FIN_WAIT_2 is not.

*SocketTable.* Three rows have a row before, at and behind the iterator. The table fills
up, a fourth socket is refused, and five requests are enough for a
connection, its close in place and the reuse of its row. The theorems hold for every size.

*WireFormat.* The widths are in proportion: an int has at most as many digits as a field
(3 of 3, 10 of 10 in the code), the largest int is more than the smallest number of that
width (213 and 100; 2^31 - 1 and 10^9), and twice its range still fits. The sums have
two digits, three, or wrap around; data is empty or begins with a digit, a letter or a blank.

*ArrayQueue.* Capacity 3 has every relation of head and tail (apart, wrapped, equal
and full, equal and empty). The theorems hold for every capacity.

### Fairness

- `DataTransfer`: the manager loop visits every socket and drains its packets for
  ever (`managerLoop` has no other exit than a stop command or an error), hence weak
  fairness of `ReadSendFifo` and `HandlePacket`. The send timer fires again and
  again; it is strong fairness only because the bound `MaxInFlight` disables the
  action now and then, which the code does not. The steps of `SocketRecv` are
  weakly fair: this is an assumption on the application, the loop of
  `server_main.c`. Nothing is assumed on `SocketSend` or on replies: the ACK of
  a segment may be lost each time the choice arises, and a byte still arrives.
- `NetworkManager`: weak fairness of the state changes of each row, that is of the timers
  and of what the manager does on its next visit. Nothing about packets and resends, nor
  about programs, terminations and starts: a close ends without them, and none of them
  keeps it from ending.
- `Teardown`: weak fairness of the timers and state changes of each socket, and of the
  read of a program that is inside `SocketRecv` (the manager may be waiting for it to
  make room for `CONN_CLOSED`). Nothing about segments: a close ends without them.
- `SocketTable`: weak fairness of the loop, and of `hashDestroy`, which follows the return
  of `managerLoop` in `main`.

### Runs that show a disagreement

Each states what a document or comment of the repository says, and TLC finds a
behaviour of the code that breaks it.

| run | the code | the text |
|---|---|---|
| `digit_data` | a segment whose data begins with a digit is dropped, unless its checksum has ten digits: `%10d` skips the blanks before the checksum without counting them and goes on into the data | `network.h:94-95` |
| `recv_race` | `SocketRecv` closes the fifo and loses what the manager writes between the read and the close, though it was acknowledged; a buffer that is too short loses the rest the same way | `README.md:5-6` |
| `connect_hangs_manager` | a second connect request for the same pair is dropped unanswered and hangs the manager | `network_manager.h:44-45` |

`digit_data` concerns about every second connection: the checksum is the sum of ports,
numbers and flags, in which the server's `rand()` dominates, and it has ten digits
when that is above 10^9. `DataTransfer` and `Teardown` are about connections
whose segments get through in the sense of `OrdinarySegmentsPass`.

The models contain more behaviour that the documents do not lead one to expect, for
which no run is kept:

- a bind that is denied because an end fifo of its port exists ends the manager:
  `create_bound_socket` fails, `handle_bind_request` returns -1, and `managerLoop`
  returns (`network_manager.c:507`, `1127-1129`), against the comment at 533
  ("Returns 0 on success (even if could not bind since port taken)"); `StopManager`;
- the error path of the listen request, when the accept fifo is still there, frees its
  strings twice and uses a closed descriptor (`network_manager.c:609-631`); modelled
  as a manager that serves nobody any more, as is every undefined behaviour;
- the RST of a listener whose backlog is used up is sent to the empty address that
  the lookup of the bound socket left in the id (`network_manager.c:262-273`), so the
  client is never told;
- a client on another ip is registered with the server's ip: `handle_incoming_ip_packet` passes
  the manager's own ip to `handle_packet_listen` (`network_manager.c:267`,
  `packet_handlers.c:99`), so what `SocketAccept` returns is not a "socket for communication
  with client" (`network.h:87-88`). One SYN from another machine shows it; `handle_packet_listen`
  and `ConnectionId` of `NetworkManager` have it;
- a zero byte at the front of the send window stops the connection for good: the packet
  loop ends at it (`network_manager.c:878`; the same loop end is `LoopShowsFront` in
  `array_queue`);
- LAST_ACK has no timer, FIN_WAIT_1 answers a FIN with nothing and TIME_WAIT ignores
  it, so a socket in LAST_ACK sends its FIN for ever unless a reset arrives, against
  `util_types.h:44-45`;
- a close discards what is in the send window, and the receiver's recv_seq steps over
  it (`network_manager.c:831`, `packet_handlers.c:188`): what `ClosableStream` promises is
  a prefix, not all that was written;
- the `CONN_CLOSED` byte that is to release a partner stuck in `SocketRecv`
  (`network_manager.c:55`) reaches only a partner that has the fifo open when the socket is removed;
- a number that is drawn again between the same two addresses breaks the handshake. A client is connected with number X
  and closes with a reset, ahead of a SYN/ACK that its partner sends again; it connects with Y and
  gives up; it draws X for a third attempt, which the old SYN/ACK answers. The SYN of
  the second attempt then makes a socket at the listener, which draws its old number too, so
  that the ACK of the third attempt completes it: both are ESTABLISHED, one with X, the other
  expects Y. TLC finds this for an `EstablishedInSync` with `Mates` in place of `Proper`
  when the client binds three times, the backlog is 2 and three segments are in flight. With five attempts (X, X, Y, X, X) and a
  backlog of 4, an old SYN/ACK with Y + 1 is taken for the ACK of a FIN, against `NoHalfClose`
  (found by TLC led along that order of segments). `network_manager` is too small for either;
- CLOSE_WAIT goes on to LAST_ACK on the manager's next visit (`network_manager.c:1000`)
  and does not wait for the program to close, as `util_types.h:41-42` says.

## 4. Proofs

Proved by TLAPS, for all messages, sizes, initial numbers and numbers of segments
in flight (`ByteAssumption`, `SizeAssumption` of `TcpSocket`, `DataAssumption` of
`DataTransfer`), for every queue capacity (`QueueAssumption` of `ArrayQueue`), for every
size of the table and number of ports, partners and requests (`TableAssumption` of `SocketTable`)
and for every number of programs, managers, ports, rows, binds and segments
(`NetworkAssumption` of `NetworkManager`):

| theorem | says |
|---|---|
| `Invariance` | `Spec => []Inv` |
| `TypeCorrectness`, `WindowAgreement`, `OrderedDelivery`, `ReceiveWindowContents`, `OneSegmentBuffered` | the invariants of `data_transfer` |
| `AcknowledgedIsDelivered` | the action property `NoByteDroppedEarly` |
| `Refinement` | `DataTransfer` implements `ByteStream` |
| `StructWellFormed`, `LoopOrder` | the invariants of `array_queue` |
| `QueueRefinement` | `ArrayQueue` implements `ByteQueue` |
| `SocketTableProofs!Invariance` | `Spec => []Inv` for the table |
| `TableIsConsistent`, `NothingLeaks`, `LoopIsAtItsSocket` | the invariants of `socket_table` |
| `TurnIsComplete` | the action property `TurnLeavesNobodyOut` |
| `TableImplementsMap` | `SocketTable` implements `SocketMap` |
| `TypeCorrect`, `StatesMatchIds` | `TypeOK` and `StateMatchesId` of `NetworkManager`, without any condition |
| `ListenersKeepToTheirLimit` | `BacklogBound`, without any condition |
| `KeysAreUnique`, `EndFifosStayPaired`, `AnswersAreTrue` | `UniqueIds`, `EndFifosPaired` and `AnswerIsTrue`, if `Local` and not `Restarts` |
| `PortsAreNotShared`, `OpenSocketsAreClosable` | `NoSharedSocket` and `OpenIsClosable`, if also not `ReuseClosed` |
| `HandshakesAgree`, `FinsAreNotMistaken` | `EstablishedInSync` and `NoHalfClose` of `Handshake`, if `Local` |
| `TeardownTypes`, `FinAcksAreTrue` | `TeardownTypeOK` and `FinAckIsTrue` of `Teardown` |
| `ClosableRefinement` | `Teardown` implements `ClosableStream`, if `MessagesAvoidMarker` |

**What the conditions are, and why.** Each is needed, and TLC finds a counterexample without
it, with one exception: of the two theorems on the handshake only the argument needs `Local`.

- `Local`: programs connect to an address of their own ip. `handle_packet_listen` takes the
  manager's ip for that of the client (section 3), so a client at away:81 is
  given the key of a client at home:81, and when `mkfifo` fails for it the end fifos of the
  other one are removed. The argument for the handshake follows the order of the segments in one
  in-packet fifo; with a second machine TLC has found no disagreement in 3,700,000 states.
- not `Restarts`: no manager is started again. A program that has its answer in the pipe when
  its manager stops removes the end fifos of its bound id later; a program that has bound
  the same port at the next manager in the meantime loses its own, and the manager blocks
  in the open of the close handler. This takes two programs with one port and a restart
  between two steps of a `SocketConnect`; `network_restart`, whose programs have different
  ports, shows `EndFifosPaired` with restarts.
- not `ReuseClosed`: no program uses an id after `SocketClose` has returned, as `network.h`
  asks. A socket that is closed and listens again is open with one end fifo only.
- Numbers need no condition: the two theorems on the handshake hold for whatever is drawn, and
  leave out the pairs of addresses in `repeated` because the properties are false for them
  (section 3). Restarts and the reuse of closed ids are allowed there.
- `MessagesAvoidMarker`: no message contains `CONN_CLOSED`. `SocketRecv` cannot tell
  that char from the end of the connection (`network.c:637`).

**The argument for DataTransfer.** What one wants, `DeliveredInOrder` (a recv fifo got
exactly the first bytes of the other's message) and `WindowsAgree` (the receiver's
position lies in the sender's window), is not inductive: the next step may
deliver what the receive window holds, which came from a segment, which was cut
from a send window, which was filled from a send fifo. `Inv` says of each of these
places which piece of the stream it holds. `SendFifoHoldsStream` and
`SendWindowHoldsStream` place the sender's bytes; `SegmentsAreGood` says that a
segment in flight starts *at or before* the receiver's position (it was cut from a
front the receiver has at least reached, and the position only grows), that its
bytes are those of the stream, and that its ACK is not ahead of what its sender has
delivered; `WindowHoldsStream` and `WindowHoldsOneSegment` place the buffered
bytes. The last one is a fact about this implementation: as every segment starts
at the front of the send window, the receive window never has a hole and its
size does not matter. The step lemmas (`SocketSendInv`, ..., `HandlePacketInv`) are one
per action; `HandlePacket` is first reduced to four numbers by
`HandlePacketEffect`, which rests on what `TcpSocketTheorems` proves of
`Acknowledge`, `StoreData`, `ValidPrefix` and `Slide`.

**The argument for ArrayQueue.** `QueueOK` ties tail to head and size; `LoopShowsFront`
ties the iterator to what the loop has shown. Both are inductive together. The
arithmetic on the circle is in four lemmas (`WrapProperties`, `WrapInjective`,
`WrapNext`, `TailNext`); the effect of each operation is stated once and used both
for the invariant and for the refinement, whose mapping is `Contents`.

**The argument for SocketTable.** `TableConsistent` and `NoLeak` need each other: a removal
frees the socket whose row the key finds, so the row must be that of the socket the loop
is at (`LoopFindsItsSocket`), which needs that keys are distinct (`KeysDistinct`), although
`CloseSynSent` gives a socket its bound key back without asking the table. That this key
is free is `Pending`: nobody binds the port of a socket in SYN_SENT, because its end fifos
still carry the name of the bound id, and no two such sockets have the same port.
`VisitedUpToIterator` says what a turn has reached, from which `TurnLeavesNobodyOut` follows
at the end of the table. A change of one row changes the number of rows in use by one
(`FiniteSetTheorems`), and the refinement needs that number to be the number of
sockets with a key, which the bijection from rows to sockets gives.

**The argument for NetworkManager.** `NetworkManagerProofs` first reduces every action to its
effect (`SocketBindEffect`, ..., `HandleSynSentEffect`): which row of which table is put
where (`PutRow`), which fifos come and go, whose call changes. Segments and timers that
only change the state of a connection have one effect in common, `SocketStep`. `Typed` is
inductive with that alone; besides the types it says that a program has no bound id but
its own, calls with an id of the right kind, and that a stopped manager has an empty table.

*Keys and fifos* (`SocketIdProofs`). `UniqueIds` is not inductive: a `SocketClose` during a
`SocketConnect` gives a socket its bound key back without a look at the table. `Paired`
adds that also the keys *under which programs find the sockets* (`IdForFifo`) are distinct,
and that every socket which is bound or not CLOSED has the end fifo of that key (`Kept`), so that a second
socket of a port cannot be made (`CreateBoth` fails). The same facts say that the fifo of
the blocking open exists. `ConnectReturn` removes end fifos, so `AnsweredIsGone` has to say that
a program with an answer in its pipe has no socket under its bound id any more; and that
answer belongs to the present attempt because the leftover end fifos keep the port from being bound until
they are removed. `OneConnector` and, without `ReuseClosed`, `Owned` (who calls with an id
has it, and the first end fifo of a bound id that is held exists) complete it.

*The limit* (`SocketIdProofs`). `max_connections + Cardinality(ConnectionsOf) <= queueLimit`
says nothing about a socket that does not listen yet, and `SocketListen` sets
`max_connections` anew. `Limits` follows the *origin* of an address, the bound socket
or the one in SYN_SENT that it has become: there is at most one; while the accept fifo
does not exist nothing else has the address, so a socket that starts to listen has no
connections; and the accept fifo goes only with the origin, so it cannot start a
second time (`check_and_handle_listen_request` fails and leaves it CLOSED). Connections are
counted by rows, which a finite set bounds, and mapped onto the entries that
`BacklogBound` counts. Restarts, crashes and reuse of closed ids do not break this.

*The handshake* (`HandshakeProofs`). Neither property is inductive: two ESTABLISHED sockets agree
because of what they took for an answer before, and segments of earlier sockets with the same ids
may still be in flight, of every kind and with any number. What tells them apart is the number
drawn, which between these two addresses was new (`IsConnection`: the invariant speaks of sockets
whose addresses are not in `repeated`), and *the order of the in-packet fifo*, in which the old ones come first. The
invariant (`Handshakes`) therefore speaks of the set Q of segments in the fifo and of the
set B of pairs of which one is ahead of the other. `Single(e, Q, B)` says of one socket
that behind a SYN of its own there is no older SYN (`OwnSynsFirst`), behind its SYN in SYN_SENT no
older ACK (`AsksFirst`), and behind its SYN/ACK only ACKs of what it expects (`RepliesFirst`);
that once a segment that answers it is in flight all its SYNs are its own; and that no
FIN in flight has its number. `Both(e, f, Q)` says of two sockets connected to each other who
can have an answer in flight while who knows whose number: in SYN_SENT only a partner that
has taken the present SYN answers, in SYN_RECEIVED an ESTABLISHED partner either has
both numbers right or has nothing to do with this attempt (`WhileAsking`, `WhileReplying`), and when the
partner has the number of e, all its ACKs acknowledge just that number and none a FIN
(`NoHalfCloseOf`). Popping a segment weakens both
(`SinglePop`, `BothPop`), sending one puts it behind all others (`SingleSend`, `SingleGets`,
`BothSend`), a new socket whose addresses are not in `repeated` has a number that nothing between its addresses carries, and the
changes of state are one lemma each. A connection is always with a socket of the same manager, or with none, and keys
of connections are unique without the conditions of `UniqueIds`, as only bound ids can come twice.

**The argument for Teardown.** `FinAckIsTrue` is about an ACK whose number is that of a FIN.
The sender counts the unacknowledged bytes of its window when it leaves ESTABLISHED, and once
more in later states, so `TopOf` (the first number a socket has not used) never goes
back; `ReceivedWasSent` and `SegmentsWereSent` say that before an end takes the FIN neither its
position nor a segment to it goes beyond that number, and `AcksAreOfData` that no segment
acknowledges a FIN that was not taken. `FinInv` is inductive for
every order of closes, resets, timers, removals and resends.

`StreamInv` adds what is left of `Inv` of `DataTransfer` when ends close one by one:
an end that is `Open` has the rest of its stream in its window and fifo, segments with data
are pieces of what was written (`Piece`, which no longer says that they are at or before the
receiver's position: a FIN moves that), what was delivered is a prefix, and the marker is in a
recv fifo only when the end that it speaks of is not open. Every step is then a write, a
delivery, a close or a stutter of `ClosableStream` (`StreamActionImplements`).

**Only model-checked.**

- The liveness properties `WrittenIsDelivered`, `CloseCompletes`, `CloseEnds` and
  `EverySocketIsServed`, and the loop bound `LoopEnds`: fairness and ENABLED are out of
  the prover's reach.
- `WireFormat`: `Scan`, `Printed` and the checksum are folds over the characters, and
  what they compute for every text needs induction over data, which the installed provers
  cannot do. The other models use no recursion; loops are described by what they find
  first (`LeastOf`) instead.

## 5. What the results say about the code

The data path is right where it is used as intended: without zero bytes, without a digit
at the front of a segment, and up to the recv fifo. Resends, overlaps, lost replies, full pipes and absent readers do
not harm. The weak point is the last step, `SocketRecv`, whose close throws away
acknowledged bytes.

The handshake survives resends, restarts and segments from an earlier connection as long as
its number is not one of an earlier connection between the same two addresses, which seeding
`rand()` with the time before every draw does not ensure. Other connections may have
the same number. The exchange of the end fifos during a connect
always leaves the pair that a close needs. The limit of a listener holds in every case,
counting also handshakes under way, but a place in it is never given back. A close always
ends on the active side, by the reset timer, also when both ends close at once (unless the
program uses the closed id again: a listen puts a bound socket in FIN_WAIT_1 back to
LISTEN); on the passive side it depends on that RST arriving. Nobody acknowledges a FIN
without sending its own, so that only a segment of an earlier connection can lead to
FIN_WAIT_2. The manager is not protected from its programs: a repeated connect request, a
denied bind and a second listen each stop or hang it. So does a restart between two steps
of a `SocketConnect`, if another program then binds the port (section 4); otherwise a
restart does not disturb the pairing of the end fifos.

Through a close both ends keep a prefix of the stream, and although `send_seq` is advanced up
to three times over the same send window, no ACK of data is taken for that of a FIN. The socket
table is sound, and `BREAK_ITERATION` is returned exactly where it has to be. On the wire
the borders of packets are safe, and a damaged sum only ever drops a segment for its reader; for
its writer a sum of 11 characters is a write past the end of an allocation (section 6).

## 6. What is not modelled, and why

- *A program that dies inside a call*, and the fifos it leaves behind. A `SocketClose`
  after an idle bound socket has timed out blocks for ever (`call.op = "stuck"`): the
  model has it, and no document says otherwise.
- *The blocking write into a full in-packet fifo*: `WireFormat` has it for one reader. That two
  managers, or one that sends to itself, block for good takes some 300 packets at once,
  and whether they can pile up depends on the relation of timers, which the models leave open. A
  `write` into a full recv fifo in `unlink_socket_fifos_server_side`
  (`network_manager.c:70`) holds up the whole manager; in `Teardown` only the removal waits, which
  allows more behaviours than the code has.
- *The read of `recvBuffer[-1]`* in `SocketRecv` when nothing was read, and the write of
  `total_length_str[11]` (`network_manager.c:91`), one past its end: what is read or
  written there is not determined by the program. Likewise the byte `tcp_to_str` writes behind
  its allocation when the sum has 11 characters (`tcp.c:57-60`, a sum that is negative
  and has ten digits): `WireFormat` has the text that is shifted by it, not what the byte
  behind the allocation was.
- *Allocation failures*, memory that is not freed, descriptors that are not closed
  (`unlink_and_clean_manager` closes one of four).
- *Partial reads and names of fifos* (`fifo_utils.c`): the models have what they mean to their callers.
- `QueueCopy`, `print_tcp_packet`, string helpers, the verification harness `main.c`, the demo
  and the build files are not part of the running system.

## 7. Plan

Order of work, most important behaviour first. Done: all but 8.

1. `TcpSocket`, `DataTransfer`, `ByteStream`, with proofs.
2. `NetworkManager` with its runs, then termination and restart.
3. `ArrayQueue`, `ByteQueue`, with proofs.
4. The disagreements met on the way.
5. `SocketTable`, `SocketMap`, with proofs.
6. `Teardown`, `ClosableStream`.
7. `WireFormat`.
8. `Rendezvous`: a program and its manager opening fifos in pairs, with a program
   killed between any two system calls; which opens can block, and for whom.
9. `NetworkManagerProofs`, `SocketIdProofs` with the limit of listeners.
10. `TeardownProofs`: `FinAckIsTrue`, then the refinement of `ClosableStream`.
11. `Handshake`, `HandshakeProofs`: `EstablishedInSync` and `NoHalfClose` with an invariant over the order of
    segments in the in-packet fifo; the former links the managers to the initial state of
    `DataTransfer`.
