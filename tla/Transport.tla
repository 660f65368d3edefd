------------------------------ MODULE Transport ------------------------------
(***************************************************************************)
(* How a McClient gets, uses and gives up its descriptors (api.c, NETWORK  *)
(* BACKENDS, TRANSPORT / TCP, FRAMING, CLIENT LIFECYCLE; Linux build): the *)
(* socket from connect_tcp or mc_server_accept, the io_uring or epoll      *)
(* descriptor of the backend, waiting and receiving, sending frames and    *)
(* batches through the encryption transform, and mc_client_disconnect on   *)
(* the client's own thread and on another.                                 *)
(*                                                                         *)
(* Descriptors are numbers of the process: the lowest free one is given    *)
(* out next, to the client or to any other part of the program.  A step    *)
(* of a thread ends at each access to a field both threads use.            *)
(*                                                                         *)
(* Frames are FrameUnits indivisible units; a unit carries the position of *)
(* the key stream it was encrypted with.  McState is DISCONNECTED or not.  *)
(***************************************************************************)
EXTENDS Integers, Sequences, SequencesExt, FiniteSetsExt

CONSTANTS
    MaxFd,              \* bound: descriptors of the process
    Packet,             \* what the application sends
    FrameUnits,         \* units of an encoded frame
    Preferences,        \* the backends asked for; "NONE" is automatic selection
    MaxHandshake,       \* the 512 bytes of mc_server_accept's frame
    MaxConnections,     \* bound: connections of one client object
    MaxCalls,           \* bound: sends of one client object
    MaxInterrupts,      \* bound: disconnects from the other thread
    Interruptible       \* the preferences under which there is another thread

ASSUME TransportAssumption ==
    /\ MaxFd \in Nat \ {0}
    /\ FrameUnits \in Nat \ {0}
    /\ Preferences \subseteq {"NONE", "IO_URING", "EPOLL", "POLL"}
    /\ Interruptible \subseteq Preferences
    /\ MaxHandshake \in Nat \ {0}
    /\ MaxConnections \in Nat /\ MaxCalls \in Nat /\ MaxInterrupts \in Nat

VARIABLES
    file,               \* what each descriptor number is
    socket_fd,          \* 0 stands for -1 in all three
    event_fd,
    ring,               \* [fd, mapped]: McRing
    backend, preferred,
    state,
    thread,             \* each thread: its next step, its call and its locals
    hand,               \* mc_server_accept: [header, size, taken] of the handshake
    stream,             \* what is sent on the connection, see NoStream
    overlapped,         \* history: a disconnect has run beside another call
    connections, calls, interrupts

client == <<socket_fd, event_fd, ring, backend, state>>
bounds == <<connections, calls, interrupts>>
vars == <<file, client, preferred, thread, hand, stream, overlapped, bounds>>

Thread == {"main", "other"}
Fd == 1..MaxFd
Closed == [fd |-> 0, mapped |-> FALSE]
NoCipher == [from |-> 0, next |-> 0]

\* fd and wait_fd are the copies of socket_fd that send_all, receive_some and
\* mc_client_disconnect, and backend_wait, work with; ret is where ring_close or
\* backend_close returns to.
Idle == [pc |-> "idle", call |-> "none", fd |-> 0, wait_fd |-> 0, ret |-> "state"]

NoStream == [
    sending |-> <<>>,       \* units send_all has yet to send
    batch |-> <<>>,         \* the packets they are
    cipher |-> NoCipher,    \* first unit and next key of the transform
    shut |-> FALSE,         \* mc_client_shutdown_write was called
    wire |-> <<>>,          \* units the peer has been sent
    done |-> <<>>,          \* history: packets whose send returned 0
    torn |-> FALSE]         \* history: a failed send has used up bytes or keys
NoHandshake == [header |-> 0, size |-> 0, taken |-> 0]

-----------------------------------------------------------------------------
(* The process's descriptors (external: the operating system).              *)

Free == {n \in Fd : file[n] = "free"}
Lowest == Min(Free)
Is(n, kind) == n # 0 /\ file[n] = kind
Given(kind) == [file EXCEPT ![Lowest] = kind]
ClosedFile(n) == IF n = 0 THEN file ELSE [file EXCEPT ![n] = "free"]

\* Another part of the program opens or closes a file of its own.
ForeignOpens ==
    /\ Free # {}
    /\ "foreign" \notin {file[n] : n \in Fd}
    /\ file' = Given("foreign")
    /\ UNCHANGED <<client, preferred, thread, hand, stream, overlapped, bounds>>
ForeignCloses ==
    /\ \E n \in Fd : file[n] = "foreign" /\ file' = ClosedFile(n)
    /\ UNCHANGED <<client, preferred, thread, hand, stream, overlapped, bounds>>

-----------------------------------------------------------------------------
(* Control *)

Main == thread["main"]
At(t, label) == thread[t].pc = label
Goto(t, label) == thread' = [thread EXCEPT ![t].pc = label]
Return(t) == thread' = [thread EXCEPT ![t] = Idle]
MainGoes(label) == Goto("main", label)

\* A copy of the descriptor, then the next step.
Copy(t, n, label) == thread' = [thread EXCEPT ![t].fd = n, ![t].pc = label]

\* A call of ring_close or backend_close that returns to the step r.
CallClose(t, label, r) == thread' = [thread EXCEPT ![t].pc = label, ![t].ret = r]

\* goto fail: mc_client_disconnect and -1.
Fail == MainGoes("exchange")

Connected == socket_fd # 0

-----------------------------------------------------------------------------
(* mc_client_disconnect, ring_close and backend_close.                      *)

\* Take the descriptor out of the client before closing it.
MutantLoaded(t) ==
    /\ At(t, "exchange")
    /\ Copy(t, socket_fd, IF Connected THEN "close_socket" ELSE "disconnect_backend")
    /\ UNCHANGED <<file, client, preferred, hand, stream, overlapped, bounds>>
ExchangeSocket(t) ==
    /\ At(t, "exchange")
    /\ Copy(t, socket_fd, IF Connected THEN "close_socket" ELSE "disconnect_backend")
    /\ socket_fd' = 0
    /\ UNCHANGED <<file, event_fd, ring, backend, state, preferred, hand, stream,
                   overlapped, bounds>>

\* shutdown and close; there is no stream to speak of any more.
CloseSocket(t) ==
    /\ At(t, "close_socket")
    /\ file' = ClosedFile(thread[t].fd)
    /\ Goto(t, "disconnect_backend")
    /\ stream' = [NoStream EXCEPT !.torn = TRUE, !.sending = stream.sending,
                                  !.batch = stream.batch]
    /\ UNCHANGED <<client, preferred, hand, overlapped, bounds>>

DisconnectBackend(t) ==
    /\ At(t, "disconnect_backend")
    /\ CallClose(t, "backend_close", "state")
    /\ UNCHANGED <<file, client, preferred, hand, stream, overlapped, bounds>>

BackendClose(t) ==
    /\ At(t, "backend_close")
    /\ Goto(t, IF backend = "IO_URING" THEN "ring_close" ELSE "event_close")
    /\ UNCHANGED <<file, client, preferred, hand, stream, overlapped, bounds>>

\* munmap and close ...
RingClose(t) ==
    /\ At(t, "ring_close")
    /\ file' = ClosedFile(ring.fd)
    /\ ring' = [ring EXCEPT !.mapped = FALSE]
    /\ Goto(t, "ring_clear")
    /\ UNCHANGED <<socket_fd, event_fd, backend, state, preferred, hand, stream,
                   overlapped, bounds>>

\* ... then memset.
RingClear(t) ==
    /\ At(t, "ring_clear")
    /\ ring' = Closed
    /\ Goto(t, IF thread[t].ret = "fallback" THEN "fallback" ELSE "event_close")
    /\ UNCHANGED <<file, socket_fd, event_fd, backend, state, preferred, hand, stream,
                   overlapped, bounds>>

EventClose(t) ==
    /\ At(t, "event_close")
    /\ file' = ClosedFile(event_fd)
    /\ Goto(t, "event_clear")
    /\ UNCHANGED <<client, preferred, hand, stream, overlapped, bounds>>

EventClear(t) ==
    /\ At(t, "event_clear")
    /\ event_fd' = 0
    /\ backend' = "NONE"
    /\ Goto(t, thread[t].ret)
    /\ UNCHANGED <<file, socket_fd, ring, state, preferred, hand, stream, overlapped,
                   bounds>>

ChangeState(t) ==
    /\ At(t, "state")
    /\ state' = "DISCONNECTED"
    /\ Return(t)
    /\ UNCHANGED <<file, socket_fd, event_fd, ring, backend, preferred, hand, stream,
                   overlapped, bounds>>

DisconnectStep(t) ==
    \/ ExchangeSocket(t) \/ CloseSocket(t) \/ DisconnectBackend(t) \/ BackendClose(t)
    \/ RingClose(t) \/ RingClear(t) \/ EventClose(t) \/ EventClear(t) \/ ChangeState(t)

\* An application may disconnect from any thread once it has the client.
OtherDisconnects ==
    /\ At("other", "idle")
    /\ connections > 0 /\ Main.call # "accept"
    /\ preferred \in Interruptible /\ interrupts < MaxInterrupts
    /\ Goto("other", "exchange")
    /\ overlapped' = (overlapped \/ ~At("main", "idle"))
    /\ interrupts' = interrupts + 1
    /\ UNCHANGED <<file, client, preferred, hand, stream, connections, calls>>

-----------------------------------------------------------------------------
(* Calls of the client's thread. *)

Begin(name, label) ==
    /\ At("main", "idle")
    /\ thread' = [thread EXCEPT !["main"].pc = label, !["main"].call = name]
    /\ overlapped' = (overlapped \/ ~At("other", "idle"))

BeginWithSocket(name, label) ==
    /\ Free # {}
    /\ At("main", "idle")
    /\ file' = Given("socket")
    /\ thread' = [thread EXCEPT !["main"] =
                     [@ EXCEPT !.pc = label, !.call = name, !.fd = Lowest]]
    /\ overlapped' = (overlapped \/ ~At("other", "idle"))
    /\ connections' = connections + 1

\* connect_tcp has a connection, whose number is stored in the next step.
Open ==
    /\ ~Connected
    /\ connections < MaxConnections
    /\ BeginWithSocket("open", "store")
    /\ stream' = NoStream
    /\ UNCHANGED <<client, preferred, hand, calls, interrupts>>

StoreSocket ==
    /\ At("main", "store")
    /\ socket_fd' = Main.fd
    /\ CallClose("main", "backend_close", "init")
    /\ UNCHANGED <<file, event_fd, ring, backend, state, preferred, hand, stream,
                   overlapped, bounds>>

AppDisconnects ==
    /\ connections > 0
    /\ Begin("disconnect", "exchange")
    /\ UNCHANGED <<file, client, preferred, hand, stream, bounds>>

-----------------------------------------------------------------------------
(* mc_server_accept: the handshake is read before there is a client.        *)

\* A peer has connected; its handshake is a frame with a header of one or two
\* bytes that gives its size, and more may follow in the same segment.  The
\* client that will be made of it selects its backend automatically.
Accept ==
    /\ connections = 0 /\ preferred = "NONE"
    /\ BeginWithSocket("accept", "accept_size")
    /\ \E header \in 1..2, size \in 0..(MaxHandshake + 1) :
          hand' = [header |-> header, size |-> size, taken |-> 0]
    /\ UNCHANGED <<client, preferred, stream, calls, interrupts>>

\* accepted_varint: a byte at a time.
MutantAnySize ==
    /\ At("main", "accept_size")
    /\ hand' = [hand EXCEPT !.taken = @ + 1]
    /\ MainGoes(IF hand'.taken < hand.header THEN "accept_size"
                ELSE IF hand.size > 0 THEN "accept_body"
                ELSE "accept_refuse")
    /\ UNCHANGED <<file, client, preferred, stream, overlapped, bounds>>
AcceptSize ==
    /\ At("main", "accept_size")
    /\ hand' = [hand EXCEPT !.taken = @ + 1]
    /\ MainGoes(IF hand'.taken < hand.header THEN "accept_size"
                ELSE IF hand.size \in 1..MaxHandshake THEN "accept_body"
                ELSE "accept_refuse")
    /\ UNCHANGED <<file, client, preferred, stream, overlapped, bounds>>

\* accepted_receive: recv is asked for what is missing of the frame.
MutantAsksBuffer == MaxHandshake
AcceptMissing == hand.header + hand.size - hand.taken

AcceptBody ==
    /\ At("main", "accept_body")
    /\ \E n \in 1..AcceptMissing : hand' = [hand EXCEPT !.taken = @ + n]
    /\ MainGoes(IF hand'.taken < hand.header + hand.size THEN "accept_body"
                ELSE "accept_check")
    /\ UNCHANGED <<file, client, preferred, stream, overlapped, bounds>>

\* The handshake is sound and mc_client_create succeeds.
AcceptClient ==
    /\ At("main", "accept_check")
    /\ MainGoes("store")
    /\ UNCHANGED <<file, client, preferred, hand, stream, overlapped, bounds>>

\* Timeout, end of stream, a bad size or handshake, an unknown protocol.
AcceptRefuses ==
    /\ Main.pc \in {"accept_size", "accept_body", "accept_check", "accept_refuse"}
    /\ file' = ClosedFile(Main.fd)
    /\ Return("main")
    /\ hand' = NoHandshake
    /\ UNCHANGED <<client, preferred, stream, overlapped, bounds>>

AcceptStep == AcceptSize \/ AcceptBody \/ AcceptClient \/ AcceptRefuses

-----------------------------------------------------------------------------
(* backend_init, behind its backend_close.                                  *)

\* backend_epoll: a descriptor that watches n; on failure it is closed again.
RegistersEpoll(n) ==
    /\ Free # {} /\ n # 0 /\ file[n] # "free"
    /\ file' = Given("epoll")
    /\ event_fd' = Lowest
    /\ backend' = "EPOLL"

InitRing ==
    /\ preferred \in {"NONE", "IO_URING"}
    /\ Free # {}
    /\ file' = Given("ring")
    /\ ring' = [fd |-> Lowest, mapped |-> TRUE]
    /\ backend' = "IO_URING"
    /\ UNCHANGED event_fd
InitEpoll ==
    /\ preferred \in {"NONE", "EPOLL"}
    /\ RegistersEpoll(Main.fd)
    /\ UNCHANGED ring
InitPoll ==
    /\ preferred \in {"NONE", "POLL"}
    /\ backend' = "POLL"
    /\ UNCHANGED <<file, event_fd, ring>>

BackendInit ==
    /\ At("main", "init")
    /\ InitRing \/ InitEpoll \/ InitPoll
    /\ MainGoes(IF Main.call = "open" THEN "handshake" ELSE "accepted")
    /\ UNCHANGED <<socket_fd, state, preferred, hand, stream, overlapped, bounds>>

\* The one backend asked for is not available.
BackendUnavailable ==
    /\ At("main", "init")
    /\ preferred \in {"IO_URING", "EPOLL"}
    /\ Fail
    /\ UNCHANGED <<file, client, preferred, hand, stream, overlapped, bounds>>

Accepted ==
    /\ At("main", "accepted")
    /\ state' = "LOGIN"
    /\ Return("main")
    /\ hand' = NoHandshake
    /\ UNCHANGED <<file, socket_fd, event_fd, ring, backend, preferred, stream, overlapped,
                   bounds>>

-----------------------------------------------------------------------------
(* backend_wait, and receive_some above it.                                 *)

\* mc_client_wait, or mc_client_poll, which reads when there is something.
Wait ==
    /\ Connected
    /\ \/ Begin("wait", "wait")
       \/ Begin("poll", "wait") /\ state # "DISCONNECTED"
    /\ UNCHANGED <<file, client, preferred, hand, stream, bounds>>

BackendWait ==
    /\ At("main", "wait")
    /\ thread' = [thread EXCEPT !["main"].wait_fd = socket_fd,
                                !["main"].pc = CASE backend = "IO_URING" -> "ring_enter"
                                                 [] backend = "EPOLL" -> "epoll_wait"
                                                 [] OTHER -> "poll_wait"]
    /\ UNCHANGED <<file, client, preferred, hand, stream, overlapped, bounds>>

\* What the caller of backend_wait does with its result.
WaitResult(result) ==
    /\ CASE Main.call = "wait" -> Return("main")
         [] Main.call = "poll" /\ result = "ready" -> MainGoes("recv_load")
         [] Main.call = "poll" /\ result = "timeout" -> Return("main")
         [] Main.call = "receive" /\ result = "ready" -> MainGoes("recv")
         [] OTHER -> Fail
    /\ UNCHANGED <<file, client, preferred, hand, stream, overlapped, bounds>>

\* ring_wait writes two entries and enters the kernel, then reads two results.
RingEnters ==
    /\ At("main", "ring_enter") /\ ring.mapped
    /\ MainGoes("ring_reap")
    /\ UNCHANGED <<file, client, preferred, hand, stream, overlapped, bounds>>
RingReaps ==
    /\ At("main", "ring_reap") /\ ring.mapped
    /\ \E result \in {"ready", "timeout"} : WaitResult(result)

\* -2: the ring is given up.
MutantRingKept ==
    /\ Main.pc \in {"ring_enter", "ring_reap"} /\ ring.mapped
    /\ MainGoes("fallback")
    /\ UNCHANGED <<file, client, preferred, hand, stream, overlapped, bounds>>
RingFails ==
    /\ Main.pc \in {"ring_enter", "ring_reap"} /\ ring.mapped
    /\ CallClose("main", "ring_close", "fallback")
    /\ UNCHANGED <<file, client, preferred, hand, stream, overlapped, bounds>>

\* The entries are in memory that is no longer there: the process ends.
RingGone ==
    /\ Main.pc \in {"ring_enter", "ring_reap"} /\ ~ring.mapped
    /\ MainGoes("crashed")
    /\ UNCHANGED <<file, client, preferred, hand, stream, overlapped, bounds>>

\* Automatic selection goes on with epoll or poll; an explicit io_uring fails.
MutantBackendKept ==
    /\ At("main", "fallback")
    /\ preferred # "IO_URING"
    /\ MainGoes("poll_wait")
    /\ UNCHANGED <<file, client, preferred, hand, stream, overlapped, bounds>>
Fallback ==
    /\ At("main", "fallback")
    /\ preferred # "IO_URING"
    /\ \/ RegistersEpoll(Main.wait_fd) /\ MainGoes("epoll_wait")
       \/ backend' = "POLL" /\ MainGoes("poll_wait") /\ UNCHANGED <<file, event_fd>>
    /\ UNCHANGED <<socket_fd, ring, state, preferred, hand, stream, overlapped, bounds>>
FallbackRefused ==
    /\ At("main", "fallback")
    /\ preferred = "IO_URING"
    /\ WaitResult("error")

EpollWait ==
    /\ At("main", "epoll_wait")
    /\ \E result \in IF Is(event_fd, "epoll") THEN {"ready", "timeout"} ELSE {"error"} :
          WaitResult(result)
PollWait ==
    /\ At("main", "poll_wait")
    /\ \E result \in {"ready", "timeout", "error"} : WaitResult(result)

WaitStep ==
    \/ BackendWait \/ RingEnters \/ RingReaps \/ RingFails \/ RingGone
    \/ Fallback \/ FallbackRefused \/ EpollWait \/ PollWait

\* receive_some: the number is copied once, whatever happens to the socket.
ReceiveLoad ==
    /\ At("main", "recv_load")
    /\ Copy("main", socket_fd, "recv")
    /\ UNCHANGED <<file, client, preferred, hand, stream, overlapped, bounds>>

\* Bytes, of the socket or of the file that now has its number; nothing yet; or
\* the end of the stream or an error, after which poll disconnects.
Receive ==
    /\ At("main", "recv")
    /\ \/ Main.fd # 0 /\ file[Main.fd] # "free" /\ Return("main")
       \/ Is(Main.fd, "socket")
          /\ thread' = [thread EXCEPT !["main"].pc = "wait", !["main"].call = "receive"]
       \/ Fail
    /\ UNCHANGED <<file, client, preferred, hand, stream, overlapped, bounds>>

ReceiveStep == ReceiveLoad \/ Receive

-----------------------------------------------------------------------------
(* encode_frame, send_all and their callers.                                *)

\* The frames of some packets, one behind the other.
Units(packets) ==
    FlattenSeq([i \in DOMAIN packets |-> [k \in 1..FrameUnits |-> <<packets[i], k>>]])

Encrypting == stream.cipher # NoCipher

\* send_all transforms a copy of all it is given before it sends any of it.
StartSending(packets) ==
    LET units == Units(packets)
        Key(i) == IF Encrypting THEN stream.cipher.next + i - 1 ELSE -1
    IN  stream' = [stream EXCEPT
            !.sending = [i \in DOMAIN units |-> [unit |-> units[i], key |-> Key(i)]],
            !.batch = packets,
            !.cipher.next = IF Encrypting THEN @ + Len(units) ELSE @]

\* mc_client_open's handshake.
SendHandshake ==
    /\ At("main", "handshake")
    /\ StartSending(<<"handshake">>)
    /\ MainGoes("send_load")
    /\ UNCHANGED <<file, client, preferred, hand, overlapped, bounds>>

\* mc_client_send, or mc_client_send_batch with frames encoded one by one.
MaySend == Connected /\ state # "DISCONNECTED" /\ calls < MaxCalls
Batches == {<<p>> : p \in Packet} \cup {<<p, q>> : p, q \in Packet}

Send ==
    /\ MaySend
    /\ Begin("send", "send_load")
    /\ \E packets \in Batches : StartSending(packets)
    /\ calls' = calls + 1
    /\ UNCHANGED <<file, client, preferred, hand, connections, interrupts>>

\* A packet of the batch cannot be encoded, or memory is short: nothing goes,
\* and no key is used.  Or the transform itself fails.
SendRefused ==
    /\ MaySend
    /\ At("main", "idle")
    /\ \/ UNCHANGED stream
       \/ Encrypting /\ stream' = [stream EXCEPT !.torn = TRUE]
    /\ calls' = calls + 1
    /\ UNCHANGED <<file, client, preferred, thread, hand, overlapped, connections,
                   interrupts>>

SendLoad ==
    /\ At("main", "send_load")
    /\ Copy("main", socket_fd, "send")
    /\ UNCHANGED <<file, client, preferred, hand, stream, overlapped, bounds>>

\* What is left after n units have gone.
MutantOneUnit(n) == Tail(stream.sending)
Unsent(n) == SubSeq(stream.sending, n + 1, Len(stream.sending))

\* send takes some of the bytes; under a stale number they go elsewhere.
SendSome ==
    /\ At("main", "send")
    /\ \E n \in 1..Len(stream.sending) :
          LET gone == SubSeq(stream.sending, 1, n)
          IN  \/ /\ Is(Main.fd, "socket") /\ ~stream.shut
                 /\ stream' = [stream EXCEPT !.wire = @ \o gone, !.sending = Unsent(n)]
              \/ /\ Is(Main.fd, "foreign")
                 /\ stream' = [stream EXCEPT !.sending = Unsent(n)]
    /\ UNCHANGED <<file, client, preferred, thread, hand, overlapped, bounds>>

\* What has gone, and the keys, stay used; mc_client_open disconnects.
SendFails ==
    /\ At("main", "send") /\ stream.sending # <<>>
    /\ stream' = [stream EXCEPT !.sending = <<>>, !.batch = <<>>,
         !.torn = @ \/ Encrypting \/ Len(stream.sending) < Len(Units(stream.batch))]
    /\ IF Main.call = "open" THEN Fail ELSE Return("main")
    /\ UNCHANGED <<file, client, preferred, hand, overlapped, bounds>>

SendReturns ==
    /\ At("main", "send") /\ stream.sending = <<>>
    /\ stream' = [stream EXCEPT !.done = @ \o stream.batch, !.batch = <<>>]
    /\ state' = IF Main.call = "open" THEN "LOGIN" ELSE state
    /\ Return("main")
    /\ UNCHANGED <<file, socket_fd, event_fd, ring, backend, preferred, hand, overlapped,
                   bounds>>

SendStep == SendHandshake \/ SendLoad \/ SendSome \/ SendFails \/ SendReturns

\* mc_client_set_stream_transforms: both ends change between two frames.
SetTransforms ==
    /\ At("main", "idle") /\ Connected /\ ~Encrypting
    /\ stream' = [stream EXCEPT !.cipher = [from |-> Len(stream.wire) + 1, next |-> 0]]
    /\ UNCHANGED <<file, client, preferred, thread, hand, overlapped, bounds>>

ShutdownWrite ==
    /\ At("main", "idle") /\ Connected /\ state # "DISCONNECTED" /\ ~stream.shut
    /\ stream' = [stream EXCEPT !.shut = TRUE]
    /\ UNCHANGED <<file, client, preferred, thread, hand, overlapped, bounds>>

-----------------------------------------------------------------------------
(* mc_client_create; mc_client_set_backend before the first connection.     *)
Init ==
    /\ file = [n \in Fd |-> "free"]
    /\ socket_fd = 0 /\ event_fd = 0 /\ ring = Closed /\ backend = "NONE"
    /\ preferred \in Preferences
    /\ state = "DISCONNECTED"
    /\ thread = [t \in Thread |-> Idle]
    /\ hand = NoHandshake
    /\ stream = NoStream
    /\ overlapped = FALSE
    /\ connections = 0 /\ calls = 0 /\ interrupts = 0

Call ==
    \/ Open \/ Accept \/ Wait \/ Send \/ AppDisconnects
    \/ SendRefused \/ SetTransforms \/ ShutdownWrite

MainStep ==
    \/ StoreSocket \/ AcceptStep \/ BackendInit \/ BackendUnavailable \/ Accepted
    \/ WaitStep \/ ReceiveStep \/ SendStep

Next ==
    \/ Call \/ MainStep
    \/ OtherDisconnects
    \/ \E t \in Thread : DisconnectStep(t)
    \/ ForeignOpens \/ ForeignCloses

Spec == Init /\ [][Next]_vars

-----------------------------------------------------------------------------
(* Properties *)

Label == {"idle", "exchange", "close_socket", "disconnect_backend", "backend_close",
    "ring_close", "ring_clear", "event_close", "event_clear", "state", "store", "init",
    "handshake", "accepted", "accept_size", "accept_body", "accept_check", "accept_refuse",
    "wait", "ring_enter", "ring_reap", "fallback", "epoll_wait", "poll_wait", "recv_load",
    "recv", "send_load", "send", "crashed"}

\* Every variable has its type; in particular the handshake of any peer fits
\* the frame buffer of mc_server_accept.
TypeOK ==
    /\ file \in [Fd -> {"free", "socket", "epoll", "ring", "foreign"}]
    /\ {socket_fd, event_fd, ring.fd} \subseteq 0..MaxFd
    /\ ring.mapped \in BOOLEAN
    /\ backend \in {"NONE", "IO_URING", "EPOLL", "POLL"}
    /\ preferred \in Preferences
    /\ state \in {"DISCONNECTED", "LOGIN"}
    /\ \A t \in Thread : /\ thread[t].pc \in Label
                         /\ {thread[t].fd, thread[t].wait_fd} \subseteq 0..MaxFd
    /\ hand.taken \in 0..(hand.header + MaxHandshake)

\* However many threads disconnect at once, the socket is closed by one of them
\* and while it is still the client's: the number exchanged out of the client
\* cannot have been given to another file.
SocketClosedOnce ==
    \A t \in Thread : At(t, "close_socket") => file[thread[t].fd] = "socket"

\* Between calls the client's files are exactly the ones it can still close, of
\* the kinds its fields say, whichever call failed at whichever point, and a
\* client without a socket has none.
DescriptorsAccounted ==
    (\A t \in Thread : At(t, "idle")) =>
        LET held == [socket |-> socket_fd, epoll |-> event_fd, ring |-> ring.fd]
        IN  /\ \A kind \in DOMAIN held :
                 {n \in Fd : file[n] = kind} = {held[kind]} \ {0}
            /\ socket_fd = 0 => event_fd = 0 /\ ring.fd = 0

\* The socket handed to an accepted client stands at the byte behind the
\* handshake, where its decoder starts, though recv may have had more to give.
AcceptStopsAtFrame ==
    Main.call = "accept" /\ Connected => hand.taken = hand.header + hand.size

\* What the peer is sent is what the calls that returned 0 sent, whole and in
\* order, then the part of the call under way, each unit under the key the
\* peer expects there; a call that failed without sending leaves no trace.
StreamMatchesCalls ==
    ~stream.torn /\ ~overlapped =>
        LET sent == stream.wire \o stream.sending
            Key(i) == IF Encrypting /\ i >= stream.cipher.from
                      THEN i - stream.cipher.from ELSE -1
        IN  /\ [i \in DOMAIN sent |-> sent[i].unit] = Units(stream.done \o stream.batch)
            /\ \A i \in DOMAIN sent : sent[i].key = Key(i)

\* When the ring fails at run time the client goes on waiting by other means:
\* no wait touches a ring that has been closed.
RingServesWaits ==
    preferred # "IO_URING" => ~At("main", "crashed")

\* A thread that waits keeps its ring while another thread interrupts it.
RingMappedWhileWaiting == At("main", "ring_reap") => ring.mapped

=============================================================================
