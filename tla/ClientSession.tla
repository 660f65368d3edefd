---------------------------- MODULE ClientSession ----------------------------
(***************************************************************************)
(* One McClient through its life (api.c, LIFECYCLE, CONFIGURATION STATE    *)
(* and PLAY STATE): open, offline login, configuration, poll and run, with *)
(* the synchronous on_packet callback, a disconnect from another thread,   *)
(* timeouts, failing sends and a peer that coalesces frames and may change *)
(* the compression mode between any two of them.                           *)
(*                                                                         *)
(* The unit of data is the frame: McStreamDecoder appears here through the *)
(* interface StreamDecoder establishes for it (whole frames, in order, at  *)
(* most one per feed as read_frame asks for), with its threshold and its   *)
(* compression_transition_ready flag.  The client's thread is a program    *)
(* counter; a step ends where another thread or the peer can be noticed:   *)
(* before and after each socket call and each callback.  send_all blocks   *)
(* without a timeout, so a send returns only while the peer takes bytes or *)
(* once the socket is shut.  The other thread's mc_client_disconnect is    *)
(* three steps, as its effects are.                                        *)
(***************************************************************************)
EXTENDS Integers, Sequences

CONSTANTS
    LoginPackets,       \* MC_LOGIN_PACKETS: 16 in the code
    ConfigPackets,      \* MC_CONFIG_PACKETS: 256 in the code
    HasConfiguration,   \* profile flag MC_PROTOCOL_FEATURE_CONFIGURATION
    InformationFirst,   \* protocol >= 776: settings after the first packet
    Level,              \* the compression thresholds the peer may announce
    MaxConnections,     \* bound: connections of one client object
    MaxInFlight         \* bound: frames sent by the peer and not yet received

ASSUME SessionAssumption ==
    /\ LoginPackets \in Nat \ {0}
    /\ ConfigPackets \in Nat \ {0}
    /\ HasConfiguration \in BOOLEAN
    /\ InformationFirst \in BOOLEAN
    /\ Level \subseteq Nat
    /\ MaxConnections \in Nat
    /\ MaxInFlight \in Nat \ {0}

VARIABLES
    socket_fd,          \* the connection the client holds, -1 = none
    state,              \* McState
    stop,
    compression_threshold,
    decoder,            \* [threshold, ready]: McStreamDecoder's mode
    buffered,           \* complete frames in the decoder's buffer
    partial,            \* the buffer ends in the first part of Head(net)
    information_sent,   \* Client Information packets sent in configuration
    pc,                 \* the next step of the client's thread
    call,               \* the latest API call of the client's thread
    result,             \* what it returned, "none" while it runs
    phase,              \* who called read_protocol_packet
    index,              \* the login or configuration loop's counter
    frame,              \* the packet read_protocol_packet returned
    poll_state,         \* mc_client_poll's local `state'
    asked,              \* history: who first disconnected during this call
    todo,               \* what a raw session owes the packet it was shown
    other,              \* the other thread's next step in disconnect
    connections,        \* connections made so far
    net,                \* frames on their way to the client
    peer                \* [mode, phase, closed, takes]: the server's side

conn    == <<socket_fd, state, stop>>
mode    == <<compression_threshold, decoder>>
data    == <<buffered, partial>>
control == <<pc, call, result>>
reading == <<phase, index, frame, poll_state>>
wire    == <<net, peer>>

vars == <<conn, mode, data, information_sent, control, reading, asked, todo, other,
          connections, wire>>

State == {"DISCONNECTED", "LOGIN", "CONFIGURATION", "PLAY"}
Kind == {"other", "compress", "success", "refuse", "known_packs", "finish",
         "keep_alive"}
Mode == Level \cup {-1}
Frame == [kind : Kind, mode : Mode, value : Mode]
NoFrame == [kind |-> "other", mode |-> -1, value |-> -1]
NoPeer == [mode |-> -1, phase |-> "gone", closed |-> TRUE, takes |-> TRUE]

Connected == socket_fd # -1

(***************************************************************************)
(* The peer (external): in each phase of the protocol it sends the frames  *)
(* of that phase, each in the mode it is in; announcing a threshold puts   *)
(* every later frame, possibly in the same segment, in the new mode.       *)
(***************************************************************************)
PeerKinds(p) == CASE p = "login"  -> {"other", "compress", "success", "refuse"}
                  [] p = "config" -> {"other", "known_packs", "finish"}
                  [] p = "play"   -> {"other", "keep_alive"}

PeerPhaseAfter(kind) ==
    CASE kind = "success" -> IF HasConfiguration THEN "config" ELSE "play"
      [] kind = "finish"  -> "play"
      [] OTHER            -> peer.phase

PeerSend ==
    /\ ~peer.closed
    /\ Len(net) < MaxInFlight
    /\ \E kind \in PeerKinds(peer.phase) :
       \E value \in IF kind = "compress" THEN Level ELSE {-1} :
         /\ net' = Append(net, [kind |-> kind, mode |-> peer.mode, value |-> value])
         /\ peer' = [peer EXCEPT !.phase = PeerPhaseAfter(kind),
                                 !.mode = IF kind = "compress" THEN value ELSE @]
    /\ UNCHANGED <<conn, mode, data, information_sent, control, reading, asked, todo,
                   other, connections>>

PeerClose ==
    /\ ~peer.closed
    /\ peer' = [peer EXCEPT !.closed = TRUE]
    /\ UNCHANGED <<conn, mode, data, information_sent, control, reading, asked, todo,
                   other, connections, net>>

(***************************************************************************)
(* send_all.  A send may fail at any time, and succeeds only while the     *)
(* peer takes what it is sent.                                             *)
(***************************************************************************)
SendReturns == Connected /\ peer.takes

\* Whether this packet makes the client send its information.
MutantNotWithFinish ==
    information_sent = 0 /\ InformationFirst /\ frame.kind # "finish"
InformationDue ==
    information_sent = 0 /\ (InformationFirst \/ frame.kind = "finish")

\* The packet arrived in PLAY and the callback has left the client there.
MutantReplyAnyway == poll_state = "PLAY"
ReplyAllowed == poll_state = "PLAY" /\ state = "PLAY" /\ Connected

\* handle_play; only the keep-alive answer is told apart here.
PlayAnswered == ReplyAllowed /\ frame.kind = "keep_alive"

\* The client's thread is at a send.
AtSend ==
    \/ pc \in {"handshake", "login_start", "config_ack"}
    \/ pc = "config" /\ (InformationDue \/ frame.kind \in {"known_packs", "finish"})
    \/ pc = "polled" /\ PlayAnswered

\* The peer takes no more bytes (its window is shut) and the send blocks.  Only a
\* send can tell; a peer that takes bytes again later is a slow one.
PeerStalls ==
    /\ AtSend /\ SendReturns
    /\ peer' = [peer EXCEPT !.takes = FALSE]
    /\ UNCHANGED <<conn, mode, data, information_sent, control, reading, asked, todo,
                   other, connections, net>>

\* A send the peer never takes, on a socket nobody has shut.
Blocked == AtSend /\ Connected /\ ~peer.takes

(***************************************************************************)
(* mc_client_disconnect on the client's own thread.  The decoder keeps     *)
(* what it has buffered until the next open resets it.                     *)
(***************************************************************************)
Disconnect ==
    /\ stop' = TRUE
    /\ socket_fd' = -1
    /\ state' = "DISCONNECTED"
    /\ net' = <<>>
    /\ peer' = NoPeer

\* The API call ends.
Return(value) == pc' = "idle" /\ result' = value /\ UNCHANGED call

\* goto fail, or poll's error path: disconnect and return -1.
Fail ==
    /\ Disconnect
    /\ Return("error")
    /\ UNCHANGED <<mode, data, information_sent, reading, asked, todo, other,
                   connections>>

(***************************************************************************)
(* The same function on another thread: the stop flag, the descriptor,     *)
(* then the backend and the state.  Bound: only the first disconnect of a  *)
(* call comes from there.                                                  *)
(***************************************************************************)
OtherStops ==
    /\ other = "none" /\ asked = "no"
    /\ stop' = TRUE
    /\ asked' = "thread"
    /\ other' = "exchange"
    /\ UNCHANGED <<socket_fd, state, mode, data, information_sent, control, reading,
                   todo, connections, wire>>

OtherCloses ==
    /\ other = "exchange"
    /\ socket_fd' = -1
    /\ net' = <<>>
    /\ peer' = NoPeer
    /\ other' = "change_state"
    /\ UNCHANGED <<state, stop, mode, data, information_sent, control, reading, asked,
                   todo, connections>>

OtherChangesState ==
    /\ other = "change_state"
    /\ state' = "DISCONNECTED"
    /\ other' = "none"
    /\ UNCHANGED <<socket_fd, stop, mode, data, information_sent, control, reading,
                   asked, todo, connections, wire>>

(***************************************************************************)
(* mc_client_open, and mc_client_connect up to the login loop.             *)
(***************************************************************************)
Begin(which) ==
    /\ pc = "idle"
    /\ call' = which
    /\ result' = "none"
    /\ asked' = "no"

\* Up to the blocking connect_tcp: what the previous connection left in the
\* client and its decoder is reset, and the locals of its reads are gone.
Open(which) ==
    /\ Begin(which)
    /\ ~Connected
    /\ connections < MaxConnections
    /\ stop' = FALSE
    /\ decoder' = [threshold |-> -1, ready |-> FALSE]
    /\ buffered' = <<>> /\ partial' = FALSE
    /\ compression_threshold' = -1
    /\ information_sent' = 0
    /\ todo' = "none"
    /\ pc' = "connect_tcp"
    /\ phase' = "login" /\ index' = 0 /\ frame' = NoFrame /\ poll_state' = "DISCONNECTED"
    /\ UNCHANGED <<socket_fd, state, other, connections, wire>>

ConnectTcpFails ==
    /\ pc = "connect_tcp"
    /\ Return("error")
    /\ UNCHANGED <<conn, mode, data, information_sent, reading, asked, todo, other,
                   connections, wire>>

ConnectTcp ==
    /\ pc = "connect_tcp"
    /\ connections' = connections + 1
    /\ socket_fd' = connections + 1
    /\ net' = <<>>
    /\ peer' = [mode |-> -1, phase |-> "login", closed |-> FALSE,
                takes |-> TRUE]
    /\ pc' = "handshake"
    /\ UNCHANGED <<state, stop, mode, data, information_sent, call, result, reading,
                   asked, todo, other>>

\* backend_init or the handshake send fails, or the handshake is sent.
Handshake ==
    /\ pc = "handshake"
    /\ \/ Fail
       \/ /\ SendReturns
          /\ pc' = "enter_login"
          /\ UNCHANGED <<conn, mode, data, information_sent, call, result, reading,
                         asked, todo, other, connections, wire>>

\* change_state(LOGIN), whatever has happened to the socket.
EnterLogin ==
    /\ pc = "enter_login"
    /\ state' = "LOGIN"
    /\ IF call = "open" THEN Return("opened")
                        ELSE pc' = "login_start" /\ UNCHANGED <<call, result>>
    /\ UNCHANGED <<socket_fd, stop, mode, data, information_sent, reading, asked, todo,
                   other, connections, wire>>

\* Begin reading packets for phase p.
ReadFor(p) == pc' = "read" /\ phase' = p /\ index' = 0

LoginStart ==
    /\ pc = "login_start"
    /\ \/ Fail
       \/ /\ SendReturns
          /\ ReadFor("login")
          /\ UNCHANGED <<conn, mode, data, information_sent, call, result, frame,
                         poll_state, asked, todo, other, connections, wire>>

(***************************************************************************)
(* read_frame: a feed of no bytes, then alternately receive_some and feed, *)
(* always with room for one frame.                                         *)
(***************************************************************************)
\* What a packet asks of an application that drives the protocol itself.
Owed(f) == IF phase # "polled" THEN "none"
           ELSE CASE poll_state = "LOGIN" /\ f.kind \in {"compress", "success"} -> f.kind
                  [] poll_state = "CONFIGURATION" /\ f.kind = "finish" -> "finish"
                  [] OTHER -> "none"

\* feed's effect when the frames fs, and part of one more, are in the buffer.
MutantNeverReady(fs, part) ==
    /\ partial' = part
    /\ decoder' = [decoder EXCEPT !.ready = FALSE]
    /\ IF fs = <<>>
       THEN buffered' = fs /\ pc' = "receive" /\ UNCHANGED <<frame, todo>>
       ELSE /\ buffered' = Tail(fs) /\ pc' = "on_packet"
            /\ frame' = Head(fs) /\ todo' = Owed(Head(fs))
FeedOne(fs, part) ==
    /\ partial' = part
    /\ decoder' = [decoder EXCEPT !.ready = fs # <<>> /\ (Tail(fs) # <<>> \/ part)]
    /\ IF fs = <<>>
       THEN buffered' = fs /\ pc' = "receive" /\ UNCHANGED <<frame, todo>>
       ELSE /\ buffered' = Tail(fs) /\ pc' = "on_packet"
            /\ frame' = Head(fs) /\ todo' = Owed(Head(fs))

\* A frame in another mode than the decoder's is an error, or nonsense.
Misread(fs) == fs # <<>> /\ Head(fs).mode # decoder.threshold

ReadFrame ==
    /\ pc = "read"
    /\ IF Misread(buffered) THEN Fail
       ELSE /\ FeedOne(buffered, partial)
            /\ UNCHANGED <<conn, compression_threshold, information_sent, call, result,
                           phase, index, poll_state, asked, other, connections, wire>>

\* recv returns bytes: n more whole frames, and then perhaps part of another.
Receive ==
    /\ pc = "receive"
    /\ Connected
    /\ \E n \in 0..Len(net), part \in BOOLEAN :
         /\ part => n < Len(net)
         /\ n > 0 \/ (part /\ ~partial)
         /\ LET fs == buffered \o SubSeq(net, 1, n) IN
            IF Misread(fs) THEN Fail
            ELSE /\ FeedOne(fs, part)
                 /\ net' = SubSeq(net, n + 1, Len(net))
                 /\ UNCHANGED <<conn, compression_threshold, information_sent, call,
                                result, phase, index, poll_state, asked, other,
                                connections, peer>>

\* The wait times out, the peer has closed, or the descriptor is gone.
ReceiveFails == pc = "receive" /\ Fail

(***************************************************************************)
(* emit_packet: the application's on_packet callback, which may            *)
(* disconnect.  An application that uses mc_client_run does what the       *)
(* packet asks of it here (AppSetCompression, AppSetState).                *)
(***************************************************************************)
OnPacket ==
    /\ pc = "on_packet"
    /\ call = "run" => todo = "none"
    /\ pc' = phase
    /\ \/ UNCHANGED <<conn, asked, wire>>
       \/ /\ Disconnect
          /\ asked' = IF asked = "no" THEN "callback" ELSE asked
    /\ UNCHANGED <<mode, data, information_sent, call, result, reading, todo, other,
                   connections>>

(***************************************************************************)
(* The loop of client_connect_profile.                                     *)
(***************************************************************************)
\* The next iteration, or the end of the loop.
MutantOneMore(limit) ==
    IF index + 1 <= limit
    THEN pc' = "read" /\ index' = index + 1 /\ UNCHANGED <<conn, call, result, wire>>
    ELSE Disconnect /\ Return("error") /\ UNCHANGED index
MutantUnbounded(limit) ==
    pc' = "read" /\ UNCHANGED <<conn, call, result, index, wire>>
Iterate(limit) ==
    IF index + 1 < limit
    THEN pc' = "read" /\ index' = index + 1 /\ UNCHANGED <<conn, call, result, wire>>
    ELSE Disconnect /\ Return("error") /\ UNCHANGED index

\* mc_client_set_compression: client and decoder change together or not at all.
SetCompressionRefused ==
    ~Connected \/ ((buffered # <<>> \/ partial) /\ ~decoder.ready)

MutantDecoderOnly(threshold) ==
    /\ decoder' = [threshold |-> threshold, ready |-> FALSE]
    /\ UNCHANGED compression_threshold
MutantClientThresholdOnly(threshold) ==
    /\ UNCHANGED decoder
    /\ compression_threshold' = threshold
SetCompression(threshold) ==
    /\ decoder' = [threshold |-> threshold, ready |-> FALSE]
    /\ compression_threshold' = threshold

LoginCompress ==
    /\ pc = "login" /\ frame.kind = "compress"
    /\ IF SetCompressionRefused THEN Fail
       ELSE /\ SetCompression(frame.value)
            /\ Iterate(LoginPackets)
            /\ UNCHANGED <<data, information_sent, phase, frame, poll_state, asked,
                           todo, other, connections>>

\* Login Disconnect, an Encryption Request this build does not support, or a
\* Set Compression whose threshold cannot be read.
LoginRefused == pc = "login" /\ frame.kind = "refuse" /\ Fail

LoginOther ==
    /\ pc = "login" /\ frame.kind \notin {"compress", "refuse", "success"}
    /\ Iterate(LoginPackets)
    /\ UNCHANGED <<mode, data, information_sent, phase, frame, poll_state, asked, todo,
                   other, connections>>

LoginSuccess ==
    /\ pc = "login" /\ frame.kind = "success"
    /\ pc' = IF HasConfiguration THEN "configuration" ELSE "enter_play"
    /\ UNCHANGED <<conn, mode, data, information_sent, call, result, reading, asked,
                   todo, other, connections, wire>>

\* change_state(PLAY) and return 0, whatever has happened to the socket.
EnterPlay ==
    /\ pc = "enter_play"
    /\ state' = "PLAY"
    /\ Return("connected")
    /\ UNCHANGED <<socket_fd, stop, mode, data, information_sent, reading, asked, todo,
                   other, connections, wire>>

(***************************************************************************)
(* configuration().                                                        *)
(***************************************************************************)
\* change_state(CONFIGURATION), then the acknowledgement of Login Success.
ConfigurationStart ==
    /\ pc = "configuration"
    /\ state' = "CONFIGURATION"
    /\ pc' = "config_ack"
    /\ UNCHANGED <<socket_fd, stop, mode, data, information_sent, call, result, reading,
                   asked, todo, other, connections, wire>>

ConfigurationAck ==
    /\ pc = "config_ack"
    /\ \/ Fail
       \/ /\ SendReturns
          /\ ReadFor("config")
          /\ UNCHANGED <<conn, mode, data, information_sent, call, result, frame,
                         poll_state, asked, todo, other, connections, wire>>

\* The Client Information goes before any other answer to the same packet.
ConfigInformation ==
    /\ pc = "config" /\ InformationDue
    /\ \/ Fail
       \/ /\ SendReturns
          /\ information_sent' = information_sent + 1
          /\ UNCHANGED <<conn, mode, data, control, reading, asked, todo, other,
                         connections, wire>>

\* The selection of known packs.
ConfigKnownPacks ==
    /\ pc = "config" /\ ~InformationDue /\ frame.kind = "known_packs"
    /\ \/ Fail
       \/ /\ SendReturns
          /\ Iterate(ConfigPackets)
          /\ UNCHANGED <<mode, data, information_sent, phase, frame, poll_state, asked,
                         todo, other, connections>>

\* The acknowledgement of Finish Configuration; the resource pack answer of 765
\* to 775, just before it, fails or is sent with it.
ConfigFinish ==
    /\ pc = "config" /\ ~InformationDue /\ frame.kind = "finish"
    /\ \/ Fail
       \/ /\ SendReturns
          /\ pc' = "enter_play"
          /\ UNCHANGED <<conn, mode, data, information_sent, call, result, reading,
                         asked, todo, other, connections, wire>>

ConfigOther ==
    /\ pc = "config" /\ ~InformationDue /\ frame.kind \notin {"known_packs", "finish"}
    /\ Iterate(ConfigPackets)
    /\ UNCHANGED <<mode, data, information_sent, phase, frame, poll_state, asked, todo,
                   other, connections>>

(***************************************************************************)
(* mc_client_poll, and mc_client_run as the loop around it.                *)
(***************************************************************************)
Poll(which) ==
    /\ Begin(which)
    /\ todo = "none"
    /\ pc' = which
    /\ UNCHANGED <<conn, mode, data, information_sent, reading, todo, other,
                   connections, wire>>

\* mc_client_run's condition.
RunLoop ==
    /\ pc = "run"
    /\ IF stop THEN Return("stopped") ELSE pc' = "poll" /\ UNCHANGED <<call, result>>
    /\ UNCHANGED <<conn, mode, data, information_sent, reading, asked, todo, other,
                   connections, wire>>

\* Poll returns value; run goes round unless it is an error.
EndPoll(value) ==
    IF call = "run" /\ value # "error" THEN pc' = "run" /\ UNCHANGED <<call, result>>
                                       ELSE Return(value)

\* The tests before the wait; the probe skips it when a frame is buffered.
PollEntry ==
    /\ pc = "poll"
    /\ IF ~Connected \/ state = "DISCONNECTED" THEN EndPoll("error")
       ELSE IF stop THEN EndPoll("idle")
       ELSE /\ pc' = IF buffered # <<>> THEN "poll_read" ELSE "poll_wait"
            /\ UNCHANGED <<call, result>>
    /\ UNCHANGED <<conn, mode, data, information_sent, reading, asked, todo, other,
                   connections, wire>>

\* backend_wait: readable, timed out, or failed.
PollWait ==
    /\ pc = "poll_wait"
    /\ \/ /\ net # <<>> \/ peer.closed
          /\ pc' = "poll_read"
          /\ UNCHANGED <<conn, call, result, wire>>
       \/ EndPoll("idle") /\ UNCHANGED <<conn, wire>>
       \/ Disconnect /\ Return("error")
    /\ UNCHANGED <<mode, data, information_sent, reading, asked, todo, other,
                   connections>>

PollRead ==
    /\ pc = "poll_read"
    /\ poll_state' = state
    /\ ReadFor("polled")
    /\ UNCHANGED <<conn, mode, data, information_sent, call, result, frame, asked, todo,
                   other, connections, wire>>

\* The callback has been shown the packet; handle_play may answer it.
PollHandle ==
    /\ pc = "polled"
    /\ \/ PlayAnswered /\ Fail
       \/ /\ PlayAnswered => SendReturns
          /\ EndPoll("processed")
          /\ UNCHANGED <<conn, mode, data, information_sent, reading, asked, todo,
                         other, connections, wire>>

(***************************************************************************)
(* mc_client_wait_closed.                                                  *)
(***************************************************************************)
WaitClosed ==
    /\ Begin("wait_closed")
    /\ Connected /\ state # "DISCONNECTED"
    /\ todo = "none"
    /\ pc' = "wait_closed"
    /\ UNCHANGED <<conn, mode, data, information_sent, reading, todo, other,
                   connections, wire>>

\* A buffered frame, the timeout, unread bytes; an error; or the peer's EOF.
Waited ==
    /\ pc = "wait_closed"
    /\ \/ Return("idle") /\ UNCHANGED <<conn, wire>>
       \/ buffered = <<>> /\ Return("error") /\ UNCHANGED <<conn, wire>>
       \/ /\ buffered = <<>> /\ net = <<>> /\ peer.closed /\ Connected
          /\ Disconnect
          /\ Return("closed")
    /\ UNCHANGED <<mode, data, information_sent, reading, asked, todo, other,
                   connections>>

(***************************************************************************)
(* What the application of a raw session does about a packet, in the       *)
(* callback or after poll has returned.                                    *)
(***************************************************************************)
AppRuns == pc = "idle" \/ (pc = "on_packet" /\ phase = "polled")

AppSetCompression ==
    /\ AppRuns /\ todo = "compress"
    /\ todo' = "none"
    /\ IF SetCompressionRefused THEN UNCHANGED mode ELSE SetCompression(frame.value)
    /\ UNCHANGED <<conn, data, information_sent, control, reading, asked, other,
                   connections, wire>>

\* mc_client_set_state after Login Success or Finish Configuration.
AppSetState ==
    /\ AppRuns /\ todo \in {"success", "finish"}
    /\ todo' = "none"
    /\ state' = IF ~Connected THEN state
                ELSE IF todo = "success" /\ HasConfiguration THEN "CONFIGURATION"
                ELSE "PLAY"
    /\ UNCHANGED <<socket_fd, stop, mode, data, information_sent, control, reading,
                   asked, other, connections, wire>>

AppDisconnect ==
    /\ pc = "idle" /\ Connected
    /\ Disconnect
    /\ UNCHANGED <<mode, data, information_sent, control, reading, asked, todo, other,
                   connections>>

(***************************************************************************)
(* The specification.                                                      *)
(***************************************************************************)
Init ==
    /\ socket_fd = -1 /\ state = "DISCONNECTED" /\ stop = FALSE
    /\ compression_threshold = -1 /\ information_sent = 0
    /\ decoder = [threshold |-> -1, ready |-> FALSE]
    /\ buffered = <<>> /\ partial = FALSE
    /\ pc = "idle" /\ call = "none" /\ result = "none"
    /\ phase = "login" /\ index = 0 /\ frame = NoFrame /\ poll_state = "DISCONNECTED"
    /\ asked = "no" /\ todo = "none" /\ other = "none"
    /\ connections = 0 /\ net = <<>> /\ peer = NoPeer

\* The client's thread inside a call.
ClientStep ==
    \/ ConnectTcp \/ ConnectTcpFails \/ Handshake \/ EnterLogin \/ LoginStart
    \/ ReadFrame \/ Receive \/ ReceiveFails \/ OnPacket
    \/ LoginCompress \/ LoginRefused \/ LoginOther \/ LoginSuccess \/ EnterPlay
    \/ ConfigurationStart \/ ConfigurationAck
    \/ ConfigInformation \/ ConfigKnownPacks \/ ConfigFinish \/ ConfigOther
    \/ RunLoop \/ PollEntry \/ PollWait \/ PollRead \/ PollHandle \/ Waited

\* What the application does about a packet in its callback.
AppAnswer == AppSetCompression \/ AppSetState

OtherThread == OtherStops \/ OtherCloses \/ OtherChangesState

Next ==
    \/ PeerSend \/ PeerClose \/ PeerStalls
    \/ ClientStep \/ OtherThread
    \/ \E which \in {"open", "connect"} : Open(which)
    \/ \E which \in {"poll", "run"} : Poll(which)
    \/ WaitClosed \/ AppAnswer \/ AppDisconnect

Spec == Init /\ [][Next]_vars

\* A thread inside a call or a callback keeps running: connect, recv and the
\* backend's wait return, at the latest when their timeouts expire.  A send has
\* no timeout: it returns if the peer takes the bytes or the socket is shut.
\* Nothing is assumed of the peer, nor that the application calls again.
FairSpec ==
    /\ Spec
    /\ WF_vars(~Blocked /\ ClientStep)
    /\ WF_vars(pc = "on_packet" /\ AppAnswer)
    /\ WF_vars(OtherCloses \/ OtherChangesState)

(***************************************************************************)
(* Properties.                                                             *)
(***************************************************************************)
\* Every variable has its type and both loop counters stay below their limits
\* (MC_LOGIN_PACKETS, MC_CONFIG_PACKETS).
TypeOK ==
    /\ socket_fd \in {-1} \cup 1..MaxConnections
    /\ state \in State
    /\ stop \in BOOLEAN
    /\ compression_threshold \in Mode
    /\ decoder \in [threshold : Mode, ready : BOOLEAN]
    /\ buffered \in Seq(Frame)
    /\ partial \in BOOLEAN
    /\ information_sent \in 0..1
    /\ pc \in {"idle", "connect_tcp", "handshake", "enter_login", "login_start",
               "read", "receive", "on_packet", "login", "enter_play",
               "configuration", "config_ack", "config", "run",
               "poll", "poll_wait", "poll_read", "polled", "wait_closed"}
    /\ call \in {"none", "open", "connect", "poll", "run", "wait_closed"}
    /\ result \in {"none", "error", "opened", "connected", "stopped", "idle",
                   "processed", "closed"}
    /\ phase \in {"login", "config", "polled"}
    /\ index \in Nat
    /\ phase = "login" => index < LoginPackets
    /\ phase = "config" => index < ConfigPackets
    /\ frame \in Frame
    /\ poll_state \in State
    /\ asked \in {"no", "callback", "thread"}
    /\ todo \in {"none", "compress", "success", "finish"}
    /\ other \in {"none", "exchange", "change_state"}
    /\ connections \in 0..MaxConnections
    /\ net \in Seq(Frame)
    /\ peer \in [mode : Mode, phase : {"gone", "login", "config", "play"},
                 closed : BOOLEAN, takes : BOOLEAN]

\* Whenever the client reads, the next frame it will see, already buffered or
\* still on its way, is in the mode its decoder is in: read_frame takes one
\* frame per call and set_compression comes before the next, so coalesced
\* frames on both sides of a mode change are each decoded in their own mode.
NextFrameInDecoderMode ==
    pc \in {"read", "receive"} /\ Connected /\ buffered \o net # <<>>
        => Head(buffered \o net).mode = decoder.threshold

\* Both directions change together: what the client sends in configuration and
\* in PLAY is framed by the threshold the server announced last, although the
\* encoder and the decoder each keep their own.
SendsInPeerMode ==
    pc \in {"config_ack", "config", "polled"} /\ AtSend /\ Connected
        => compression_threshold = peer.mode

\* mc_client_set_compression is never refused for the packet that announces the
\* threshold, however many bytes arrived with it: the one-frame feed leaves
\* compression_transition_ready set exactly then.
AnnouncedModeAccepted ==
    /\ Connected
    /\ \/ pc = "login" /\ frame.kind = "compress"
       \/ AppRuns /\ todo = "compress"
    => ~SetCompressionRefused

\* A login that ends in PLAY through CONFIGURATION has told the server its
\* Client Information exactly once, whichever of the two places sent it.
InformationOnce ==
    call = "connect" /\ result = "connected" /\ HasConfiguration
        => information_sent = 1

\* A callback that disconnects ends mc_client_run without an error: no reply
\* is attempted on the connection the application has just closed.
CallbackStopsRunCleanly ==
    call = "run" /\ asked = "callback" => result # "error"

\* Every call returns, whatever the peer sends or withholds, unless it hangs in
\* a send that the peer does not take and no disconnect interrupts: the login
\* and configuration loops are bounded, waits time out, and mc_client_run ends
\* once a disconnect has been requested.
CallsReturn ==
    (pc # "idle" /\ (call = "run" => asked # "no")) ~> (pc = "idle" \/ Blocked)

(***************************************************************************)
(* What the comments and documents say and the code does not do.           *)
(***************************************************************************)
\* api.h: mc_client_connect "returns only after PLAY is reached".  A client
\* that is in PLAY between calls, with no disconnect under way, has a socket.
PlayHasSocket ==
    pc = "idle" /\ other = "none" /\ state = "PLAY" => Connected

\* api.h: mc_client_disconnect() is there "to interrupt a running client from
\* another thread": once it has run, the interrupted call holds no socket.
DisconnectInterrupts ==
    pc # "idle" /\ asked = "thread" /\ other = "none" => ~Connected
=============================================================================
