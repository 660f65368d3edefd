------------------------ MODULE ClientSessionProofs ------------------------
(***************************************************************************)
(* Theorems about ClientSession, for every packet limit, set of thresholds *)
(* and number of connections, and for both kinds of profile.               *)
(***************************************************************************)
EXTENDS ClientSession, SequenceTheorems, TLAPS

\* Where the client's thread is inside mc_client_connect, before its loop reads.
Connecting == {"connect_tcp", "handshake", "enter_login", "login_start"}

\* The labels say which function is running and what it has established.
Control ==
    /\ pc # "idle" => result = "none"
    /\ pc \in Connecting \cup {"login"} => phase = "login"
    /\ pc \in {"configuration", "config_ack", "enter_play"} => phase \in {"login", "config"}
    /\ pc \in {"config", "polled"} => phase = pc
    /\ pc \in Connecting \cup {"login", "configuration", "config_ack", "config",
                             "enter_play"} =>
         call \in {"open", "connect"}
    /\ pc \in {"read", "receive", "on_packet"} /\ phase # "polled" =>
         call \in {"open", "connect"}
    /\ pc = "connect_tcp" => connections < MaxConnections
    /\ peer.phase = "gone" => peer.closed
    /\ ~Connected => peer = NoPeer /\ net = <<>>
    /\ Connected => peer.phase # "gone"

\* Client Information has gone before configuration() returns.
Informed ==
    /\ HasConfiguration /\ pc = "enter_play" => information_sent = 1
    /\ InformationOnce

\* After a callback has disconnected, run only has to find out.
Stopping ==
    call = "run" /\ asked = "callback" =>
        /\ stop /\ ~Connected /\ result # "error"
        /\ pc \in {"polled", "run", "idle"}

\* What a packet asks for is settled before the next one is read.
Owing ==
    todo # "none" =>
        /\ pc \in {"on_packet", "polled", "idle"}
        /\ call = "run" => pc = "on_packet"
        /\ phase = "polled" /\ frame.kind = todo
        /\ poll_state = (IF todo = "finish" THEN "CONFIGURATION" ELSE "LOGIN")

\* A Set Compression the client has been given and not yet applied.
Pending ==
    \/ todo = "compress"
    \/ pc \in {"on_packet", "login"} /\ phase = "login" /\ frame.kind = "compress"

\* While it is, compression_transition_ready allows the change.
TransitionReady ==
    Pending /\ (buffered # <<>> \/ partial) => decoder.ready

IInvBasic == TypeOK /\ Control /\ Informed /\ Stopping /\ Owing /\ TransitionReady

-----------------------------------------------------------------------------
\* The mode of the frame behind f.
After(f) == IF f.kind = "compress" THEN f.value ELSE f.mode

\* q is a run of frames whose first is in mode m and behind which comes mode e.
Chained(q, m, e) ==
    IF q = <<>> THEN e = m
    ELSE /\ q[1].mode = m
         /\ e = After(q[Len(q)])
         /\ \A i \in 1..(Len(q) - 1) : q[i + 1].mode = After(q[i])

\* Login Success comes after every Set Compression, so the frames behind it are
\* all in the peer's mode m, and it ends the peer's login.
Ordered(q, p, m) ==
    /\ \A i, j \in 1..Len(q) : q[i].kind = "success" /\ i < j =>
         q[j].kind # "compress" /\ q[j].mode = m
    /\ \A i \in 1..Len(q) : q[i].kind = "success" => p # "login"

\* The mode changes no more.
Settled(q, m) == \A i \in 1..Len(q) : q[i].kind # "compress" /\ q[i].mode = m

\* The mode the decoder will be in when it reads the next frame.
Expected == IF Pending THEN frame.value ELSE decoder.threshold

\* A poll that found DISCONNECTED, set by a disconnect of an earlier connection
\* that ended late: its caller will not get the client to read again.
Abandoned == phase = "polled" /\ poll_state = "DISCONNECTED"

AbandonedStays ==
    Abandoned => /\ state = "DISCONNECTED" /\ todo = "none"
                 /\ pc \in {"read", "receive", "on_packet", "polled", "run", "poll", "idle"}

Modes ==
    Connected =>
        \/ Chained(buffered \o net, Expected, peer.mode)
        \/ Abandoned /\ pc \notin {"read", "receive"}

\* Login Success of this connection has been read.
PastLogin ==
    \/ frame.kind = "success"
    \/ pc \notin {"connect_tcp", "handshake", "enter_login"}
       /\ state \in {"CONFIGURATION", "PLAY"}
    \/ phase = "config"
    \/ phase = "polled" /\ poll_state \in {"CONFIGURATION", "PLAY"}
    \/ pc \in {"configuration", "config_ack", "enter_play"}

Phases ==
    Connected =>
        /\ Ordered(buffered \o net, peer.phase, peer.mode)
        /\ PastLogin => Settled(buffered \o net, peer.mode) /\ peer.phase # "login"

\* A connection begins with nothing left of the one before.
Fresh ==
    pc = "connect_tcp" =>
        /\ ~Connected /\ buffered = <<>> /\ decoder.threshold = -1
        /\ todo = "none" /\ frame = NoFrame

\* The encoder's threshold and the decoder's.
Together == compression_threshold = decoder.threshold

IInv == IInvBasic /\ AbandonedStays /\ Modes /\ Phases /\ Fresh /\ Together
-----------------------------------------------------------------------------
\* The types of what a disconnect changes.
ConnType ==
    /\ socket_fd \in {-1} \cup 1..MaxConnections
    /\ state \in State
    /\ stop \in BOOLEAN
    /\ net \in Seq(Frame)
    /\ peer \in [mode : Mode, phase : {"gone", "login", "config", "play"},
                 closed : BOOLEAN, takes : BOOLEAN]

\* Whether the client disconnects or keeps its connection, these types hold.
LEMMA DisconnectType ==
    ASSUME TypeOK, Disconnect \/ UNCHANGED <<conn, wire>>
    PROVE  ConnType'
<1>1. CASE Disconnect
  BY <1>1 DEF ConnType, Disconnect, State, NoPeer, Mode
<1>2. CASE UNCHANGED <<conn, wire>>
  BY <1>2 DEF TypeOK, ConnType, conn, wire
<1> QED
  BY <1>1, <1>2

\* Taking n frames off the network and putting them behind the buffered ones
\* changes neither the frames nor their order.
LEMMA MoveFrames ==
    ASSUME NEW b \in Seq(Frame), NEW s \in Seq(Frame), NEW n \in 0..Len(s)
    PROVE  /\ b \o SubSeq(s, 1, n) \in Seq(Frame)
           /\ SubSeq(s, n + 1, Len(s)) \in Seq(Frame)
           /\ (b \o SubSeq(s, 1, n)) \o SubSeq(s, n + 1, Len(s)) = b \o s
<1> DEFINE front == SubSeq(s, 1, n)
           rest == SubSeq(s, n + 1, Len(s))
<1>1. front \in Seq(Frame) /\ rest \in Seq(Frame)
  <2>1. \A i \in 1..Len(s) : s[i] \in Frame
    OBVIOUS
  <2> QED
    BY <2>1, SubSeqProperties
<1>2. front \o rest = s
  <2>1. /\ Len(s) \in Nat /\ 1 \in 1..(Len(s) + 1)
        /\ n \in (1 - 1)..Len(s) /\ Len(s) \in n..Len(s)
    OBVIOUS
  <2>2. front \o rest = SubSeq(s, 1, Len(s))
    BY <2>1, ConcatAdjacentSubSeq
  <2> QED
    BY <2>2, SubSeqFull
<1> HIDE DEF front, rest
<1>3. (b \o front) \o rest = b \o (front \o rest)
  BY <1>1, ConcatAssociative, SMTT(30)
<1>4. b \o front \in Seq(Frame)
  BY <1>1, ConcatProperties
<1> QED
  BY <1>1, <1>2, <1>3, <1>4 DEF front, rest

\* The mode of client and decoder keeps its type.
LEMMA SetCompressionType ==
    ASSUME TypeOK, SetCompression(frame.value)
    PROVE  compression_threshold' \in Mode /\ decoder' \in [threshold : Mode, ready : BOOLEAN]
<1>1. frame.value \in Mode
  BY DEF TypeOK, Frame
<1> QED
  BY <1>1 DEF SetCompression

-----------------------------------------------------------------------------
\* A disconnect that ends the call keeps the invariant, unless it would make an
\* error of a run that a callback has stopped.
LEMMA FailStep ==
    ASSUME IInvBasic, Fail, pc # "on_packet",
           Connected \/ pc \notin {"polled", "run", "idle"}
    PROVE  IInvBasic'
<1> USE DEF IInvBasic, Fail, Disconnect, Return, conn, mode, data, reading, wire
<1>1. TypeOK'
  BY DEF TypeOK, State, NoPeer, Mode
<1>2. Control'
  BY DEF Control, Connecting, Connected, NoPeer
<1>3. Informed' /\ Stopping' /\ Owing' /\ TransitionReady'
  BY DEF Informed, InformationOnce, Stopping, Owing, TransitionReady, Pending, Connected
<1> QED
  BY <1>1, <1>2, <1>3

\* FeedOne hands over the first of the frames it is given, if there is one.
LEMMA FeedStep ==
    ASSUME IInvBasic, pc \in {"read", "receive"},
           NEW fs \in Seq(Frame), NEW part \in BOOLEAN, FeedOne(fs, part),
           net' \in Seq(Frame), Connected \/ net' = net,
           UNCHANGED <<conn, compression_threshold, information_sent, call, result,
                       phase, index, poll_state, asked, other, connections, peer>>
    PROVE  IInvBasic'
<1> USE DEF IInvBasic, FeedOne, Owed, conn
<1>1. TypeOK'
  <2>1. fs # <<>> => Head(fs) \in Frame /\ Tail(fs) \in Seq(Frame)
    OBVIOUS
  <2>2. decoder' \in [threshold : Mode, ready : BOOLEAN]
    BY DEF TypeOK
  <2>3. pc' \in {"receive", "on_packet"} /\ buffered' \in Seq(Frame) /\ frame' \in Frame
    BY <2>1 DEF TypeOK
  <2>4. todo' \in {"none", "compress", "success", "finish"}
    BY <2>1 DEF TypeOK
  <2> QED
    BY <2>2, <2>3, <2>4 DEF TypeOK
<1>2. Control'
  BY DEF Control, Connecting, Connected
<1>3. Informed' /\ Stopping' 
  BY DEF Informed, InformationOnce, Stopping, Connected
<1>4. Owing'
  BY DEF Owing
<1>5. TransitionReady'
  BY DEF TransitionReady, Pending, Owing, TypeOK
<1> QED
  BY <1>1, <1>2, <1>3, <1>4, <1>5

\* Every step of the session keeps the invariant.
LEMMA BasicStep == IInvBasic /\ [Next]_vars => IInvBasic'
<1> SUFFICES ASSUME IInvBasic, [Next]_vars PROVE IInvBasic'
  OBVIOUS
<1> USE SessionAssumption DEF IInvBasic, Connected, conn, mode, data, control,
reading, wire
<1>1. CASE PeerSend
  <2>1. TypeOK'
    <3>1. peer.phase # "gone"
      BY <1>1 DEF Control, PeerSend
    <3>2. PICK kind \in PeerKinds(peer.phase) :
          \E value \in IF kind = "compress" THEN Level ELSE {-1} :
            /\ net' = Append(net, [kind |-> kind, mode |-> peer.mode, value |-> value])
            /\ peer' = [peer EXCEPT !.phase = PeerPhaseAfter(kind),
                                    !.mode = IF kind = "compress" THEN value ELSE @]
      BY <1>1, Zenon DEF PeerSend
    <3>3. PICK value \in IF kind = "compress" THEN Level ELSE {-1} :
            /\ net' = Append(net, [kind |-> kind, mode |-> peer.mode, value |-> value])
            /\ peer' = [peer EXCEPT !.phase = PeerPhaseAfter(kind),
                                    !.mode = IF kind = "compress" THEN value ELSE @]
      BY <3>2, Zenon
    <3>4. kind \in Kind /\ value \in Mode /\ peer.mode \in Mode
      BY <3>1 DEF TypeOK, PeerKinds, Kind, Mode
    <3>5. net' \in Seq(Frame)
      BY <3>3, <3>4 DEF TypeOK, Frame
    <3>6. PeerPhaseAfter(kind) \in {"login", "config", "play"}
      BY <3>1 DEF TypeOK, PeerPhaseAfter
    <3>7. peer' \in [mode : Mode, phase : {"gone", "login", "config", "play"},
                    closed : BOOLEAN, takes : BOOLEAN]
      BY <3>3, <3>4, <3>6 DEF TypeOK
    <3> QED
      BY <1>1, <3>5, <3>7 DEF TypeOK, PeerSend
  <2>2. Control'
    BY <1>1 DEF TypeOK, Control, Connecting, NoPeer, PeerSend, PeerKinds, PeerPhaseAfter
  <2>3. Informed' /\ Stopping' /\ Owing' /\ TransitionReady'
    BY <1>1 DEF TypeOK, Control, Connecting, Informed, InformationOnce, Stopping, Owing,
       TransitionReady, Pending, PeerSend, PeerKinds, PeerPhaseAfter
  <2> QED
    BY <2>1, <2>2, <2>3
<1>2. CASE PeerClose
  <2>1. TypeOK'
    <3>1. peer' \in [mode : Mode, phase : {"gone", "login", "config", "play"},
                    closed : BOOLEAN, takes : BOOLEAN]
      BY <1>2 DEF TypeOK, PeerClose
    <3> QED
      BY <1>2, <3>1 DEF TypeOK, PeerClose
  <2>2. Control'
    BY <1>2 DEF TypeOK, Control, Connecting, NoPeer, PeerClose
  <2>3. Informed' /\ Stopping' /\ Owing' /\ TransitionReady'
    BY <1>2 DEF TypeOK, Control, Connecting, Informed, InformationOnce, Stopping, Owing,
       TransitionReady, Pending, PeerClose
  <2> QED
    BY <2>1, <2>2, <2>3
<1>3. CASE ConnectTcp
  <2>1. TypeOK'
    BY <1>3 DEF TypeOK, Control, Mode, ConnectTcp
  <2>2. Control'
    BY <1>3 DEF TypeOK, Control, Connecting, NoPeer, ConnectTcp
  <2>3. Informed' /\ Stopping' /\ Owing' /\ TransitionReady'
    BY <1>3 DEF TypeOK, Control, Connecting, Informed, InformationOnce, Stopping, Owing,
       TransitionReady, Pending, ConnectTcp
  <2> QED
    BY <2>1, <2>2, <2>3
<1>4. CASE ConnectTcpFails
  <2>1. TypeOK'
    BY <1>4 DEF TypeOK, Control, ConnectTcpFails, Return
  <2>2. Control'
    BY <1>4 DEF TypeOK, Control, Connecting, NoPeer, ConnectTcpFails, Return
  <2>3. Informed' /\ Stopping' /\ Owing' /\ TransitionReady'
    BY <1>4 DEF TypeOK, Control, Connecting, Informed, InformationOnce, Stopping, Owing,
       TransitionReady, Pending, ConnectTcpFails, Return
  <2> QED
    BY <2>1, <2>2, <2>3
<1>5. CASE Handshake
  <2>0. CASE Fail
    BY <2>0, <1>5, FailStep DEF Handshake
  <2> SUFFICES ASSUME ~Fail PROVE IInvBasic'
    BY <2>0
  <2>1. TypeOK'
    BY <1>5 DEF TypeOK, Control, Handshake
  <2>2. Control'
    BY <1>5 DEF TypeOK, Control, Connecting, NoPeer, Handshake
  <2>3. Informed' /\ Stopping' /\ Owing' /\ TransitionReady'
    BY <1>5 DEF TypeOK, Control, Connecting, Informed, InformationOnce, Stopping, Owing,
       TransitionReady, Pending, Handshake
  <2> QED
    BY <2>1, <2>2, <2>3
<1>6. CASE LoginStart
  <2>0. CASE Fail
    BY <2>0, <1>6, FailStep DEF LoginStart
  <2> SUFFICES ASSUME ~Fail PROVE IInvBasic'
    BY <2>0
  <2>1. TypeOK'
    BY <1>6 DEF TypeOK, Control, LoginStart, ReadFor
  <2>2. Control'
    BY <1>6 DEF TypeOK, Control, Connecting, NoPeer, LoginStart, ReadFor
  <2>3. Informed' /\ Stopping' /\ Owing' /\ TransitionReady'
    BY <1>6 DEF TypeOK, Control, Connecting, Informed, InformationOnce, Stopping, Owing,
       TransitionReady, Pending, LoginStart, ReadFor
  <2> QED
    BY <2>1, <2>2, <2>3
<1>7. CASE ReadFrame
  <2>1. CASE Fail
    BY <1>7, <2>1, FailStep DEF ReadFrame
  <2>2. CASE ~Fail
    BY <1>7, <2>2, FeedStep DEF ReadFrame, TypeOK
  <2> QED
    BY <2>1, <2>2
<1>8. CASE Receive
  <2>1. CASE Fail
    BY <1>8, <2>1, FailStep DEF Receive
  <2>2. CASE ~Fail
    <3>1. PICK n \in 0..Len(net), part \in BOOLEAN :
             /\ FeedOne(buffered \o SubSeq(net, 1, n), part)
             /\ net' = SubSeq(net, n + 1, Len(net))
             /\ UNCHANGED <<conn, compression_threshold, information_sent, call, result,
                            phase, index, poll_state, asked, other, connections, peer>>
      BY <1>8, <2>2 DEF Receive
    <3>2. /\ buffered \o SubSeq(net, 1, n) \in Seq(Frame)
          /\ SubSeq(net, n + 1, Len(net)) \in Seq(Frame)
      BY MoveFrames DEF TypeOK
    <3> QED
      BY <1>8, <3>1, <3>2, FeedStep DEF Receive
  <2> QED
    BY <2>1, <2>2
<1>9. CASE ReceiveFails
  BY <1>9, FailStep DEF ReceiveFails
<1>10. CASE OnPacket
  <2>1. TypeOK'
    <3>1. ConnType'
      BY <1>10, DisconnectType DEF OnPacket
    <3> QED
      BY <1>10, <3>1 DEF TypeOK, ConnType, Control, OnPacket
  <2>2. Control'
    BY <1>10 DEF TypeOK, Control, Connecting, NoPeer, OnPacket, Disconnect
  <2>3. Informed' /\ Stopping' /\ Owing' /\ TransitionReady'
    BY <1>10 DEF TypeOK, Control, Connecting, Informed, InformationOnce, Stopping,
       Owing, TransitionReady, Pending, OnPacket, Disconnect
  <2> QED
    BY <2>1, <2>2, <2>3
<1>11. CASE LoginCompress
  <2>0. CASE Fail
    BY <2>0, <1>11, FailStep DEF LoginCompress
  <2> SUFFICES ASSUME ~Fail PROVE IInvBasic'
    BY <2>0
  <2>1. TypeOK'
    <3>1. ConnType'
      BY <1>11, DisconnectType DEF LoginCompress, Iterate, Return
    <3>2. compression_threshold' \in Mode /\ decoder' \in [threshold : Mode, ready : BOOLEAN]
      BY <1>11, SetCompressionType DEF LoginCompress
    <3> QED
      BY <1>11, <3>1, <3>2 DEF TypeOK, ConnType, Control, LoginCompress, Iterate, Return
  <2>2. Control'
    BY <1>11 DEF TypeOK, Control, Connecting, NoPeer, LoginCompress,
       SetCompressionRefused, SetCompression, Iterate, Disconnect, Return
  <2>3. Informed' /\ Stopping' /\ Owing' /\ TransitionReady'
    BY <1>11 DEF TypeOK, Control, Connecting, Informed, InformationOnce, Stopping,
       Owing, TransitionReady, Pending, LoginCompress, SetCompressionRefused,
       SetCompression, Iterate, Disconnect, Return
  <2> QED
    BY <2>1, <2>2, <2>3
<1>12. CASE LoginRefused
  BY <1>12, FailStep DEF LoginRefused
<1>13. CASE LoginOther
  <2>1. TypeOK'
    <3>1. ConnType'
      BY <1>13, DisconnectType DEF LoginOther, Iterate, Return
    <3> QED
      BY <1>13, <3>1 DEF TypeOK, ConnType, Control, LoginOther, Iterate, Return
  <2>2. Control'
    BY <1>13 DEF TypeOK, Control, Connecting, NoPeer, LoginOther, Iterate, Disconnect,
       Return
  <2>3. Informed' /\ Stopping' /\ Owing' /\ TransitionReady'
    BY <1>13 DEF TypeOK, Control, Connecting, Informed, InformationOnce, Stopping,
       Owing, TransitionReady, Pending, LoginOther, Iterate, Disconnect, Return
  <2> QED
    BY <2>1, <2>2, <2>3
<1>14. CASE LoginSuccess
  <2>1. TypeOK'
    BY <1>14 DEF TypeOK, Control, LoginSuccess
  <2>2. Control'
    BY <1>14 DEF TypeOK, Control, Connecting, NoPeer, LoginSuccess
  <2>3. Informed' /\ Stopping' /\ Owing' /\ TransitionReady'
    BY <1>14 DEF TypeOK, Control, Connecting, Informed, InformationOnce, Stopping,
       Owing, TransitionReady, Pending, LoginSuccess
  <2> QED
    BY <2>1, <2>2, <2>3
<1>15. CASE EnterPlay
  <2>1. TypeOK'
    BY <1>15 DEF TypeOK, Control, State, EnterPlay, Return
  <2>2. Control'
    BY <1>15 DEF TypeOK, Control, Connecting, NoPeer, EnterPlay, Return
  <2>3. Informed' /\ Stopping' /\ Owing' /\ TransitionReady'
    BY <1>15 DEF TypeOK, Control, Connecting, Informed, InformationOnce, Stopping,
       Owing, TransitionReady, Pending, EnterPlay, Return
  <2> QED
    BY <2>1, <2>2, <2>3
<1>16. CASE ConfigurationStart
  <2>1. TypeOK'
    BY <1>16 DEF TypeOK, Control, State, ConfigurationStart
  <2>2. Control'
    BY <1>16 DEF TypeOK, Control, Connecting, NoPeer, ConfigurationStart
  <2>3. Informed' /\ Stopping' /\ Owing' /\ TransitionReady'
    BY <1>16 DEF TypeOK, Control, Connecting, Informed, InformationOnce, Stopping,
       Owing, TransitionReady, Pending, ConfigurationStart
  <2> QED
    BY <2>1, <2>2, <2>3
<1>34. CASE ConfigurationAck
  <2>0. CASE Fail
    BY <2>0, <1>34, FailStep DEF ConfigurationAck
  <2> SUFFICES ASSUME ~Fail PROVE IInvBasic'
    BY <2>0
  <2>1. TypeOK'
    BY <1>34 DEF TypeOK, Control, State, ConfigurationAck, ReadFor
  <2>2. Control'
    BY <1>34 DEF TypeOK, Control, Connecting, NoPeer, ConfigurationAck, ReadFor
  <2>3. Informed' /\ Stopping' /\ Owing' /\ TransitionReady'
    BY <1>34 DEF TypeOK, Control, Connecting, Informed, InformationOnce, Stopping,
       Owing, TransitionReady, Pending, ConfigurationAck, ReadFor
  <2> QED
    BY <2>1, <2>2, <2>3
<1>35. CASE EnterLogin
  <2>1. TypeOK'
    BY <1>35 DEF TypeOK, Control, State, EnterLogin, Return
  <2>2. Control'
    BY <1>35 DEF TypeOK, Control, Connecting, NoPeer, EnterLogin, Return
  <2>3. Informed' /\ Stopping' /\ Owing' /\ TransitionReady'
    BY <1>35 DEF TypeOK, Control, Connecting, Informed, InformationOnce, Stopping,
       Owing, TransitionReady, Pending, EnterLogin, Return
  <2> QED
    BY <2>1, <2>2, <2>3
<1>17. CASE ConfigInformation
  <2>0. CASE Fail
    BY <2>0, <1>17, FailStep DEF ConfigInformation
  <2> SUFFICES ASSUME ~Fail PROVE IInvBasic'
    BY <2>0
  <2>1. TypeOK'
    BY <1>17 DEF TypeOK, Control, State, ConfigInformation, InformationDue
  <2>2. Control'
    BY <1>17 DEF TypeOK, Control, Connecting, NoPeer, ConfigInformation, InformationDue
  <2>3. Informed' /\ Stopping' /\ Owing' /\ TransitionReady'
    BY <1>17 DEF TypeOK, Control, Connecting, Informed, InformationOnce, Stopping,
       Owing, TransitionReady, Pending, ConfigInformation, InformationDue
  <2> QED
    BY <2>1, <2>2, <2>3
<1>36. CASE ConfigKnownPacks
  <2>0. CASE Fail
    BY <2>0, <1>36, FailStep DEF ConfigKnownPacks
  <2> SUFFICES ASSUME ~Fail PROVE IInvBasic'
    BY <2>0
  <2>1. TypeOK'
    <3>1. ConnType'
      BY <1>36, DisconnectType DEF ConfigKnownPacks, Iterate, Return
    <3> QED
      BY <1>36, <3>1 DEF TypeOK, ConnType, Control, ConfigKnownPacks, Iterate, Return
  <2>2. Control'
    BY <1>36 DEF TypeOK, Control, Connecting, NoPeer, ConfigKnownPacks, Iterate,
       Return, Disconnect
  <2>3. Informed' /\ Stopping' /\ Owing' /\ TransitionReady'
    BY <1>36 DEF TypeOK, Control, Connecting, Informed, InformationOnce, Stopping,
       Owing, TransitionReady, Pending, ConfigKnownPacks, Iterate, Return, Disconnect
  <2> QED
    BY <2>1, <2>2, <2>3
<1>37. CASE ConfigFinish
  <2>0. CASE Fail
    BY <2>0, <1>37, FailStep DEF ConfigFinish
  <2> SUFFICES ASSUME ~Fail PROVE IInvBasic'
    BY <2>0
  <2>1. TypeOK'
    BY <1>37 DEF TypeOK, Control, State, ConfigFinish, InformationDue
  <2>2. Control'
    BY <1>37 DEF TypeOK, Control, Connecting, NoPeer, ConfigFinish, InformationDue
  <2>3. Informed' /\ Stopping' /\ Owing' /\ TransitionReady'
    BY <1>37 DEF TypeOK, Control, Connecting, Informed, InformationOnce, Stopping,
       Owing, TransitionReady, Pending, ConfigFinish, InformationDue
  <2> QED
    BY <2>1, <2>2, <2>3
<1>38. CASE ConfigOther
  <2>1. TypeOK'
    <3>1. ConnType'
      BY <1>38, DisconnectType DEF ConfigOther, Iterate, Return
    <3> QED
      BY <1>38, <3>1 DEF TypeOK, ConnType, Control, ConfigOther, Iterate, Return
  <2>2. Control'
    BY <1>38 DEF TypeOK, Control, Connecting, NoPeer, ConfigOther, Iterate, Return,
       Disconnect
  <2>3. Informed' /\ Stopping' /\ Owing' /\ TransitionReady'
    BY <1>38 DEF TypeOK, Control, Connecting, Informed, InformationOnce, Stopping,
       Owing, TransitionReady, Pending, ConfigOther, Iterate, Return, Disconnect
  <2> QED
    BY <2>1, <2>2, <2>3
<1>39. CASE PeerStalls
  <2>1. TypeOK'
    <3>1. peer' \in [mode : Mode, phase : {"gone", "login", "config", "play"},
                    closed : BOOLEAN, takes : BOOLEAN]
      BY <1>39 DEF TypeOK, PeerStalls
    <3> QED
      BY <1>39, <3>1 DEF TypeOK, PeerStalls
  <2>2. Control'
    BY <1>39 DEF TypeOK, Control, Connecting, PeerStalls, SendReturns
  <2>3. Informed' /\ Stopping' /\ Owing' /\ TransitionReady'
    BY <1>39 DEF TypeOK, Control, Connecting, Informed, InformationOnce, Stopping,
       Owing, TransitionReady, Pending, PeerStalls
  <2> QED
    BY <2>1, <2>2, <2>3
<1>18. CASE RunLoop
  <2>1. TypeOK'
    BY <1>18 DEF TypeOK, Control, RunLoop, Return
  <2>2. Control'
    BY <1>18 DEF TypeOK, Control, Connecting, NoPeer, RunLoop, Return
  <2>3. Informed' /\ Stopping' /\ Owing' /\ TransitionReady'
    BY <1>18 DEF TypeOK, Control, Connecting, Informed, InformationOnce, Stopping,
       Owing, TransitionReady, Pending, RunLoop, Return
  <2> QED
    BY <2>1, <2>2, <2>3
<1>19. CASE PollEntry
  <2>1. TypeOK'
    BY <1>19 DEF TypeOK, Control, PollEntry, EndPoll, Return
  <2>2. Control'
    BY <1>19 DEF TypeOK, Control, Connecting, NoPeer, PollEntry, EndPoll, Return
  <2>3. Informed' /\ Stopping' /\ Owing' /\ TransitionReady'
    BY <1>19 DEF TypeOK, Control, Connecting, Informed, InformationOnce, Stopping,
       Owing, TransitionReady, Pending, PollEntry, EndPoll, Return
  <2> QED
    BY <2>1, <2>2, <2>3
<1>20. CASE PollWait
  <2>1. TypeOK'
    <3>1. ConnType'
      BY <1>20, DisconnectType DEF PollWait, EndPoll, Return
    <3> QED
      BY <1>20, <3>1 DEF TypeOK, ConnType, Control, PollWait, EndPoll, Return
  <2>2. Control'
    BY <1>20 DEF TypeOK, Control, Connecting, NoPeer, PollWait, EndPoll, Disconnect,
       Return
  <2>3. Informed' /\ Stopping' /\ Owing' /\ TransitionReady'
    BY <1>20 DEF TypeOK, Control, Connecting, Informed, InformationOnce, Stopping,
       Owing, TransitionReady, Pending, PollWait, EndPoll, Disconnect, Return
  <2> QED
    BY <2>1, <2>2, <2>3
<1>21. CASE PollRead
  <2>1. TypeOK'
    BY <1>21 DEF TypeOK, Control, PollRead, ReadFor
  <2>2. Control'
    BY <1>21 DEF TypeOK, Control, Connecting, NoPeer, PollRead, ReadFor
  <2>3. Informed' /\ Stopping' /\ Owing' /\ TransitionReady'
    BY <1>21 DEF TypeOK, Control, Connecting, Informed, InformationOnce, Stopping,
       Owing, TransitionReady, Pending, PollRead, ReadFor
  <2> QED
    BY <2>1, <2>2, <2>3
<1>22. CASE PollHandle
  <2>0. CASE Fail
    <3>1. CASE PlayAnswered
      BY <1>22, <2>0, <3>1, FailStep DEF PollHandle, PlayAnswered, ReplyAllowed
    <3>2. CASE ~PlayAnswered
      BY <1>22, <2>0, <3>2 DEF PollHandle, EndPoll, Return, Fail, Control
    <3> QED
      BY <3>1, <3>2
  <2> SUFFICES ASSUME ~Fail PROVE IInvBasic'
    BY <2>0
  <2>1. TypeOK'
    BY <1>22 DEF TypeOK, Control, PollHandle, EndPoll, Return
  <2>2. Control'
    BY <1>22 DEF TypeOK, Control, Connecting, NoPeer, PollHandle, EndPoll,
       Return
  <2>3. Informed' /\ Stopping' /\ Owing' /\ TransitionReady'
    BY <1>22 DEF TypeOK, Control, Connecting, Informed, InformationOnce, Stopping,
       Owing, TransitionReady, Pending, PollHandle, EndPoll, Return
  <2> QED
    BY <2>1, <2>2, <2>3
<1>23. CASE Waited
  <2>1. TypeOK'
    <3>1. ConnType'
      BY <1>23, DisconnectType DEF Waited, Return
    <3> QED
      BY <1>23, <3>1 DEF TypeOK, ConnType, Control, Waited, Return
  <2>2. Control'
    BY <1>23 DEF TypeOK, Control, Connecting, NoPeer, Waited, Disconnect, Return
  <2>3. Informed' /\ Stopping' /\ Owing' /\ TransitionReady'
    BY <1>23 DEF TypeOK, Control, Connecting, Informed, InformationOnce, Stopping,
       Owing, TransitionReady, Pending, Waited, Disconnect, Return
  <2> QED
    BY <2>1, <2>2, <2>3
<1>24. CASE OtherStops
  <2>1. TypeOK'
    BY <1>24 DEF TypeOK, Control, OtherStops
  <2>2. Control'
    BY <1>24 DEF TypeOK, Control, Connecting, NoPeer, OtherStops
  <2>3. Informed' /\ Stopping' /\ Owing' /\ TransitionReady'
    BY <1>24 DEF TypeOK, Control, Connecting, Informed, InformationOnce, Stopping,
       Owing, TransitionReady, Pending, OtherStops
  <2> QED
    BY <2>1, <2>2, <2>3
<1>25. CASE OtherCloses
  <2>1. TypeOK'
    BY <1>25 DEF TypeOK, Control, NoPeer, Mode, OtherCloses
  <2>2. Control'
    BY <1>25 DEF TypeOK, Control, Connecting, NoPeer, OtherCloses
  <2>3. Informed' /\ Stopping' /\ Owing' /\ TransitionReady'
    BY <1>25 DEF TypeOK, Control, Connecting, Informed, InformationOnce, Stopping,
       Owing, TransitionReady, Pending, OtherCloses
  <2> QED
    BY <2>1, <2>2, <2>3
<1>26. CASE OtherChangesState
  <2>1. TypeOK'
    BY <1>26 DEF TypeOK, Control, State, OtherChangesState
  <2>2. Control'
    BY <1>26 DEF TypeOK, Control, Connecting, NoPeer, OtherChangesState
  <2>3. Informed' /\ Stopping' /\ Owing' /\ TransitionReady'
    BY <1>26 DEF TypeOK, Control, Connecting, Informed, InformationOnce, Stopping,
       Owing, TransitionReady, Pending, OtherChangesState
  <2> QED
    BY <2>1, <2>2, <2>3
<1>27. ASSUME NEW which \in {"open", "connect"}, Open(which) PROVE IInvBasic'
  <2>1. TypeOK'
    <3>1. /\ decoder' \in [threshold : Mode, ready : BOOLEAN]
          /\ compression_threshold' \in Mode
      BY <1>27 DEF Open, Mode
    <3>2. frame' \in Frame /\ poll_state' \in State /\ buffered' \in Seq(Frame)
      BY <1>27 DEF Open, NoFrame, Frame, Kind, Mode, State
    <3>3. stop' \in BOOLEAN /\ partial' \in BOOLEAN
      BY <1>27 DEF Open
    <3>5. information_sent' = 0 /\ phase' = "login" /\ index' = 0 /\ todo' = "none"
      BY <1>27 DEF Open
    <3>6. /\ pc' = "connect_tcp" /\ call' \in {"open", "connect"}
          /\ result' = "none" /\ asked' = "no"
      BY <1>27 DEF Open, Begin
    <3>4. UNCHANGED <<socket_fd, state, other, connections, wire>>
      BY <1>27 DEF Open
    <3> QED
      BY <3>1, <3>2, <3>3, <3>4, <3>5, <3>6 DEF TypeOK
  <2>2. Control'
    BY <1>27 DEF TypeOK, Control, Connecting, NoPeer, Open, Begin
  <2>3. Informed' /\ Stopping' /\ Owing' /\ TransitionReady'
    BY <1>27 DEF TypeOK, Control, Connecting, Informed, InformationOnce, Stopping,
       Owing, TransitionReady, Pending, Open, Begin
  <2> QED
    BY <2>1, <2>2, <2>3
<1>28. ASSUME NEW which \in {"poll", "run"}, Poll(which) PROVE IInvBasic'
  <2>1. TypeOK'
    BY <1>28 DEF TypeOK, Control, Poll, Begin
  <2>2. Control'
    BY <1>28 DEF TypeOK, Control, Connecting, NoPeer, Poll, Begin
  <2>3. Informed' /\ Stopping' /\ Owing' /\ TransitionReady'
    BY <1>28 DEF TypeOK, Control, Connecting, Informed, InformationOnce, Stopping,
       Owing, TransitionReady, Pending, Poll, Begin
  <2> QED
    BY <2>1, <2>2, <2>3
<1>29. CASE WaitClosed
  <2>1. TypeOK'
    BY <1>29 DEF TypeOK, Control, WaitClosed, Begin
  <2>2. Control'
    BY <1>29 DEF TypeOK, Control, Connecting, NoPeer, WaitClosed, Begin
  <2>3. Informed' /\ Stopping' /\ Owing' /\ TransitionReady'
    BY <1>29 DEF TypeOK, Control, Connecting, Informed, InformationOnce, Stopping,
       Owing, TransitionReady, Pending, WaitClosed, Begin
  <2> QED
    BY <2>1, <2>2, <2>3
<1>30. CASE AppSetCompression
  <2>1. TypeOK'
    <3>1. compression_threshold' \in Mode /\ decoder' \in [threshold : Mode, ready : BOOLEAN]
      BY <1>30, SetCompressionType DEF AppSetCompression, TypeOK
    <3> QED
      BY <1>30, <3>1 DEF TypeOK, AppSetCompression
  <2>2. Control'
    BY <1>30 DEF TypeOK, Control, Connecting, NoPeer, AppSetCompression, AppRuns,
       SetCompression
  <2>3. Informed' /\ Stopping' /\ Owing' /\ TransitionReady'
    BY <1>30 DEF TypeOK, Control, Connecting, Informed, InformationOnce, Stopping,
       Owing, TransitionReady, Pending, AppSetCompression, AppRuns, SetCompression
  <2> QED
    BY <2>1, <2>2, <2>3
<1>31. CASE AppSetState
  <2>1. TypeOK'
    BY <1>31 DEF TypeOK, Control, State, AppSetState, AppRuns
  <2>2. Control'
    BY <1>31 DEF TypeOK, Control, Connecting, NoPeer, AppSetState, AppRuns
  <2>3. Informed' /\ Stopping' /\ Owing' /\ TransitionReady'
    BY <1>31 DEF TypeOK, Control, Connecting, Informed, InformationOnce, Stopping,
       Owing, TransitionReady, Pending, AppSetState, AppRuns
  <2> QED
    BY <2>1, <2>2, <2>3
<1>32. CASE AppDisconnect
  <2>1. TypeOK'
    BY <1>32 DEF TypeOK, Control, State, NoPeer, Mode, AppDisconnect, Disconnect
  <2>2. Control'
    BY <1>32 DEF TypeOK, Control, Connecting, NoPeer, AppDisconnect, Disconnect
  <2>3. Informed' /\ Stopping' /\ Owing' /\ TransitionReady'
    BY <1>32 DEF TypeOK, Control, Connecting, Informed, InformationOnce, Stopping,
       Owing, TransitionReady, Pending, AppDisconnect, Disconnect
  <2> QED
    BY <2>1, <2>2, <2>3
<1>33. CASE UNCHANGED vars
  BY <1>33 DEF TypeOK, Control, Connecting, NoPeer, Informed, InformationOnce, Stopping,
     Owing, TransitionReady, Pending, vars
<1> QED
  BY <1>1, <1>2, <1>3, <1>4, <1>5, <1>6, <1>7, <1>8, <1>9, <1>10, <1>11, <1>12, <1>13,
     <1>14, <1>15, <1>16, <1>17, <1>18, <1>19, <1>20, <1>21, <1>22, <1>23, <1>24, <1>25,
     <1>26, <1>27, <1>28, <1>29, <1>30, <1>31, <1>32, <1>33, <1>34, <1>35,
     <1>36, <1>37, <1>38, <1>39 DEF Next, ClientStep,
     OtherThread, AppAnswer
-----------------------------------------------------------------------------
\* A frame in mode e joins a run behind which mode e comes.
LEMMA ChainedAppend ==
    ASSUME NEW q \in Seq(Frame), NEW f \in Frame, NEW m, NEW e,
           Chained(q, m, e), f.mode = e
    PROVE  Chained(Append(q, f), m, After(f))
<1> DEFINE r == Append(q, f)
<1>1. /\ r # <<>> /\ Len(r) = Len(q) + 1 /\ r[Len(q) + 1] = f
      /\ \A i \in 1..Len(q) : r[i] = q[i]
      /\ Len(q) \in Nat /\ (q = <<>> => Len(q) = 0) /\ (q # <<>> => Len(q) > 0)
  OBVIOUS
<1> HIDE DEF r
<1>2. CASE q = <<>>
  BY <1>1, <1>2 DEF Chained, r
<1>3. CASE q # <<>>
  <2>1. r[1].mode = m
    BY <1>1, <1>3 DEF Chained
  <2>2. ASSUME NEW i \in 1..(Len(r) - 1) PROVE r[i + 1].mode = After(r[i])
    <3>1. CASE i = Len(q)
      BY <1>1, <1>3, <3>1 DEF Chained
    <3>2. CASE i # Len(q)
      <4>1. i \in 1..(Len(q) - 1) /\ i + 1 \in 1..Len(q) /\ i \in 1..Len(q)
        BY <1>1, <3>2
      <4> QED
        BY <1>1, <1>3, <4>1 DEF Chained
    <3> QED
      BY <3>1, <3>2
  <2> QED
    BY <1>1, <2>1, <2>2 DEF Chained, r
<1> QED
  BY <1>2, <1>3

\* Behind the first frame of a run comes the mode that frame leads to.
LEMMA ChainedTail ==
    ASSUME NEW q \in Seq(Frame), q # <<>>, NEW m, NEW e, Chained(q, m, e)
    PROVE  Chained(Tail(q), After(q[1]), e) /\ q[1].mode = m
<1> DEFINE r == Tail(q)
<1>1. /\ r \in Seq(Frame) /\ Len(r) = Len(q) - 1 /\ Len(q) \in Nat /\ Len(q) > 0
      /\ \A i \in 1..Len(r) : r[i] = q[i + 1]
  OBVIOUS
<1> HIDE DEF r
<1>2. CASE r = <<>>
  <2>1. Len(q) = 1
    BY <1>1, <1>2
  <2> QED
    BY <1>2, <2>1 DEF Chained, r
<1>3. CASE r # <<>>
  <2>1. /\ Len(r) > 0 /\ r[1] = q[2] /\ q[2].mode = After(q[1])
        /\ r[Len(r)] = q[Len(q)]
    BY <1>1, <1>3 DEF Chained
  <2>2. ASSUME NEW i \in 1..(Len(r) - 1) PROVE r[i + 1].mode = After(r[i])
    <3>1. /\ i + 1 \in 1..(Len(q) - 1) /\ i \in 1..Len(r) /\ i + 1 \in 1..Len(r)
      BY <1>1
    <3>2. q[(i + 1) + 1].mode = After(q[i + 1])
      BY <3>1 DEF Chained
    <3> QED
      BY <1>1, <3>1, <3>2
  <2> QED
    BY <1>1, <1>3, <2>1, <2>2 DEF Chained, r
<1> QED
  BY <1>2, <1>3 DEF Chained

\* The peer's next frame keeps the order of its phases.
LEMMA OrderedAppend ==
    ASSUME NEW q \in Seq(Frame), NEW f \in Frame, NEW p, NEW p2, NEW m, NEW m2,
           Ordered(q, p, m), f.mode = m,
           f.kind = "compress" => p = "login",
           f.kind # "compress" => m2 = m,
           f.kind = "success" \/ p # "login" => p2 # "login"
    PROVE  /\ Ordered(Append(q, f), p2, m2)
           /\ Settled(q, m) /\ p # "login" => Settled(Append(q, f), m2)
<1> DEFINE r == Append(q, f)
<1>1. /\ Len(r) = Len(q) + 1 /\ r[Len(q) + 1] = f
      /\ \A i \in 1..Len(q) : r[i] = q[i]
      /\ Len(q) \in Nat
  OBVIOUS
<1> HIDE DEF r
<1>2. ASSUME NEW i \in 1..Len(r), r[i].kind = "success" PROVE p2 # "login"
  BY <1>1, <1>2 DEF Ordered
<1>3. ASSUME NEW i \in 1..Len(r), NEW j \in 1..Len(r), r[i].kind = "success", i < j
      PROVE  r[j].kind # "compress" /\ r[j].mode = m2
  <2>1. i \in 1..Len(q) /\ q[i].kind = "success"
    BY <1>1, <1>3
  <2>2. p # "login" /\ f.kind # "compress" /\ m2 = m
    BY <2>1 DEF Ordered
  <2> QED
    BY <1>1, <1>3, <2>1, <2>2 DEF Ordered
<1>4. Settled(q, m) /\ p # "login" => Settled(r, m2)
  BY <1>1 DEF Settled
<1> QED
  BY <1>2, <1>3, <1>4 DEF Ordered, r

\* Taking the first frame keeps it, and behind Login Success no mode changes.
LEMMA OrderedTail ==
    ASSUME NEW q \in Seq(Frame), q # <<>>, NEW p, NEW m, Ordered(q, p, m)
    PROVE  /\ Ordered(Tail(q), p, m)
           /\ Settled(q, m) => Settled(Tail(q), m) /\ q[1].kind # "compress"
           /\ q[1].kind = "success" => Settled(Tail(q), m) /\ p # "login"
<1> DEFINE r == Tail(q)
<1>1. /\ Len(r) = Len(q) - 1 /\ Len(q) \in Nat /\ Len(q) > 0
      /\ \A i \in 1..Len(r) : r[i] = q[i + 1]
  OBVIOUS
<1> HIDE DEF r
<1>2. Ordered(r, p, m)
  <2>1. ASSUME NEW i \in 1..Len(r), r[i].kind = "success"
        PROVE  /\ p # "login"
               /\ \A j \in 1..Len(r) : i < j => r[j].kind # "compress" /\ r[j].mode = m
    <3>1. i + 1 \in 1..Len(q) /\ q[i + 1].kind = "success"
      BY <1>1, <2>1
    <3>2. ASSUME NEW j \in 1..Len(r), i < j PROVE r[j].kind # "compress" /\ r[j].mode = m
      <4>1. j + 1 \in 1..Len(q) /\ i + 1 < j + 1 /\ r[j] = q[j + 1]
        BY <1>1, <3>2
      <4> QED
        BY <3>1, <4>1 DEF Ordered
    <3> QED
      BY <3>1, <3>2 DEF Ordered
  <2> QED
    BY <2>1 DEF Ordered
<1>3. Settled(q, m) => Settled(r, m) /\ q[1].kind # "compress"
  BY <1>1 DEF Settled
<1>4. q[1].kind = "success" => Settled(r, m) /\ p # "login"
  BY <1>1 DEF Settled, Ordered
<1> QED
  BY <1>2, <1>3, <1>4 DEF r

\* What the peer sends joins the frames ahead of the client at their end.
LEMMA QueueAppend ==
    ASSUME NEW b \in Seq(Frame), NEW s \in Seq(Frame), NEW f \in Frame
    PROVE  /\ b \o s \in Seq(Frame)
           /\ b \o Append(s, f) = Append(b \o s, f)
<1>1. b \o s \in Seq(Frame)
  BY ConcatProperties
<1>2. <<f>> \in Seq(Frame)
  OBVIOUS
<1>3. Append(s, f) = s \o <<f>> /\ Append(b \o s, f) = (b \o s) \o <<f>>
  BY <1>1, AppendIsConcat
<1>4. (b \o s) \o <<f>> = b \o (s \o <<f>>)
  BY <1>2, ConcatAssociative
<1> QED
  BY <1>1, <1>3, <1>4

\* Taking a buffered frame takes the first of the frames ahead.
LEMMA QueueTail ==
    ASSUME NEW b \in Seq(Frame), NEW s \in Seq(Frame), b # <<>>
    PROVE  /\ b \o s \in Seq(Frame) /\ b \o s # <<>>
           /\ (b \o s)[1] = Head(b)
           /\ Tail(b) \o s = Tail(b \o s)
<1>1. b \o s \in Seq(Frame) /\ b \o s # <<>> /\ (b \o s)[1] = Head(b)
  OBVIOUS
<1>2. Tail(b) \o s = Tail(b \o s)
  OBVIOUS
<1> QED
  BY <1>1, <1>2
-----------------------------------------------------------------------------
\* A step that leaves the frames ahead, the mode expected of them and the
\* client's progress as they are keeps what is known of them.
LEMMA QuietStep ==
    ASSUME IInv,
           ~Connected' \/ (/\ UNCHANGED <<socket_fd, buffered, net, peer.mode, peer.phase>>
                           /\ Expected' = Expected
                           /\ PastLogin' => PastLogin
                           /\ Abandoned /\ pc \notin {"read", "receive"} =>
                                (Abandoned /\ pc \notin {"read", "receive"})')
    PROVE  Modes' /\ Phases'
<1>1. CASE ~Connected'
  BY <1>1 DEF Modes, Phases
<1>2. CASE Connected'
  <2>1. /\ UNCHANGED <<buffered, net, peer.mode, peer.phase>>
        /\ Expected' = Expected /\ Connected
        /\ PastLogin' => PastLogin
        /\ Abandoned /\ pc \notin {"read", "receive"} =>
                                (Abandoned /\ pc \notin {"read", "receive"})'
    BY <1>2 DEF Connected
  <2> HIDE DEF Expected, PastLogin, Abandoned, Connected
  <2>2. Modes'
    BY <1>2, <2>1 DEF IInv, Modes
  <2>3. Phases'
    BY <1>2, <2>1 DEF IInv, Phases
  <2> QED
    BY <2>2, <2>3
<1> QED
  BY <1>1, <1>2

\* Reading: the frames ahead lose their first one, which becomes the packet at
\* hand, and the mode of the next is the one that packet leads to.
LEMMA FeedQueue ==
    ASSUME IInv, pc \in {"read", "receive"},
           NEW fs \in Seq(Frame), NEW part \in BOOLEAN, FeedOne(fs, part), ~Misread(fs),
           net' \in Seq(Frame), fs \o net' = buffered \o net,
           UNCHANGED <<conn, compression_threshold, information_sent, call, result,
                       phase, index, poll_state, asked, other, connections, peer>>
    PROVE  Modes' /\ Phases'
<1> DEFINE q == fs \o net'
<1>1. CASE ~Connected
  BY <1>1 DEF Modes, Phases, Connected, conn
<1>2. ASSUME Connected PROVE Modes' /\ Phases'
  <2> USE <1>2
  <2>1. /\ todo = "none" /\ ~Pending /\ Expected = decoder.threshold
    BY DEF IInv, IInvBasic, Owing, Pending, Expected
  <2>2. /\ Chained(q, decoder.threshold, peer.mode)
        /\ Ordered(q, peer.phase, peer.mode)
        /\ PastLogin => Settled(q, peer.mode) /\ peer.phase # "login"
    BY <2>1 DEF IInv, Modes, Phases
  <2>3. decoder'.threshold = decoder.threshold
    BY DEF FeedOne, IInv, IInvBasic, TypeOK
  <2>4. CASE fs = <<>>
    <3>1. /\ buffered' = fs /\ pc' = "receive" /\ UNCHANGED <<frame, todo>>
      BY <2>4 DEF FeedOne
    <3>2. Expected' = decoder.threshold /\ (PastLogin' => PastLogin)
      BY <2>1, <2>3, <3>1 DEF Expected, Pending, PastLogin, conn
    <3> HIDE DEF Expected, PastLogin, q
    <3>3. (buffered \o net)' = q
      BY <3>1 DEF q
    <3> QED
      BY <2>2, <3>2, <3>3 DEF Modes, Phases
  <2>5. CASE fs # <<>>
    <3>1. /\ buffered' = Tail(fs) /\ pc' = "on_packet"
          /\ frame' = Head(fs) /\ todo' = Owed(Head(fs))
      BY <2>5 DEF FeedOne
    <3>2. /\ q \in Seq(Frame) /\ q # <<>> /\ q[1] = frame'
          /\ (buffered \o net)' = Tail(q)
      BY <2>5, <3>1, QueueTail
    <3>3. frame' \in Frame /\ frame'.mode = decoder.threshold
      BY <2>5, <3>1 DEF Misread
    <3> HIDE DEF q
    <3>4. /\ Chained(Tail(q), After(frame'), peer.mode)
      BY <2>2, <3>2, ChainedTail
    <3>5. /\ Ordered(Tail(q), peer.phase, peer.mode)
          /\ PastLogin => /\ Settled(Tail(q), peer.mode)
                         /\ peer.phase # "login" /\ frame'.kind # "compress"
          /\ frame'.kind = "success" => Settled(Tail(q), peer.mode) /\ peer.phase # "login"
      BY <2>2, <3>2, OrderedTail
    <3>6. PastLogin' => PastLogin \/ frame'.kind = "success"
      BY <3>1 DEF PastLogin, conn
    <3>7. Expected' = After(frame') \/ (Abandoned /\ pc \notin {"read", "receive"})'
      <4>1. CASE phase = "login"
        BY <2>3, <3>1, <3>3, <4>1 DEF Expected, Pending, After, Owed
      <4>2. CASE phase = "config"
        BY <2>3, <3>1, <3>3, <3>5, <4>2 DEF Expected, Pending, After, Owed, PastLogin
      <4>3. CASE phase = "polled" /\ poll_state = "LOGIN"
        BY <2>3, <3>1, <3>3, <4>3 DEF Expected, Pending, After, Owed
      <4>4. CASE phase = "polled" /\ poll_state \in {"CONFIGURATION", "PLAY"}
        BY <2>3, <3>1, <3>3, <3>5, <4>4 DEF Expected, Pending, After, Owed, PastLogin
      <4>5. CASE phase = "polled" /\ poll_state = "DISCONNECTED"
        BY <3>1, <4>5 DEF Abandoned
      <4> QED
        BY <4>1, <4>2, <4>3, <4>4, <4>5 DEF IInv, IInvBasic, TypeOK, State
    <3> HIDE DEF Expected, PastLogin, Abandoned
    <3>8. Modes'
      BY <3>2, <3>4, <3>7 DEF Modes
    <3>9. Phases'
      BY <3>2, <3>5, <3>6 DEF Phases
    <3> QED
      BY <3>8, <3>9
  <2> QED
    BY <2>4, <2>5
<1> QED
  BY <1>1, <1>2

\* Feeding changes neither threshold, and an abandoned poll is owed nothing.
LEMMA FeedLabels ==
    ASSUME IInv, pc \in {"read", "receive"},
           NEW fs \in Seq(Frame), NEW part \in BOOLEAN, FeedOne(fs, part),
           UNCHANGED <<conn, compression_threshold, phase, poll_state>>
    PROVE  AbandonedStays' /\ Fresh' /\ Together'
<1>1. pc' \in {"receive", "on_packet"} /\ (todo' = todo \/ todo' = Owed(Head(fs)))
  BY DEF FeedOne
<1>2. AbandonedStays'
  BY <1>1 DEF IInv, AbandonedStays, Abandoned, Owed, conn
<1>3. Fresh'
  BY <1>1 DEF Fresh
<1>4. Together'
  <2>1. decoder'.threshold = decoder.threshold
    BY DEF FeedOne, IInv, IInvBasic, TypeOK
  <2> QED
    BY <2>1 DEF IInv, Together
<1> QED
  BY <1>2, <1>3, <1>4

\* Every step keeps the facts about abandoned polls and new connections, and the
\* two thresholds equal.
LEMMA LabelStep == IInv /\ [Next]_vars => AbandonedStays' /\ Fresh' /\ Together'
<1> SUFFICES ASSUME IInv, [Next]_vars PROVE AbandonedStays' /\ Fresh' /\ Together'
  OBVIOUS
<1> USE DEF IInv, IInvBasic, TypeOK, Control, Owing, AbandonedStays, Fresh, Together,
            Connected, Connecting, Abandoned, conn, mode, data, control, reading, wire
<1>1. CASE PeerSend
  BY <1>1 DEF PeerSend
<1>2. CASE PeerClose
  BY <1>2 DEF PeerClose
<1>3. CASE ConnectTcp
  BY <1>3 DEF ConnectTcp
<1>4. CASE ConnectTcpFails
  BY <1>4 DEF ConnectTcpFails, Return
<1>5. CASE Handshake
  BY <1>5 DEF Handshake, Fail, Disconnect, Return
<1>6. CASE LoginStart
  BY <1>6 DEF LoginStart, ReadFor, Fail, Disconnect, Return
<1>7. CASE ReadFrame
  <2>1. CASE Fail
    BY <1>7, <2>1 DEF ReadFrame, Fail, Disconnect, Return
  <2>2. CASE ~Fail
    BY <1>7, <2>2, FeedLabels DEF ReadFrame
  <2> QED
    BY <2>1, <2>2
<1>8. CASE Receive
  <2>1. CASE Fail
    BY <1>8, <2>1 DEF Receive, Fail, Disconnect, Return
  <2>2. CASE ~Fail
    <3>1. PICK n \in 0..Len(net), part \in BOOLEAN :
             /\ FeedOne(buffered \o SubSeq(net, 1, n), part)
             /\ UNCHANGED <<conn, compression_threshold, phase, poll_state>>
      BY <1>8, <2>2 DEF Receive
    <3>2. buffered \o SubSeq(net, 1, n) \in Seq(Frame)
      BY MoveFrames
    <3>3. pc \in {"read", "receive"}
      BY <1>8 DEF Receive
    <3> HIDE DEF IInv, AbandonedStays, Fresh, Together
    <3> QED
      BY <3>1, <3>2, <3>3, FeedLabels
  <2> QED
    BY <2>1, <2>2
<1>9. CASE ReceiveFails
  BY <1>9 DEF ReceiveFails, Fail, Disconnect, Return
<1>10. CASE OnPacket
  BY <1>10 DEF OnPacket, Disconnect
<1>11. CASE LoginCompress
  BY <1>11 DEF LoginCompress, SetCompression, Fail, Iterate, Disconnect, Return
<1>12. CASE LoginRefused
  BY <1>12 DEF LoginRefused, Fail, Disconnect, Return
<1>13. CASE LoginOther
  BY <1>13 DEF LoginOther, Iterate, Disconnect, Return
<1>14. CASE LoginSuccess
  BY <1>14 DEF LoginSuccess
<1>15. CASE EnterPlay
  BY <1>15 DEF EnterPlay, Return
<1>16. CASE ConfigurationStart
  BY <1>16 DEF ConfigurationStart
<1>34. CASE ConfigurationAck
  BY <1>34 DEF ConfigurationAck, ReadFor, Fail, Disconnect, Return
<1>35. CASE EnterLogin
  BY <1>35 DEF EnterLogin, Return
<1>17. CASE ConfigInformation
  BY <1>17 DEF ConfigInformation, Fail, Disconnect, Return
<1>36. CASE ConfigKnownPacks
  BY <1>36 DEF ConfigKnownPacks, Fail, Iterate, Disconnect, Return
<1>37. CASE ConfigFinish
  BY <1>37 DEF ConfigFinish, Fail, Disconnect, Return
<1>38. CASE ConfigOther
  BY <1>38 DEF ConfigOther, Iterate, Disconnect, Return
<1>39. CASE PeerStalls
  BY <1>39 DEF PeerStalls
<1>18. CASE RunLoop
  BY <1>18 DEF RunLoop, Return
<1>19. CASE PollEntry
  BY <1>19 DEF PollEntry, EndPoll, Return
<1>20. CASE PollWait
  BY <1>20 DEF PollWait, EndPoll, Disconnect, Return
<1>21. CASE PollRead
  BY <1>21 DEF PollRead, ReadFor
<1>22. CASE PollHandle
  BY <1>22 DEF PollHandle, EndPoll, Fail, Disconnect, Return
<1>23. CASE Waited
  BY <1>23 DEF Waited, Disconnect, Return
<1>24. CASE OtherStops
  BY <1>24 DEF OtherStops
<1>25. CASE OtherCloses
  BY <1>25 DEF OtherCloses
<1>26. CASE OtherChangesState
  BY <1>26 DEF OtherChangesState
<1>27. ASSUME NEW which \in {"open", "connect"}, Open(which)
       PROVE  AbandonedStays' /\ Fresh' /\ Together'
  BY <1>27 DEF Open, Begin
<1>28. ASSUME NEW which \in {"poll", "run"}, Poll(which)
       PROVE  AbandonedStays' /\ Fresh' /\ Together'
  BY <1>28 DEF Poll, Begin
<1>29. CASE WaitClosed
  BY <1>29 DEF WaitClosed, Begin
<1>30. CASE AppSetCompression
  BY <1>30 DEF AppSetCompression, AppRuns, SetCompression
<1>31. CASE AppSetState
  BY <1>31 DEF AppSetState, AppRuns
<1>32. CASE AppDisconnect
  BY <1>32 DEF AppDisconnect, Disconnect
<1>33. CASE UNCHANGED vars
  BY <1>33 DEF vars
<1> QED
  BY <1>1, <1>2, <1>3, <1>4, <1>5, <1>6, <1>7, <1>8, <1>9, <1>10, <1>11, <1>12, <1>13,
     <1>14, <1>15, <1>16, <1>17, <1>18, <1>19, <1>20, <1>21, <1>22, <1>23, <1>24,
     <1>25, <1>26, <1>27, <1>28, <1>29, <1>30, <1>31, <1>32, <1>33, <1>34, <1>35, <1>36,
     <1>37, <1>38, <1>39 DEF Next, ClientStep, OtherThread, AppAnswer

\* Every step keeps the frames ahead in the modes the client will expect.
LEMMA QueueStep == IInv /\ [Next]_vars => Modes' /\ Phases'
<1> SUFFICES ASSUME IInv, [Next]_vars PROVE Modes' /\ Phases'
  OBVIOUS
<1> USE DEF conn, mode, data, control, reading, wire
<1>1. CASE PeerSend
  <2>0. CASE ~Connected
    BY <1>1, <2>0 DEF Modes, Phases, Connected, PeerSend, conn
  <2> SUFFICES ASSUME Connected PROVE Modes' /\ Phases'
    BY <2>0
  <2>1. PICK kind \in PeerKinds(peer.phase), value \in Level \cup {-1} :
          /\ kind = "compress" => value \in Level
          /\ net' = Append(net, [kind |-> kind, mode |-> peer.mode, value |-> value])
          /\ peer' = [peer EXCEPT !.phase = PeerPhaseAfter(kind),
                                  !.mode = IF kind = "compress" THEN value ELSE @]
    BY <1>1, Zenon DEF PeerSend
  <2> DEFINE f == [kind |-> kind, mode |-> peer.mode, value |-> value]
             q == buffered \o net
  <2>2. kind \in Kind /\ (kind = "compress" => peer.phase = "login")
    BY <1>1 DEF IInv, IInvBasic, Control, TypeOK, PeerSend, PeerKinds, Kind
  <2>3. f \in Frame
    BY <2>2 DEF IInv, IInvBasic, TypeOK, Frame, Mode
  <2>4. q \in Seq(Frame) /\ (buffered \o net)' = Append(q, f)
    <3>1. buffered \in Seq(Frame) /\ net \in Seq(Frame)
      BY DEF IInv, IInvBasic, TypeOK
    <3>2. net' = Append(net, f) /\ buffered' = buffered
      BY <1>1, <2>1 DEF PeerSend
    <3> QED
      BY <2>3, <3>1, <3>2, QueueAppend, Zenon
  <2>5. peer'.mode = After(f)
    BY <2>1 DEF After, IInv, IInvBasic, TypeOK
  <2>9. f.kind # "compress" => peer'.mode = peer.mode
    BY <2>1 DEF IInv, IInvBasic, TypeOK
  <2>6. /\ peer'.phase = PeerPhaseAfter(kind)
        /\ kind = "success" \/ peer.phase # "login" => peer'.phase # "login"
    BY <2>1 DEF PeerPhaseAfter, IInv, IInvBasic, TypeOK
  <2>7. f.mode = peer.mode /\ f.kind = kind
    OBVIOUS
  <2>8. /\ UNCHANGED <<Expected, PastLogin, Abandoned, pc>>
    BY <1>1 DEF PeerSend, Expected, Pending, PastLogin, Abandoned
  <2> HIDE DEF f, q, Expected, PastLogin, Abandoned
  <2>10. Chained(q, Expected, peer.mode) => Chained(Append(q, f), Expected, After(f))
    BY <2>3, <2>4, <2>7, ChainedAppend
  <2>11. Modes'
    BY <2>4, <2>5, <2>8, <2>10 DEF IInv, Modes, q
  <2>12. /\ Ordered(q, peer.phase, peer.mode)
         /\ PastLogin => Settled(q, peer.mode) /\ peer.phase # "login"
    BY DEF IInv, Phases, q
  <2>13. /\ Ordered(Append(q, f), peer'.phase, peer'.mode)
         /\ Settled(q, peer.mode) /\ peer.phase # "login" =>
              Settled(Append(q, f), peer'.mode)
    <3>1. /\ f.kind = "compress" => peer.phase = "login"
          /\ f.kind = "success" \/ peer.phase # "login" => peer'.phase # "login"
      BY <2>2, <2>6, <2>7
    <3> QED
      BY <2>3, <2>4, <2>7, <2>9, <2>12, <3>1, OrderedAppend, Zenon
  <2>14. Phases'
    BY <2>4, <2>6, <2>8, <2>12, <2>13 DEF Phases
  <2> QED
    BY <2>11, <2>14
<1>2. CASE PeerClose
  BY <1>2, QuietStep DEF PeerClose, IInv, IInvBasic, TypeOK, Control, Owing,
     AbandonedStays, Fresh, Connected, Connecting, Expected, Pending, PastLogin,
     Abandoned
<1>3. CASE ConnectTcp
  <2>1. /\ (buffered \o net)' = <<>> /\ peer'.mode = -1 /\ peer'.phase = "login"
    BY <1>3 DEF ConnectTcp, IInv, Fresh
  <2>2. Expected' = -1 /\ ~PastLogin'
    BY <1>3 DEF ConnectTcp, IInv, IInvBasic, Control, Connecting, Fresh, Expected,
       Pending,
                PastLogin, NoFrame
  <2> HIDE DEF Expected, PastLogin
  <2>3. Modes'
    BY <2>1, <2>2 DEF Modes, Chained
  <2>4. Phases'
    BY <2>1, <2>2 DEF Phases, Ordered
  <2> QED
    BY <2>3, <2>4
<1>4. CASE ConnectTcpFails
  BY <1>4, QuietStep DEF ConnectTcpFails, Return, IInv, IInvBasic, TypeOK, Control,
     Owing, AbandonedStays, Fresh, Connected, Connecting, Expected, Pending, PastLogin,
     Abandoned
<1>5. CASE Handshake
  BY <1>5, QuietStep DEF Handshake, Fail, Disconnect, Return, IInv, IInvBasic, TypeOK,
     Control, Owing, AbandonedStays, Fresh, Connected, Connecting, Expected, Pending,
     PastLogin, Abandoned
<1>6. CASE LoginStart
  BY <1>6, QuietStep DEF LoginStart, ReadFor, Fail, Disconnect, Return, IInv, IInvBasic,
     TypeOK, Control, Owing, AbandonedStays, Fresh, Connected, Connecting, Expected,
     Pending, PastLogin, Abandoned
<1>7. CASE ReadFrame
  <2>1. CASE Fail
    BY <2>1, QuietStep DEF Fail, Disconnect, Connected
  <2>2. CASE ~Fail
    BY <1>7, <2>2, FeedQueue DEF ReadFrame, IInv, IInvBasic, TypeOK
  <2> QED
    BY <2>1, <2>2
<1>8. CASE Receive
  <2>1. CASE Fail
    BY <2>1, QuietStep DEF Fail, Disconnect, Connected
  <2>2. CASE ~Fail
    <3>1. PICK n \in 0..Len(net), part \in BOOLEAN :
             /\ ~Misread(buffered \o SubSeq(net, 1, n))
             /\ FeedOne(buffered \o SubSeq(net, 1, n), part)
             /\ net' = SubSeq(net, n + 1, Len(net))
             /\ UNCHANGED <<conn, compression_threshold, information_sent, call, result,
                            phase, index, poll_state, asked, other, connections, peer>>
      BY <1>8, <2>2 DEF Receive
    <3>2. /\ buffered \o SubSeq(net, 1, n) \in Seq(Frame)
          /\ net' \in Seq(Frame)
          /\ (buffered \o SubSeq(net, 1, n)) \o net' = buffered \o net
      BY <3>1, MoveFrames DEF IInv, IInvBasic, TypeOK
    <3> QED
      BY <1>8, <3>1, <3>2, FeedQueue DEF Receive
  <2> QED
    BY <2>1, <2>2
<1>9. CASE ReceiveFails
  BY <1>9, QuietStep DEF ReceiveFails, Fail, Disconnect, Return, IInv, IInvBasic,
     TypeOK, Control, Owing, AbandonedStays, Fresh, Connected, Connecting, Expected,
     Pending, PastLogin, Abandoned
<1>10. CASE OnPacket
  BY <1>10, QuietStep DEF OnPacket, Disconnect, IInv, IInvBasic, TypeOK, Control, Owing,
     AbandonedStays, Fresh, Connected, Connecting, Expected, Pending, PastLogin,
     Abandoned
<1>11. CASE LoginCompress
  <2>1. CASE ~Connected'
    BY <2>1, QuietStep
  <2>2. CASE Connected'
    <3>1. Connected
      BY <1>11, <2>2 DEF LoginCompress, Fail, Disconnect, Iterate, Connected
    <3>2. ~SetCompressionRefused
      BY <1>11, <3>1 DEF LoginCompress, SetCompressionRefused, IInv, IInvBasic, Control,
                         TransitionReady, Pending
    <3>3. /\ SetCompression(frame.value) /\ pc' = "read"
          /\ UNCHANGED <<socket_fd, state, buffered, net, peer, phase, frame, poll_state, todo>>
      BY <1>11, <2>2, <3>2 DEF LoginCompress, Iterate, Disconnect, Connected
    <3> QED
      BY <1>11, <2>2, <3>3, QuietStep
         DEF LoginCompress, SetCompression, IInv, IInvBasic, Control, Owing, Expected,
         Pending,
             PastLogin, Abandoned
  <2> QED
    BY <2>1, <2>2
<1>12. CASE LoginRefused
  BY <1>12, QuietStep DEF LoginRefused, Fail, Disconnect, Return, IInv, IInvBasic,
     TypeOK, Control, Owing, AbandonedStays, Fresh, Connected, Connecting, Expected,
     Pending, PastLogin, Abandoned
<1>13. CASE LoginOther
  BY <1>13, QuietStep DEF LoginOther, Iterate, Disconnect, Return, IInv, IInvBasic,
     TypeOK, Control, Owing, AbandonedStays, Fresh, Connected, Connecting, Expected,
     Pending, PastLogin, Abandoned
<1>14. CASE LoginSuccess
  BY <1>14, QuietStep DEF LoginSuccess, IInv, IInvBasic, TypeOK, Control, Owing,
     AbandonedStays, Fresh, Connected, Connecting, Expected, Pending, PastLogin,
     Abandoned
<1>15. CASE EnterPlay
  BY <1>15, QuietStep DEF EnterPlay, Return, IInv, IInvBasic, TypeOK, Control, Owing,
     AbandonedStays, Fresh, Connected, Connecting, Expected, Pending, PastLogin,
     Abandoned
<1>16. CASE ConfigurationStart
  BY <1>16, QuietStep DEF ConfigurationStart, IInv, IInvBasic, TypeOK, Control, Owing,
     AbandonedStays, Fresh, Connected, Connecting, Expected, Pending, PastLogin,
     Abandoned
<1>34. CASE ConfigurationAck
  BY <1>34, QuietStep DEF ConfigurationAck, ReadFor, Fail, Disconnect, Return, IInv,
     IInvBasic, TypeOK, Control, Owing,
     AbandonedStays, Fresh, Connected, Connecting, Expected, Pending, PastLogin,
     Abandoned
<1>35. CASE EnterLogin
  BY <1>35, QuietStep DEF EnterLogin, Return, IInv, IInvBasic, TypeOK, Control, Owing,
     AbandonedStays, Fresh, Connected, Connecting, Expected, Pending, PastLogin,
     Abandoned
<1>17. CASE ConfigInformation
  BY <1>17, QuietStep DEF ConfigInformation, Fail, Disconnect, Return, IInv,
     IInvBasic, TypeOK, Control, Owing,
     AbandonedStays, Fresh, Connected, Connecting, Expected, Pending, PastLogin,
     Abandoned
<1>36. CASE ConfigKnownPacks
  BY <1>36, QuietStep DEF ConfigKnownPacks, Fail, Iterate, Disconnect, Return, IInv,
     IInvBasic, TypeOK, Control, Owing,
     AbandonedStays, Fresh, Connected, Connecting, Expected, Pending, PastLogin,
     Abandoned
<1>37. CASE ConfigFinish
  BY <1>37, QuietStep DEF ConfigFinish, Fail, Disconnect, Return, IInv, IInvBasic,
     TypeOK, Control, Owing,
     AbandonedStays, Fresh, Connected, Connecting, Expected, Pending, PastLogin,
     Abandoned
<1>38. CASE ConfigOther
  BY <1>38, QuietStep DEF ConfigOther, Iterate, Disconnect, Return, IInv, IInvBasic,
     TypeOK, Control, Owing,
     AbandonedStays, Fresh, Connected, Connecting, Expected, Pending, PastLogin,
     Abandoned
<1>39. CASE PeerStalls
  BY <1>39, QuietStep DEF PeerStalls, IInv, IInvBasic, TypeOK, Control, Owing,
     AbandonedStays, Fresh, Connected, Connecting, Expected, Pending, PastLogin,
     Abandoned
<1>18. CASE RunLoop
  BY <1>18, QuietStep DEF RunLoop, Return, IInv, IInvBasic, TypeOK, Control, Owing,
     AbandonedStays, Fresh, Connected, Connecting, Expected, Pending, PastLogin,
     Abandoned
<1>19. CASE PollEntry
  BY <1>19, QuietStep DEF PollEntry, EndPoll, Return, IInv, IInvBasic, TypeOK, Control,
     Owing, AbandonedStays, Fresh, Connected, Connecting, Expected, Pending, PastLogin,
     Abandoned
<1>20. CASE PollWait
  BY <1>20, QuietStep DEF PollWait, EndPoll, Disconnect, Return, IInv, IInvBasic,
     TypeOK, Control, Owing, AbandonedStays, Fresh, Connected, Connecting, Expected,
     Pending, PastLogin, Abandoned
<1>21. CASE PollRead
  BY <1>21, QuietStep DEF PollRead, ReadFor, IInv, IInvBasic, TypeOK, Control, Owing,
     AbandonedStays, Fresh, Connected, Connecting, Expected, Pending, PastLogin,
     Abandoned
<1>22. CASE PollHandle
  BY <1>22, QuietStep DEF PollHandle, EndPoll, Fail, Disconnect, Return, IInv,
     IInvBasic, TypeOK, Control, Owing, AbandonedStays, Fresh, Connected, Connecting,
     Expected, Pending, PastLogin, Abandoned
<1>23. CASE Waited
  BY <1>23, QuietStep DEF Waited, Disconnect, Return, IInv, IInvBasic, TypeOK, Control,
     Owing, AbandonedStays, Fresh, Connected, Connecting, Expected, Pending, PastLogin,
     Abandoned
<1>24. CASE OtherStops
  BY <1>24, QuietStep DEF OtherStops, IInv, IInvBasic, TypeOK, Control, Owing,
     AbandonedStays, Fresh, Connected, Connecting, Expected, Pending, PastLogin,
     Abandoned
<1>25. CASE OtherCloses
  BY <1>25, QuietStep DEF OtherCloses, IInv, IInvBasic, TypeOK, Control, Owing,
     AbandonedStays, Fresh, Connected, Connecting, Expected, Pending, PastLogin,
     Abandoned
<1>26. CASE OtherChangesState
  BY <1>26, QuietStep DEF OtherChangesState, IInv, IInvBasic, TypeOK, Control, Owing,
     AbandonedStays, Fresh, Connected, Connecting, Expected, Pending, PastLogin,
     Abandoned
<1>27. ASSUME NEW which \in {"open", "connect"}, Open(which) PROVE Modes' /\ Phases'
  BY <1>27, QuietStep DEF Open, Begin, IInv, IInvBasic, TypeOK, Control, Owing,
     AbandonedStays, Fresh, Connected, Connecting, Expected, Pending, PastLogin,
     Abandoned
<1>28. ASSUME NEW which \in {"poll", "run"}, Poll(which) PROVE Modes' /\ Phases'
  BY <1>28, QuietStep DEF Poll, Begin, IInv, IInvBasic, TypeOK, Control, Owing,
     AbandonedStays, Fresh, Connected, Connecting, Expected, Pending, PastLogin,
     Abandoned
<1>29. CASE WaitClosed
  BY <1>29, QuietStep DEF WaitClosed, Begin, IInv, IInvBasic, TypeOK, Control, Owing,
     AbandonedStays, Fresh, Connected, Connecting, Expected, Pending, PastLogin,
     Abandoned
<1>30. CASE AppSetCompression
  <2>1. CASE ~Connected'
    BY <2>1, QuietStep
  <2>2. CASE Connected'
    <3>1. ~SetCompressionRefused
      BY <1>30, <2>2 DEF AppSetCompression, SetCompressionRefused, Connected, IInv,
         IInvBasic,
                         TransitionReady, Pending
    <3> QED
      BY <1>30, <3>1, QuietStep
         DEF AppSetCompression, AppRuns, SetCompression, IInv, IInvBasic, Owing,
         Expected,
             Pending, PastLogin, Abandoned
  <2> QED
    BY <2>1, <2>2
<1>31. CASE AppSetState
  BY <1>31, QuietStep DEF AppSetState, AppRuns, IInv, IInvBasic, TypeOK, Control, Owing,
     AbandonedStays, Fresh, Connected, Connecting, Expected, Pending, PastLogin,
     Abandoned
<1>32. CASE AppDisconnect
  BY <1>32, QuietStep DEF AppDisconnect, Disconnect, IInv, IInvBasic, TypeOK, Control,
     Owing, AbandonedStays, Fresh, Connected, Connecting, Expected, Pending, PastLogin,
     Abandoned
<1>33. CASE UNCHANGED vars
  BY <1>33, QuietStep DEF vars, Connected, Expected, Pending, PastLogin,
     Abandoned
<1> QED
  BY <1>1, <1>2, <1>3, <1>4, <1>5, <1>6, <1>7, <1>8, <1>9, <1>10, <1>11, <1>12, <1>13,
     <1>14, <1>15, <1>16, <1>17, <1>18, <1>19, <1>20, <1>21, <1>22, <1>23, <1>24,
     <1>25, <1>26, <1>27, <1>28, <1>29, <1>30, <1>31, <1>32, <1>33, <1>34, <1>35, <1>36,
     <1>37, <1>38, <1>39 DEF Next, ClientStep, OtherThread, AppAnswer

-----------------------------------------------------------------------------
\* A new client has nothing pending and no connection.
LEMMA InitIInv == Init => IInv
<1> SUFFICES ASSUME Init PROVE IInv
  OBVIOUS
<1>1. TypeOK
  <2>1. frame \in Frame /\ buffered \in Seq(Frame) /\ net \in Seq(Frame)
    BY DEF Init, NoFrame, Frame, Kind, Mode
  <2>2. /\ decoder \in [threshold : Mode, ready : BOOLEAN]
        /\ peer \in [mode : Mode, phase : {"gone", "login", "config", "play"},
                     closed : BOOLEAN, takes : BOOLEAN]
    BY DEF Init, NoPeer, Mode
  <2>3. stop \in BOOLEAN /\ partial \in BOOLEAN
    BY DEF Init
  <2> QED
    BY <2>1, <2>2, <2>3, SessionAssumption DEF Init, TypeOK, State, Mode
<1>2. Control /\ Informed /\ Stopping /\ Owing /\ TransitionReady
  BY DEF Init, Control, Connecting, Connected, NoPeer, Informed, InformationOnce,
     Stopping,
         Owing, TransitionReady, Pending, NoFrame
<1>3. AbandonedStays /\ Fresh /\ Together /\ Modes /\ Phases
  BY DEF Init, AbandonedStays, Abandoned, Fresh, Together, Modes, Phases, Connected
<1> QED
  BY <1>1, <1>2, <1>3 DEF IInv, IInvBasic

\* The whole invariant holds in every state of the session.
THEOREM InvariantHolds == Spec => []IInv
<1>1. IInv /\ [Next]_vars => IInv'
  BY BasicStep, LabelStep, QueueStep DEF IInv
<1> QED
  BY InitIInv, <1>1, PTL DEF Spec

\* Every variable keeps its type, for any limits: in particular neither the login
\* nor the configuration loop reads more packets than its limit.
THEOREM SessionTypeCorrect == Spec => []TypeOK
<1>1. IInv => TypeOK
  BY DEF IInv, IInvBasic
<1> QED
  BY InvariantHolds, <1>1, PTL

\* Whatever the peer coalesces, and at whatever frame it changes the compression
\* mode, read_frame finds each frame with the decoder in that frame's mode.
THEOREM FramesReadInTheirMode == Spec => []NextFrameInDecoderMode
<1>1. IInv => NextFrameInDecoderMode
  <2> SUFFICES ASSUME IInv, pc \in {"read", "receive"}, Connected,
  buffered \o net # <<>>
               PROVE  Head(buffered \o net).mode = decoder.threshold
    BY DEF NextFrameInDecoderMode
  <2>1. Expected = decoder.threshold
    BY DEF IInv, IInvBasic, Owing, Expected, Pending
  <2>2. Chained(buffered \o net, decoder.threshold, peer.mode)
    BY <2>1 DEF IInv, Modes
  <2>3. buffered \o net \in Seq(Frame)
    BY ConcatProperties DEF IInv, IInvBasic, TypeOK
  <2> QED
    BY <2>2, <2>3 DEF Chained
<1> QED
  BY InvariantHolds, <1>1, PTL

\* What the client sends in configuration and PLAY is framed by the threshold the
\* server announced last, whatever it coalesced and whoever applied the change.
THEOREM SendsFramedForPeer == Spec => []SendsInPeerMode
<1>1. IInv => SendsInPeerMode
  <2> SUFFICES ASSUME IInv, pc \in {"config_ack", "config", "polled"}, AtSend, Connected
               PROVE  compression_threshold = peer.mode
    BY DEF SendsInPeerMode
  <2>1. PastLogin /\ ~Pending /\ ~Abandoned
    BY DEF IInv, IInvBasic, Control, Owing, PastLogin, Pending, Abandoned, AtSend,
           PlayAnswered, ReplyAllowed
  <2>2. /\ Chained(buffered \o net, decoder.threshold, peer.mode)
        /\ Settled(buffered \o net, peer.mode)
    BY <2>1 DEF IInv, Modes, Phases, Expected
  <2>3. buffered \o net \in Seq(Frame)
    BY ConcatProperties DEF IInv, IInvBasic, TypeOK
  <2>4. decoder.threshold = peer.mode
    BY <2>2, <2>3 DEF Chained, Settled
  <2> QED
    BY <2>4 DEF IInv, Together
<1> QED
  BY InvariantHolds, <1>1, PTL

\* mc_client_set_compression accepts every threshold the peer announces, in the
\* login loop and in an application's callback or after it.
THEOREM AnnouncementsAccepted == Spec => []AnnouncedModeAccepted
<1>1. IInv => AnnouncedModeAccepted
  BY DEF IInv, IInvBasic, Control, TransitionReady, Pending, AnnouncedModeAccepted,
         SetCompressionRefused
<1> QED
  BY InvariantHolds, <1>1, PTL

\* A connect that has come through CONFIGURATION has sent one Client Information.
THEOREM InformationSentOnce == Spec => []InformationOnce
<1>1. IInv => InformationOnce
  BY DEF IInv, IInvBasic, Informed
<1> QED
  BY InvariantHolds, <1>1, PTL

\* A callback that disconnects never makes mc_client_run return an error.
THEOREM CallbackEndsRun == Spec => []CallbackStopsRunCleanly
<1>1. IInv => CallbackStopsRunCleanly
  BY DEF IInv, IInvBasic, Stopping, CallbackStopsRunCleanly
<1> QED
  BY InvariantHolds, <1>1, PTL

=============================================================================
