------------------------- MODULE PlayRepliesProofs -------------------------
(***************************************************************************)
(* Theorems about PlayReplies, for every profile, every choice of          *)
(* automatic replies, every set of axes and coordinates and any number of  *)
(* packets under way, movements and connections.                           *)
(***************************************************************************)
EXTENDS PlayReplies, SequenceTheorems, TLAPS

SentKind == {"keep_alive", "chunk_batch_finished", "player_position"}
SentType == [kind : SentKind, token : Nat \cup Token, relative : SUBSET Axis,
             position : Position, target : Position]
ReplyKind == {"movement", "keep_alive", "echo", "confirm", "player_loaded",
              "batch_received"}
ReplyType == [kind : ReplyKind, token : Nat \cup Token, position : Position]

\* The types of the variables.
TypeInv ==
    /\ connected \in BOOLEAN
    /\ tracked_position \in Position /\ tracked_position_valid \in BOOLEAN
    /\ player_loaded_sent \in BOOLEAN
    /\ pc \in {"idle", "callback"}
    /\ out \in Seq(ReplyType)
    /\ sent \in Seq(SentType)
    /\ polled \in 0..Len(sent) /\ (pc = "callback" => polled > 0)
    /\ position \in Position
    /\ awaited \in {0} \cup Teleports
    /\ astray \subseteq Axis

\* A teleport's id is its place, and its target is stated on its absolute axes.
\* Until something is tracked the tracked position is the origin.
SentInv ==
    /\ \A i \in Teleports :
         /\ sent[i].token = i
         /\ \A a \in Axis \ sent[i].relative : sent[i].target[a] = sent[i].position[a]
    /\ ~tracked_position_valid => tracked_position = Origin

\* The client confirms teleports by itself.
AutoConfirm == has_teleport_id /\ "TELEPORT" \in Replies

\* The teleports of this connection the client has yet to handle.
Pending == {i \in Teleports : i > polled \/ (i = polled /\ pc = "callback")}

\* The server waits for a confirmation exactly while the client has teleports
\* to handle, and then for the last of them, which is where the player is.
AwaitInv ==
    AutoConfirm /\ connected =>
    /\ awaited = 0 => Pending = {}
    /\ awaited # 0 => /\ awaited \in Pending
                      /\ \A i \in Teleports : i <= awaited
                      /\ position = sent[awaited].target

\* No movement is accepted between two pending teleports: each counts from the
\* one before.
ChainInv ==
    AutoConfirm /\ connected =>
    \A j, k \in Pending :
      j < k /\ (\A i \in Pending : i <= j \/ k <= i) =>
        \A a \in sent[k].relative :
          sent[k].target[a] = sent[k].position[a] + sent[j].target[a]

\* On an axis that is not astray the tracked position is the server's, or what
\* the server counted the first pending teleport from, or some pending teleport
\* will state the axis.
BaseInv ==
    AutoConfirm /\ connected =>
    \A a \in Axis \ astray :
      \/ \E i \in Pending : a \notin sent[i].relative
      \/ /\ Pending = {} => tracked_position[a] = position[a]
         /\ \A k \in Pending :
              (\A i \in Pending : k <= i) =>
                sent[k].target[a] = sent[k].position[a] + tracked_position[a]

\* Every teleport taken before the one being handled has its confirmation.
ConfirmInv ==
    AutoConfirm =>
    /\ \A k \in 1..Len(out) : out[k].kind = "confirm" =>
         /\ out[k].token \in Teleports /\ out[k].token <= polled
         /\ connected /\ pc = "callback" => out[k].token < polled
         /\ confirm_has_position =>
              \A a \in Axis \ sent[out[k].token].relative :
                out[k].position[a] = sent[out[k].token].target[a]
    /\ \A j, k \in 1..Len(out) :
         out[j].kind = "confirm" /\ out[k].kind = "confirm" /\ j < k =>
           out[j].token < out[k].token
    /\ \A i \in Handled :
         \E k \in 1..Len(out) : out[k].kind = "confirm" /\ out[k].token = i

\* player_loaded_sent remembers whether the packet has been sent.
LoadInv ==
    player_loaded_packet /\ "PLAYER_LOADED" \in Replies =>
    /\ player_loaded_sent <=> \E k \in 1..Len(out) : out[k].kind = "player_loaded"
    /\ \A j, k \in 1..Len(out) :
         out[j].kind = "player_loaded" /\ out[k].kind = "player_loaded" => j = k
    /\ Handled # {} => player_loaded_sent
    /\ "TELEPORT" \in Replies =>
         \A k \in 1..Len(out) : out[k].kind = "player_loaded" =>
           /\ k > 1 /\ out[k - 1].kind = "confirm"
           /\ \A i \in Teleports : out[k - 1].token <= i

IInv == TypeInv /\ SentInv /\ AwaitInv /\ ChainInv /\ BaseInv /\ ConfirmInv /\ LoadInv

-----------------------------------------------------------------------------
\* A position and the resolution of a teleport against it are positions.
LEMMA ResolveType ==
    ASSUME NEW pkt, pkt.position \in Position, NEW last \in Position
    PROVE  /\ Resolve(pkt, last) \in Position
           /\ \A a \in Axis : Resolve(pkt, last)[a] =
                IF a \in pkt.relative THEN pkt.position[a] + last[a] ELSE pkt.position[a]
  BY DEF Resolve, Position

\* The position a client starts with is a position.
LEMMA OriginType == Origin \in Position
  BY DEF Origin, Position

\* The coordinates the application and the server use are positions.
LEMMA CoordType ==
    ASSUME NEW pos \in [Axis -> Coord]
    PROVE  pos \in Position
  BY RepliesAssumption DEF Position

\* The packet the callback is shown is one the server has sent.
LEMMA PacketType ==
    ASSUME TypeInv, pc = "callback"
    PROVE  /\ packet \in SentType /\ packet = sent[polled] /\ polled \in 1..Len(sent)
           /\ packet.kind = "player_position" <=> polled \in Teleports
  BY DEF TypeInv, packet, Teleports

\* The position handle_play resolves a teleport to.
LEMMA AbsoluteType ==
    ASSUME TypeInv, pc = "callback"
    PROVE  absolute \in Position
<1>1. packet \in SentType /\ tracked_position \in Position /\ packet.position \in Position
  BY PacketType DEF TypeInv, SentType
<1> QED
  BY <1>1, ResolveType DEF absolute

\* It counts from the tracked position, which is the origin before the first.
LEMMA AbsoluteIs ==
    ASSUME TypeInv, SentInv, pc = "callback", NEW a \in Axis
    PROVE  absolute[a] = IF a \in packet.relative
                         THEN packet.position[a] + tracked_position[a]
                         ELSE packet.position[a]
<1>1. packet \in SentType /\ tracked_position \in Position /\ packet.position \in Position
  BY PacketType DEF TypeInv, SentType
<1>2. CASE tracked_position_valid
  BY <1>1, <1>2, ResolveType DEF absolute
<1>3. CASE ~tracked_position_valid
  <2>1. absolute = packet.position /\ tracked_position[a] = 0
    BY <1>3 DEF absolute, SentInv, Origin
  <2>2. packet.position[a] \in Int
    BY <1>1 DEF Position
  <2> QED
    BY <2>1, <2>2
<1> QED
  BY <1>2, <1>3

\* A packet the client sends carries the fields it was built from.
LEMMA ReplyOfType ==
    ASSUME NEW kind \in ReplyKind, NEW token \in Nat \cup Token, NEW pos \in Position
    PROVE  /\ Reply(kind, token, pos) \in ReplyType
           /\ Reply(kind, token, pos).kind = kind
           /\ Reply(kind, token, pos).token = token
           /\ Reply(kind, token, pos).position = pos
  BY DEF Reply, ReplyType

\* What handle_play answers, whichever replies are on: at most one confirmation,
\* the first answer, and player_loaded only as the last one.
LEMMA AnswersShape ==
    ASSUME TypeInv, pc = "callback"
    PROVE  /\ Answers \in Seq(ReplyType)
           /\ \A k \in 1..Len(Answers) :
                /\ Answers[k].kind = "echo" => ~has_teleport_id
                /\ Answers[k].kind = "confirm" =>
                     /\ has_teleport_id /\ "TELEPORT" \in Replies
                     /\ Tracked /\ k = 1 /\ Answers[k].token = packet.token
                     /\ confirm_has_position => Answers[k].position = absolute
                /\ Answers[k].kind = "player_loaded" =>
                     /\ Tracked /\ ~player_loaded_sent /\ k = Len(Answers)
                     /\ has_teleport_id /\ "TELEPORT" \in Replies => k = 2
           /\ Tracked /\ has_teleport_id /\ "TELEPORT" \in Replies =>
                Len(Answers) >= 1 /\ Answers[1].kind = "confirm"
           /\ Tracked /\ player_loaded_packet /\ ~player_loaded_sent /\ "PLAYER_LOADED" \in Replies =>
                Len(Answers) >= 1 /\ Answers[Len(Answers)].kind = "player_loaded"
<1> DEFINE echo == Reply("echo", 0, packet.position)
           confirm == Reply("confirm", packet.token,
                            IF confirm_has_position THEN absolute ELSE Origin)
           loaded == Reply("player_loaded", 0, Origin)
<1>1. /\ packet.position \in Position /\ packet.token \in Nat \cup Token
      /\ (IF confirm_has_position THEN absolute ELSE Origin) \in Position
  BY AbsoluteType, OriginType, PacketType DEF SentType
<1>2. /\ echo \in ReplyType /\ confirm \in ReplyType /\ loaded \in ReplyType
      /\ echo.kind = "echo" /\ confirm.kind = "confirm" /\ loaded.kind = "player_loaded"
      /\ confirm.token = packet.token
      /\ confirm_has_position => confirm.position = absolute
  <2>1. 0 \in Nat \cup Token /\ {"echo", "confirm", "player_loaded"} \subseteq ReplyKind
    BY DEF ReplyKind
  <2>2. echo \in ReplyType /\ echo.kind = "echo"
    BY <1>1, <2>1, ReplyOfType
  <2>3. loaded \in ReplyType /\ loaded.kind = "player_loaded"
    BY <2>1, ReplyOfType, OriginType
  <2> DEFINE pos == IF confirm_has_position THEN absolute ELSE Origin
  <2>4. pos \in Position /\ confirm = Reply("confirm", packet.token, pos)
    BY <1>1
  <2> HIDE DEF pos, confirm
  <2>5. /\ confirm \in ReplyType /\ confirm.kind = "confirm"
        /\ confirm.token = packet.token /\ confirm.position = pos
    BY <1>1, <2>1, <2>4 DEF Reply, ReplyType
  <2> QED
    BY <2>2, <2>3, <2>5 DEF pos
<1>3. /\ MovementEcho = IF ~has_teleport_id /\ "TELEPORT" \in Replies THEN <<echo>> ELSE <<>>
      /\ TeleportConfirm = IF has_teleport_id /\ "TELEPORT" \in Replies THEN <<confirm>> ELSE <<>>
      /\ PlayerLoaded = IF player_loaded_packet /\ ~player_loaded_sent /\ "PLAYER_LOADED" \in Replies
                        THEN <<loaded>> ELSE <<>>
  BY DEF MovementEcho, TeleportConfirm, PlayerLoaded
<1> HIDE DEF echo, confirm, loaded
<1>4. CASE Tracked
  <2>1. Answers = MovementEcho \o TeleportConfirm \o PlayerLoaded
    BY <1>4 DEF Answers, Tracked
  <2>2. CASE has_teleport_id /\ "TELEPORT" \in Replies
    <3>1. Answers = <<confirm>> \o PlayerLoaded
      BY <1>2, <1>3, <2>1, <2>2
    <3>2. CASE PlayerLoaded = <<loaded>>
      <4>1. /\ Answers \in Seq(ReplyType) /\ Len(Answers) = 2
            /\ Answers[1] = confirm /\ Answers[2] = loaded
        BY <1>2, <3>1, <3>2
      <4> QED
        BY <1>2, <1>3, <1>4, <2>2, <3>2, <4>1
    <3>3. CASE PlayerLoaded = <<>>
      <4>1. /\ Answers \in Seq(ReplyType) /\ Len(Answers) = 1 /\ Answers[1] = confirm
        BY <1>2, <3>1, <3>3
      <4> QED
        BY <1>2, <1>3, <1>4, <2>2, <3>3, <4>1
    <3> QED
      BY <1>3, <3>2, <3>3
  <2>3. CASE ~has_teleport_id /\ "TELEPORT" \in Replies
    <3>1. Answers = <<echo>> \o PlayerLoaded
      BY <1>2, <1>3, <2>1, <2>3
    <3> QED
      BY <1>2, <1>3, <1>4, <2>3, <3>1
  <2>4. CASE "TELEPORT" \notin Replies
    <3>1. Answers = PlayerLoaded
      BY <1>2, <1>3, <2>1, <2>4
    <3> QED
      BY <1>2, <1>3, <1>4, <2>4, <3>1
  <2> QED
    BY <2>2, <2>3, <2>4
<1>5. CASE ~Tracked
  <2>0. 0 \in Nat \cup Token /\ {"keep_alive", "batch_received"} \subseteq ReplyKind
    BY DEF ReplyKind
  <2> DEFINE alive == Reply("keep_alive", packet.token, Origin)
             batch == Reply("batch_received", 0, Origin)
  <2>1. /\ alive \in ReplyType /\ alive.kind = "keep_alive"
    BY <1>1, <2>0, OriginType DEF Reply, ReplyType
  <2>2. batch \in ReplyType /\ batch.kind = "batch_received"
    BY <2>0, ReplyOfType, OriginType
  <2>3. Answers = <<alive>> \/ Answers = <<batch>> \/ Answers = <<>>
    BY <1>5 DEF Answers, Tracked
  <2> HIDE DEF alive, batch
  <2>4. CASE Answers = <<>>
    BY <1>5, <2>4
  <2>5. ASSUME NEW r \in {alive, batch}, Answers = <<r>>
        PROVE  /\ Answers \in Seq(ReplyType) /\ Len(Answers) = 1
               /\ Answers[1].kind \notin {"confirm", "echo", "player_loaded"}
    BY <2>1, <2>2, <2>5
  <2> QED
    BY <1>5, <2>3, <2>4, <2>5
<1> QED
  BY <1>4, <1>5

\* handle_play sends the first n answers, and stays connected if that is all.
Handles(n) ==
    /\ out' \in Seq(ReplyType) /\ Len(out') = Len(out) + n
    /\ \A k \in 1..Len(out) : out'[k] = out[k]
    /\ \A k \in 1..n : out'[Len(out) + k] = Answers[k]
    /\ connected' <=> n = Len(Answers)
    /\ player_loaded_sent' <=>
         player_loaded_sent \/ \E k \in 1..n : Answers[k].kind = "player_loaded"
    /\ IF n = 0 \/ Answers[1].kind \notin {"confirm", "echo"} THEN UNCHANGED server
       ELSE IF Answers[1].kind = "confirm"
            THEN ServerHearsConfirm(Answers[1].token, Answers[1].position)
            ELSE ServerHearsMovement(Answers[1].position)

\* What a handle_play step has sent, that a failed send disconnects, and what
\* the server makes of it.
LEMMA HandleFacts ==
    ASSUME TypeInv, HandlePlay
    PROVE  \E n \in 0..Len(Answers) : Handles(n)
<1>1. PICK n \in 0..Len(Answers) :
        /\ out' = out \o SubSeq(Answers, 1, n)
        /\ connected' = (n = Len(Answers))
        /\ player_loaded_sent' =
             (player_loaded_sent \/ \E k \in 1..n : SubSeq(Answers, 1, n)[k].kind = "player_loaded")
        /\ ServerHears(SubSeq(Answers, 1, n))
  BY DEF HandlePlay
<1> DEFINE given == SubSeq(Answers, 1, n)
<1>2. Answers \in Seq(ReplyType) /\ Len(Answers) \in Nat
  BY AnswersShape DEF HandlePlay
<1>3. given \in Seq(ReplyType) /\ Len(given) = n /\ \A k \in 1..n : given[k] = Answers[k]
  BY <1>2
<1>4. out \in Seq(ReplyType) /\ player_loaded_sent \in BOOLEAN
  BY DEF TypeInv
<1> HIDE DEF given
<1>5. /\ out' \in Seq(ReplyType) /\ Len(out') = Len(out) + n
      /\ \A k \in 1..Len(out) : out'[k] = out[k]
      /\ \A k \in 1..n : out'[Len(out) + k] = given[k]
  BY <1>1, <1>3, <1>4, ConcatProperties DEF given
<1>6. player_loaded_sent' <=>
         player_loaded_sent \/ \E k \in 1..n : Answers[k].kind = "player_loaded"
  BY <1>1, <1>3, <1>4 DEF given
<1>7. connected' <=> n = Len(Answers)
  BY <1>1
<1>8. \A k \in 1..n : out'[Len(out) + k] = Answers[k]
  BY <1>3, <1>5
<1>9. ServerHears(given)
  BY <1>1 DEF given
<1>10. IF n = 0 \/ Answers[1].kind \notin {"confirm", "echo"} THEN UNCHANGED server
       ELSE IF Answers[1].kind = "confirm"
            THEN ServerHearsConfirm(Answers[1].token, Answers[1].position)
            ELSE ServerHearsMovement(Answers[1].position)
  <2>1. CASE n = 0
    <3>1. given = <<>>
      BY <1>3, <2>1
    <3> QED
      BY <1>9, <2>1, <3>1 DEF ServerHears
  <2>2. CASE n # 0
    <3>1. given # <<>> /\ given[1] = Answers[1]
      BY <1>2, <1>3, <2>2
    <3> QED
      BY <1>9, <2>2, <3>1 DEF ServerHears
  <2> QED
    BY <2>1, <2>2
<1>11. Handles(n)
  BY <1>5, <1>6, <1>7, <1>8, <1>10, Zenon DEF Handles
<1> QED
  BY <1>11

\* A movement that arrives keeps the types of what the server knows.
LEMMA MovementType ==
    ASSUME TypeInv, NEW pos \in Position, ServerHearsMovement(pos)
    PROVE  position' \in Position /\ awaited' \in {0} \cup Teleports /\ astray' \subseteq Axis
<1>1. awaited # 0 => sent[awaited].relative \subseteq Axis
  <2>1. awaited # 0 => awaited \in 1..Len(sent)
    BY DEF TypeInv, Teleports
  <2>2. awaited # 0 => sent[awaited] \in SentType
    BY <2>1 DEF TypeInv
  <2> QED
    BY <2>2 DEF SentType
<1> QED
  BY <1>1 DEF TypeInv, ServerHearsMovement

\* So do the answers of handle_play.
LEMMA HandleType ==
    ASSUME TypeInv, HandlePlay
    PROVE  position' \in Position /\ awaited' \in {0} \cup Teleports /\ astray' \subseteq Axis
<1>1. PICK n \in 0..Len(Answers) : Handles(n)
  BY HandleFacts
<1>2. Answers \in Seq(ReplyType) /\ Len(Answers) \in Nat
  BY AnswersShape DEF HandlePlay
<1>3. n # 0 => Answers[1].position \in Position
  <2>1. n # 0 => Answers[1] \in ReplyType
    BY <1>2
  <2> QED
    BY <2>1 DEF ReplyType
<1>4. CASE UNCHANGED server
  BY <1>4 DEF server, TypeInv
<1>5. CASE n # 0 /\ ServerHearsConfirm(Answers[1].token, Answers[1].position)
  BY <1>3, <1>5 DEF ServerHearsConfirm, server, TypeInv
<1>6. CASE n # 0 /\ ServerHearsMovement(Answers[1].position)
  BY <1>3, <1>6, MovementType
<1> QED
  BY <1>1, <1>4, <1>5, <1>6 DEF Handles

\* From 107 on the server hears only the confirmation of the teleport shown, and
\* it does when every answer is sent.
LEMMA HandleHeard ==
    ASSUME TypeInv, SentInv, HandlePlay, has_teleport_id
    PROVE  \/ /\ UNCHANGED server
              /\ AutoConfirm /\ connected' => polled \notin Teleports
           \/ /\ AutoConfirm /\ polled \in Teleports
              /\ \/ polled # awaited /\ UNCHANGED server
                 \/ /\ polled = awaited /\ awaited' = 0
                    /\ \/ UNCHANGED <<position, astray>>
                       \/ confirm_has_position /\ position' = absolute /\ astray' = {}
<1>0. pc = "callback"
  BY DEF HandlePlay
<1>1. PICK n \in 0..Len(Answers) : Handles(n)
  BY HandleFacts
<1>2. /\ Answers \in Seq(ReplyType) /\ Len(Answers) \in Nat
      /\ \A k \in 1..Len(Answers) :
           /\ Answers[k].kind = "echo" => ~has_teleport_id
           /\ Answers[k].kind = "confirm" =>
                /\ has_teleport_id /\ "TELEPORT" \in Replies /\ Tracked
                /\ Answers[k].token = packet.token
                /\ confirm_has_position => Answers[k].position = absolute
      /\ Tracked /\ has_teleport_id /\ "TELEPORT" \in Replies =>
           Len(Answers) >= 1 /\ Answers[1].kind = "confirm"
  BY <1>0, AnswersShape
<1>3. /\ packet = sent[polled]
      /\ packet.kind = "player_position" <=> polled \in Teleports
  BY <1>0, PacketType
<1>4. AutoConfirm => (Tracked <=> polled \in Teleports)
  BY <1>3 DEF AutoConfirm, Tracked
<1>5. CASE n = 0 \/ Answers[1].kind # "confirm"
  <2>1. n # 0 => Answers[1].kind # "echo"
    BY <1>2
  <2>2. UNCHANGED server
    BY <1>1, <1>5, <2>1 DEF Handles
  <2>3. AutoConfirm /\ connected' => polled \notin Teleports
    <3>1. connected' => n = Len(Answers)
      BY <1>1 DEF Handles
    <3> QED
      BY <1>2, <1>4, <1>5, <3>1 DEF AutoConfirm
  <2> QED
    BY <2>2, <2>3
<1>6. CASE n # 0 /\ Answers[1].kind = "confirm"
  <2>1. 1 \in 1..Len(Answers)
    BY <1>2, <1>6
  <2>2. /\ AutoConfirm /\ Tracked /\ Answers[1].token = packet.token
        /\ confirm_has_position => Answers[1].position = absolute
    BY <1>2, <1>6, <2>1 DEF AutoConfirm
  <2>3. polled \in Teleports /\ packet.token = polled
    BY <1>3, <1>4, <2>2 DEF SentInv
  <2>4. ServerHearsConfirm(Answers[1].token, Answers[1].position)
    BY <1>1, <1>6 DEF Handles
  <2>5. Answers[1].token = polled
    BY <2>2, <2>3
  <2>6. CASE polled # awaited
    BY <2>2, <2>3, <2>4, <2>5, <2>6 DEF ServerHearsConfirm
  <2>7. CASE polled = awaited
    <3>1. /\ awaited' = 0
          /\ \/ UNCHANGED <<position, astray>>
             \/ confirm_has_position /\ position' = Answers[1].position /\ astray' = {}
      BY <2>4, <2>5, <2>7 DEF ServerHearsConfirm
    <3> QED
      BY <2>2, <2>3, <2>7, <3>1
  <2> QED
    BY <2>6, <2>7
<1> QED
  BY <1>5, <1>6

\* A movement is one more packet sent, and the server refuses it while it waits
\* for a confirmation.
LEMMA MoveFacts ==
    ASSUME TypeInv, SendPlayerPosition
    PROVE  /\ out' \in Seq(ReplyType) /\ Len(out') = Len(out) + 1
           /\ \A k \in 1..Len(out) : out'[k] = out[k]
           /\ out'[Len(out) + 1].kind = "movement"
           /\ tracked_position' \in Position /\ tracked_position_valid'
           /\ position' \in Position /\ awaited' \in {0} \cup Teleports /\ astray' \subseteq Axis
           /\ connected /\ UNCHANGED <<connected, player_loaded_sent, pc, sent, polled>>
           /\ awaited = 0 => position' = tracked_position' /\ awaited' = 0
           /\ awaited # 0 /\ has_teleport_id =>
                /\ UNCHANGED <<position, awaited>>
                /\ astray' = astray \cup sent[awaited].relative
<1>1. PICK pos \in [Axis -> Coord] :
         /\ MovementSent(pos)
         /\ tracked_position' = pos /\ tracked_position_valid' = TRUE
  BY DEF SendPlayerPosition
<1>2. pos \in Position
  BY CoordType
<1>3. Reply("movement", 0, pos) \in ReplyType /\ Reply("movement", 0, pos).kind = "movement"
  BY <1>2 DEF Reply, ReplyType, ReplyKind
<1>4. /\ out' \in Seq(ReplyType) /\ Len(out') = Len(out) + 1
      /\ \A k \in 1..Len(out) : out'[k] = out[k]
      /\ out'[Len(out) + 1].kind = "movement"
  <2>1. out' = Append(out, Reply("movement", 0, pos))
    BY <1>1 DEF MovementSent
  <2> QED
    BY <1>3, <2>1 DEF TypeInv
<1>5. ServerHearsMovement(pos)
  BY <1>1 DEF MovementSent
<1>6. position' \in Position /\ awaited' \in {0} \cup Teleports /\ astray' \subseteq Axis
  BY <1>2, <1>5, MovementType
<1>7. /\ awaited = 0 => position' = pos /\ awaited' = 0
      /\ awaited # 0 /\ has_teleport_id =>
           /\ UNCHANGED <<position, awaited>>
           /\ astray' = astray \cup sent[awaited].relative
  BY <1>5 DEF ServerHearsMovement
<1>8. connected /\ UNCHANGED <<connected, player_loaded_sent, pc, sent, polled>>
  BY <1>1 DEF MovementSent
<1> QED
  BY <1>1, <1>2, <1>4, <1>6, <1>7, <1>8

\* A packet of the server is one more packet under way.
Grown ==
    /\ connected /\ UNCHANGED <<client, pc, out, polled>>
    /\ sent' \in Seq(SentType) /\ Len(sent') = Len(sent) + 1
    /\ \A i \in 1..Len(sent) : sent'[i] = sent[i]

\* The packets that are no teleports.
LEMMA SimpleFacts ==
    ASSUME TypeInv, ServerSendsKeepAlive \/ ServerSendsBatchFinished
    PROVE  Grown /\ UNCHANGED server /\ Teleports' = Teleports /\ Pending' = Pending
<1>1. PICK kind \in {"keep_alive", "chunk_batch_finished"}, token \in Nat \cup Token :
        Sends(Simple(kind, token)) /\ UNCHANGED server
  BY DEF ServerSendsKeepAlive, ServerSendsBatchFinished
<1> DEFINE pkt == Simple(kind, token)
<1>2. pkt \in SentType /\ pkt.kind # "player_position"
  BY OriginType DEF Simple, Packet, SentType, SentKind, TypeInv
<1>3. /\ connected /\ UNCHANGED <<client, pc, out, polled>>
      /\ sent' = Append(sent, pkt)
  BY <1>1 DEF Sends
<1> HIDE DEF pkt
<1>4. /\ sent' \in Seq(SentType) /\ Len(sent') = Len(sent) + 1 /\ Len(sent) \in Nat
      /\ \A i \in 1..Len(sent) : sent'[i] = sent[i]
      /\ sent'[Len(sent) + 1] = pkt
  BY <1>2, <1>3 DEF TypeInv
<1>5. Teleports' = Teleports
  BY <1>2, <1>4 DEF Teleports
<1>6. Pending' = Pending
  BY <1>3, <1>5 DEF Pending
<1> QED
  BY <1>1, <1>3, <1>4, <1>5, <1>6 DEF Grown

\* A teleport is numbered by its place, counts from where the server had put the
\* player, and is the one whose confirmation the server waits for.
LEMMA TeleportFacts ==
    ASSUME TypeInv, ServerSendsTeleport
    PROVE  LET n == Len(sent) + 1 IN
           /\ Grown
           /\ Teleports' = Teleports \cup {n} /\ Pending' = Pending \cup {n}
           /\ n \in Nat /\ n \notin Teleports /\ \A i \in Teleports : i < n
           /\ sent'[n].token = n /\ sent'[n].relative \subseteq Axis
           /\ awaited' = n /\ position' = sent'[n].target /\ position' \in Position
           /\ astray' = astray \cap sent'[n].relative
           /\ \A a \in Axis : sent'[n].target[a] =
                IF a \in sent'[n].relative THEN sent'[n].position[a] + position[a]
                                           ELSE sent'[n].position[a]
<1> DEFINE n == Len(sent) + 1
<1>1. PICK relative \in SUBSET Axis, pos \in [Axis -> Coord] :
      LET target == Resolve([relative |-> relative, position |-> pos], position)
      IN /\ Sends(Packet("player_position", n, relative, pos, target))
         /\ position' = target
         /\ awaited' = n
         /\ astray' = astray \cap relative
  BY DEF ServerSendsTeleport
<1> DEFINE target == Resolve([relative |-> relative, position |-> pos], position)
           pkt == Packet("player_position", n, relative, pos, target)
<1>2. n \in Nat /\ pos \in Position /\ Len(sent) \in Nat /\ polled \in Nat /\ polled < n
  BY CoordType DEF TypeInv
<1>3. /\ target \in Position
      /\ \A a \in Axis : target[a] = IF a \in relative THEN pos[a] + position[a] ELSE pos[a]
  <2>1. [relative |-> relative, position |-> pos].position \in Position
    BY <1>2
  <2> QED
    BY <2>1, ResolveType DEF TypeInv
<1>4. /\ connected /\ UNCHANGED <<client, pc, out, polled>> /\ sent' = Append(sent, pkt)
      /\ position' = target /\ awaited' = n /\ astray' = astray \cap relative
  BY <1>1 DEF Sends
<1> HIDE DEF target
<1>5. /\ pkt \in SentType /\ pkt.kind = "player_position" /\ pkt.token = n
      /\ pkt.relative = relative /\ pkt.position = pos /\ pkt.target = target
  BY <1>2, <1>3 DEF Packet, SentType, SentKind
<1> HIDE DEF pkt
<1>6. /\ sent' \in Seq(SentType) /\ Len(sent') = n
      /\ \A i \in 1..Len(sent) : sent'[i] = sent[i]
      /\ sent'[n] = pkt
  BY <1>2, <1>4, <1>5 DEF TypeInv
<1>7. Teleports' = Teleports \cup {n} /\ n \notin Teleports /\ \A i \in Teleports : i < n
  BY <1>2, <1>5, <1>6 DEF Teleports
<1>8. Pending' = Pending \cup {n}
  BY <1>2, <1>4, <1>7 DEF Pending
<1>9. Grown
  BY <1>4, <1>6 DEF Grown
<1> QED
  BY <1>2, <1>3, <1>4, <1>5, <1>6, <1>7, <1>8, <1>9

\* Every step keeps the types.
LEMMA TypeStep == TypeInv /\ [Next]_vars => TypeInv'
<1> SUFFICES ASSUME TypeInv, [Next]_vars PROVE TypeInv'
  OBVIOUS
<1> USE DEF client, tracking
<1>0. sent' = sent => Teleports' = Teleports
  BY DEF Teleports
<1>1. CASE Open
  <2>1. /\ connected' \in BOOLEAN /\ player_loaded_sent' \in BOOLEAN
        /\ out' = <<>> /\ sent' = <<>> /\ polled' = 0 /\ pc' = "idle"
        /\ awaited' = 0 /\ astray' = Axis /\ position' \in [Axis -> Coord]
        /\ UNCHANGED tracking
    BY <1>1 DEF Open, Opened
  <2>2. position' \in Position
    BY <2>1, CoordType
  <2> QED
    BY <2>1, <2>2 DEF TypeInv
<1>2. CASE Disconnect
  <2>1. connected' \in BOOLEAN
        /\ UNCHANGED <<tracking, player_loaded_sent, pc, out, sent, polled, server>>
    BY <1>2 DEF Disconnect
  <2> QED
    BY <1>0, <2>1 DEF TypeInv, server
<1>3. CASE ServerSendsKeepAlive \/ ServerSendsBatchFinished
  <2>1. Grown /\ UNCHANGED server /\ Teleports' = Teleports
    BY <1>3, SimpleFacts
  <2> QED
    BY <2>1 DEF TypeInv, Grown, server
<1>4. CASE ServerSendsTeleport
  <2>1. /\ Grown /\ position' \in Position /\ astray' \subseteq Axis
        /\ awaited' \in {0} \cup Teleports'
    BY <1>4, TeleportFacts DEF TypeInv
  <2> QED
    BY <2>1 DEF TypeInv, Grown
<1>5. CASE Poll
  <2>1. /\ UNCHANGED <<client, out, sent, server>> /\ pc' = "callback"
        /\ polled < Len(sent) /\ polled' = polled + 1
    BY <1>5 DEF Poll
  <2> QED
    BY <1>0, <2>1 DEF TypeInv, server
<1>6. CASE SendPlayerPosition
  <2>1. /\ out' \in Seq(ReplyType) /\ tracked_position' \in Position
        /\ tracked_position_valid' \in BOOLEAN
        /\ position' \in Position /\ awaited' \in {0} \cup Teleports /\ astray' \subseteq Axis
        /\ UNCHANGED <<connected, player_loaded_sent, pc, sent, polled>>
    <3>1. tracked_position_valid' = TRUE
      BY <1>6 DEF SendPlayerPosition
    <3> QED
      BY <1>6, <3>1, MoveFacts
  <2> QED
    BY <1>0, <2>1 DEF TypeInv
<1>7. CASE HandlePlay
  <2>1. out' \in Seq(ReplyType)
    BY <1>7, HandleFacts DEF Handles
  <2>2. connected' \in BOOLEAN /\ player_loaded_sent' \in BOOLEAN
    BY <1>7 DEF HandlePlay
  <2>3. tracked_position' \in Position /\ tracked_position_valid' \in BOOLEAN
    <3>1. tracked_position' \in Position
      BY <1>7, AbsoluteType DEF HandlePlay, TypeInv
    <3>2. tracked_position_valid' \in BOOLEAN
      BY <1>7 DEF HandlePlay
    <3> QED
      BY <3>1, <3>2
  <2>4. pc' = "idle" /\ UNCHANGED <<sent, polled>>
    BY <1>7 DEF HandlePlay
  <2>5. position' \in Position /\ awaited' \in {0} \cup Teleports /\ astray' \subseteq Axis
    BY <1>7, HandleType
  <2> QED
    BY <1>0, <2>1, <2>2, <2>3, <2>4, <2>5 DEF TypeInv
<1>8. CASE NotHandled
  BY <1>0, <1>8 DEF NotHandled, TypeInv, server
<1>9. CASE UNCHANGED vars
  BY <1>0, <1>9 DEF vars, TypeInv, server
<1> QED
  BY <1>1, <1>2, <1>3, <1>4, <1>5, <1>6, <1>7, <1>8, <1>9 DEF Next

\* Every step keeps the teleports numbered by their places.
LEMMA SentStep == TypeInv /\ SentInv /\ [Next]_vars => SentInv'
<1> SUFFICES ASSUME TypeInv, SentInv, [Next]_vars PROVE SentInv'
  OBVIOUS
<1> USE DEF client, tracking
<1>0. ASSUME sent' = sent,
             ~tracked_position_valid' => ~tracked_position_valid /\ tracked_position' = tracked_position
      PROVE  SentInv'
  BY <1>0 DEF SentInv, Teleports, Origin
<1>1. CASE Open
  <2>1. sent' = <<>> /\ UNCHANGED tracking
    BY <1>1 DEF Open, Opened
  <2> QED
    BY <2>1 DEF SentInv, Teleports, Origin
<1>2. CASE Disconnect \/ Poll \/ NotHandled \/ UNCHANGED vars
  <2>1. UNCHANGED <<sent, tracking>>
    BY <1>2 DEF Disconnect, Poll, NotHandled, vars
  <2> QED
    BY <1>0, <2>1
<1>3. CASE ServerSendsKeepAlive \/ ServerSendsBatchFinished
  <2>1. /\ UNCHANGED tracking /\ Teleports' = Teleports
        /\ \A i \in Teleports : sent'[i] = sent[i]
    BY <1>3, SimpleFacts DEF Grown, Teleports
  <2> QED
    BY <2>1 DEF SentInv, Origin
<1>4. CASE ServerSendsTeleport
  <2> DEFINE n == Len(sent) + 1
  <2>1. /\ UNCHANGED tracking /\ Teleports' = Teleports \cup {n}
        /\ \A i \in Teleports : sent'[i] = sent[i]
        /\ sent'[n].token = n
        /\ \A a \in Axis \ sent'[n].relative : sent'[n].target[a] = sent'[n].position[a]
    BY <1>4, TeleportFacts DEF Grown, Teleports
  <2> HIDE DEF n
  <2> QED
    BY <2>1 DEF SentInv, Origin
<1>5. CASE SendPlayerPosition
  BY <1>0, <1>5, MoveFacts
<1>6. CASE HandlePlay
  BY <1>0, <1>6 DEF HandlePlay
<1> QED
  BY <1>1, <1>2, <1>3, <1>4, <1>5, <1>6 DEF Next

\* What a step leaves alone when it neither adds nor handles a teleport.
LEMMA Still ==
    ASSUME AwaitInv, ChainInv, BaseInv, connected' => connected,
           Pending' = Pending, Teleports' = Teleports,
           \A i \in Teleports : sent'[i] = sent[i],
           UNCHANGED <<position, awaited, astray, tracked_position>>
    PROVE  AwaitInv' /\ ChainInv' /\ BaseInv'
<1> SUFFICES ASSUME AutoConfirm, connected' PROVE AwaitInv' /\ ChainInv' /\ BaseInv'
  BY DEF AwaitInv, ChainInv, BaseInv, AutoConfirm, has_teleport_id
<1>1. Pending \subseteq Teleports
  BY DEF Pending
<1>2. AwaitInv'
  BY <1>1 DEF AwaitInv
<1>3. ChainInv'
  BY <1>1 DEF ChainInv
<1>4. BaseInv'
  BY <1>1 DEF BaseInv
<1> QED
  BY <1>2, <1>3, <1>4

\* The teleport being handled is the first pending one, and what it is resolved
\* to is its target on every axis that is not astray, unless a later teleport
\* states that axis.
LEMMA ResolvedToTarget ==
    ASSUME TypeInv, SentInv, BaseInv, AutoConfirm, connected, pc = "callback", polled \in Teleports
    PROVE  /\ polled \in Pending /\ \A i \in Pending : polled <= i
           /\ \A a \in Axis \ astray :
                \/ \E i \in Pending \ {polled} : a \notin sent[i].relative
                \/ absolute[a] = sent[polled].target[a]
<1>1. polled \in Pending /\ \A i \in Pending : polled <= i
  BY DEF Pending, Teleports, TypeInv
<1>2. packet = sent[polled]
  BY DEF packet
<1>3. ASSUME NEW a \in Axis \ astray
      PROVE  \/ \E i \in Pending \ {polled} : a \notin sent[i].relative
             \/ absolute[a] = sent[polled].target[a]
  <2>1. absolute[a] = IF a \in sent[polled].relative
                      THEN sent[polled].position[a] + tracked_position[a]
                      ELSE sent[polled].position[a]
    BY <1>2, AbsoluteIs
  <2>2. CASE a \notin sent[polled].relative
    BY <2>1, <2>2 DEF SentInv
  <2>3. CASE a \in sent[polled].relative
    BY <1>1, <2>1, <2>3 DEF BaseInv
  <2> QED
    BY <2>2, <2>3
<1> QED
  BY <1>1, <1>3

\* A movement accepted is known to both; one refused leaves only what the awaited
\* teleport states.
LEMMA MoveTracked ==
    ASSUME TypeInv, AwaitInv, ChainInv, BaseInv, SendPlayerPosition
    PROVE  AwaitInv' /\ ChainInv' /\ BaseInv'
<1> SUFFICES ASSUME AutoConfirm, connected' PROVE AwaitInv' /\ ChainInv' /\ BaseInv'
  BY DEF AwaitInv, ChainInv, BaseInv, AutoConfirm, has_teleport_id
<1>1. /\ connected /\ UNCHANGED <<connected, pc, sent, polled>>
      /\ awaited = 0 => position' = tracked_position' /\ awaited' = 0
      /\ awaited # 0 =>
           /\ UNCHANGED <<position, awaited>>
           /\ astray' = astray \cup sent[awaited].relative
  BY MoveFacts DEF AutoConfirm
<1>2. Teleports' = Teleports /\ Pending' = Pending /\ sent' = sent
  BY <1>1 DEF Teleports, Pending
<1>3. CASE awaited = 0
  <2>1. Pending = {}
    BY <1>1, <1>3 DEF AwaitInv
  <2> QED
    BY <1>1, <1>2, <1>3, <2>1 DEF AwaitInv, ChainInv, BaseInv
<1>4. CASE awaited # 0
  <2>1. AwaitInv'
    BY <1>1, <1>2, <1>4 DEF AwaitInv
  <2>2. ChainInv'
    BY <1>1, <1>2 DEF ChainInv
  <2>3. awaited \in Pending /\ \A a \in Axis \ astray' : a \notin sent[awaited].relative
    BY <1>1, <1>4 DEF AwaitInv
  <2>4. BaseInv'
    BY <1>2, <2>3 DEF BaseInv
  <2> QED
    BY <2>1, <2>2, <2>4
<1> QED
  BY <1>3, <1>4

\* A teleport counts from the position of the one before it, or from the one both
\* sides know.
LEMMA TeleportTracked ==
    ASSUME TypeInv, AwaitInv, ChainInv, BaseInv, ServerSendsTeleport
    PROVE  AwaitInv' /\ ChainInv' /\ BaseInv'
<1> SUFFICES ASSUME AutoConfirm, connected' PROVE AwaitInv' /\ ChainInv' /\ BaseInv'
  BY DEF AwaitInv, ChainInv, BaseInv, AutoConfirm, has_teleport_id
<1> DEFINE n == Len(sent) + 1
<1>1. /\ connected /\ tracked_position' = tracked_position
      /\ Teleports' = Teleports \cup {n} /\ Pending' = Pending \cup {n}
      /\ n \in Nat /\ n # 0 /\ n \notin Teleports /\ \A i \in Teleports : i < n
      /\ sent'[n].relative \subseteq Axis
      /\ awaited' = n /\ position' = sent'[n].target
      /\ astray' = astray \cap sent'[n].relative
      /\ \A a \in Axis : a \in sent'[n].relative =>
           sent'[n].target[a] = sent'[n].position[a] + position[a]
      /\ \A i \in Teleports : sent'[i] = sent[i]
  <2>1. n # 0 /\ Teleports \subseteq 1..Len(sent)
    BY DEF Teleports, TypeInv
  <2> HIDE DEF n
  <2> QED
    BY <2>1, TeleportFacts DEF Grown, client, tracking, n
<1> HIDE DEF n
<1>2. Pending \subseteq Teleports /\ n \notin Pending /\ \A i \in Pending : i < n /\ i \in Nat
  BY <1>1 DEF Pending, Teleports
<1>3. /\ awaited = 0 => Pending = {}
      /\ awaited # 0 => /\ awaited \in Pending
                        /\ \A i \in Teleports : i <= awaited
                        /\ position = sent[awaited].target
  BY <1>1 DEF AwaitInv
<1>4. AwaitInv'
  <2>1. n \in Pending' /\ \A i \in Teleports' : i <= n
    <3>1. \A i \in Teleports : i \in Nat
      BY DEF Teleports
    <3> QED
      BY <1>1, <3>1
  <2> QED
    BY <1>1, <2>1 DEF AwaitInv
<1>5. ASSUME NEW j \in Pending', NEW k \in Pending', j < k,
             \A i \in Pending' : i <= j \/ k <= i, NEW a \in sent'[k].relative
      PROVE  sent'[k].target[a] = sent'[k].position[a] + sent'[j].target[a]
  <2>1. j \in Pending
    BY <1>1, <1>2, <1>5
  <2>2. CASE k \in Pending
    <3>1. \A i \in Pending : i <= j \/ k <= i
      BY <1>1, <1>5
    <3>2. sent'[k] = sent[k] /\ sent'[j] = sent[j]
      BY <1>1, <1>2, <2>1, <2>2
    <3> QED
      BY <1>1, <1>5, <2>1, <2>2, <3>1, <3>2 DEF ChainInv
  <2>3. CASE k = n
    <3>1. awaited # 0 /\ awaited \in Pending
      BY <1>3, <2>1
    <3>2. awaited = j
      <4>1. awaited <= j \/ n <= awaited
        BY <1>1, <1>5, <2>3, <3>1
      <4>2. j <= awaited /\ awaited < n /\ awaited \in Nat /\ j \in Nat
        BY <1>2, <1>3, <2>1, <3>1
      <4> QED
        BY <1>1, <4>1, <4>2
    <3>3. position = sent'[j].target
      BY <1>1, <1>2, <1>3, <2>1, <3>1, <3>2
    <3> QED
      BY <1>1, <1>5, <2>3, <3>3
  <2> QED
    BY <1>1, <1>5, <2>2, <2>3
<1>6. ChainInv'
  BY <1>5 DEF ChainInv
<1>7. ASSUME NEW a \in Axis \ astray'
      PROVE  \/ \E i \in Pending' : a \notin sent'[i].relative
             \/ /\ Pending' = {} => tracked_position'[a] = position'[a]
                /\ \A k \in Pending' : (\A i \in Pending' : k <= i) =>
                     sent'[k].target[a] = sent'[k].position[a] + tracked_position'[a]
  <2>1. CASE a \notin sent'[n].relative
    BY <1>1, <2>1
  <2>2. CASE a \in sent'[n].relative
    <3>1. a \notin astray
      BY <1>1, <1>7, <2>2
    <3>2. CASE \E i \in Pending : a \notin sent[i].relative
      BY <1>1, <1>2, <3>2
    <3>3. CASE ~\E i \in Pending : a \notin sent[i].relative
      <4>1. /\ Pending = {} => tracked_position[a] = position[a]
            /\ \A k \in Pending : (\A i \in Pending : k <= i) =>
                 sent[k].target[a] = sent[k].position[a] + tracked_position[a]
        BY <1>1, <1>7, <3>1, <3>3 DEF BaseInv
      <4>2. ASSUME NEW k \in Pending', \A i \in Pending' : k <= i
            PROVE  sent'[k].target[a] = sent'[k].position[a] + tracked_position[a]
        <5>1. CASE k \in Pending
          <6>1. \A i \in Pending : k <= i
            BY <1>1, <4>2
          <6>2. sent'[k] = sent[k]
            BY <1>1, <1>2, <5>1
          <6> QED
            BY <4>1, <5>1, <6>1, <6>2
        <5>2. CASE k = n
          <6>1. Pending = {}
            <7>1. \A i \in Pending : n <= i /\ i < n /\ i \in Nat
              BY <1>1, <1>2, <4>2, <5>2
            <7> QED
              BY <1>1, <7>1
          <6> QED
            BY <1>1, <2>2, <4>1, <5>2, <6>1
        <5> QED
          BY <1>1, <4>2, <5>1, <5>2
      <4> QED
        BY <1>1, <4>2
    <3> QED
      BY <3>2, <3>3
  <2> QED
    BY <2>1, <2>2
<1>8. BaseInv'
  BY <1>7 DEF BaseInv
<1> QED
  BY <1>4, <1>6, <1>8

\* A teleport handled leaves the tracked position where the next one counts from.
LEMMA HandleTracked ==
    ASSUME TypeInv, SentInv, AwaitInv, ChainInv, BaseInv, HandlePlay
    PROVE  AwaitInv' /\ ChainInv' /\ BaseInv'
<1> SUFFICES ASSUME AutoConfirm, connected' PROVE AwaitInv' /\ ChainInv' /\ BaseInv'
  BY DEF AwaitInv, ChainInv, BaseInv, AutoConfirm, has_teleport_id
<1>1. /\ connected /\ pc = "callback" /\ pc' = "idle" /\ UNCHANGED <<sent, polled>>
      /\ tracked_position' = IF Tracked THEN absolute ELSE tracked_position
  BY DEF HandlePlay
<1>2. Teleports' = Teleports /\ sent' = sent
  BY <1>1 DEF Teleports
<1>3. Pending' = Pending \ {polled}
  BY <1>1, <1>2 DEF Pending, Teleports, TypeInv
<1>4. has_teleport_id /\ (Tracked <=> polled \in Teleports)
  BY <1>1, PacketType DEF AutoConfirm, Tracked
<1>5. CASE polled \notin Teleports
  <2>1. UNCHANGED <<position, awaited, astray>>
    BY <1>4, <1>5, HandleHeard DEF server
  <2>2. Pending' = Pending
    BY <1>3, <1>5 DEF Pending
  <2>3. tracked_position' = tracked_position
    BY <1>1, <1>4, <1>5
  <2> QED
    BY <1>1, <1>2, <2>1, <2>2, <2>3, Still
<1>6. CASE polled \in Teleports
  <2>1. /\ polled \in Pending /\ \A i \in Pending : polled <= i
        /\ \A a \in Axis \ astray :
             \/ \E i \in Pending \ {polled} : a \notin sent[i].relative
             \/ tracked_position'[a] = sent[polled].target[a]
    BY <1>1, <1>4, <1>6, ResolvedToTarget
  <2>2. /\ awaited # 0 /\ awaited \in Pending
        /\ \A i \in Teleports : i <= awaited
        /\ position = sent[awaited].target
    BY <1>1, <2>1 DEF AwaitInv
  <2>3. Pending \subseteq Nat /\ Pending \subseteq Teleports
    BY DEF Pending, Teleports
  <2>4. ChainInv'
    <3> SUFFICES ASSUME NEW j \in Pending', NEW k \in Pending', j < k,
                        \A i \in Pending' : i <= j \/ k <= i, NEW a \in sent[k].relative
                 PROVE  sent[k].target[a] = sent[k].position[a] + sent[j].target[a]
      BY <1>2 DEF ChainInv
    <3>1. j \in Pending /\ k \in Pending /\ \A i \in Pending : i <= j \/ k <= i
      BY <1>3, <2>1
    <3> QED
      BY <1>1, <3>1 DEF ChainInv
  <2>5. CASE polled # awaited
    <3>1. UNCHANGED <<position, awaited, astray>>
      BY <1>4, <1>6, <2>5, HandleHeard DEF server
    <3>2. AwaitInv'
      BY <1>2, <1>3, <2>2, <2>5, <3>1 DEF AwaitInv
    <3>3. ASSUME NEW a \in Axis \ astray
          PROVE  \/ \E i \in Pending' : a \notin sent[i].relative
                 \/ \A k \in Pending' : (\A i \in Pending' : k <= i) =>
                      sent[k].target[a] = sent[k].position[a] + tracked_position'[a]
      <4> SUFFICES ASSUME \A i \in Pending' : a \in sent[i].relative,
                          NEW k \in Pending', \A i \in Pending' : k <= i
                   PROVE  sent[k].target[a] = sent[k].position[a] + tracked_position'[a]
        OBVIOUS
      <4>1. tracked_position'[a] = sent[polled].target[a] /\ a \in sent[k].relative
        BY <1>3, <2>1
      <4>2. k \in Pending /\ polled < k /\ \A i \in Pending : i <= polled \/ k <= i
        BY <1>3, <2>1, <2>3
      <4> QED
        BY <1>1, <2>1, <4>1, <4>2 DEF ChainInv
    <3>4. Pending' # {}
      BY <1>3, <2>2, <2>5
    <3>5. BaseInv'
      BY <1>2, <3>1, <3>3, <3>4 DEF BaseInv
    <3> QED
      BY <2>4, <3>2, <3>5
  <2>6. CASE polled = awaited
    <3>1. Pending' = {}
      <4>1. \A i \in Pending : i = polled
        BY <2>1, <2>2, <2>3, <2>6
      <4> QED
        BY <1>3, <4>1
    <3>2. /\ awaited' = 0
          /\ \/ UNCHANGED <<position, astray>>
             \/ position' = absolute /\ astray' = {}
      BY <1>4, <1>6, <2>6, HandleHeard
    <3>3. AwaitInv'
      BY <3>1, <3>2 DEF AwaitInv
    <3>4. \A a \in Axis \ astray' : tracked_position'[a] = position'[a]
      <4>1. CASE UNCHANGED <<position, astray>>
        BY <1>3, <2>1, <2>2, <2>6, <3>1, <4>1
      <4>2. CASE position' = absolute
        BY <1>1, <1>4, <1>6, <4>2
      <4> QED
        BY <3>2, <4>1, <4>2
    <3>5. BaseInv'
      BY <3>1, <3>4 DEF BaseInv
    <3> QED
      BY <2>4, <3>3, <3>5
  <2> QED
    BY <2>5, <2>6
<1> QED
  BY <1>5, <1>6

\* Every step keeps the tracked position, the teleports under way and the
\* server's position together.
LEMMA TrackStep ==
    TypeInv /\ SentInv /\ AwaitInv /\ ChainInv /\ BaseInv /\ [Next]_vars
      => AwaitInv' /\ ChainInv' /\ BaseInv'
<1> SUFFICES ASSUME TypeInv, SentInv, AwaitInv, ChainInv, BaseInv, [Next]_vars
             PROVE  AwaitInv' /\ ChainInv' /\ BaseInv'
  OBVIOUS
<1> USE DEF client, tracking, server
<1>1. CASE Open
  <2>1. sent' = <<>> /\ awaited' = 0 /\ astray' = Axis
    BY <1>1 DEF Open, Opened
  <2>2. Pending' = {}
    BY <2>1 DEF Pending, Teleports
  <2> QED
    BY <2>1, <2>2 DEF AwaitInv, ChainInv, BaseInv
<1>2. CASE Disconnect \/ NotHandled
  <2>1. ~connected'
    BY <1>2 DEF Disconnect, NotHandled
  <2> QED
    BY <2>1 DEF AwaitInv, ChainInv, BaseInv
<1>3. CASE ServerSendsKeepAlive \/ ServerSendsBatchFinished
  <2>1. /\ UNCHANGED <<connected, tracked_position, position, awaited, astray>>
        /\ Teleports' = Teleports /\ Pending' = Pending
        /\ \A i \in Teleports : sent'[i] = sent[i]
    BY <1>3, SimpleFacts DEF Grown, Teleports
  <2> QED
    BY <2>1, Still
<1>4. CASE ServerSendsTeleport
  BY <1>4, TeleportTracked
<1>5. CASE Poll
  <2>1. /\ UNCHANGED <<connected, tracked_position, position, awaited, astray, sent>>
        /\ pc = "idle" /\ pc' = "callback" /\ polled' = polled + 1
    BY <1>5 DEF Poll
  <2>2. Teleports' = Teleports
    BY <2>1 DEF Teleports
  <2>3. Pending' = Pending
    BY <2>1, <2>2 DEF Pending, Teleports, TypeInv
  <2> QED
    BY <2>1, <2>2, <2>3, Still
<1>6. CASE SendPlayerPosition
  BY <1>6, MoveTracked
<1>7. CASE HandlePlay
  BY <1>7, HandleTracked
<1>8. CASE UNCHANGED vars
  <2>1. UNCHANGED <<connected, tracked_position, position, awaited, astray, sent, pc, polled>>
    BY <1>8 DEF vars
  <2>2. Teleports' = Teleports /\ Pending' = Pending
    BY <2>1 DEF Teleports, Pending
  <2> QED
    BY <2>1, <2>2, Still
<1> QED
  BY <1>1, <1>2, <1>3, <1>4, <1>5, <1>6, <1>7, <1>8 DEF Next

\* A step that sends no confirmation, handles no teleport to the end and at most
\* takes one more packet, or adds one under way, disturbs no confirmation.
LEMMA ConfirmQuiet ==
    ASSUME TypeInv, ConfirmInv, out' \in Seq(ReplyType), Len(out') >= Len(out),
           \A k \in 1..Len(out) : out'[k] = out[k],
           \A k \in 1..Len(out') : k > Len(out) => out'[k].kind # "confirm",
           Teleports \subseteq Teleports', \A i \in Teleports : sent'[i] = sent[i],
           Handled' \subseteq Handled,
           \/ polled' = polled /\ (connected' /\ pc' = "callback" => connected /\ pc = "callback")
           \/ polled' = polled + 1
    PROVE  ConfirmInv'
<1> SUFFICES ASSUME AutoConfirm PROVE ConfirmInv'
  BY DEF ConfirmInv, AutoConfirm, has_teleport_id
<1>1. /\ Len(out) \in Nat /\ Len(out') \in Nat /\ polled \in Nat
      /\ \A k \in 1..Len(out') : out'[k].kind = "confirm" =>
           k \in 1..Len(out) /\ out'[k] = out[k]
  BY DEF TypeInv
<1>2. \A k \in 1..Len(out) : k \in 1..Len(out') /\ out'[k] = out[k]
  BY <1>1
<1>3. /\ \A k \in 1..Len(out) : out[k].kind = "confirm" =>
         /\ out[k].token \in Teleports /\ out[k].token <= polled
         /\ connected /\ pc = "callback" => out[k].token < polled
         /\ confirm_has_position =>
              \A a \in Axis \ sent[out[k].token].relative :
                out[k].position[a] = sent[out[k].token].target[a]
      /\ \A j, k \in 1..Len(out) :
         out[j].kind = "confirm" /\ out[k].kind = "confirm" /\ j < k =>
           out[j].token < out[k].token
      /\ \A i \in Handled :
           \E k \in 1..Len(out) : out[k].kind = "confirm" /\ out[k].token = i
  BY DEF ConfirmInv
<1>4. Teleports \subseteq Nat
  BY DEF Teleports
<1>5. \A k \in 1..Len(out') : out'[k].kind = "confirm" =>
         /\ out'[k].token \in Teleports' /\ out'[k].token <= polled'
         /\ connected' /\ pc' = "callback" => out'[k].token < polled'
         /\ confirm_has_position =>
              \A a \in Axis \ sent'[out'[k].token].relative :
                out'[k].position[a] = sent'[out'[k].token].target[a]
  <2> SUFFICES ASSUME NEW k \in 1..Len(out'), out'[k].kind = "confirm"
               PROVE  /\ out'[k].token \in Teleports' /\ out'[k].token <= polled'
                      /\ connected' /\ pc' = "callback" => out'[k].token < polled'
                      /\ confirm_has_position =>
                           \A a \in Axis \ sent'[out'[k].token].relative :
                             out'[k].position[a] = sent'[out'[k].token].target[a]
    OBVIOUS
  <2>1. k \in 1..Len(out) /\ out'[k] = out[k] /\ out[k].token \in Teleports
    BY <1>1, <1>3
  <2>2. out[k].token \in Nat /\ sent'[out[k].token] = sent[out[k].token]
    BY <1>4, <2>1
  <2> QED
    BY <1>1, <1>3, <2>1, <2>2
<1>6. \A j, k \in 1..Len(out') :
         out'[j].kind = "confirm" /\ out'[k].kind = "confirm" /\ j < k =>
           out'[j].token < out'[k].token
  BY <1>1, <1>3
<1>7. \A i \in Handled' :
         \E k \in 1..Len(out') : out'[k].kind = "confirm" /\ out'[k].token = i
  BY <1>2, <1>3
<1> QED
  BY <1>5, <1>6, <1>7 DEF ConfirmInv, confirm_has_position

\* A step that sends one confirmation, of the teleport shown.
LEMMA ConfirmSent ==
    ASSUME TypeInv, ConfirmInv, AutoConfirm, connected, pc = "callback", polled \in Teleports,
           out' \in Seq(ReplyType), Len(out') > Len(out),
           \A k \in 1..Len(out) : out'[k] = out[k],
           \A k \in 1..Len(out') : k > Len(out) + 1 => out'[k].kind # "confirm",
           out'[Len(out) + 1].kind = "confirm",
           out'[Len(out) + 1].token = polled,
           confirm_has_position => \A a \in Axis \ sent[polled].relative :
             out'[Len(out) + 1].position[a] = sent[polled].target[a],
           UNCHANGED <<sent, polled>>, pc' = "idle"
    PROVE  ConfirmInv'
<1>1. /\ Len(out) \in Nat /\ Len(out') \in Nat /\ polled \in Nat
      /\ \A k \in 1..Len(out') : out'[k].kind = "confirm" =>
           \/ k \in 1..Len(out) /\ out'[k] = out[k]
           \/ k = Len(out) + 1
  BY DEF TypeInv
<1>2. \A k \in 1..Len(out) : k \in 1..Len(out') /\ out'[k] = out[k]
  BY <1>1
<1>3. /\ \A k \in 1..Len(out) : out[k].kind = "confirm" =>
         /\ out[k].token \in Teleports /\ out[k].token < polled /\ out[k].token <= polled
         /\ confirm_has_position =>
              \A a \in Axis \ sent[out[k].token].relative :
                out[k].position[a] = sent[out[k].token].target[a]
      /\ \A j, k \in 1..Len(out) :
         out[j].kind = "confirm" /\ out[k].kind = "confirm" /\ j < k =>
           out[j].token < out[k].token
      /\ \A i \in Handled :
           \E k \in 1..Len(out) : out[k].kind = "confirm" /\ out[k].token = i
  BY DEF ConfirmInv
<1>4. Teleports' = Teleports /\ Handled' \subseteq Handled \cup {polled}
  BY DEF Teleports, Handled
<1>5. \A k \in 1..Len(out') : out'[k].kind = "confirm" =>
         /\ out'[k].token \in Teleports /\ out'[k].token <= polled
         /\ confirm_has_position =>
              \A a \in Axis \ sent[out'[k].token].relative :
                out'[k].position[a] = sent[out'[k].token].target[a]
  BY <1>1, <1>3
<1>6. ASSUME NEW j \in 1..Len(out'), NEW k \in 1..Len(out'),
             out'[j].kind = "confirm", out'[k].kind = "confirm", j < k
      PROVE  out'[j].token < out'[k].token
  <2>1. j \in 1..Len(out) /\ out'[j] = out[j]
    BY <1>1, <1>6
  <2>2. CASE k \in 1..Len(out)
    BY <1>2, <1>3, <1>6, <2>1, <2>2
  <2>3. CASE k = Len(out) + 1
    BY <1>1, <1>3, <1>6, <2>1, <2>3
  <2> QED
    BY <1>1, <1>6, <2>2, <2>3
<1>7. ASSUME NEW i \in Handled'
      PROVE  \E k \in 1..Len(out') : out'[k].kind = "confirm" /\ out'[k].token = i
  <2>1. CASE i \in Handled
    BY <1>2, <1>3, <2>1
  <2>2. CASE i = polled
    <3>1. Len(out) + 1 \in 1..Len(out')
      BY <1>1
    <3> QED
      BY <2>2, <3>1
  <2> QED
    BY <1>4, <1>7, <2>1, <2>2
<1> QED
  BY <1>4, <1>5, <1>6, <1>7 DEF ConfirmInv, confirm_has_position

\* Which teleports are handled, step by step.
LEMMA HandledStep ==
    ASSUME TypeInv, [Next]_vars, ~Open
    PROVE  /\ Teleports \subseteq Teleports' /\ \A i \in Teleports : sent'[i] = sent[i]
           /\ \A i \in Teleports' \ Teleports : \A j \in Teleports : j < i
           /\ Handled' \subseteq Handled
                \cup (IF HandlePlay /\ connected' THEN {polled} \cap Teleports ELSE {})
<1> USE DEF client
<1>0. Teleports \subseteq 1..Len(sent) /\ polled \in 0..Len(sent) /\ Len(sent) \in Nat
  BY DEF Teleports, TypeInv
<1>1. ASSUME sent' = sent PROVE Teleports' = Teleports
  BY <1>1 DEF Teleports
<1>2. CASE ServerSendsKeepAlive \/ ServerSendsBatchFinished
  <2>1. Grown /\ Teleports' = Teleports
    BY <1>2, SimpleFacts
  <2>2. Handled' \subseteq Handled
    BY <2>1 DEF Handled, Grown
  <2> QED
    BY <1>0, <2>1, <2>2 DEF Grown
<1>3. CASE ServerSendsTeleport
  <2> DEFINE n == Len(sent) + 1
  <2>1. Grown /\ Teleports' = Teleports \cup {n} /\ \A i \in Teleports : i < n
    BY <1>3, TeleportFacts
  <2>2. polled < n /\ polled \in Nat /\ n \in Nat
    BY <1>0
  <2> HIDE DEF n
  <2>3. Handled' \subseteq Handled
    BY <2>1, <2>2 DEF Handled, Grown
  <2> QED
    BY <1>0, <2>1, <2>3 DEF Grown
<1>4. CASE Poll
  <2>1. /\ UNCHANGED <<client, sent>> /\ pc = "idle" /\ connected
        /\ pc' = "callback" /\ polled' = polled + 1
    BY <1>4 DEF Poll
  <2>2. Teleports' = Teleports
    BY <1>1, <2>1
  <2>3. \A i \in Teleports : i < polled + 1 => i < polled \/ i = polled
    BY <1>0
  <2>4. \A i \in Handled' : i \in Teleports /\ i < polled + 1
    BY <2>1, <2>2 DEF Handled
  <2>5. Handled' \subseteq Handled
    BY <2>1, <2>3, <2>4 DEF Handled
  <2> QED
    BY <1>0, <2>1, <2>2, <2>5
<1>5. CASE SendPlayerPosition
  <2>1. UNCHANGED <<connected, pc, sent, polled>>
    BY <1>5, MoveFacts
  <2>2. Teleports' = Teleports
    BY <1>1, <2>1
  <2> QED
    BY <2>1, <2>2 DEF Handled
<1>6. CASE HandlePlay
  <2>1. UNCHANGED <<sent, polled>> /\ pc = "callback"
    BY <1>6 DEF HandlePlay
  <2>2. Teleports' = Teleports
    BY <1>1, <2>1
  <2> QED
    BY <1>6, <2>1, <2>2 DEF Handled
<1>7. CASE Disconnect \/ NotHandled
  <2>1. UNCHANGED <<sent, polled>> /\ ~connected'
    BY <1>7 DEF Disconnect, NotHandled
  <2>2. Teleports' = Teleports
    BY <1>1, <2>1
  <2> QED
    BY <2>1, <2>2 DEF Handled
<1>8. CASE UNCHANGED vars
  <2>1. UNCHANGED <<connected, pc, sent, polled>>
    BY <1>8 DEF vars
  <2>2. Teleports' = Teleports
    BY <1>1, <2>1
  <2> QED
    BY <2>1, <2>2 DEF Handled
<1> QED
  BY <1>2, <1>3, <1>4, <1>5, <1>6, <1>7, <1>8 DEF Next

\* What every step but Open and handle_play sends: nothing, or one movement.
LEMMA OutStep ==
    ASSUME TypeInv, [Next]_vars, ~Open, ~HandlePlay
    PROVE  /\ out' \in Seq(ReplyType) /\ Len(out') >= Len(out)
           /\ \A k \in 1..Len(out) : out'[k] = out[k]
           /\ \A k \in 1..Len(out') : k > Len(out) => out'[k].kind = "movement"
           /\ player_loaded_sent' = player_loaded_sent
           /\ \/ /\ polled' = polled
                 /\ connected' /\ pc' = "callback" => connected /\ pc = "callback"
              \/ polled' = polled + 1
<1> USE DEF client
<1>0. out \in Seq(ReplyType) /\ Len(out) \in Nat
  BY DEF TypeInv
<1>1. CASE ServerSendsKeepAlive \/ ServerSendsBatchFinished \/ ServerSendsTeleport
  <2>1. Grown
    BY <1>1, SimpleFacts, TeleportFacts
  <2> QED
    BY <1>0, <2>1 DEF Grown
<1>2. CASE Poll \/ Disconnect \/ NotHandled \/ UNCHANGED vars
  BY <1>0, <1>2 DEF Poll, Disconnect, NotHandled, vars
<1>3. CASE SendPlayerPosition
  BY <1>0, <1>3, MoveFacts
<1> QED
  BY <1>1, <1>2, <1>3 DEF Next

\* A teleport is confirmed when it is handled, and nothing else confirms one.
LEMMA ConfirmStep ==
    TypeInv /\ SentInv /\ ConfirmInv /\ [Next]_vars => ConfirmInv'
<1> SUFFICES ASSUME TypeInv, SentInv, ConfirmInv, [Next]_vars, AutoConfirm
             PROVE  ConfirmInv'
  BY DEF ConfirmInv, AutoConfirm, has_teleport_id
<1>0. out \in Seq(ReplyType) /\ Len(out) \in Nat
  BY DEF TypeInv
<1>1. CASE Open
  <2>1. out' = <<>> /\ sent' = <<>>
    BY <1>1 DEF Open, Opened
  <2>2. Handled' = {}
    BY <2>1 DEF Handled, Teleports
  <2> QED
    BY <2>1, <2>2 DEF ConfirmInv
<1>2. CASE ~Open /\ ~HandlePlay
  <2>1. /\ Teleports \subseteq Teleports' /\ \A i \in Teleports : sent'[i] = sent[i]
        /\ Handled' \subseteq Handled
    BY <1>2, HandledStep
  <2> QED
    BY <1>2, <2>1, OutStep, ConfirmQuiet
<1>3. CASE HandlePlay
  <2>1. PICK n \in 0..Len(Answers) : Handles(n)
    BY <1>3, HandleFacts
  <2>2. /\ out' \in Seq(ReplyType) /\ Len(out') = Len(out) + n
        /\ \A k \in 1..Len(out) : out'[k] = out[k]
        /\ \A k \in 1..n : out'[Len(out) + k] = Answers[k]
        /\ connected' => n = Len(Answers)
    BY <2>1 DEF Handles
  <2>3. /\ connected /\ pc = "callback" /\ pc' = "idle" /\ UNCHANGED <<sent, polled>>
        /\ ~Open
    BY <1>3 DEF HandlePlay, Open, Opened
  <2>4. Len(Answers) \in Nat /\ n \in Nat
    BY <2>3, AnswersShape
  <2>5. \A k \in 1..Len(out') : k > Len(out) =>
          k - Len(out) \in 1..n /\ out'[k] = Answers[k - Len(out)]
    BY <1>0, <2>2, <2>4
  <2>6. Tracked <=> polled \in Teleports
    BY <2>3, PacketType DEF AutoConfirm, Tracked
  <2>7. /\ \A k \in 1..Len(Answers) : Answers[k].kind = "confirm" =>
             Tracked /\ k = 1 /\ Answers[k].token = packet.token
             /\ (confirm_has_position => Answers[k].position = absolute)
        /\ Tracked => Len(Answers) >= 1 /\ Answers[1].kind = "confirm"
    BY <2>3, AnswersShape DEF AutoConfirm
  <2>8. CASE polled \notin Teleports \/ n = 0
    <3>1. \A k \in 1..Len(out') : k > Len(out) => out'[k].kind # "confirm"
      BY <2>4, <2>5, <2>6, <2>7, <2>8
    <3>2. connected' => polled \notin Teleports
      BY <2>2, <2>4, <2>6, <2>7, <2>8
    <3>3. /\ Teleports \subseteq Teleports' /\ \A i \in Teleports : sent'[i] = sent[i]
          /\ Handled' \subseteq Handled
      BY <2>3, <3>2, HandledStep
    <3>4. Len(out') >= Len(out)
      BY <1>0, <2>2, <2>4
    <3> QED
      BY <2>2, <2>3, <3>1, <3>3, <3>4, ConfirmQuiet
  <2>9. CASE polled \in Teleports /\ n > 0
    <3>1. packet = sent[polled] /\ packet.token = polled
      BY <2>9 DEF packet, SentInv
    <3>2. 1 \in 1..n /\ 1 \in 1..Len(Answers)
      BY <2>4, <2>9
    <3>3. /\ out'[Len(out) + 1].kind = "confirm"
          /\ out'[Len(out) + 1].token = polled
          /\ confirm_has_position => out'[Len(out) + 1].position = absolute
      BY <2>2, <2>6, <2>7, <2>9, <3>1, <3>2
    <3>4. \A a \in Axis \ sent[polled].relative : absolute[a] = sent[polled].target[a]
      <4> TAKE a \in Axis \ sent[polled].relative
      <4>1. absolute[a] = sent[polled].position[a]
        BY <2>3, <3>1, AbsoluteIs
      <4> QED
        BY <2>9, <4>1 DEF SentInv
    <3>5. \A k \in 1..Len(out') : k > Len(out) + 1 => out'[k].kind # "confirm"
      BY <1>0, <2>4, <2>5, <2>7
    <3>6. Len(out') > Len(out)
      BY <1>0, <2>2, <2>4, <2>9
    <3>7. confirm_has_position => \A a \in Axis \ sent[polled].relative :
             out'[Len(out) + 1].position[a] = sent[polled].target[a]
      BY <3>3, <3>4
    <3> QED
      BY <2>2, <2>3, <2>9, <3>3, <3>5, <3>6, <3>7, ConfirmSent
  <2> QED
    BY <2>4, <2>8, <2>9
<1> QED
  BY <1>1, <1>2, <1>3 DEF Next

\* A step that sends no player_loaded and completes no first teleport disturbs
\* none that was sent.
LEMMA LoadQuiet ==
    ASSUME TypeInv, ConfirmInv, LoadInv, out' \in Seq(ReplyType), Len(out') >= Len(out),
           \A k \in 1..Len(out) : out'[k] = out[k],
           \A k \in 1..Len(out') : k > Len(out) => out'[k].kind # "player_loaded",
           player_loaded_sent' <=> player_loaded_sent,
           \A i \in Teleports' \ Teleports : \A j \in Teleports : j < i,
           Handled' \subseteq Handled \/ player_loaded_sent
    PROVE  LoadInv'
<1> SUFFICES ASSUME player_loaded_packet, "PLAYER_LOADED" \in Replies
             PROVE  LoadInv'
  BY DEF LoadInv, player_loaded_packet
<1>1. /\ Len(out) \in Nat /\ Len(out') \in Nat
      /\ \A k \in 1..Len(out') : out'[k].kind = "player_loaded" =>
           k \in 1..Len(out) /\ out'[k] = out[k]
  BY DEF TypeInv
<1>2. \A k \in 1..Len(out) : k \in 1..Len(out') /\ out'[k] = out[k]
  BY <1>1
<1>3. /\ player_loaded_sent <=> \E k \in 1..Len(out) : out[k].kind = "player_loaded"
      /\ \A j, k \in 1..Len(out) :
           out[j].kind = "player_loaded" /\ out[k].kind = "player_loaded" => j = k
      /\ Handled # {} => player_loaded_sent
      /\ "TELEPORT" \in Replies =>
           \A k \in 1..Len(out) : out[k].kind = "player_loaded" =>
             /\ k > 1 /\ out[k - 1].kind = "confirm"
             /\ \A i \in Teleports : out[k - 1].token <= i
  BY DEF LoadInv
<1>4. player_loaded_sent' <=> \E k \in 1..Len(out') : out'[k].kind = "player_loaded"
  BY <1>1, <1>2, <1>3
<1>5. \A j, k \in 1..Len(out') :
         out'[j].kind = "player_loaded" /\ out'[k].kind = "player_loaded" => j = k
  BY <1>1, <1>3
<1>6. Handled' # {} => player_loaded_sent'
  BY <1>3
<1>7. ASSUME "TELEPORT" \in Replies, NEW k \in 1..Len(out'), out'[k].kind = "player_loaded"
      PROVE  /\ k > 1 /\ out'[k - 1].kind = "confirm"
             /\ \A i \in Teleports' : out'[k - 1].token <= i
  <2>1. k \in 1..Len(out) /\ out'[k] = out[k]
    BY <1>1, <1>7
  <2>2. k > 1 /\ k - 1 \in 1..Len(out)
    BY <1>1, <1>3, <1>7, <2>1
  <2>3. out'[k - 1] = out[k - 1] /\ out[k - 1].kind = "confirm"
    BY <1>3, <1>7, <2>1, <2>2
  <2>4. out[k - 1].token \in Teleports
    <3>1. AutoConfirm
      BY <1>7, RepliesAssumption DEF AutoConfirm, player_loaded_packet, has_teleport_id
    <3> QED
      BY <2>2, <2>3, <3>1 DEF ConfirmInv
  <2>5. Teleports \subseteq Nat /\ Teleports' \subseteq Nat
    BY DEF Teleports
  <2>6. \A i \in Teleports' : out[k - 1].token <= i
    <3> TAKE i \in Teleports'
    <3>1. CASE i \in Teleports
      BY <1>3, <1>7, <2>1, <3>1
    <3>2. CASE i \notin Teleports
      <4>1. out[k - 1].token < i
        BY <2>4, <3>2
      <4>2. out[k - 1].token \in Nat /\ i \in Nat
        BY <2>4, <2>5
      <4> QED
        BY <4>1, <4>2
    <3> QED
      BY <3>1, <3>2
  <2> QED
    BY <2>2, <2>3, <2>6
<1> QED
  BY <1>4, <1>5, <1>6, <1>7 DEF LoadInv

\* player_loaded goes out once per connection, behind the first confirmation.
LEMMA LoadStep == TypeInv /\ SentInv /\ ConfirmInv /\ LoadInv /\ [Next]_vars => LoadInv'
<1> SUFFICES ASSUME TypeInv, SentInv, ConfirmInv, LoadInv, [Next]_vars,
                    player_loaded_packet, "PLAYER_LOADED" \in Replies
             PROVE  LoadInv'
  BY DEF LoadInv, player_loaded_packet
<1>0. out \in Seq(ReplyType) /\ Len(out) \in Nat
  BY DEF TypeInv
<1>1. CASE Open
  <2>1. out' = <<>> /\ sent' = <<>> /\ ~player_loaded_sent'
    BY <1>1 DEF Open, Opened
  <2>2. Handled' = {}
    BY <2>1 DEF Handled, Teleports
  <2> QED
    BY <2>1, <2>2 DEF LoadInv
<1>2. CASE ~Open /\ ~HandlePlay
  <2>1. /\ \A i \in Teleports' \ Teleports : \A j \in Teleports : j < i
        /\ Handled' \subseteq Handled
    BY <1>2, HandledStep
  <2>2. \A k \in 1..Len(out') : k > Len(out) => out'[k].kind # "player_loaded"
    BY <1>2, OutStep
  <2> QED
    BY <1>2, <2>1, <2>2, OutStep, LoadQuiet
<1>3. CASE HandlePlay
  <2>1. PICK n \in 0..Len(Answers) : Handles(n)
    BY <1>3, HandleFacts
  <2>2. /\ out' \in Seq(ReplyType) /\ Len(out') = Len(out) + n
        /\ \A k \in 1..Len(out) : out'[k] = out[k]
        /\ \A k \in 1..n : out'[Len(out) + k] = Answers[k]
        /\ connected' => n = Len(Answers)
        /\ player_loaded_sent' <=>
             player_loaded_sent \/ \E k \in 1..n : Answers[k].kind = "player_loaded"
    BY <2>1 DEF Handles
  <2>3. /\ connected /\ pc = "callback" /\ pc' = "idle" /\ UNCHANGED <<sent, polled>>
        /\ ~Open
    BY <1>3 DEF HandlePlay, Open, Opened
  <2>4. Len(Answers) \in Nat /\ n \in Nat /\ n <= Len(Answers)
    BY <2>3, AnswersShape
  <2>5. \A k \in 1..Len(out') : k > Len(out) =>
          k - Len(out) \in 1..n /\ out'[k] = Answers[k - Len(out)]
    BY <1>0, <2>2, <2>4
  <2>6. Tracked <=> polled \in Teleports
    BY <2>3, PacketType DEF Tracked
  <2>7. has_teleport_id
    BY RepliesAssumption DEF player_loaded_packet, has_teleport_id
  <2>8. /\ \A k \in 1..Len(Answers) : Answers[k].kind = "player_loaded" =>
             /\ Tracked /\ ~player_loaded_sent /\ k = Len(Answers)
             /\ "TELEPORT" \in Replies => k = 2
        /\ Tracked /\ ~player_loaded_sent =>
             Len(Answers) >= 1 /\ Answers[Len(Answers)].kind = "player_loaded"
        /\ Tracked /\ "TELEPORT" \in Replies =>
             /\ Len(Answers) >= 1 /\ Answers[1].kind = "confirm"
             /\ Answers[1].token = packet.token
    <3>1. Len(Answers) >= 1 => 1 \in 1..Len(Answers)
      BY <2>4
    <3> QED
      BY <2>3, <2>7, <3>1, AnswersShape
  <2>9. /\ Teleports' = Teleports /\ Teleports \subseteq Nat
        /\ Handled' \subseteq Handled
             \cup (IF connected' THEN {polled} \cap Teleports ELSE {})
    <3>1. Teleports' = Teleports /\ Teleports \subseteq Nat
      BY <2>3 DEF Teleports
    <3> QED
      BY <1>3, <2>3, <3>1, HandledStep
  <2>10. CASE \A k \in 1..n : Answers[k].kind # "player_loaded"
    <3>1. \A k \in 1..Len(out') : k > Len(out) => out'[k].kind # "player_loaded"
      BY <2>5, <2>10
    <3>2. connected' /\ polled \in Teleports => player_loaded_sent
      BY <2>2, <2>4, <2>6, <2>8, <2>10
    <3>3. player_loaded_sent' <=> player_loaded_sent
      BY <2>2, <2>10
    <3>4. Len(out') >= Len(out)
      BY <1>0, <2>2, <2>4
    <3>5. Handled' \subseteq Handled \/ player_loaded_sent
      BY <2>9, <3>2
    <3> QED
      BY <2>2, <2>9, <3>1, <3>3, <3>4, <3>5, LoadQuiet
  <2>11. CASE \E k \in 1..n : Answers[k].kind = "player_loaded"
    <3>1. PICK k \in 1..n : Answers[k].kind = "player_loaded"
      BY <2>11
    <3>2. /\ k \in 1..Len(Answers) /\ Tracked /\ ~player_loaded_sent /\ k = Len(Answers) /\ n = k
          /\ "TELEPORT" \in Replies => k = 2
      <4>1. k \in 1..Len(Answers)
        BY <2>4
      <4> QED
        BY <2>4, <2>8, <3>1, <4>1
    <3>3. packet.token = polled /\ \A i \in Teleports : polled <= i
      <4>1. packet.token = polled
        BY <2>6, <3>2 DEF packet, SentInv
      <4>2. Handled = {}
        BY <3>2 DEF LoadInv
      <4>3. \A i \in Teleports : ~(i < polled)
        BY <4>2 DEF Handled
      <4> QED
        BY <2>9, <4>1, <4>3 DEF TypeInv
    <3>4. \A j \in 1..Len(out) : out[j].kind # "player_loaded"
      BY <3>2 DEF LoadInv
    <3>5. /\ Len(out') = Len(out) + k /\ Len(out') \in 1..Len(out')
          /\ out'[Len(out')].kind = "player_loaded" /\ player_loaded_sent'
      BY <1>0, <2>2, <2>4, <3>1, <3>2
    <3>6. \A j \in 1..Len(out') : out'[j].kind = "player_loaded" => j = Len(out')
      <4> SUFFICES ASSUME NEW j \in 1..Len(out'), out'[j].kind = "player_loaded"
                   PROVE  j = Len(out')
        OBVIOUS
      <4>1. j > Len(out)
        <5>1. j \in Nat /\ j >= 1
          BY <1>0, <2>2, <2>4
        <5>2. CASE j \in 1..Len(out)
          BY <2>2, <3>4, <5>2
        <5> QED
          BY <1>0, <5>1, <5>2
      <4>2. j - Len(out) \in 1..n /\ Answers[j - Len(out)].kind = "player_loaded"
        BY <2>5, <4>1
      <4>3. j - Len(out) = Len(Answers)
        <5>1. j - Len(out) \in 1..Len(Answers)
          BY <2>4, <4>2
        <5> QED
          BY <2>8, <4>2, <5>1
      <4> QED
        BY <1>0, <3>2, <3>5, <4>3
    <3>7. ASSUME "TELEPORT" \in Replies
          PROVE  /\ Len(out') > 1 /\ out'[Len(out') - 1].kind = "confirm"
                 /\ out'[Len(out') - 1].token = polled
      <4>1. k = 2 /\ 1 \in 1..n /\ Len(out') - 1 = Len(out) + 1
        <5>1. k = 2 /\ n = 2
          BY <3>2, <3>7
        <5> QED
          BY <1>0, <3>5, <5>1
      <4>2. out'[Len(out') - 1] = Answers[1]
        BY <2>2, <4>1
      <4> QED
        BY <1>0, <2>8, <3>2, <3>3, <3>5, <3>7, <4>1, <4>2
    <3> QED
      BY <2>9, <3>3, <3>5, <3>6, <3>7 DEF LoadInv
  <2> QED
    BY <2>10, <2>11
<1> QED
  BY <1>1, <1>2, <1>3 DEF Next

\* The first connection starts with nothing sent or tracked.
LEMMA InitIInv == Init => IInv
<1> SUFFICES ASSUME Init PROVE IInv
  OBVIOUS
<1>1. /\ ~connected /\ ~player_loaded_sent /\ tracked_position = Origin
      /\ out = <<>> /\ sent = <<>>
  BY DEF Init
<1>2. Teleports = {} /\ Handled = {}
  BY <1>1 DEF Teleports, Handled
<1>3. TypeInv
  <2>1. connected \in BOOLEAN /\ tracked_position_valid \in BOOLEAN /\ player_loaded_sent \in BOOLEAN
    BY DEF Init
  <2>2. tracked_position \in Position /\ position \in Position
    BY OriginType DEF Init
  <2>3. /\ pc = "idle" /\ out = <<>> /\ sent = <<>> /\ polled = 0
        /\ awaited = 0 /\ astray = Axis
    BY DEF Init
  <2> QED
    BY <2>1, <2>2, <2>3 DEF TypeInv
<1>4. SentInv
  BY <1>1, <1>2 DEF SentInv
<1>5. AwaitInv /\ ChainInv /\ BaseInv
  BY <1>1 DEF AwaitInv, ChainInv, BaseInv
<1>6. ConfirmInv
  BY <1>1, <1>2 DEF ConfirmInv
<1>7. LoadInv
  BY <1>1, <1>2 DEF LoadInv
<1> QED
  BY <1>3, <1>4, <1>5, <1>6, <1>7 DEF IInv

\* The inductive invariant of the automatic replies: how the tracked position,
\* the teleports still under way and the server's position hang together, and
\* what the confirmations and player_loaded_sent are, whatever the application
\* sends between the server's sending and the client's poll, on every connection.
THEOREM InvariantHolds == Spec => []IInv
<1>1. IInv /\ [Next]_vars => IInv'
  BY TypeStep, SentStep, TrackStep, ConfirmStep, LoadStep DEF IInv
<1> QED
  BY <1>1, InitIInv, PTL DEF Spec

\* Whenever the server waits for no confirmation, the position relative teleports
\* are resolved against is the server's on every axis that is not astray: however
\* many teleports were under way, and whatever movements crossed them, in
\* callbacks or between polls.
THEOREM TrackedPositionAgrees == Spec => []TrackedIsServers
<1>1. IInv => TrackedIsServers
  <2> SUFFICES ASSUME IInv, AutoConfirm, connected, awaited = 0, NEW a \in Axis \ astray
               PROVE  tracked_position[a] = position[a]
    BY DEF TrackedIsServers, AutoConfirm
  <2>1. Pending = {}
    BY DEF IInv, AwaitInv
  <2> QED
    BY <2>1 DEF IInv, BaseInv
<1> QED
  BY <1>1, InvariantHolds, PTL

\* Every teleport taken is confirmed once, in order and with its own id, and a
\* confirmation that carries a position carries the server's on the axes the
\* teleport states.
THEOREM TeleportsConfirmed == Spec => []ConfirmationsMatchTeleports
<1>1. IInv => ConfirmationsMatchTeleports
  <2> SUFFICES ASSUME IInv, AutoConfirm PROVE ConfirmationsMatchTeleports
    BY DEF ConfirmationsMatchTeleports, AutoConfirm
  <2>1. /\ \A k \in 1..Len(out) : out[k].kind = "confirm" =>
             /\ out[k].token \in Teleports
             /\ confirm_has_position =>
                  \A a \in Axis \ sent[out[k].token].relative :
                    out[k].position[a] = sent[out[k].token].target[a]
        /\ \A j, k \in 1..Len(out) :
             out[j].kind = "confirm" /\ out[k].kind = "confirm" /\ j < k =>
               out[j].token < out[k].token
        /\ \A i \in Handled :
             \E k \in 1..Len(out) : out[k].kind = "confirm" /\ out[k].token = i
    BY DEF IInv, ConfirmInv
  <2> QED
    BY <2>1 DEF ConfirmationsMatchTeleports
<1> QED
  BY <1>1, InvariantHolds, PTL

\* A confirmation never moves the player on an axis that is not astray, although
\* from 777 on the server may take the position it carries.
THEOREM ConfirmationIsHarmless == Spec => ConfirmationKeepsPosition
<1>1. IInv /\ [Next]_vars =>
        [connected /\ awaited # 0 /\ awaited' = 0 /\ has_teleport_id =>
           \A a \in Axis \ astray : position'[a] = position[a]]_vars
  <2> SUFFICES ASSUME IInv, [Next]_vars, connected, awaited # 0, awaited' = 0,
                      has_teleport_id, NEW a \in Axis \ astray
               PROVE  position'[a] = position[a]
    OBVIOUS
  <2>0. TypeInv /\ SentInv /\ AwaitInv /\ BaseInv
    BY DEF IInv
  <2>1. CASE HandlePlay
    <3>1. CASE UNCHANGED position
      BY <3>1
    <3>2. CASE ~UNCHANGED position
      <4>1. AutoConfirm /\ polled \in Teleports /\ polled = awaited /\ position' = absolute
        BY <2>0, <2>1, <3>2, HandleHeard DEF server
      <4>2. pc = "callback"
        BY <2>1 DEF HandlePlay
      <4>3. /\ \A i \in Teleports : i <= awaited
            /\ position = sent[awaited].target
        BY <2>0, <4>1 DEF AwaitInv
      <4>4. /\ \A i \in Pending : polled <= i
            /\ \/ \E i \in Pending \ {polled} : a \notin sent[i].relative
               \/ absolute[a] = sent[polled].target[a]
        BY <2>0, <4>1, <4>2, ResolvedToTarget
      <4>5. Pending \ {polled} = {}
        BY <4>1, <4>3, <4>4 DEF Pending, Teleports
      <4> QED
        BY <4>1, <4>3, <4>4, <4>5
    <3> QED
      BY <3>1, <3>2
  <2>2. CASE Open
    BY <2>2 DEF Open, Opened
  <2>3. CASE SendPlayerPosition
    BY <2>0, <2>3, MoveFacts
  <2>4. CASE ServerSendsTeleport
    <3>1. awaited' # 0
      BY <2>0, <2>4, TeleportFacts DEF TypeInv
    <3> QED
      BY <3>1
  <2>5. CASE ServerSendsKeepAlive \/ ServerSendsBatchFinished
    BY <2>0, <2>5, SimpleFacts DEF server
  <2>6. CASE Disconnect \/ Poll \/ NotHandled \/ UNCHANGED vars
    BY <2>6 DEF Disconnect, Poll, NotHandled, vars, server
  <2> QED
    BY <2>1, <2>2, <2>3, <2>4, <2>5, <2>6 DEF Next
<1> QED
  BY <1>1, InvariantHolds, PTL DEF Spec, ConfirmationKeepsPosition

\* player_loaded is sent exactly once on every connection on which a teleport
\* was handled, directly behind the first confirmation.
THEOREM LoadedOnce == Spec => []LoadedOncePerConnection
<1>1. IInv => LoadedOncePerConnection
  <2> SUFFICES ASSUME LoadInv, player_loaded_packet, "PLAYER_LOADED" \in Replies
               PROVE  LoadedOncePerConnection
    BY DEF LoadedOncePerConnection, IInv
  <2> QED
    BY DEF LoadInv, LoadedOncePerConnection
<1> QED
  BY <1>1, InvariantHolds, PTL
=============================================================================
