----------------------------- MODULE PlayReplies -----------------------------
(***************************************************************************)
(* handle_play (api.c, PLAY STATE): the answers McClient gives by itself   *)
(* to keep-alives, teleports and chunk batches, and the player position it *)
(* tracks to resolve relative teleports, over several connections of one   *)
(* client object.                                                          *)
(*                                                                         *)
(* What the server sends lies on the network or in the decoder until a     *)
(* poll takes it, so the application may send a position while a teleport  *)
(* is under way.  What the client sends reaches the server at once: TCP    *)
(* keeps each direction in order, so a later arrival would show neither    *)
(* side anything else.                                                     *)
(*                                                                         *)
(* The server is external.  It knows where it has put the player, computes *)
(* each teleport from that, may send another before the last is confirmed, *)
(* and refuses movement while its last teleport is unconfirmed.            *)
(***************************************************************************)
EXTENDS Integers, Sequences

CONSTANTS
    Protocol,           \* the profile's protocol number
    Replies,            \* automatic_replies
    Axis,               \* the axes a teleport may state relatively
    Coord,              \* the coordinates and offsets used
    Token,              \* keep-alive payloads
    MaxPackets,         \* bound: server packets and movements of a connection
    MaxConnections      \* bound: connections

ASSUME RepliesAssumption ==
    /\ Protocol \in Nat
    /\ Replies \subseteq {"KEEP_ALIVE", "TELEPORT", "PLAYER_LOADED", "CHUNK_BATCH"}
    /\ Coord \subseteq Int
    /\ MaxPackets \in Nat /\ MaxConnections \in Nat

VARIABLES
    connected,              \* in PLAY with a socket
    tracked_position,
    tracked_position_valid,
    player_loaded_sent,
    pc,                     \* "idle", or "callback" while on_packet runs
    out,                    \* what the client has sent on this connection
    sent,                   \* what the server has sent on this connection
    polled,                 \* how much of it the client has taken
    position,               \* the server's position of the player
    awaited,                \* its last teleport, if unconfirmed, or 0
    astray,                 \* history: axes on which the two may differ
    packets,                \* packets moved on this connection
    connections             \* connections so far

tracking == <<tracked_position, tracked_position_valid>>
client == <<connected, tracking, player_loaded_sent>>
server == <<position, awaited, astray>>

vars == <<client, pc, out, sent, polled, server, packets, connections>>

Position == [Axis -> Int]
Origin == [a \in Axis |-> 0]

\* The relative axes of a teleport count from `last'.
Resolve(pkt, last) ==
    [a \in Axis |-> IF a \in pkt.relative THEN pkt.position[a] + last[a]
                                          ELSE pkt.position[a]]

\* The packets handle_play tells apart.  All have all the fields; `target' is
\* where the server has put the player by then, and is not in the packet.
Packet(kind, token, relative, pos, target) ==
    [kind |-> kind, token |-> token, relative |-> relative, position |-> pos,
     target |-> target]
Simple(kind, token) == Packet(kind, token, {}, Origin, position)

\* The packet the callback is shown.
packet == sent[polled]

\* A packet sent by the client; positions only where the format carries one.
Reply(kind, token, pos) == [kind |-> kind, token |-> token, position |-> pos]

\* The release boundaries of the automatic replies.
has_teleport_id == Protocol >= 107
confirm_has_position == Protocol >= 777
player_loaded_packet == Protocol >= 769
batch_response_packet == Protocol >= 764

(***************************************************************************)
(* The server.                                                             *)
(***************************************************************************)
Sends(pkt) ==
    /\ connected
    /\ packets < MaxPackets /\ packets' = packets + 1
    /\ sent' = Append(sent, pkt)
    /\ UNCHANGED <<client, pc, out, polled, connections>>

ServerSendsKeepAlive ==
    /\ \E t \in Token : Sends(Simple("keep_alive", t))
    /\ UNCHANGED server

ServerSendsBatchFinished ==
    /\ batch_response_packet
    /\ Sends(Simple("chunk_batch_finished", 0))
    /\ UNCHANGED server

\* A teleport's id is its place in what the server sends.  An axis stated
\* absolutely will be known to both.
ServerSendsTeleport ==
    \E relative \in SUBSET Axis, pos \in [Axis -> Coord] :
      LET id == Len(sent) + 1
          target == Resolve([relative |-> relative, position |-> pos], position)
      IN /\ Sends(Packet("player_position", id, relative, pos, target))
         /\ position' = target
         /\ awaited' = id
         /\ astray' = astray \cap relative

\* A movement arrives.  It is refused while a teleport is unconfirmed (before
\* 107 there is no confirmation: the movement that states the target is one);
\* the client then has a position of its own until the axis is stated again.
ServerHearsMovement(pos) ==
    LET refused == awaited # 0 /\ (has_teleport_id \/ pos # position) IN
    /\ position' = IF refused THEN position ELSE pos
    /\ awaited' = IF refused THEN awaited ELSE 0
    /\ astray' = IF refused THEN astray \cup sent[awaited].relative ELSE {}

\* A confirmation arrives.  Only the last teleport's counts; the position it
\* carries from 777 on is a move the server may take.
ServerHearsConfirm(token, pos) ==
    IF token = awaited
    THEN /\ awaited' = 0
         /\ \/ UNCHANGED <<position, astray>>
            \/ confirm_has_position /\ position' = pos /\ astray' = {}
    ELSE UNCHANGED server

\* Of the answers to one packet only an echo or a confirmation, always the first
\* of them, matters to the server's position.
ServerHears(answers) ==
    IF answers = <<>> \/ answers[1].kind \notin {"confirm", "echo"}
    THEN UNCHANGED server
    ELSE IF answers[1].kind = "confirm"
         THEN ServerHearsConfirm(answers[1].token, answers[1].position)
         ELSE ServerHearsMovement(answers[1].position)

(***************************************************************************)
(* mc_client_open, as far as it concerns this state, and the login.  The   *)
(* tracked position of the last connection stays; the server places the    *)
(* player where it likes.                                                  *)
(***************************************************************************)
Opened ==
    /\ pc = "idle" /\ ~connected
    /\ connected' = TRUE
    /\ connections < MaxConnections /\ connections' = connections + 1
    /\ packets' = 0 /\ out' = <<>> /\ sent' = <<>> /\ polled' = 0
    /\ position' \in [Axis -> Coord] /\ awaited' = 0 /\ astray' = Axis
    /\ UNCHANGED <<tracking, pc>>

MutantLoadedKept == Opened /\ UNCHANGED player_loaded_sent
Open == Opened /\ player_loaded_sent' = FALSE

\* mc_client_poll takes the next packet, and the callback sees it first.
Poll ==
    /\ pc = "idle" /\ connected
    /\ polled < Len(sent)
    /\ polled' = polled + 1
    /\ pc' = "callback"
    /\ UNCHANGED <<client, out, sent, server, packets, connections>>

(***************************************************************************)
(* mc_client_send_player_position, between polls or in the callback.       *)
(***************************************************************************)
MovementSent(pos) ==
    /\ connected
    /\ packets < MaxPackets /\ packets' = packets + 1
    /\ out' = Append(out, Reply("movement", 0, pos))
    /\ ServerHearsMovement(pos)
    /\ UNCHANGED <<connected, player_loaded_sent, pc, sent, polled, connections>>

MutantMoveUntracked ==
    \E pos \in [Axis -> Coord] : MovementSent(pos) /\ UNCHANGED tracking
SendPlayerPosition ==
    \E pos \in [Axis -> Coord] :
      /\ MovementSent(pos)
      /\ tracked_position' = pos /\ tracked_position_valid' = TRUE

\* mc_client_disconnect, in the callback, between polls or by the peer.
Disconnect ==
    /\ connected
    /\ connected' = FALSE
    /\ UNCHANGED <<tracking, player_loaded_sent, pc, out, sent, polled, server, packets,
                   connections>>

(***************************************************************************)
(* handle_play.                                                            *)
(***************************************************************************)
MutantUnresolved == packet.position
absolute == IF tracked_position_valid THEN Resolve(packet, tracked_position)
                                      ELSE packet.position

\* The answers to a Player Position, in the order they are sent.  The legacy
\* echo repeats the packet's own coordinates.
MovementEcho ==
    IF ~has_teleport_id /\ "TELEPORT" \in Replies
    THEN <<Reply("echo", 0, packet.position)>> ELSE <<>>

MutantConfirmOnlyFirst ==
    IF has_teleport_id /\ "TELEPORT" \in Replies /\ ~player_loaded_sent
    THEN <<Reply("confirm", packet.token,
                 IF confirm_has_position THEN absolute ELSE Origin)>>
    ELSE <<>>
TeleportConfirm ==
    IF has_teleport_id /\ "TELEPORT" \in Replies
    THEN <<Reply("confirm", packet.token,
                 IF confirm_has_position THEN absolute ELSE Origin)>>
    ELSE <<>>

PlayerLoaded ==
    IF player_loaded_packet /\ ~player_loaded_sent /\ "PLAYER_LOADED" \in Replies
    THEN <<Reply("player_loaded", 0, Origin)>> ELSE <<>>

Tracked == packet.kind = "player_position"
           /\ Replies \cap {"TELEPORT", "PLAYER_LOADED"} # {}

Answers ==
    CASE packet.kind = "keep_alive" /\ "KEEP_ALIVE" \in Replies ->
           <<Reply("keep_alive", packet.token, Origin)>>
      [] Tracked -> MovementEcho \o TeleportConfirm \o PlayerLoaded
      [] packet.kind = "chunk_batch_finished" /\ "CHUNK_BATCH" \in Replies ->
           <<Reply("batch_received", 0, Origin)>>
      [] OTHER -> <<>>

\* The first n answers are sent; when the next one fails, poll disconnects.
HandlePlay ==
    /\ pc = "callback" /\ connected
    /\ \E n \in 0..Len(Answers) :
         LET given == SubSeq(Answers, 1, n) IN
         /\ out' = out \o given
         /\ connected' = (n = Len(Answers))
         /\ player_loaded_sent' =
              (player_loaded_sent \/ \E k \in 1..n : given[k].kind = "player_loaded")
         /\ ServerHears(given)
    /\ tracked_position' = IF Tracked THEN absolute ELSE tracked_position
    /\ tracked_position_valid' = (tracked_position_valid \/ Tracked)
    /\ pc' = "idle"
    /\ UNCHANGED <<sent, polled, packets, connections>>

\* The application has left PLAY meanwhile: poll returns without handling it.
NotHandled ==
    /\ pc = "callback" /\ ~connected
    /\ pc' = "idle"
    /\ UNCHANGED <<client, out, sent, polled, server, packets, connections>>

Init ==
    /\ connected = FALSE
    /\ tracked_position = Origin /\ tracked_position_valid = FALSE
    /\ player_loaded_sent = FALSE
    /\ pc = "idle"
    /\ out = <<>> /\ sent = <<>> /\ polled = 0
    /\ position = Origin /\ awaited = 0 /\ astray = Axis
    /\ packets = 0 /\ connections = 0

Next ==
    \/ Open \/ Disconnect
    \/ ServerSendsKeepAlive \/ ServerSendsBatchFinished \/ ServerSendsTeleport
    \/ Poll \/ SendPlayerPosition
    \/ HandlePlay \/ NotHandled

Spec == Init /\ [][Next]_vars

(***************************************************************************)
(* Properties.                                                             *)
(***************************************************************************)

\* The teleports of this connection, and those handle_play is done with.
Teleports == {i \in 1..Len(sent) : sent[i].kind = "player_position"}
Handled == {i \in Teleports : i < polled \/ (i = polled /\ pc = "idle" /\ connected)}

\* Each teleport the client has taken is confirmed once, in order, with its own
\* id and, from 777 on, with the server's position on the axes it states, however
\* many are under way and whatever movements cross them; only the last taken may
\* be missing, while it is being handled or after a failure.
ConfirmationsMatchTeleports ==
    has_teleport_id /\ "TELEPORT" \in Replies =>
    LET confirms == {k \in 1..Len(out) : out[k].kind = "confirm"} IN
    /\ \A k \in confirms :
         /\ out[k].token \in Teleports
         /\ confirm_has_position =>
              \A a \in Axis \ sent[out[k].token].relative :
                out[k].position[a] = sent[out[k].token].target[a]
    /\ \A j, k \in confirms : j < k => out[j].token < out[k].token
    /\ \A i \in Handled : \E k \in confirms : out[k].token = i

\* The first teleport of every connection, not only of the client's first one,
\* is followed by one player_loaded, after its confirmation, and no other is.
LoadedOncePerConnection ==
    player_loaded_packet /\ "PLAYER_LOADED" \in Replies =>
    LET at == {k \in 1..Len(out) : out[k].kind = "player_loaded"} IN
    /\ \A j, k \in at : j = k
    /\ Handled # {} => at # {}
    /\ "TELEPORT" \in Replies =>
         \A k \in at : /\ k > 1 /\ out[k - 1].kind = "confirm"
                       /\ \A i \in Teleports : out[k - 1].token <= i

\* Between polls, when no teleport is unconfirmed, the position the client will
\* resolve relative teleports against is the server's, on every axis that some
\* accepted movement or absolute teleport of this connection has stated and no
\* refused movement has put astray since.
TrackedIsServers ==
    /\ has_teleport_id /\ "TELEPORT" \in Replies
    /\ connected /\ pc = "idle" /\ awaited = 0
    => \A a \in Axis \ astray : tracked_position[a] = position[a]

\* A confirmation does not move the player: the position handle_play resolves
\* and sends from 777 on is the one the server teleported to, except on an axis
\* that was relative to a position the two did not share.
ConfirmationKeepsPosition ==
    [][connected /\ awaited # 0 /\ awaited' = 0 /\ has_teleport_id =>
         \A a \in Axis \ astray : position'[a] = position[a]]_vars

\* api.c, above the resolution: relative axes are resolved "before echoing or
\* tracking it".  The movement that answers a teleport before 107 states the
\* position that is tracked.
EchoesAreAbsolute ==
    connected /\ out # <<>> /\ out[Len(out)].kind = "echo" =>
        out[Len(out)].position = tracked_position
=============================================================================
