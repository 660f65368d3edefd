-------------------------- MODULE TransportProofs --------------------------
(***************************************************************************)
(* Theorems about Transport, for any number of descriptors, connections,   *)
(* sends and disconnects, every backend and every handshake limit.  What a *)
(* client holds and closes is proved for clients that another thread       *)
(* disconnects only when they wait with poll: TransportInterrupted.cfg     *)
(* shows that a ring does not survive it.                                  *)
(***************************************************************************)
EXTENDS Transport, WellFoundedInduction, TLAPS

\* The kinds of open file, the calls, and the record a thread keeps.
File == {"free", "socket", "epoll", "ring", "foreign"}
CallName == {"none", "open", "accept", "disconnect", "wait", "poll", "send", "receive"}
ThreadState == [pc : Label, call : CallName, fd : 0..MaxFd, wait_fd : 0..MaxFd,
                ret : {"state", "init", "fallback"}]

\* The types of the variables, but for the stream's.
TypeInv ==
    /\ file \in [Fd -> File]
    /\ socket_fd \in 0..MaxFd /\ event_fd \in 0..MaxFd
    /\ ring \in [fd : 0..MaxFd, mapped : BOOLEAN]
    /\ backend \in {"NONE", "IO_URING", "EPOLL", "POLL"}
    /\ preferred \in Preferences
    /\ state \in {"DISCONNECTED", "LOGIN"}
    /\ thread \in [Thread -> ThreadState]
    /\ hand \in [header : 0..2, size : 0..(MaxHandshake + 1), taken : Nat]
    /\ connections \in Nat

\* The steps of mc_server_accept, and the ones before socket_fd is stored.
Accepting == {"accept_size", "accept_body", "accept_check", "accept_refuse"}
Storing == Accepting \cup {"store"}

\* A socket that is being set up is the client's only one, and a client that
\* never had a connection has no socket.
FreshInv ==
    /\ connections = 0 => socket_fd = 0 /\ At("main", "idle")
    /\ Main.pc \in Storing => socket_fd = 0

\* How far mc_server_accept has read, at each of its steps and behind them.
HandInv ==
    /\ hand.taken <= hand.header + MaxHandshake
    /\ Main.pc \in Accepting => Main.call = "accept"
    /\ At("main", "accept_size") => hand.taken < hand.header
    /\ At("main", "accept_body") =>
         hand.size \in 1..MaxHandshake /\ hand.taken < hand.header + hand.size
    /\ Main.call = "accept" /\ Main.pc \notin {"accept_size", "accept_body", "accept_refuse"} =>
         hand.taken = hand.header + hand.size

\* What holds whichever clients are disconnected from another thread.
BaseInv == TypeInv /\ FreshInv /\ HandInv

\* Only a client that polls is disconnected from another thread.
OtherLabel == {"idle", "exchange", "close_socket", "disconnect_backend", "backend_close",
               "event_close", "event_clear", "state"}
OtherInv ==
    /\ thread["other"].pc \in OtherLabel /\ thread["other"].ret = "state"
    /\ At("other", "idle") \/ preferred = "POLL"
    /\ preferred = "POLL" => backend \in {"NONE", "POLL"}

\* The fields of the backend belong to the one that is selected, and a client's
\* thread is at a step of the ring only while the ring is selected.
BackendInv ==
    /\ event_fd # 0 => backend = "EPOLL"
    /\ ring # Closed => backend = "IO_URING"
    /\ At("main", "init") => backend = "NONE"
    /\ Main.pc \in {"ring_enter", "ring_reap", "ring_close", "ring_clear", "fallback"} =>
         backend = "IO_URING"
    /\ Main.pc \in {"event_close", "event_clear", "fallback"} => ring = Closed
    /\ Main.pc \in {"backend_close", "event_close", "event_clear"} => Main.ret # "fallback"

\* A selected ring is mapped until it is closed; an explicit io_uring may keep
\* the selection behind a ring that has failed.
MappedInv ==
    preferred # "IO_URING" =>
    /\ backend = "IO_URING" =>
         ring.mapped \/ Main.pc \in {"ring_clear", "event_close", "event_clear", "fallback"}
    /\ ~At("main", "crashed")

\* The descriptors of the backend are the files its fields name, except between
\* the close of one and the clearing of its field.
FilesInv ==
    \A n \in Fd :
      /\ file[n] = "epoll" <=> n = event_fd /\ ~At("main", "event_clear")
      /\ file[n] = "ring" <=> n = ring.fd /\ ~At("main", "ring_clear")

\* The socket a thread has in hand: not yet stored, or already taken out.
Owning == Storing \cup {"close_socket"}
Own(t) == IF thread[t].pc \in Owning THEN thread[t].fd ELSE 0

\* Every socket has one owner: the client or one of the threads.
SocketsInv ==
    /\ \A n \in Fd : file[n] = "socket" <=> n \in {socket_fd, Own("main"), Own("other")}
    /\ socket_fd # 0 => socket_fd \notin {Own("main"), Own("other")}
    /\ Own("main") # 0 => Own("main") # Own("other")
    /\ \A t \in Thread : thread[t].pc \in Owning => thread[t].fd # 0

\* A backend with a descriptor has a socket beside it, or is being closed.
Closing == {"close_socket", "disconnect_backend", "backend_close", "ring_close",
            "ring_clear", "event_close", "event_clear"}
Using == {"init", "wait", "ring_enter", "ring_reap", "fallback", "epoll_wait",
          "poll_wait", "recv_load", "recv"}
BesideInv ==
    /\ event_fd # 0 \/ ring # Closed => Connected \/ Main.pc \in Closing
    /\ preferred # "POLL" =>
         /\ Main.pc \in Using => Connected
         /\ Main.pc \in {"backend_close", "ring_close", "ring_clear", "event_close",
                         "event_clear"} /\ Main.ret # "state" => Connected

\* What a client holds, while another thread disconnects none but polling ones.
HeldInv == OtherInv /\ BackendInv /\ MappedInv /\ FilesInv /\ SocketsInv /\ BesideInv

IInv == BaseInv /\ (Interruptible \subseteq {"POLL"} => HeldInv)

-----------------------------------------------------------------------------
\* The number the system gives out next is one of the free ones.
LEMMA LowestFree == Free # {} => Lowest \in Free
<1> SUFFICES ASSUME Free # {} PROVE Lowest \in Free
  OBVIOUS
<1>1. Free \subseteq Nat
  BY TransportAssumption DEF Free, Fd
<1> HIDE DEF Free
<1> DEFINE R == OpToRel(<, Nat)
<1>2. IsWellFoundedOn(R, Nat)
  BY NatLessThanWellFounded
<1> HIDE DEF R
<1>3. PICK x \in Free : \A y \in Free : ~(<<y, x>> \in R)
  BY <1>1, <1>2, WFMin
<1>4. \A y \in Free : x =< y
  <2> SUFFICES ASSUME NEW y \in Free PROVE x =< y
    OBVIOUS
  <2>1. x \in Nat /\ y \in Nat /\ ~(<<y, x>> \in R)
    BY <1>1, <1>3
  <2>2. y < x => <<y, x>> \in R
    BY <2>1 DEF R, OpToRel
  <2> QED
    BY <2>1, <2>2
<1> QED
  BY <1>3, <1>4 DEF Lowest, Min

\* The client's thread and the other one are two threads, each with its fields.
LEMMA ThreadFields ==
    ASSUME TypeInv
    PROVE  /\ "main" \in Thread /\ "other" \in Thread /\ "main" # "other"
           /\ \A t \in Thread : t = "main" \/ t = "other"
           /\ \A t \in Thread :
                /\ thread[t] \in ThreadState
                /\ thread[t].pc \in Label /\ thread[t].call \in CallName
                /\ thread[t].fd \in 0..MaxFd /\ thread[t].wait_fd \in 0..MaxFd
                /\ thread[t].ret \in {"state", "init", "fallback"}
  BY DEF TypeInv, Thread, ThreadState

\* A thread in its new state; the other threads stay where they are.
Keeps(t) == /\ thread' \in [Thread -> ThreadState]
            /\ \A u \in Thread : u # t => thread'[u] = thread[u]

\* Goto changes the step of one thread.
LEMMA GotoFacts ==
    ASSUME TypeInv, NEW t \in Thread, NEW label \in Label, Goto(t, label)
    PROVE  /\ Keeps(t)
           /\ thread'[t].pc = label /\ thread'[t].call = thread[t].call
           /\ thread'[t].fd = thread[t].fd /\ thread'[t].wait_fd = thread[t].wait_fd
           /\ thread'[t].ret = thread[t].ret
  BY DEF Goto, TypeInv, ThreadState, Keeps

\* Copy changes the step of one thread and the number it works with.
LEMMA CopyFacts ==
    ASSUME TypeInv, NEW t \in Thread, NEW label \in Label, NEW n \in 0..MaxFd,
           Copy(t, n, label)
    PROVE  /\ Keeps(t)
           /\ thread'[t].pc = label /\ thread'[t].call = thread[t].call
           /\ thread'[t].fd = n /\ thread'[t].ret = thread[t].ret
  BY DEF Copy, TypeInv, ThreadState, Keeps

\* CallClose changes the step of one thread and where it goes on from there.
LEMMA CallCloseFacts ==
    ASSUME TypeInv, NEW t \in Thread, NEW label \in Label,
           NEW r \in {"state", "init", "fallback"}, CallClose(t, label, r)
    PROVE  /\ Keeps(t)
           /\ thread'[t].pc = label /\ thread'[t].call = thread[t].call
           /\ thread'[t].fd = thread[t].fd /\ thread'[t].ret = r
  BY DEF CallClose, TypeInv, ThreadState, Keeps

\* Return leaves a thread outside every call.
LEMMA ReturnFacts ==
    ASSUME TypeInv, NEW t \in Thread, Return(t)
    PROVE  /\ Keeps(t)
           /\ thread'[t].pc = "idle" /\ thread'[t].call = "none"
           /\ thread'[t].fd = 0 /\ thread'[t].ret = "state"
<1>1. Idle \in ThreadState
  BY TransportAssumption DEF Idle, ThreadState, Label, CallName
<1> QED
  BY <1>1 DEF Return, TypeInv, Keeps, Idle

\* Begin enters a call of the client's thread.
LEMMA BeginFacts ==
    ASSUME TypeInv, NEW name \in CallName, NEW label \in Label, Begin(name, label)
    PROVE  /\ Keeps("main") /\ At("main", "idle")
           /\ thread'["main"].pc = label /\ thread'["main"].call = name
           /\ thread'["main"].fd = thread["main"].fd
           /\ thread'["main"].ret = thread["main"].ret
<1>1. "main" \in Thread
  BY DEF Thread
<1> QED
  BY <1>1 DEF Begin, TypeInv, ThreadState, Keeps

\* BeginWithSocket enters one with a new socket in hand.
LEMMA BeginWithSocketFacts ==
    ASSUME TypeInv, NEW name \in CallName, NEW label \in Label,
           BeginWithSocket(name, label)
    PROVE  /\ Keeps("main") /\ At("main", "idle")
           /\ Lowest \in Free /\ file' = [file EXCEPT ![Lowest] = "socket"]
           /\ thread'["main"].pc = label /\ thread'["main"].call = name
           /\ thread'["main"].fd = Lowest
           /\ thread'["main"].ret = thread["main"].ret
           /\ connections' = connections + 1
<1>1. "main" \in Thread
  BY DEF Thread
<1>2. Lowest \in Free /\ Lowest \in 0..MaxFd
  BY LowestFree DEF BeginWithSocket, Free, Fd
<1>3. /\ thread' = [thread EXCEPT !["main"] =
                     [@ EXCEPT !.pc = label, !.call = name, !.fd = Lowest]]
      /\ file' = [file EXCEPT ![Lowest] = "socket"]
      /\ At("main", "idle") /\ connections' = connections + 1
  BY DEF BeginWithSocket, Given
<1> HIDE DEF Lowest
<1> QED
  BY <1>1, <1>2, <1>3 DEF TypeInv, ThreadState, Keeps

-----------------------------------------------------------------------------
(* The shapes of a step: all that the invariants need of the actions.       *)

\* The types of a step's new values, thread and hand aside.
KeepsTypes ==
    /\ file' \in [Fd -> File]
    /\ socket_fd' \in 0..MaxFd /\ event_fd' \in 0..MaxFd
    /\ ring' \in [fd : 0..MaxFd, mapped : BOOLEAN]
    /\ backend' \in {"NONE", "IO_URING", "EPOLL", "POLL"}
    /\ preferred' = preferred
    /\ state' \in {"DISCONNECTED", "LOGIN"}

\* A step of thread t outside mc_server_accept.
Plain(t) ==
    /\ Keeps(t) /\ KeepsTypes
    /\ connections' = connections
    /\ socket_fd' \in {0, socket_fd}
    /\ hand' = hand \/ (t = "main" /\ hand' = NoHandshake)
    /\ thread[t].pc \notin Storing \/ hand' = NoHandshake
    /\ thread'[t].pc \notin Storing
    /\ thread'[t].call = "accept" => thread[t].call = "accept"
    /\ t = "main" => thread'[t].pc = "idle" \/ connections # 0

\* What the client's thread does between two accesses to the client.
Path ==
    LET from == thread["main"].pc
        to == thread'["main"].pc
    IN  \/ thread' = thread
        \/ /\ \/ from \in {"idle", "init", "accepted", "handshake", "send_load", "send",
                           "ring_reap", "epoll_wait", "poll_wait", "recv", "state"}
              \/ from = "fallback" /\ preferred = "IO_URING"
           /\ to \in {"idle", "exchange", "send_load", "send"}
        \/ from = "idle" /\ to = "wait" /\ Connected
        \/ /\ from \in {"wait", "ring_reap", "epoll_wait", "poll_wait", "recv_load", "recv"}
           /\ to \in {"wait", "epoll_wait", "poll_wait", "recv_load", "recv"}
        \/ from = "wait" /\ to = "ring_enter" /\ backend = "IO_URING"
        \/ from = "ring_enter" /\ to = "ring_reap"
        \/ /\ from \in {"ring_enter", "ring_reap"} /\ ring.mapped
           /\ to = "ring_close" /\ thread'["main"].ret = "fallback"
        \/ from \in {"ring_enter", "ring_reap"} /\ to = "crashed" /\ ~ring.mapped
        \/ /\ from = "disconnect_backend" /\ to = "backend_close"
           /\ thread'["main"].ret = "state"
        \/ /\ from = "backend_close"
           /\ to = IF backend = "IO_URING" THEN "ring_close" ELSE "event_close"
           /\ thread'["main"].ret = thread["main"].ret

\* A step along such a path; the descriptors and their fields stay as they are.
Walks ==
    /\ UNCHANGED <<file, socket_fd, event_fd, ring, backend>>
    /\ Path

\* A step outside mc_server_accept keeps the basic invariant.
LEMMA PlainBase ==
    ASSUME BaseInv, NEW t \in Thread, Plain(t)
    PROVE  BaseInv'
<1>1. TypeInv /\ FreshInv /\ HandInv
  BY DEF BaseInv
<1>2. /\ thread' \in [Thread -> ThreadState] /\ KeepsTypes
      /\ \A u \in Thread : u # t => thread'[u] = thread[u]
      /\ connections' = connections /\ socket_fd' \in {0, socket_fd}
      /\ hand' = hand \/ (t = "main" /\ hand' = NoHandshake)
      /\ thread[t].pc \notin Storing \/ hand' = NoHandshake
      /\ thread'[t].pc \notin Storing
      /\ thread'[t].call = "accept" => thread[t].call = "accept"
      /\ t = "main" => thread'[t].pc = "idle" \/ connections # 0
  BY DEF Plain, Keeps
<1>3. /\ hand \in [header : 0..2, size : 0..(MaxHandshake + 1), taken : Nat]
      /\ hand' \in [header : 0..2, size : 0..(MaxHandshake + 1), taken : Nat]
      /\ hand' = NoHandshake => hand'.taken = 0 /\ hand'.header = 0 /\ hand'.size = 0
  <2>1. NoHandshake \in [header : 0..2, size : 0..(MaxHandshake + 1), taken : Nat]
    BY TransportAssumption DEF NoHandshake
  <2> QED
    BY <1>1, <1>2, <2>1 DEF TypeInv, NoHandshake
<1>4. TypeInv'
  <2>1. ring' \in [fd : 0..MaxFd, mapped : BOOLEAN]
    BY <1>2 DEF KeepsTypes
  <2> QED
    BY <1>1, <1>2, <1>3, <2>1 DEF TypeInv, KeepsTypes
<1>5. t = "main" \/ thread'["main"] = thread["main"]
  BY <1>2 DEF Thread
<1>6. FreshInv'
  <2>1. CASE t = "main"
    BY <1>1, <1>2, <2>1 DEF FreshInv, At, Main
  <2>2. CASE thread'["main"] = thread["main"]
    BY <1>1, <1>2, <2>2 DEF FreshInv, At, Main
  <2> QED
    BY <1>5, <2>1, <2>2
<1>7. HandInv'
  <2>0. MaxHandshake \in Nat
    BY TransportAssumption
  <2>1. CASE t = "main"
    <3>1. thread'["main"].pc \notin Storing
      BY <1>2, <2>1
    <3>2. CASE hand' = NoHandshake
      BY <1>3, <2>0, <3>1, <3>2 DEF HandInv, At, Main, Storing, Accepting
    <3>3. CASE hand' = hand /\ thread["main"].pc \notin Storing
      BY <1>1, <1>2, <2>1, <3>1, <3>3 DEF HandInv, At, Main, Storing, Accepting
    <3> QED
      BY <1>2, <2>1, <3>2, <3>3
  <2>2. CASE t # "main"
    <3>1. thread'["main"] = thread["main"]
      BY <1>5, <2>2
    <3> QED
      BY <1>1, <1>2, <2>2, <3>1 DEF HandInv, At, Main
  <2> QED
    BY <2>1, <2>2
<1> QED
  BY <1>4, <1>6, <1>7 DEF BaseInv

\* A step of the client's thread alone that leaves the client as it is.
LEMMA WalkIsPlain ==
    ASSUME BaseInv, Keeps("main"),
           UNCHANGED <<file, socket_fd, event_fd, ring, backend, preferred, connections>>,
           state' \in {"DISCONNECTED", "LOGIN"}, hand' \in {hand, NoHandshake},
           thread["main"].pc \notin Storing, thread'["main"].pc \notin Storing,
           thread'["main"].call # "accept" \/ thread'["main"].call = thread["main"].call,
           thread'["main"].pc = "idle" \/ thread["main"].pc # "idle" \/ connections # 0,
           Path
    PROVE  Plain("main") /\ Walks
<1>1. KeepsTypes
  BY DEF KeepsTypes, BaseInv, TypeInv
<1>2. thread["main"].pc # "idle" => connections # 0
  BY DEF BaseInv, FreshInv, At
<1>3. /\ socket_fd' \in {0, socket_fd} /\ connections' = connections
      /\ hand' = hand \/ hand' = NoHandshake
      /\ thread'["main"].call = "accept" => thread["main"].call = "accept"
      /\ thread'["main"].pc = "idle" \/ connections # 0
  BY <1>2
<1>4. Plain("main")
  BY <1>1, <1>3, Zenon DEF Plain
<1>5. Walks
  BY Zenon DEF Walks
<1> QED
  BY <1>4, <1>5

\* Labels are labels.
LEMMA LabelFacts ==
    /\ {"idle", "exchange", "close_socket", "disconnect_backend", "backend_close",
        "ring_close", "ring_clear", "event_close", "event_clear", "state", "store", "init",
        "handshake", "accepted", "accept_size", "accept_body", "accept_check",
        "accept_refuse"} \subseteq Label
    /\ {"wait", "ring_enter", "ring_reap", "fallback", "epoll_wait", "poll_wait",
        "recv_load", "recv", "send_load", "send", "crashed"} \subseteq Label
  BY DEF Label

\* The calls and steps of the client's thread that walk.
WalkingCall == Wait \/ Send \/ AppDisconnects \/ SendRefused \/ SetTransforms \/ ShutdownWrite
\* Each of them is a plain step, and a walk.
LEMMA CallsWalk ==
    ASSUME BaseInv, WalkingCall
    PROVE  Plain("main") /\ Walks
<1>1. TypeInv /\ FreshInv /\ state \in {"DISCONNECTED", "LOGIN"}
  BY DEF BaseInv, TypeInv
<1>2. thread \in [Thread -> ThreadState] /\ "main" \in Thread
  BY <1>1 DEF TypeInv, Thread
<1> USE DEF client, bounds
<1>3. CASE AppDisconnects
  <2>1. /\ Begin("disconnect", "exchange") /\ connections > 0
        /\ UNCHANGED <<file, client, preferred, hand, connections>>
    BY <1>3 DEF AppDisconnects
  <2>2. /\ Keeps("main") /\ thread["main"].pc = "idle" /\ thread'["main"].pc = "exchange"
        /\ thread'["main"].call = "disconnect"
    BY <1>1, <2>1, BeginFacts, LabelFacts DEF At, CallName
  <2>3. Path
    BY <2>2 DEF Path
  <2> QED
    BY <1>1, <2>1, <2>2, <2>3, WalkIsPlain DEF Storing, Accepting, TypeInv
<1>4. CASE Wait
  <2>1. PICK name \in {"wait", "poll"} : Begin(name, "wait")
    BY <1>4 DEF Wait
  <2>2. Connected /\ UNCHANGED <<file, client, preferred, hand, connections>>
    BY <1>4 DEF Wait
  <2>3. /\ Keeps("main") /\ thread["main"].pc = "idle" /\ thread'["main"].pc = "wait"
        /\ thread'["main"].call = name
    BY <1>1, <2>1, BeginFacts, LabelFacts DEF At, CallName
  <2>4. connections # 0
    BY <1>1, <2>2 DEF FreshInv, Connected
  <2>5. Path
    BY <2>2, <2>3 DEF Path
  <2> QED
    BY <1>1, <2>2, <2>3, <2>4, <2>5, WalkIsPlain DEF Storing, Accepting
<1>5. CASE Send
  <2>1. /\ Begin("send", "send_load") /\ Connected
        /\ UNCHANGED <<file, client, preferred, hand, connections>>
    BY <1>5 DEF Send, MaySend
  <2>2. /\ Keeps("main") /\ thread["main"].pc = "idle" /\ thread'["main"].pc = "send_load"
        /\ thread'["main"].call = "send"
    BY <1>1, <2>1, BeginFacts, LabelFacts DEF At, CallName
  <2>3. connections # 0
    BY <1>1, <2>1 DEF FreshInv, Connected
  <2>4. Path
    BY <2>2 DEF Path
  <2> QED
    BY <1>1, <2>1, <2>2, <2>3, <2>4, WalkIsPlain DEF Storing, Accepting
<1>6. CASE SendRefused \/ SetTransforms \/ ShutdownWrite
  <2>1. /\ thread' = thread /\ thread["main"].pc = "idle"
        /\ UNCHANGED <<file, client, preferred, hand, connections>>
    BY <1>6 DEF SendRefused, SetTransforms, ShutdownWrite, At
  <2>2. Keeps("main") /\ Path
    BY <1>2, <2>1 DEF Keeps, Path
  <2> QED
    BY <1>1, <2>1, <2>2, WalkIsPlain DEF Storing, Accepting
<1> QED
  BY <1>3, <1>4, <1>5, <1>6 DEF WalkingCall

\* The steps of mc_client_disconnect that close no file and clear no field.
WalkingDisconnect ==
    DisconnectBackend("main") \/ BackendClose("main") \/ ChangeState("main")
\* Each of them is a plain step, and a walk.
LEMMA DisconnectWalks ==
    ASSUME BaseInv, WalkingDisconnect
    PROVE  Plain("main") /\ Walks
<1>1. TypeInv /\ state \in {"DISCONNECTED", "LOGIN"} /\ "main" \in Thread
  BY DEF BaseInv, TypeInv, Thread
<1> USE DEF client, bounds
<1>2. CASE DisconnectBackend("main")
  <2>1. /\ thread["main"].pc = "disconnect_backend"
        /\ CallClose("main", "backend_close", "state")
        /\ UNCHANGED <<file, client, preferred, hand, connections>>
    BY <1>2 DEF DisconnectBackend, At
  <2>2. /\ Keeps("main") /\ thread'["main"].pc = "backend_close"
        /\ thread'["main"].call = thread["main"].call /\ thread'["main"].ret = "state"
    BY <1>1, <2>1, CallCloseFacts, LabelFacts
  <2>3. Path
    BY <2>1, <2>2 DEF Path
  <2> QED
    BY <1>1, <2>1, <2>2, <2>3, WalkIsPlain DEF Storing, Accepting
<1>3. CASE BackendClose("main")
  <2> DEFINE label == IF backend = "IO_URING" THEN "ring_close" ELSE "event_close"
  <2>1. /\ thread["main"].pc = "backend_close" /\ Goto("main", label)
        /\ UNCHANGED <<file, client, preferred, hand, connections>>
    BY <1>3 DEF BackendClose, At
  <2>2. label \in Label /\ label \notin Storing /\ label \in {"ring_close", "event_close"}
    BY LabelFacts DEF Storing, Accepting
  <2>3. /\ Keeps("main") /\ thread'["main"].pc = label
        /\ thread'["main"].call = thread["main"].call
        /\ thread'["main"].ret = thread["main"].ret
    BY <1>1, <2>1, <2>2, GotoFacts
  <2>4. Path
    BY <2>1, <2>3 DEF Path
  <2> HIDE DEF label
  <2> QED
    BY <1>1, <2>1, <2>2, <2>3, <2>4, WalkIsPlain DEF Storing, Accepting
<1>4. CASE ChangeState("main")
  <2>1. /\ thread["main"].pc = "state" /\ Return("main") /\ state' = "DISCONNECTED"
        /\ UNCHANGED <<file, socket_fd, event_fd, ring, backend, preferred, hand, connections>>
    BY <1>4 DEF ChangeState, At
  <2>2. Keeps("main") /\ thread'["main"].pc = "idle" /\ thread'["main"].call = "none"
    BY <1>1, <2>1, ReturnFacts
  <2>3. Path
    BY <2>1, <2>2 DEF Path
  <2> QED
    BY <1>1, <2>1, <2>2, <2>3, WalkIsPlain DEF Storing, Accepting
<1> QED
  BY <1>2, <1>3, <1>4 DEF WalkingDisconnect

\* Fail, MainGoes and Return of the client's thread.
LEMMA MainGoesFacts ==
    ASSUME TypeInv, NEW label \in Label, MainGoes(label)
    PROVE  /\ Keeps("main") /\ thread'["main"].pc = label
           /\ thread'["main"].call = thread["main"].call
           /\ thread'["main"].fd = thread["main"].fd
           /\ thread'["main"].ret = thread["main"].ret
<1>1. "main" \in Thread
  BY DEF Thread
<1> QED
  BY <1>1, GotoFacts DEF MainGoes

\* backend_wait's result ends the call, has something read, or disconnects.
LEMMA WaitResultWalks ==
    ASSUME BaseInv, NEW result \in {"ready", "timeout", "error"}, WaitResult(result),
           \/ thread["main"].pc \in {"ring_reap", "epoll_wait", "poll_wait"}
           \/ thread["main"].pc = "fallback" /\ preferred = "IO_URING" /\ result = "error"
    PROVE  Plain("main") /\ Walks
<1>1. TypeInv /\ state \in {"DISCONNECTED", "LOGIN"} /\ "main" \in Thread
  BY DEF BaseInv, TypeInv, Thread
<1>2. UNCHANGED <<file, client, preferred, hand, connections>>
  BY DEF WaitResult, bounds
<1>3. \/ Return("main")
      \/ MainGoes("recv_load") /\ result = "ready"
      \/ MainGoes("recv") /\ result = "ready"
      \/ MainGoes("exchange")
  BY Zenon DEF WaitResult, Fail, Main
<1>4. CASE Return("main") \/ MainGoes("exchange")
  <2>1. /\ Keeps("main") /\ thread'["main"].pc \in {"idle", "exchange"}
        /\ thread'["main"].call \in {"none", thread["main"].call}
    BY <1>1, <1>4, ReturnFacts, MainGoesFacts, LabelFacts
  <2>2. Path
    BY <2>1 DEF Path
  <2> QED
    BY <1>1, <1>2, <2>1, <2>2, WalkIsPlain DEF Storing, Accepting, client
<1>5. CASE (MainGoes("recv_load") \/ MainGoes("recv")) /\ result = "ready"
  <2>1. /\ Keeps("main") /\ thread'["main"].pc \in {"recv_load", "recv"}
        /\ thread'["main"].call = thread["main"].call
    BY <1>1, <1>5, MainGoesFacts, LabelFacts
  <2>2. Path
    BY <1>5, <2>1 DEF Path
  <2> QED
    BY <1>1, <1>2, <1>5, <2>1, <2>2, WalkIsPlain DEF Storing, Accepting, client
<1> QED
  BY <1>3, <1>4, <1>5

\* The steps of backend_wait, except for the fall back to another backend.
WalkingWait ==
    BackendWait \/ RingEnters \/ RingReaps \/ RingFails \/ RingGone \/ FallbackRefused
    \/ EpollWait \/ PollWait
\* Each of them is a plain step, and a walk.
LEMMA WaitWalks ==
    ASSUME BaseInv, WalkingWait
    PROVE  Plain("main") /\ Walks
<1>1. TypeInv /\ state \in {"DISCONNECTED", "LOGIN"} /\ "main" \in Thread
  BY DEF BaseInv, TypeInv, Thread
<1> USE DEF client, bounds
<1>2. CASE BackendWait
  <2> DEFINE label == CASE backend = "IO_URING" -> "ring_enter"
                        [] backend = "EPOLL" -> "epoll_wait"
                        [] OTHER -> "poll_wait"
  <2>1. /\ thread["main"].pc = "wait"
        /\ thread' = [thread EXCEPT !["main"].wait_fd = socket_fd, !["main"].pc = label]
        /\ UNCHANGED <<file, client, preferred, hand, connections>>
    BY <1>2 DEF BackendWait, At
  <2>2. /\ label \in {"ring_enter", "epoll_wait", "poll_wait"}
        /\ label = "ring_enter" => backend = "IO_URING"
    OBVIOUS
  <2> HIDE DEF label
  <2>3. label \in Label
    BY <2>2, LabelFacts
  <2>4. /\ Keeps("main") /\ thread'["main"].pc = label
        /\ thread'["main"].call = thread["main"].call
    BY <1>1, <2>1, <2>3 DEF Keeps, TypeInv, ThreadState
  <2>5. Path
    BY <2>1, <2>2, <2>4 DEF Path
  <2> QED
    BY <1>1, <2>1, <2>2, <2>4, <2>5, WalkIsPlain DEF Storing, Accepting
<1>3. CASE RingEnters
  <2>1. /\ thread["main"].pc = "ring_enter" /\ MainGoes("ring_reap")
        /\ UNCHANGED <<file, client, preferred, hand, connections>>
    BY <1>3 DEF RingEnters, At
  <2>2. /\ Keeps("main") /\ thread'["main"].pc = "ring_reap"
        /\ thread'["main"].call = thread["main"].call
    BY <1>1, <2>1, MainGoesFacts, LabelFacts
  <2>3. Path
    BY <2>1, <2>2 DEF Path
  <2> QED
    BY <1>1, <2>1, <2>2, <2>3, WalkIsPlain DEF Storing, Accepting
<1>4. CASE RingReaps
  BY <1>4, WaitResultWalks DEF RingReaps, At
<1>5. CASE RingFails
  <2>1. /\ thread["main"].pc \in {"ring_enter", "ring_reap"} /\ ring.mapped
        /\ CallClose("main", "ring_close", "fallback")
        /\ UNCHANGED <<file, client, preferred, hand, connections>>
    BY <1>5 DEF RingFails, Main
  <2>2. /\ Keeps("main") /\ thread'["main"].pc = "ring_close"
        /\ thread'["main"].call = thread["main"].call /\ thread'["main"].ret = "fallback"
    BY <1>1, <2>1, CallCloseFacts, LabelFacts
  <2>3. Path
    BY <2>1, <2>2 DEF Path
  <2> QED
    BY <1>1, <2>1, <2>2, <2>3, WalkIsPlain DEF Storing, Accepting
<1>6. CASE RingGone
  <2>1. /\ thread["main"].pc \in {"ring_enter", "ring_reap"} /\ ~ring.mapped
        /\ MainGoes("crashed")
        /\ UNCHANGED <<file, client, preferred, hand, connections>>
    BY <1>6 DEF RingGone, Main
  <2>2. /\ Keeps("main") /\ thread'["main"].pc = "crashed"
        /\ thread'["main"].call = thread["main"].call
    BY <1>1, <2>1, MainGoesFacts, LabelFacts
  <2>3. Path
    BY <2>1, <2>2 DEF Path
  <2> QED
    BY <1>1, <2>1, <2>2, <2>3, WalkIsPlain DEF Storing, Accepting
<1>7. CASE FallbackRefused
  BY <1>7, WaitResultWalks DEF FallbackRefused, At
<1>8. CASE EpollWait
  <2>1. PICK result \in {"ready", "timeout", "error"} : WaitResult(result)
    BY <1>8 DEF EpollWait
  <2>2. thread["main"].pc = "epoll_wait"
    BY <1>8 DEF EpollWait, At
  <2> QED
    BY <2>1, <2>2, WaitResultWalks
<1>9. CASE PollWait
  BY <1>9, WaitResultWalks DEF PollWait, At
<1> QED
  BY <1>2, <1>3, <1>4, <1>5, <1>6, <1>7, <1>8, <1>9 DEF WalkingWait

\* The steps of the other calls that touch no descriptor.
WalkingStep == BackendUnavailable \/ Accepted \/ ReceiveStep \/ SendStep
\* Each of them is a plain step, and a walk.
LEMMA StepWalks ==
    ASSUME BaseInv, WalkingStep
    PROVE  Plain("main") /\ Walks
<1>1. TypeInv /\ state \in {"DISCONNECTED", "LOGIN"} /\ "main" \in Thread
      /\ thread \in [Thread -> ThreadState] /\ socket_fd \in 0..MaxFd
  BY DEF BaseInv, TypeInv, Thread
<1> USE DEF client, bounds
<1>2. CASE BackendUnavailable \/ Accepted \/ SendHandshake \/ SendFails \/ SendReturns
  <2>1. /\ \/ thread["main"].pc \in {"init", "send"} /\ MainGoes("exchange")
           \/ thread["main"].pc \in {"accepted", "send"} /\ Return("main")
           \/ thread["main"].pc = "handshake" /\ MainGoes("send_load")
        /\ state' \in {"DISCONNECTED", "LOGIN"} /\ hand' \in {hand, NoHandshake}
        /\ UNCHANGED <<file, socket_fd, event_fd, ring, backend, preferred, connections>>
    BY <1>1, <1>2 DEF BackendUnavailable, Accepted, SendHandshake, SendFails,
       SendReturns,
                      At, Fail
  <2>2. /\ Keeps("main") /\ thread'["main"].pc \in {"idle", "exchange", "send_load"}
        /\ thread["main"].pc \in {"init", "send", "accepted", "handshake"}
        /\ thread'["main"].call \in {"none", thread["main"].call}
    BY <1>1, <2>1, MainGoesFacts, ReturnFacts, LabelFacts
  <2>3. Path
    BY <2>2 DEF Path
  <2> QED
    BY <2>1, <2>2, <2>3, WalkIsPlain DEF Storing, Accepting
<1>3. CASE ReceiveLoad \/ SendLoad
  <2>1. /\ \/ thread["main"].pc = "recv_load" /\ Copy("main", socket_fd, "recv")
           \/ thread["main"].pc = "send_load" /\ Copy("main", socket_fd, "send")
        /\ UNCHANGED <<file, client, preferred, hand, connections>>
    BY <1>3 DEF ReceiveLoad, SendLoad, At
  <2>2. /\ Keeps("main") /\ thread'["main"].call = thread["main"].call
        /\ \/ thread["main"].pc = "recv_load" /\ thread'["main"].pc = "recv"
           \/ thread["main"].pc = "send_load" /\ thread'["main"].pc = "send"
    BY <1>1, <2>1, CopyFacts, LabelFacts
  <2>3. Path
    BY <2>2 DEF Path
  <2> QED
    BY <1>1, <2>1, <2>2, <2>3, WalkIsPlain DEF Storing, Accepting
<1>4. CASE Receive
  <2>1. /\ thread["main"].pc = "recv"
        /\ \/ Return("main") \/ MainGoes("exchange")
           \/ thread' = [thread EXCEPT !["main"].pc = "wait", !["main"].call = "receive"]
        /\ UNCHANGED <<file, client, preferred, hand, connections>>
    BY <1>4 DEF Receive, At, Fail
  <2>2. ASSUME thread' = [thread EXCEPT !["main"].pc = "wait", !["main"].call = "receive"]
        PROVE  /\ Keeps("main") /\ thread'["main"].pc = "wait"
               /\ thread'["main"].call = "receive"
    <3>1. "wait" \in Label /\ "receive" \in CallName
      BY LabelFacts DEF CallName
    <3> QED
      BY <1>1, <2>2, <3>1 DEF Keeps, ThreadState
  <2>3. /\ Keeps("main") /\ thread'["main"].pc \in {"idle", "exchange", "wait"}
        /\ thread'["main"].call \in {"none", "receive", thread["main"].call}
    BY <1>1, <2>1, <2>2, ReturnFacts, MainGoesFacts, LabelFacts
  <2>4. Path
    BY <2>1, <2>3 DEF Path
  <2> QED
    BY <1>1, <2>1, <2>3, <2>4, WalkIsPlain DEF Storing, Accepting
<1>5. CASE SendSome
  <2>1. /\ thread' = thread /\ thread["main"].pc = "send"
        /\ UNCHANGED <<file, client, preferred, hand, connections>>
    BY <1>5 DEF SendSome, At
  <2>2. Keeps("main") /\ Path
    BY <1>1, <2>1 DEF Keeps, Path
  <2> QED
    BY <1>1, <2>1, <2>2, WalkIsPlain DEF Storing, Accepting
<1> QED
  BY <1>2, <1>3, <1>4, <1>5 DEF WalkingStep, ReceiveStep, SendStep

\* Closing a number, and giving one out, change that file alone.
LEMMA ClosedFileFacts ==
    ASSUME TypeInv, NEW n \in 0..MaxFd
    PROVE  /\ ClosedFile(n) \in [Fd -> File]
           /\ \A k \in Fd : ClosedFile(n)[k] = IF k = n THEN "free" ELSE file[k]
<1>1. file \in [Fd -> File] /\ "free" \in File /\ 0 \notin Fd
  BY TransportAssumption DEF TypeInv, File, Fd
<1>2. n # 0 => n \in Fd
  BY TransportAssumption DEF Fd
<1> QED
  BY <1>1, <1>2 DEF ClosedFile

\* A number that is given out was free, and becomes a file of the kind asked for.
LEMMA GivenFacts ==
    ASSUME TypeInv, Free # {}, NEW kind \in File
    PROVE  /\ Given(kind) \in [Fd -> File] /\ Lowest \in Fd /\ file[Lowest] = "free"
           /\ Lowest \in 0..MaxFd /\ Lowest # 0
           /\ \A k \in Fd : Given(kind)[k] = IF k = Lowest THEN kind ELSE file[k]
<1>1. file \in [Fd -> File]
  BY DEF TypeInv
<1>2. Lowest \in Fd /\ file[Lowest] = "free"
  BY LowestFree DEF Free
<1>3. Lowest \in 0..MaxFd /\ Lowest # 0
  BY <1>2, TransportAssumption DEF Fd
<1> HIDE DEF Lowest
<1> QED
  BY <1>1, <1>2, <1>3 DEF Given

\* A thread that is in a call, and not before the store of its socket.
LEMMA PlainStep ==
    ASSUME BaseInv, NEW t \in Thread, Keeps(t), KeepsTypes,
           connections' = connections, socket_fd' \in {0, socket_fd}, hand' = hand,
           thread[t].pc \notin Storing, thread'[t].pc \notin Storing,
           thread'[t].call \in {"none", thread[t].call},
           thread[t].pc # "idle"
    PROVE  Plain(t)
<1>1. t = "main" => connections # 0
  BY DEF BaseInv, FreshInv, At
<1>2. thread'[t].call = "accept" => thread[t].call = "accept"
  OBVIOUS
<1> QED
  BY <1>1, <1>2, Zenon DEF Plain

\* The exchange takes the socket out of the client.
LEMMA ExchangeFacts ==
    ASSUME BaseInv, NEW t \in Thread, ExchangeSocket(t)
    PROVE  /\ Plain(t) /\ thread[t].pc = "exchange" /\ thread'[t].fd = socket_fd
           /\ thread'[t].pc = IF socket_fd # 0 THEN "close_socket" ELSE "disconnect_backend"
           /\ socket_fd' = 0 /\ UNCHANGED <<file, event_fd, ring, backend>>
           /\ thread'[t].ret = thread[t].ret
<1> DEFINE label == IF socket_fd # 0 THEN "close_socket" ELSE "disconnect_backend"
<1>1. /\ thread[t].pc = "exchange" /\ Copy(t, socket_fd, label) /\ socket_fd' = 0
      /\ UNCHANGED <<file, event_fd, ring, backend, state, preferred, hand, connections>>
  BY DEF ExchangeSocket, At, Connected, bounds
<1>2. label \in Label /\ label \in {"close_socket", "disconnect_backend"}
  BY LabelFacts
<1>3. TypeInv /\ socket_fd \in 0..MaxFd
  BY DEF BaseInv, TypeInv
<1> HIDE DEF label
<1>4. /\ Keeps(t) /\ thread'[t].pc = label /\ thread'[t].fd = socket_fd
      /\ thread'[t].call = thread[t].call /\ thread'[t].ret = thread[t].ret
  BY <1>1, <1>2, <1>3, CopyFacts
<1>5. KeepsTypes
  BY <1>1, <1>3, TransportAssumption DEF KeepsTypes, TypeInv
<1>6. Plain(t)
  BY <1>1, <1>2, <1>4, <1>5, PlainStep DEF Storing, Accepting
<1> QED
  BY <1>1, <1>4, <1>6 DEF label

\* The close behind it.
LEMMA CloseSocketFacts ==
    ASSUME BaseInv, NEW t \in Thread, CloseSocket(t)
    PROVE  /\ Plain(t) /\ thread[t].pc = "close_socket"
           /\ thread'[t].pc = "disconnect_backend"
           /\ UNCHANGED <<socket_fd, event_fd, ring, backend>>
           /\ \A k \in Fd : file'[k] = IF k = thread[t].fd THEN "free" ELSE file[k]
           /\ thread'[t].ret = thread[t].ret
<1>1. /\ thread[t].pc = "close_socket" /\ Goto(t, "disconnect_backend")
      /\ file' = ClosedFile(thread[t].fd)
      /\ UNCHANGED <<socket_fd, event_fd, ring, backend, state, preferred, hand, connections>>
  BY DEF CloseSocket, At, client, bounds
<1>2. TypeInv /\ thread[t].fd \in 0..MaxFd
  BY ThreadFields DEF BaseInv
<1>3. /\ file' \in [Fd -> File]
      /\ \A k \in Fd : file'[k] = IF k = thread[t].fd THEN "free" ELSE file[k]
  BY <1>1, <1>2, ClosedFileFacts
<1>4. /\ Keeps(t) /\ thread'[t].pc = "disconnect_backend"
      /\ thread'[t].call = thread[t].call /\ thread'[t].ret = thread[t].ret
  BY <1>1, <1>2, GotoFacts, LabelFacts
<1>5. KeepsTypes
  BY <1>1, <1>2, <1>3 DEF KeepsTypes, TypeInv
<1>6. Plain(t)
  BY <1>1, <1>4, <1>5, PlainStep DEF Storing, Accepting
<1> QED
  BY <1>1, <1>3, <1>4, <1>6

\* ring_close, in two steps.
LEMMA RingCloseFacts ==
    ASSUME BaseInv, NEW t \in Thread, RingClose(t)
    PROVE  /\ Plain(t) /\ thread[t].pc = "ring_close" /\ thread'[t].pc = "ring_clear"
           /\ UNCHANGED <<socket_fd, event_fd, backend>> /\ ring'.fd = ring.fd
           /\ \A k \in Fd : file'[k] = IF k = ring.fd THEN "free" ELSE file[k]
           /\ thread'[t].ret = thread[t].ret
<1>1. /\ thread[t].pc = "ring_close" /\ Goto(t, "ring_clear")
      /\ file' = ClosedFile(ring.fd) /\ ring' = [ring EXCEPT !.mapped = FALSE]
      /\ UNCHANGED <<socket_fd, event_fd, backend, state, preferred, hand, connections>>
  BY DEF RingClose, At, bounds
<1>2. TypeInv /\ ring \in [fd : 0..MaxFd, mapped : BOOLEAN] /\ ring.fd \in 0..MaxFd
  BY DEF BaseInv, TypeInv
<1>3. /\ file' \in [Fd -> File]
      /\ \A k \in Fd : file'[k] = IF k = ring.fd THEN "free" ELSE file[k]
  BY <1>1, <1>2, ClosedFileFacts
<1>4. /\ Keeps(t) /\ thread'[t].pc = "ring_clear"
      /\ thread'[t].call = thread[t].call /\ thread'[t].ret = thread[t].ret
  BY <1>1, <1>2, GotoFacts, LabelFacts
<1>5. ring' \in [fd : 0..MaxFd, mapped : BOOLEAN] /\ ring'.fd = ring.fd
  BY <1>1, <1>2
<1>6. KeepsTypes
  BY <1>1, <1>2, <1>3, <1>5 DEF KeepsTypes, TypeInv
<1>7. Plain(t)
  BY <1>1, <1>4, <1>6, PlainStep DEF Storing, Accepting
<1> QED
  BY <1>1, <1>3, <1>4, <1>5, <1>7

\* The second step: the ring is no longer mapped, and its number is forgotten.
LEMMA RingClearFacts ==
    ASSUME BaseInv, NEW t \in Thread, RingClear(t)
    PROVE  /\ Plain(t) /\ thread[t].pc = "ring_clear"
           /\ thread'[t].pc = IF thread[t].ret = "fallback" THEN "fallback" ELSE "event_close"
           /\ UNCHANGED <<file, socket_fd, event_fd, backend>> /\ ring' = Closed
           /\ thread'[t].ret = thread[t].ret
<1> DEFINE label == IF thread[t].ret = "fallback" THEN "fallback" ELSE "event_close"
<1>1. /\ thread[t].pc = "ring_clear" /\ Goto(t, label) /\ ring' = Closed
      /\ UNCHANGED <<file, socket_fd, event_fd, backend, state, preferred, hand, connections>>
  BY DEF RingClear, At, bounds
<1>2. TypeInv
  BY DEF BaseInv
<1>3. label \in Label /\ label \in {"fallback", "event_close"}
  BY LabelFacts
<1> HIDE DEF label
<1>4. /\ Keeps(t) /\ thread'[t].pc = label
      /\ thread'[t].call = thread[t].call /\ thread'[t].ret = thread[t].ret
  BY <1>1, <1>2, <1>3, GotoFacts
<1>5. ring' \in [fd : 0..MaxFd, mapped : BOOLEAN]
  BY <1>1, TransportAssumption DEF Closed
<1>6. KeepsTypes
  BY <1>1, <1>2, <1>5 DEF KeepsTypes, TypeInv
<1>7. Plain(t)
  BY <1>1, <1>3, <1>4, <1>6, PlainStep DEF Storing, Accepting
<1> QED
  BY <1>1, <1>4, <1>7 DEF label

\* The end of backend_close, in two steps.
LEMMA EventCloseFacts ==
    ASSUME BaseInv, NEW t \in Thread, EventClose(t)
    PROVE  /\ Plain(t) /\ thread[t].pc = "event_close" /\ thread'[t].pc = "event_clear"
           /\ UNCHANGED <<socket_fd, event_fd, ring, backend>>
           /\ \A k \in Fd : file'[k] = IF k = event_fd THEN "free" ELSE file[k]
           /\ thread'[t].ret = thread[t].ret
<1>1. /\ thread[t].pc = "event_close" /\ Goto(t, "event_clear")
      /\ file' = ClosedFile(event_fd)
      /\ UNCHANGED <<socket_fd, event_fd, ring, backend, state, preferred, hand, connections>>
  BY DEF EventClose, At, client, bounds
<1>2. TypeInv /\ event_fd \in 0..MaxFd
  BY DEF BaseInv, TypeInv
<1>3. /\ file' \in [Fd -> File]
      /\ \A k \in Fd : file'[k] = IF k = event_fd THEN "free" ELSE file[k]
  BY <1>1, <1>2, ClosedFileFacts
<1>4. /\ Keeps(t) /\ thread'[t].pc = "event_clear"
      /\ thread'[t].call = thread[t].call /\ thread'[t].ret = thread[t].ret
  BY <1>1, <1>2, GotoFacts, LabelFacts
<1>5. KeepsTypes
  BY <1>1, <1>2, <1>3 DEF KeepsTypes, TypeInv
<1>6. Plain(t)
  BY <1>1, <1>4, <1>5, PlainStep DEF Storing, Accepting
<1> QED
  BY <1>1, <1>3, <1>4, <1>6

\* The second step: event_fd is forgotten and no backend is selected.
LEMMA EventClearFacts ==
    ASSUME BaseInv, NEW t \in Thread, EventClear(t)
    PROVE  /\ Plain(t) /\ thread[t].pc = "event_clear" /\ thread'[t].pc = thread[t].ret
           /\ UNCHANGED <<file, socket_fd, ring>> /\ event_fd' = 0 /\ backend' = "NONE"
           /\ thread'[t].ret = thread[t].ret
<1>1. /\ thread[t].pc = "event_clear" /\ Goto(t, thread[t].ret)
      /\ event_fd' = 0 /\ backend' = "NONE"
      /\ UNCHANGED <<file, socket_fd, ring, state, preferred, hand, connections>>
  BY DEF EventClear, At, bounds
<1>2. TypeInv
  BY DEF BaseInv
<1>3. thread[t].ret \in {"state", "init", "fallback"}
  BY <1>2, ThreadFields
<1>4. /\ Keeps(t) /\ thread'[t].pc = thread[t].ret
      /\ thread'[t].call = thread[t].call /\ thread'[t].ret = thread[t].ret
  <2>1. thread[t].ret \in Label
    BY <1>3, LabelFacts
  <2> QED
    BY <1>1, <1>2, <2>1, GotoFacts
<1>5. KeepsTypes
  BY <1>1, <1>2, TransportAssumption DEF KeepsTypes, TypeInv
<1>6. Plain(t)
  BY <1>1, <1>3, <1>4, <1>5, PlainStep DEF Storing, Accepting
<1> QED
  BY <1>1, <1>4, <1>6

\* The steps of the other thread that touch no descriptor.
OtherWalks ==
    LET from == thread["other"].pc
        to == thread'["other"].pc
    IN  /\ UNCHANGED <<file, socket_fd, event_fd, ring, backend>>
        /\ \/ /\ from = "idle" /\ to = "exchange" /\ preferred \in Interruptible
              /\ thread'["other"].ret = thread["other"].ret
           \/ from = "disconnect_backend" /\ to = "backend_close"
              /\ thread'["other"].ret = "state"
           \/ /\ from = "backend_close"
              /\ to = IF backend = "IO_URING" THEN "ring_close" ELSE "event_close"
              /\ thread'["other"].ret = thread["other"].ret
           \/ from = "state" /\ to = "idle" /\ thread'["other"].ret = "state"

\* The call of the other thread, and the steps of it that close no file.
OtherQuiet ==
    OtherDisconnects \/ DisconnectBackend("other") \/ BackendClose("other")
    \/ ChangeState("other")
\* Each of them is a plain step of the other thread, along its path.
LEMMA OtherFacts ==
    ASSUME BaseInv, OtherQuiet
    PROVE  Plain("other") /\ OtherWalks
<1>1. TypeInv /\ "other" \in Thread /\ "other" # "main"
  BY DEF BaseInv, Thread
<1>2. /\ UNCHANGED <<file, socket_fd, event_fd, ring, backend, preferred, hand, connections>>
      /\ state' \in {state, "DISCONNECTED"}
  BY DEF OtherQuiet, OtherDisconnects, DisconnectBackend, BackendClose, ChangeState,
     client,
         bounds
<1>3. KeepsTypes
  BY <1>1, <1>2 DEF KeepsTypes, TypeInv
<1>4. ASSUME Keeps("other"), thread["other"].pc \notin Storing,
             thread'["other"].pc \notin Storing,
             thread'["other"].call \in {"none", thread["other"].call}
      PROVE  Plain("other")
  <2>1. thread'["other"].call = "accept" => thread["other"].call = "accept"
    BY <1>4
  <2> QED
    BY <1>1, <1>2, <1>3, <1>4, <2>1 DEF Plain
<1>5. CASE OtherDisconnects
  <2>1. /\ thread["other"].pc = "idle" /\ Goto("other", "exchange")
        /\ preferred \in Interruptible
    BY <1>5 DEF OtherDisconnects, At
  <2>2. /\ Keeps("other") /\ thread'["other"].pc = "exchange"
        /\ thread'["other"].call = thread["other"].call
        /\ thread'["other"].ret = thread["other"].ret
    BY <1>1, <2>1, GotoFacts, LabelFacts
  <2> QED
    BY <1>2, <1>4, <2>1, <2>2 DEF OtherWalks, Storing, Accepting
<1>6. CASE DisconnectBackend("other")
  <2>1. /\ thread["other"].pc = "disconnect_backend"
        /\ CallClose("other", "backend_close", "state")
    BY <1>6 DEF DisconnectBackend, At
  <2>2. /\ Keeps("other") /\ thread'["other"].pc = "backend_close"
        /\ thread'["other"].call = thread["other"].call /\ thread'["other"].ret = "state"
    BY <1>1, <2>1, CallCloseFacts, LabelFacts
  <2> QED
    BY <1>2, <1>4, <2>1, <2>2 DEF OtherWalks, Storing, Accepting
<1>7. CASE BackendClose("other")
  <2> DEFINE label == IF backend = "IO_URING" THEN "ring_close" ELSE "event_close"
  <2>1. thread["other"].pc = "backend_close" /\ Goto("other", label)
    BY <1>7 DEF BackendClose, At
  <2>2. label \in Label /\ label \in {"ring_close", "event_close"}
    BY LabelFacts
  <2>3. /\ Keeps("other") /\ thread'["other"].pc = label
        /\ thread'["other"].call = thread["other"].call
        /\ thread'["other"].ret = thread["other"].ret
    BY <1>1, <2>1, <2>2, GotoFacts
  <2>4. OtherWalks
    BY <1>2, <2>1, <2>3 DEF OtherWalks
  <2> HIDE DEF label
  <2> QED
    BY <1>4, <2>1, <2>2, <2>3, <2>4 DEF Storing, Accepting
<1>8. CASE ChangeState("other")
  <2>1. thread["other"].pc = "state" /\ Return("other")
    BY <1>8 DEF ChangeState, At
  <2>2. /\ Keeps("other") /\ thread'["other"].pc = "idle"
        /\ thread'["other"].call = "none" /\ thread'["other"].ret = "state"
    BY <1>1, <2>1, ReturnFacts
  <2> QED
    BY <1>2, <1>4, <2>1, <2>2 DEF OtherWalks, Storing, Accepting
<1> QED
  BY <1>5, <1>6, <1>7, <1>8 DEF OtherQuiet

\* A file of another part of the program comes or goes.
Foreign ==
    \/ /\ Free # {}
       /\ \A k \in Fd : file'[k] = IF k = Lowest THEN "foreign" ELSE file[k]
    \/ \E n \in Fd : /\ file[n] = "foreign"
                     /\ \A k \in Fd : file'[k] = IF k = n THEN "free" ELSE file[k]
\* Neither changes anything but that file.
LEMMA ForeignFacts ==
    ASSUME BaseInv, ForeignOpens \/ ForeignCloses
    PROVE  /\ BaseInv' /\ Foreign
           /\ UNCHANGED <<socket_fd, event_fd, ring, backend, preferred, thread>>
<1>1. /\ TypeInv /\ FreshInv /\ thread \in [Thread -> ThreadState] /\ "main" \in Thread
  BY DEF BaseInv, TypeInv, Thread
<1>2. UNCHANGED <<socket_fd, event_fd, ring, backend, state, preferred, thread, hand,
                  connections>>
  BY DEF ForeignOpens, ForeignCloses, client, bounds
<1>3. file' \in [Fd -> File] /\ Foreign
  <2>1. CASE ForeignOpens
    <3>1. Free # {} /\ file' = Given("foreign") /\ "foreign" \in File
      BY <2>1 DEF ForeignOpens, File
    <3> QED
      BY <1>1, <3>1, GivenFacts DEF Foreign
  <2>2. CASE ForeignCloses
    <3>1. PICK n \in Fd : file[n] = "foreign" /\ file' = ClosedFile(n)
      BY <2>2 DEF ForeignCloses
    <3>2. n \in 0..MaxFd
      BY TransportAssumption DEF Fd
    <3> QED
      BY <1>1, <3>1, <3>2, ClosedFileFacts DEF Foreign
  <2> QED
    BY <2>1, <2>2
<1>4. TypeInv'
  BY <1>1, <1>2, <1>3 DEF TypeInv
<1>5. FreshInv' /\ HandInv'
  BY <1>2 DEF BaseInv, FreshInv, HandInv, At, Main
<1> QED
  BY <1>2, <1>3, <1>4, <1>5 DEF BaseInv

\* backend_init selects a ring, epoll or poll for the socket just stored.
Selects ==
    \/ /\ Free # {} /\ ring' = [fd |-> Lowest, mapped |-> TRUE]
       /\ \A k \in Fd : file'[k] = IF k = Lowest THEN "ring" ELSE file[k]
       /\ backend' = "IO_URING" /\ event_fd' = event_fd
    \/ /\ Free # {} /\ event_fd' = Lowest /\ backend' = "EPOLL" /\ ring' = ring
       /\ \A k \in Fd : file'[k] = IF k = Lowest THEN "epoll" ELSE file[k]
    \/ /\ backend' = "POLL" /\ UNCHANGED <<file, event_fd, ring>>

\* It ends in one of these selections, and in poll when that is what was asked for.
LEMMA BackendInitFacts ==
    ASSUME BaseInv, BackendInit
    PROVE  /\ Plain("main") /\ thread["main"].pc = "init" /\ socket_fd' = socket_fd
           /\ thread'["main"].pc \in {"handshake", "accepted"}
           /\ Selects /\ (preferred = "POLL" => backend' = "POLL")
<1>1. /\ TypeInv /\ "main" \in Thread /\ event_fd \in 0..MaxFd
      /\ ring \in [fd : 0..MaxFd, mapped : BOOLEAN]
  BY DEF BaseInv, TypeInv, Thread
<1> DEFINE label == IF Main.call = "open" THEN "handshake" ELSE "accepted"
<1>2. /\ thread["main"].pc = "init" /\ MainGoes(label)
      /\ InitRing \/ InitEpoll \/ InitPoll
      /\ UNCHANGED <<socket_fd, state, preferred, hand, connections>>
  BY DEF BackendInit, At, bounds
<1>3. label \in Label /\ label \in {"handshake", "accepted"}
  BY LabelFacts
<1> HIDE DEF label
<1>4. /\ Keeps("main") /\ thread'["main"].pc = label
      /\ thread'["main"].call = thread["main"].call
  BY <1>1, <1>2, <1>3, MainGoesFacts
<1>5. /\ Selects /\ (preferred = "POLL" => backend' = "POLL")
      /\ file' \in [Fd -> File] /\ event_fd' \in 0..MaxFd
      /\ ring' \in [fd : 0..MaxFd, mapped : BOOLEAN]
      /\ backend' \in {"NONE", "IO_URING", "EPOLL", "POLL"}
  <2>1. CASE InitRing
    <3>1. /\ Free # {} /\ "ring" \in File /\ file' = Given("ring")
          /\ ring' = [fd |-> Lowest, mapped |-> TRUE] /\ preferred \in {"NONE", "IO_URING"}
          /\ backend' = "IO_URING" /\ event_fd' = event_fd
      BY <2>1 DEF InitRing, File
    <3> QED
      BY <1>1, <1>3, <3>1, GivenFacts DEF Selects
  <2>2. CASE InitEpoll
    <3>1. /\ Free # {} /\ "epoll" \in File /\ file' = Given("epoll")
          /\ event_fd' = Lowest /\ preferred # "POLL"
          /\ backend' = "EPOLL" /\ ring' = ring
      BY <2>2 DEF InitEpoll, RegistersEpoll, File
    <3> QED
      BY <1>1, <1>3, <3>1, GivenFacts DEF Selects
  <2>3. CASE InitPoll
    BY <1>1, <1>3, <2>3 DEF InitPoll, Selects, TypeInv
  <2> QED
    BY <1>2, <2>1, <2>2, <2>3
<1>6. KeepsTypes
  BY <1>1, <1>2, <1>5 DEF KeepsTypes, TypeInv
<1>7. Plain("main")
  BY <1>1, <1>2, <1>3, <1>4, <1>6, PlainStep DEF Storing, Accepting
<1> QED
  BY <1>2, <1>3, <1>4, <1>5, <1>7

\* The choice behind a ring that failed is epoll or poll.
LEMMA FallbackFacts ==
    ASSUME BaseInv, Fallback
    PROVE  /\ Plain("main") /\ thread["main"].pc = "fallback" /\ socket_fd' = socket_fd
           /\ preferred # "IO_URING"
           /\ thread'["main"].pc \in {"epoll_wait", "poll_wait"}
           /\ Selects
<1>1. /\ TypeInv /\ "main" \in Thread /\ event_fd \in 0..MaxFd
      /\ ring \in [fd : 0..MaxFd, mapped : BOOLEAN]
  BY DEF BaseInv, TypeInv, Thread
<1>2. /\ thread["main"].pc = "fallback" /\ preferred # "IO_URING"
      /\ UNCHANGED <<socket_fd, ring, state, preferred, hand, connections>>
  BY DEF Fallback, At, bounds
<1>3. PICK label \in {"epoll_wait", "poll_wait"} :
        /\ MainGoes(label)
        /\ label = "epoll_wait" => RegistersEpoll(Main.wait_fd)
        /\ label = "poll_wait" => backend' = "POLL" /\ UNCHANGED <<file, event_fd>>
  BY DEF Fallback
<1>4. /\ Keeps("main") /\ thread'["main"].pc = label
      /\ thread'["main"].call = thread["main"].call
  BY <1>1, <1>3, MainGoesFacts, LabelFacts
<1>5. /\ Selects
      /\ file' \in [Fd -> File] /\ event_fd' \in 0..MaxFd
      /\ backend' \in {"NONE", "IO_URING", "EPOLL", "POLL"}
  <2>1. CASE label = "epoll_wait"
    <3>1. /\ Free # {} /\ "epoll" \in File /\ file' = Given("epoll")
          /\ event_fd' = Lowest /\ backend' = "EPOLL"
      BY <1>3, <2>1 DEF RegistersEpoll, File
    <3> QED
      BY <1>1, <1>2, <3>1, GivenFacts DEF Selects
  <2>2. CASE label = "poll_wait"
    BY <1>1, <1>2, <1>3, <2>2 DEF Selects, TypeInv
  <2> QED
    BY <2>1, <2>2
<1>6. KeepsTypes
  BY <1>1, <1>2, <1>5 DEF KeepsTypes, TypeInv
<1>7. Plain("main")
  BY <1>1, <1>2, <1>4, <1>6, PlainStep DEF Storing, Accepting
<1> QED
  BY <1>2, <1>4, <1>5, <1>7

\* mc_server_accept gives up.
LEMMA AcceptRefusesFacts ==
    ASSUME BaseInv, AcceptRefuses
    PROVE  /\ Plain("main") /\ thread["main"].pc \in Accepting
           /\ thread'["main"].pc = "idle"
           /\ UNCHANGED <<socket_fd, event_fd, ring, backend>>
           /\ \A k \in Fd : file'[k] = IF k = thread["main"].fd THEN "free" ELSE file[k]
<1>1. /\ thread["main"].pc \in Accepting /\ Return("main") /\ hand' = NoHandshake
      /\ file' = ClosedFile(thread["main"].fd)
      /\ UNCHANGED <<socket_fd, event_fd, ring, backend, state, preferred, connections>>
  BY DEF AcceptRefuses, Main, Accepting, client, bounds
<1>2. TypeInv /\ "main" \in Thread /\ thread["main"].fd \in 0..MaxFd
  BY ThreadFields DEF BaseInv
<1>3. /\ file' \in [Fd -> File]
      /\ \A k \in Fd : file'[k] = IF k = thread["main"].fd THEN "free" ELSE file[k]
  BY <1>1, <1>2, ClosedFileFacts
<1>4. Keeps("main") /\ thread'["main"].pc = "idle" /\ thread'["main"].call = "none"
  BY <1>1, <1>2, ReturnFacts
<1>5. KeepsTypes
  BY <1>1, <1>2, <1>3 DEF KeepsTypes, TypeInv
<1>6. Plain("main")
  BY <1>1, <1>4, <1>5 DEF Plain, Storing, Accepting
<1> QED
  BY <1>1, <1>3, <1>4, <1>6

\* A connection is made: connect_tcp's, or one that is accepted.
LEMMA NewSocketFacts ==
    ASSUME BaseInv, Open \/ Accept
    PROVE  /\ BaseInv' /\ thread["main"].pc = "idle" /\ Keeps("main")
           /\ thread'["main"].pc \in {"store", "accept_size"}
           /\ thread'["main"].fd = Lowest /\ Lowest # 0 /\ Lowest \in Fd
           /\ file[Lowest] = "free" /\ ~Connected
           /\ \A k \in Fd : file'[k] = IF k = Lowest THEN "socket" ELSE file[k]
           /\ UNCHANGED <<socket_fd, event_fd, ring, backend, preferred>>
<1>1. /\ TypeInv /\ FreshInv /\ HandInv /\ connections \in Nat /\ "main" \in Thread
      /\ MaxHandshake \in Nat
  BY TransportAssumption DEF BaseInv, TypeInv, Thread
<1>2. PICK name \in {"open", "accept"}, label \in {"store", "accept_size"} :
        /\ BeginWithSocket(name, label)
        /\ name = "open" => label = "store" /\ hand' = hand
        /\ name = "accept" =>
             /\ label = "accept_size"
             /\ \E header \in 1..2, size \in 0..(MaxHandshake + 1) :
                   hand' = [header |-> header, size |-> size, taken |-> 0]
  BY DEF Open, Accept
<1>3. UNCHANGED <<socket_fd, event_fd, ring, backend, state, preferred>> /\ socket_fd = 0
  BY <1>1 DEF Open, Accept, client, Connected, FreshInv
<1>4. /\ Keeps("main") /\ thread["main"].pc = "idle"
      /\ Lowest \in Free /\ file' = Given("socket")
      /\ thread'["main"].pc = label /\ thread'["main"].call = name
      /\ thread'["main"].fd = Lowest /\ connections' = connections + 1
  <2>1. name \in CallName /\ label \in Label
    BY LabelFacts DEF CallName
  <2> QED
    BY <1>1, <1>2, <2>1, BeginWithSocketFacts DEF At, Given
<1>5. /\ file' \in [Fd -> File] /\ Lowest # 0 /\ Lowest \in Fd /\ file[Lowest] = "free"
      /\ \A k \in Fd : file'[k] = IF k = Lowest THEN "socket" ELSE file[k]
  <2>1. Free # {} /\ "socket" \in File
    BY <1>4 DEF File
  <2> QED
    BY <1>1, <1>4, <2>1, GivenFacts
<1>6. /\ hand' \in [header : 0..2, size : 0..(MaxHandshake + 1), taken : Nat]
      /\ hand'.taken <= hand'.header + MaxHandshake
      /\ label = "accept_size" => hand'.taken < hand'.header
      /\ label = "store" => name = "open"
  <2>1. CASE name = "open"
    BY <1>1, <1>2, <2>1 DEF TypeInv, HandInv
  <2>2. CASE name = "accept"
    <3>1. PICK header \in 1..2, size \in 0..(MaxHandshake + 1) :
            hand' = [header |-> header, size |-> size, taken |-> 0]
      BY <1>2, <2>2
    <3> QED
      BY <1>1, <1>2, <2>2, <3>1
  <2> QED
    BY <2>1, <2>2
<1>7. TypeInv'
  BY <1>1, <1>3, <1>4, <1>5, <1>6 DEF TypeInv, Keeps
<1>8. FreshInv'
  BY <1>1, <1>3, <1>4 DEF FreshInv
<1>9. HandInv'
  BY <1>2, <1>4, <1>6 DEF HandInv, At, Main, Accepting
<1> QED
  BY <1>3, <1>4, <1>5, <1>7, <1>8, <1>9 DEF BaseInv, Connected

\* The number of the connection becomes the client's.
LEMMA StoreFacts ==
    ASSUME BaseInv, StoreSocket
    PROVE  /\ BaseInv' /\ Keeps("main") /\ thread["main"].pc = "store"
           /\ thread'["main"].pc = "backend_close" /\ thread'["main"].ret = "init"
           /\ socket_fd = 0 /\ socket_fd' = thread["main"].fd
           /\ UNCHANGED <<file, event_fd, ring, backend, preferred>>
<1>1. /\ TypeInv /\ FreshInv /\ HandInv /\ "main" \in Thread
      /\ thread["main"].fd \in 0..MaxFd
  BY ThreadFields DEF BaseInv, Thread
<1>2. /\ thread["main"].pc = "store" /\ CallClose("main", "backend_close", "init")
      /\ socket_fd' = thread["main"].fd
      /\ UNCHANGED <<file, event_fd, ring, backend, state, preferred, hand, connections>>
  BY DEF StoreSocket, At, Main, bounds
<1>3. /\ Keeps("main") /\ thread'["main"].pc = "backend_close"
      /\ thread'["main"].call = thread["main"].call /\ thread'["main"].ret = "init"
  BY <1>1, <1>2, CallCloseFacts, LabelFacts
<1>4. socket_fd = 0 /\ connections # 0
  BY <1>1, <1>2 DEF FreshInv, At, Main, Storing
<1>5. TypeInv'
  BY <1>1, <1>2, <1>3 DEF TypeInv, Keeps
<1>6. FreshInv'
  BY <1>2, <1>3, <1>4 DEF FreshInv, Main, Storing, Accepting
<1>7. HandInv'
  BY <1>1, <1>2, <1>3 DEF HandInv, At, Main, Accepting
<1> QED
  BY <1>2, <1>3, <1>4, <1>5, <1>6, <1>7 DEF BaseInv

\* The handshake is read no further than its frame.
LEMMA AcceptFacts ==
    ASSUME BaseInv, AcceptSize \/ AcceptBody \/ AcceptClient
    PROVE  /\ BaseInv' /\ Keeps("main") /\ thread["main"].pc \in Accepting
           /\ thread'["main"].pc \in Storing /\ thread'["main"].fd = thread["main"].fd
           /\ UNCHANGED <<file, socket_fd, event_fd, ring, backend, preferred>>
<1>1. /\ TypeInv /\ FreshInv /\ HandInv /\ "main" \in Thread /\ MaxHandshake \in Nat
      /\ hand \in [header : 0..2, size : 0..(MaxHandshake + 1), taken : Nat]
  BY TransportAssumption DEF BaseInv, TypeInv, Thread
<1>2. UNCHANGED <<file, socket_fd, event_fd, ring, backend, state, preferred, connections>>
  BY DEF AcceptSize, AcceptBody, AcceptClient, client, bounds
<1>3. PICK label \in Storing :
        /\ MainGoes(label) /\ thread["main"].pc \in Accepting
        /\ hand' \in [header : 0..2, size : 0..(MaxHandshake + 1), taken : Nat]
        /\ hand'.taken <= hand'.header + MaxHandshake
        /\ label = "accept_size" => hand'.taken < hand'.header
        /\ label = "accept_body" =>
             hand'.size \in 1..MaxHandshake /\ hand'.taken < hand'.header + hand'.size
        /\ label \in {"accept_check", "store"} => hand'.taken = hand'.header + hand'.size
  <2>1. CASE AcceptSize
    <3>1. /\ thread["main"].pc = "accept_size" /\ hand.taken < hand.header
          /\ hand' = [hand EXCEPT !.taken = @ + 1]
          /\ MainGoes(IF hand'.taken < hand.header THEN "accept_size"
                      ELSE IF hand.size \in 1..MaxHandshake THEN "accept_body"
                      ELSE "accept_refuse")
      BY <1>1, <2>1 DEF AcceptSize, HandInv, At
    <3>2. /\ hand' \in [header : 0..2, size : 0..(MaxHandshake + 1), taken : Nat]
          /\ hand'.taken = hand.taken + 1 /\ hand'.header = hand.header
          /\ hand'.size = hand.size
      BY <1>1, <3>1
    <3>3. {"accept_size", "accept_body", "accept_refuse"} \subseteq Storing
      BY DEF Storing, Accepting
    <3>4. /\ thread["main"].pc \in Accepting /\ hand'.taken <= hand'.header + MaxHandshake
          /\ ~(hand'.taken < hand.header) => hand'.taken = hand.header
      BY <1>1, <3>1, <3>2 DEF Accepting
    <3>5. CASE hand'.taken < hand.header
      BY <3>1, <3>2, <3>3, <3>4, <3>5
    <3>6. CASE ~(hand'.taken < hand.header) /\ hand.size \in 1..MaxHandshake
      <4>1. MainGoes("accept_body") /\ hand'.taken < hand'.header + hand'.size
        BY <1>1, <3>1, <3>2, <3>4, <3>6
      <4> QED
        BY <3>2, <3>3, <3>4, <3>6, <4>1
    <3>7. CASE ~(hand'.taken < hand.header) /\ hand.size \notin 1..MaxHandshake
      BY <3>1, <3>2, <3>3, <3>4, <3>7
    <3> QED
      BY <3>5, <3>6, <3>7
  <2>2. CASE AcceptBody
    <3>1. /\ thread["main"].pc = "accept_body" /\ hand.size \in 1..MaxHandshake
          /\ hand.taken < hand.header + hand.size
          /\ \E n \in 1..AcceptMissing : hand' = [hand EXCEPT !.taken = @ + n]
          /\ MainGoes(IF hand'.taken < hand.header + hand.size THEN "accept_body"
                      ELSE "accept_check")
      BY <1>1, <2>2 DEF AcceptBody, HandInv, At
    <3>2. /\ hand' \in [header : 0..2, size : 0..(MaxHandshake + 1), taken : Nat]
          /\ hand'.header = hand.header /\ hand'.size = hand.size
          /\ hand'.taken <= hand.header + hand.size
      BY <1>1, <3>1 DEF AcceptMissing
    <3>3. {"accept_body", "accept_check"} \subseteq Storing
      BY DEF Storing, Accepting
    <3>4. thread["main"].pc \in Accepting /\ hand'.taken <= hand'.header + MaxHandshake
      BY <1>1, <3>1, <3>2 DEF Accepting
    <3>5. CASE hand'.taken < hand.header + hand.size
      BY <3>1, <3>2, <3>3, <3>4, <3>5
    <3>6. CASE ~(hand'.taken < hand.header + hand.size)
      <4>1. MainGoes("accept_check") /\ hand'.taken = hand'.header + hand'.size
        BY <1>1, <3>1, <3>2, <3>6
      <4> QED
        BY <3>2, <3>3, <3>4, <4>1
    <3> QED
      BY <3>5, <3>6
  <2>3. CASE AcceptClient
    <3>1. thread["main"].pc = "accept_check" /\ MainGoes("store") /\ hand' = hand
      BY <2>3 DEF AcceptClient, At
    <3>2. thread["main"].pc \in Accepting /\ "store" \in Storing
      BY <3>1 DEF Storing, Accepting
    <3>3. hand.taken = hand.header + hand.size
      BY <1>1, <3>1, <3>2 DEF HandInv, Main
    <3> QED
      BY <1>1, <3>1, <3>2, <3>3 DEF HandInv
  <2> QED
    BY <2>1, <2>2, <2>3
<1>4. /\ Keeps("main") /\ thread'["main"].pc = label
      /\ thread'["main"].call = thread["main"].call
      /\ thread'["main"].fd = thread["main"].fd
  <2>1. label \in Label
    BY LabelFacts DEF Storing, Accepting
  <2> QED
    BY <1>1, <1>3, <2>1, MainGoesFacts
<1>5. /\ thread["main"].pc \in Storing /\ thread["main"].call = "accept"
      /\ socket_fd = 0 /\ connections # 0
  BY <1>1, <1>3 DEF HandInv, FreshInv, At, Main, Storing, Accepting
<1>6. TypeInv'
  BY <1>1, <1>2, <1>3, <1>4 DEF TypeInv, Keeps
<1>7. FreshInv'
  BY <1>2, <1>5 DEF FreshInv
<1>8. HandInv'
  BY <1>3, <1>4, <1>5 DEF HandInv, At, Main, Storing, Accepting
<1> QED
  BY <1>2, <1>3, <1>4, <1>6, <1>7, <1>8 DEF BaseInv

-----------------------------------------------------------------------------
(* What holds whoever disconnects.                                          *)

\* The steps of the client's thread that walk.
MainWalk == WalkingCall \/ WalkingDisconnect \/ WalkingWait \/ WalkingStep
\* Every step, by its shape.
LEMMA Shapes ==
    ASSUME Next
    PROVE  \/ MainWalk \/ OtherQuiet
           \/ Open \/ Accept \/ StoreSocket
           \/ AcceptSize \/ AcceptBody \/ AcceptClient \/ AcceptRefuses
           \/ BackendInit \/ Fallback \/ ForeignOpens \/ ForeignCloses
           \/ \E t \in Thread : \/ ExchangeSocket(t) \/ CloseSocket(t)
                                \/ RingClose(t) \/ RingClear(t)
                                \/ EventClose(t) \/ EventClear(t)
  BY DEF Next, Call, MainStep, AcceptStep, WaitStep, DisconnectStep, Thread, MainWalk,
         OtherQuiet, WalkingCall, WalkingDisconnect, WalkingWait, WalkingStep

\* A walk of the client's thread, whichever it is.
LEMMA MainWalkFacts ==
    ASSUME BaseInv, MainWalk
    PROVE  Plain("main") /\ Walks
  BY CallsWalk, DisconnectWalks, WaitWalks, StepWalks DEF MainWalk

\* Every step keeps the basic invariant.
LEMMA BaseStep == BaseInv /\ [Next]_vars => BaseInv'
<1> SUFFICES ASSUME BaseInv, [Next]_vars PROVE BaseInv'
  OBVIOUS
<1>1. "main" \in Thread /\ "other" \in Thread
  BY DEF Thread
<1>2. CASE MainWalk \/ BackendInit \/ Fallback \/ AcceptRefuses
  <2>1. Plain("main")
    BY <1>2, MainWalkFacts, BackendInitFacts, FallbackFacts, AcceptRefusesFacts
  <2> QED
    BY <1>1, <2>1, PlainBase
<1>3. CASE OtherQuiet
  BY <1>1, <1>3, OtherFacts, PlainBase
<1>4. CASE Open \/ Accept \/ StoreSocket \/ AcceptSize \/ AcceptBody \/ AcceptClient
           \/ ForeignOpens \/ ForeignCloses
  BY <1>4, NewSocketFacts, StoreFacts, AcceptFacts, ForeignFacts
<1>5. ASSUME NEW t \in Thread,
             \/ ExchangeSocket(t) \/ CloseSocket(t) \/ RingClose(t) \/ RingClear(t)
             \/ EventClose(t) \/ EventClear(t)
      PROVE  BaseInv'
  <2>1. Plain(t)
    BY <1>5, ExchangeFacts, CloseSocketFacts, RingCloseFacts, RingClearFacts,
       EventCloseFacts, EventClearFacts
  <2> QED
    BY <2>1, PlainBase
<1>6. CASE UNCHANGED vars
  BY <1>6 DEF vars, client, bounds, BaseInv, TypeInv, FreshInv, HandInv, At, Main
<1> QED
  BY <1>2, <1>3, <1>4, <1>5, <1>6, Shapes

-----------------------------------------------------------------------------
(* What a client holds, if only one that polls is disconnected from another *)
(* thread.                                                                   *)

\* A step that moves one thread between labels that own nothing, or own the
\* same, and leaves sockets as they are, keeps every socket's owner.
LEMMA SocketsKept ==
    ASSUME BaseInv, SocketsInv, NEW t \in Thread, Keeps(t), socket_fd' = socket_fd,
           \A k \in Fd : file'[k] = "socket" <=> file[k] = "socket",
           thread'[t].pc \in Owning <=> thread[t].pc \in Owning,
           thread[t].pc \in Owning => thread'[t].fd = thread[t].fd
    PROVE  SocketsInv'
<1>1. \A u \in Thread : /\ thread'[u].pc \in Owning <=> thread[u].pc \in Owning
                        /\ thread[u].pc \in Owning => thread'[u].fd = thread[u].fd
  BY DEF Keeps
<1>2. Own("main")' = Own("main") /\ Own("other")' = Own("other")
  BY <1>1 DEF Own, Thread
<1>3. \A u \in Thread : thread'[u].pc \in Owning => thread'[u].fd # 0
  BY <1>1 DEF SocketsInv
<1>4. \A n \in Fd : file'[n] = "socket" <=> n \in {socket_fd', Own("main")', Own("other")'}
  BY <1>2 DEF SocketsInv
<1>5. /\ socket_fd' # 0 => socket_fd' \notin {Own("main")', Own("other")'}
      /\ Own("main")' # 0 => Own("main")' # Own("other")'
  BY <1>2 DEF SocketsInv
<1> QED
  BY <1>3, <1>4, <1>5 DEF SocketsInv

\* The walks of the client's thread.
LEMMA WalkHeld ==
    ASSUME BaseInv, HeldInv, Plain("main"), Walks
    PROVE  HeldInv'
<1>0. /\ OtherInv /\ BackendInv /\ MappedInv /\ FilesInv /\ SocketsInv /\ BesideInv
      /\ TypeInv
  BY DEF HeldInv, BaseInv
<1>1. /\ Keeps("main") /\ preferred' = preferred /\ thread'["other"] = thread["other"]
      /\ UNCHANGED <<file, socket_fd, event_fd, ring, backend>> /\ Path
      /\ "main" \in Thread
  BY DEF Plain, Keeps, KeepsTypes, Walks, Thread
<1>2. CASE thread' = thread
  BY <1>0, <1>1, <1>2 DEF HeldInv, OtherInv, BackendInv, MappedInv, FilesInv,
     SocketsInv,
                          BesideInv, At, Main, Own, Connected
<1>3. CASE thread' # thread
  <2>1. OtherInv'
    BY <1>0, <1>1 DEF OtherInv, At
  <2>2. BackendInv'
    BY <1>0, <1>1, <1>3 DEF BackendInv, At, Main, Path
  <2>3. MappedInv'
    BY <1>0, <1>1, <1>3 DEF MappedInv, BackendInv, At, Main, Path
  <2>4. FilesInv'
    <3>1. /\ At("main", "event_clear")' <=> At("main", "event_clear")
          /\ At("main", "ring_clear")' <=> At("main", "ring_clear")
      BY <1>1, <1>3 DEF At, Path
    <3> QED
      BY <1>0, <1>1, <3>1 DEF FilesInv
  <2>5. SocketsInv'
    <3>1. thread'["main"].pc \notin Owning /\ thread["main"].pc \notin Owning
      BY <1>1, <1>3 DEF Owning, Storing, Accepting, Path
    <3> QED
      BY <1>0, <1>1, <3>1, SocketsKept
  <2>6. BesideInv'
    <3>1. event_fd # 0 \/ ring # Closed => Connected \/ thread'["main"].pc \in Closing
      BY <1>0, <1>1, <1>3 DEF BesideInv, BackendInv, Main, Closing, Path, Connected
    <3>2. preferred # "POLL" =>
            /\ thread'["main"].pc \in Using => Connected
            /\ thread'["main"].pc \in {"backend_close", "ring_close", "ring_clear",
                   "event_close", "event_clear"} /\ thread'["main"].ret # "state" =>
                 Connected
      BY <1>0, <1>1, <1>3 DEF BesideInv, Main, Using, Path, Connected
    <3> QED
      BY <1>1, <3>1, <3>2 DEF BesideInv, Connected, Main
  <2> QED
    BY <2>1, <2>2, <2>3, <2>4, <2>5, <2>6 DEF HeldInv
<1> QED
  BY <1>2, <1>3

\* The walks of the other thread, which only a client that polls has.
LEMMA OtherWalkHeld ==
    ASSUME BaseInv, HeldInv, Interruptible \subseteq {"POLL"}, Plain("other"), OtherWalks
    PROVE  HeldInv'
<1>0. /\ OtherInv /\ BackendInv /\ MappedInv /\ FilesInv /\ SocketsInv /\ BesideInv
      /\ TypeInv
  BY DEF HeldInv, BaseInv
<1>1. /\ Keeps("other") /\ preferred' = preferred /\ thread'["main"] = thread["main"]
      /\ UNCHANGED <<file, socket_fd, event_fd, ring, backend>> /\ "other" \in Thread
  BY DEF Plain, Keeps, KeepsTypes, OtherWalks, Thread
<1>2. OtherInv'
  BY <1>0, <1>1 DEF OtherInv, At, OtherWalks, OtherLabel
<1>3. BackendInv' /\ MappedInv' /\ FilesInv' /\ BesideInv'
  BY <1>0, <1>1 DEF BackendInv, MappedInv, FilesInv, BesideInv, At, Main, Connected
<1>4. thread'["other"].pc \notin Owning /\ thread["other"].pc \notin Owning
  BY DEF Owning, Storing, Accepting, OtherWalks
<1>5. SocketsInv'
  BY <1>0, <1>1, <1>4, SocketsKept
<1> QED
  BY <1>2, <1>3, <1>5 DEF HeldInv

\* A client that polls has neither a ring nor an epoll descriptor, and the other
\* thread has no other client.
LEMMA PollHolds ==
    ASSUME BaseInv, HeldInv, preferred = "POLL"
    PROVE  event_fd = 0 /\ ring = Closed /\ ring.fd = 0 /\ backend \in {"NONE", "POLL"}
<1>1. event_fd = 0 /\ ring = Closed /\ backend \in {"NONE", "POLL"}
  BY DEF HeldInv, OtherInv, BackendInv
<1> QED
  BY <1>1 DEF Closed

\* Which thread takes a step of mc_client_disconnect.
LEMMA Actor ==
    ASSUME BaseInv, HeldInv, NEW t \in Thread, Plain(t), thread[t].pc # "idle"
    PROVE  /\ Keeps(t) /\ preferred' = preferred /\ "main" \in Thread /\ "other" \in Thread
           /\ \/ t = "main" /\ thread'["other"] = thread["other"]
              \/ /\ t = "other" /\ thread'["main"] = thread["main"]
                 /\ thread[t].ret = "state" /\ thread[t].pc \in OtherLabel
                 /\ preferred = "POLL" /\ event_fd = 0 /\ ring = Closed /\ ring.fd = 0
                 /\ backend \in {"NONE", "POLL"}
<1>1. t = "main" \/ t = "other"
  BY DEF Thread
<1>2. Keeps(t) /\ preferred' = preferred /\ "main" \in Thread /\ "other" \in Thread
  BY DEF Plain, KeepsTypes, Thread
<1>3. CASE t = "main"
  BY <1>2, <1>3 DEF Keeps
<1>4. CASE t = "other"
  <2>1. /\ preferred = "POLL" /\ thread[t].ret = "state" /\ thread[t].pc \in OtherLabel
    BY <1>4 DEF HeldInv, OtherInv, At
  <2> QED
    BY <1>2, <1>4, <2>1, PollHolds DEF Keeps
<1> QED
  BY <1>1, <1>3, <1>4

\* The exchange makes its thread the one owner of the client's socket.
LEMMA ExchangeHeld ==
    ASSUME BaseInv, HeldInv, NEW t \in Thread, ExchangeSocket(t)
    PROVE  HeldInv'
<1>0. /\ OtherInv /\ BackendInv /\ MappedInv /\ FilesInv /\ SocketsInv /\ BesideInv
      /\ TypeInv
  BY DEF HeldInv, BaseInv
<1>1. /\ Plain(t) /\ thread[t].pc = "exchange" /\ thread'[t].fd = socket_fd
      /\ thread'[t].pc = IF socket_fd # 0 THEN "close_socket" ELSE "disconnect_backend"
      /\ socket_fd' = 0 /\ UNCHANGED <<file, event_fd, ring, backend>>
      /\ thread'[t].ret = thread[t].ret
  BY ExchangeFacts
<1>2. /\ Keeps(t) /\ preferred' = preferred /\ "main" \in Thread /\ "other" \in Thread
      /\ \/ t = "main" /\ thread'["other"] = thread["other"]
         \/ /\ t = "other" /\ thread'["main"] = thread["main"]
            /\ thread[t].ret = "state" /\ thread[t].pc \in OtherLabel
            /\ preferred = "POLL" /\ event_fd = 0 /\ ring = Closed /\ ring.fd = 0
            /\ backend \in {"NONE", "POLL"}
  BY <1>1, Actor
<1>3. thread'[t].pc \in {"close_socket", "disconnect_backend"}
  BY <1>1
<1>4. OtherInv'
  BY <1>0, <1>1, <1>2, <1>3 DEF OtherInv, At, OtherLabel
<1>5. BackendInv' /\ MappedInv' /\ FilesInv'
  BY <1>0, <1>1, <1>2, <1>3 DEF BackendInv, MappedInv, FilesInv, At, Main
<1>6. BesideInv'
  BY <1>0, <1>1, <1>2, <1>3 DEF BesideInv, Main, Closing, Using
<1>7. SocketsInv'
  <2>1. Own(t) = 0 /\ Own(t)' = socket_fd
    BY <1>1 DEF Own, Owning, Storing, Accepting
  <2>2. \A u \in Thread : u # t => Own(u)' = Own(u)
    BY <1>2 DEF Own, Keeps
  <2>3. \A u \in Thread : thread'[u].pc \in Owning => thread'[u].fd # 0
    BY <1>0, <1>1, <1>2 DEF SocketsInv, Keeps, Owning, Storing, Accepting
  <2>4. CASE t = "main"
    BY <1>0, <1>1, <1>2, <2>1, <2>2, <2>3, <2>4 DEF SocketsInv
  <2>5. CASE t = "other"
    BY <1>0, <1>1, <1>2, <2>1, <2>2, <2>3, <2>5 DEF SocketsInv
  <2> QED
    BY <1>2, <2>4, <2>5
<1> QED
  BY <1>4, <1>5, <1>6, <1>7 DEF HeldInv

\* A thread closes its own socket, which no other thread and no field names.
LEMMA CloseSocketHeld ==
    ASSUME BaseInv, HeldInv, NEW t \in Thread, CloseSocket(t)
    PROVE  HeldInv'
<1>0. /\ OtherInv /\ BackendInv /\ MappedInv /\ FilesInv /\ SocketsInv /\ BesideInv
      /\ TypeInv
  BY DEF HeldInv, BaseInv
<1>1. /\ Plain(t) /\ thread[t].pc = "close_socket"
      /\ thread'[t].pc = "disconnect_backend"
      /\ UNCHANGED <<socket_fd, event_fd, ring, backend>>
      /\ \A k \in Fd : file'[k] = IF k = thread[t].fd THEN "free" ELSE file[k]
      /\ thread'[t].ret = thread[t].ret
  BY CloseSocketFacts
<1>2. /\ Keeps(t) /\ preferred' = preferred /\ "main" \in Thread /\ "other" \in Thread
      /\ \/ t = "main" /\ thread'["other"] = thread["other"]
         \/ /\ t = "other" /\ thread'["main"] = thread["main"]
            /\ thread[t].ret = "state" /\ thread[t].pc \in OtherLabel
            /\ preferred = "POLL" /\ event_fd = 0 /\ ring = Closed /\ ring.fd = 0
            /\ backend \in {"NONE", "POLL"}
  BY <1>1, Actor
<1>3. /\ thread[t].fd # 0 /\ Own(t) = thread[t].fd /\ Own(t)' = 0
      /\ thread[t].fd \in 0..MaxFd
  <2>1. thread[t].pc \in Owning /\ thread'[t].pc \notin Owning
    BY <1>1 DEF Owning, Storing, Accepting
  <2> QED
    BY <1>0, <2>1, ThreadFields DEF SocketsInv, Own
<1>4. thread[t].fd \in Fd /\ file[thread[t].fd] = "socket"
  <2>1. thread[t].fd \in Fd
    BY <1>3, TransportAssumption DEF Fd
  <2> QED
    BY <1>0, <1>2, <1>3, <2>1 DEF SocketsInv
<1>5. OtherInv'
  BY <1>0, <1>1, <1>2 DEF OtherInv, At, OtherLabel
<1>6. BackendInv' /\ MappedInv'
  BY <1>0, <1>1, <1>2 DEF BackendInv, MappedInv, At, Main
<1>7. FilesInv'
  BY <1>0, <1>1, <1>2, <1>4 DEF FilesInv, At
<1>8. BesideInv'
  BY <1>0, <1>1, <1>2 DEF BesideInv, Main, Closing, Using, Connected
<1>9. SocketsInv'
  <2>1. \A u \in Thread : u # t => Own(u)' = Own(u)
    BY <1>2 DEF Own, Keeps
  <2>2. \A u \in Thread : thread'[u].pc \in Owning => thread'[u].fd # 0
    BY <1>0, <1>1, <1>2 DEF SocketsInv, Keeps, Owning, Storing, Accepting
  <2>3. PICK u \in {"main", "other"} :
          /\ {t, u} = {"main", "other"} /\ u # t /\ Own(u)' = Own(u)
    BY <1>2, <2>1
  <2>4. /\ \A n \in Fd : file[n] = "socket" <=> n \in {socket_fd, Own(t), Own(u)}
        /\ socket_fd # 0 => socket_fd \notin {Own(t), Own(u)}
        /\ Own(t) # Own(u)
    BY <1>0, <1>3, <2>3 DEF SocketsInv
  <2>5. socket_fd # Own(t)
    BY <1>3, <2>4
  <2>6. \A n \in Fd : file'[n] = "socket" <=> n \in {socket_fd, Own(u)}
    BY <1>1, <1>3, <2>4, <2>5
  <2>7. /\ \A n \in Fd :
             file'[n] = "socket" <=> n \in {socket_fd', Own("main")', Own("other")'}
        /\ socket_fd' # 0 => socket_fd' \notin {Own("main")', Own("other")'}
        /\ Own("main")' # 0 => Own("main")' # Own("other")'
    <3>1. 0 \notin Fd
      BY TransportAssumption DEF Fd
    <3>2. Own(u)' = Own(u) /\ Own(t)' = 0 /\ socket_fd' = socket_fd
      BY <1>1, <1>3, <2>3
    <3>3. CASE t = "main" /\ u = "other"
      BY <2>4, <2>6, <3>1, <3>2, <3>3
    <3>4. CASE t = "other" /\ u = "main"
      BY <2>4, <2>6, <3>1, <3>2, <3>4
    <3> QED
      BY <1>2, <2>3, <3>3, <3>4
  <2> QED
    BY <2>2, <2>7 DEF SocketsInv
<1> QED
  BY <1>5, <1>6, <1>7, <1>8, <1>9 DEF HeldInv

\* The ring that is closed is the client's, and is forgotten before another opens.
LEMMA RingCloseHeld ==
    ASSUME BaseInv, HeldInv, NEW t \in Thread, RingClose(t) \/ RingClear(t)
    PROVE  HeldInv'
<1>0. /\ OtherInv /\ BackendInv /\ MappedInv /\ FilesInv /\ SocketsInv /\ BesideInv
      /\ TypeInv
  BY DEF HeldInv, BaseInv
<1>1. /\ Plain(t) /\ thread[t].pc \in {"ring_close", "ring_clear"}
      /\ UNCHANGED <<socket_fd, event_fd, backend>> /\ thread'[t].ret = thread[t].ret
  BY RingCloseFacts, RingClearFacts
<1>2. /\ t = "main" /\ Keeps("main") /\ preferred' = preferred
      /\ thread'["other"] = thread["other"] /\ "main" \in Thread
  <2>1. t # "other"
    BY <1>0, <1>1 DEF OtherInv, OtherLabel
  <2> QED
    BY <1>1, <2>1, Actor
<1>3. OtherInv'
  BY <1>0, <1>1, <1>2 DEF OtherInv, At
<1>4. CASE RingClose(t)
  <2>1. /\ thread["main"].pc = "ring_close" /\ thread'["main"].pc = "ring_clear"
        /\ ring'.fd = ring.fd
        /\ \A k \in Fd : file'[k] = IF k = ring.fd THEN "free" ELSE file[k]
    BY <1>2, <1>4, RingCloseFacts
  <2>2. \A k \in Fd : k = ring.fd => file[k] = "ring"
    BY <1>0, <2>1 DEF FilesInv, At
  <2>3. backend = "IO_URING"
    BY <1>0, <2>1 DEF BackendInv, Main
  <2>4. BackendInv' /\ MappedInv'
    BY <1>0, <1>1, <1>2, <2>1, <2>3 DEF BackendInv, MappedInv, At, Main
  <2>5. FilesInv'
    BY <1>0, <1>1, <2>1, <2>2 DEF FilesInv, At
  <2>6. SocketsInv'
    <3>1. \A k \in Fd : file'[k] = "socket" <=> file[k] = "socket"
      BY <2>1, <2>2
    <3>2. thread'["main"].pc \notin Owning /\ thread["main"].pc \notin Owning
      BY <2>1 DEF Owning, Storing, Accepting
    <3> QED
      BY <1>0, <1>1, <1>2, <3>1, <3>2, SocketsKept
  <2>7. BesideInv'
    BY <1>0, <1>1, <1>2, <2>1 DEF BesideInv, Main, Closing, Using, Connected
  <2> QED
    BY <1>3, <2>4, <2>5, <2>6, <2>7 DEF HeldInv
<1>5. CASE RingClear(t)
  <2>1. /\ thread["main"].pc = "ring_clear" /\ ring' = Closed /\ file' = file
        /\ thread'["main"].pc =
             IF thread["main"].ret = "fallback" THEN "fallback" ELSE "event_close"
    BY <1>2, <1>5, RingClearFacts
  <2>2. backend = "IO_URING" /\ event_fd = 0
    BY <1>0, <2>1 DEF BackendInv, Main
  <2>3. BackendInv' /\ MappedInv'
    BY <1>0, <1>1, <1>2, <2>1, <2>2 DEF BackendInv, MappedInv, At, Main
  <2>4. FilesInv'
    <3>1. 0 \notin Fd
      BY TransportAssumption DEF Fd
    <3> QED
      BY <1>0, <1>1, <2>1, <2>2, <3>1 DEF FilesInv, At, Closed
  <2>5. SocketsInv'
    <3>1. thread'["main"].pc \notin Owning /\ thread["main"].pc \notin Owning
      BY <2>1 DEF Owning, Storing, Accepting
    <3> QED
      BY <1>0, <1>1, <1>2, <2>1, <3>1, SocketsKept
  <2>6. BesideInv'
    BY <1>0, <1>1, <1>2, <2>1, <2>2 DEF BesideInv, Main, Closing, Using, Connected
  <2> QED
    BY <1>3, <2>3, <2>4, <2>5, <2>6 DEF HeldInv
<1> QED
  BY <1>4, <1>5

\* The epoll file that is closed is the client's.
LEMMA EventCloseHeld ==
    ASSUME BaseInv, HeldInv, NEW t \in Thread, EventClose(t)
    PROVE  HeldInv'
<1>0. /\ OtherInv /\ BackendInv /\ MappedInv /\ FilesInv /\ SocketsInv /\ BesideInv
      /\ 0 \notin Fd
  BY TransportAssumption DEF HeldInv, Fd
<1>1. /\ Plain(t) /\ thread[t].pc = "event_close" /\ thread'[t].pc = "event_clear"
      /\ UNCHANGED <<socket_fd, event_fd, ring, backend>>
      /\ \A k \in Fd : file'[k] = IF k = event_fd THEN "free" ELSE file[k]
      /\ thread'[t].ret = thread[t].ret
  BY EventCloseFacts
<1>2. /\ Keeps(t) /\ preferred' = preferred /\ "main" \in Thread /\ "other" \in Thread
      /\ \/ t = "main" /\ thread'["other"] = thread["other"]
         \/ /\ t = "other" /\ thread'["main"] = thread["main"]
            /\ thread[t].ret = "state" /\ thread[t].pc \in OtherLabel
            /\ preferred = "POLL" /\ event_fd = 0 /\ ring = Closed /\ ring.fd = 0
            /\ backend \in {"NONE", "POLL"}
  BY <1>1, Actor
<1>3. \A k \in Fd : k = event_fd => file[k] = "epoll"
  BY <1>0, <1>1, <1>2 DEF FilesInv, At
<1>4. OtherInv'
  BY <1>0, <1>1, <1>2 DEF OtherInv, At, OtherLabel
<1>5. BackendInv' /\ MappedInv'
  BY <1>0, <1>1, <1>2 DEF BackendInv, MappedInv, At, Main
<1>6. FilesInv'
  BY <1>0, <1>1, <1>2, <1>3 DEF FilesInv, At
<1>7. BesideInv'
  BY <1>0, <1>1, <1>2 DEF BesideInv, Main, Closing, Using, Connected
<1>8. SocketsInv'
  <2>1. \A k \in Fd : file'[k] = "socket" <=> file[k] = "socket"
    BY <1>1, <1>3
  <2>2. thread'[t].pc \notin Owning /\ thread[t].pc \notin Owning
    BY <1>1 DEF Owning, Storing, Accepting
  <2> QED
    BY <1>0, <1>1, <1>2, <2>1, <2>2, SocketsKept
<1> QED
  BY <1>4, <1>5, <1>6, <1>7, <1>8 DEF HeldInv

\* Behind that close event_fd is forgotten: no file is left without a field.
LEMMA EventClearHeld ==
    ASSUME BaseInv, HeldInv, NEW t \in Thread, EventClear(t)
    PROVE  HeldInv'
<1>0. /\ OtherInv /\ BackendInv /\ MappedInv /\ FilesInv /\ SocketsInv /\ BesideInv
      /\ 0 \notin Fd
  BY TransportAssumption DEF HeldInv, Fd
<1>1. /\ Plain(t) /\ thread[t].pc = "event_clear" /\ thread'[t].pc = thread[t].ret
      /\ UNCHANGED <<file, socket_fd, ring>> /\ event_fd' = 0 /\ backend' = "NONE"
      /\ thread'[t].ret = thread[t].ret
  BY EventClearFacts
<1>2. /\ Keeps(t) /\ preferred' = preferred /\ "main" \in Thread /\ "other" \in Thread
      /\ \/ t = "main" /\ thread'["other"] = thread["other"]
         \/ /\ t = "other" /\ thread'["main"] = thread["main"]
            /\ thread[t].ret = "state" /\ thread[t].pc \in OtherLabel
            /\ preferred = "POLL" /\ event_fd = 0 /\ ring = Closed /\ ring.fd = 0
            /\ backend \in {"NONE", "POLL"}
  BY <1>1, Actor
<1>3. thread'[t].pc \in {"state", "init"} /\ ring = Closed
  <2>1. thread[t].ret \in {"state", "init", "fallback"}
    BY ThreadFields DEF BaseInv
  <2>2. CASE t = "main"
    BY <1>0, <1>1, <2>1, <2>2 DEF BackendInv, Main
  <2>3. CASE t = "other"
    BY <1>1, <1>2, <2>3
  <2> QED
    BY <1>2, <2>2, <2>3
<1>4. OtherInv'
  BY <1>0, <1>1, <1>2 DEF OtherInv, At, OtherLabel
<1>5. BackendInv' /\ MappedInv'
  BY <1>0, <1>1, <1>2, <1>3 DEF BackendInv, MappedInv, At, Main
<1>6. FilesInv'
  BY <1>0, <1>1, <1>2, <1>3 DEF FilesInv, At
<1>7. BesideInv'
  BY <1>0, <1>1, <1>2, <1>3 DEF BesideInv, Main, Using, Connected
<1>8. SocketsInv'
  <2>1. thread'[t].pc \notin Owning /\ thread[t].pc \notin Owning
    BY <1>1, <1>3 DEF Owning, Storing, Accepting
  <2> QED
    BY <1>0, <1>1, <1>2, <2>1, SocketsKept
<1> QED
  BY <1>4, <1>5, <1>6, <1>7, <1>8 DEF HeldInv

\* Selecting a backend, when there is none.
LEMMA SelectHeld ==
    ASSUME BaseInv, HeldInv, BackendInit \/ Fallback
    PROVE  HeldInv'
<1>0. /\ OtherInv /\ BackendInv /\ MappedInv /\ FilesInv /\ SocketsInv /\ BesideInv
      /\ TypeInv
  BY DEF HeldInv, BaseInv
<1>1. /\ Plain("main") /\ thread["main"].pc \in {"init", "fallback"}
      /\ socket_fd' = socket_fd
      /\ thread'["main"].pc \in {"handshake", "accepted", "epoll_wait", "poll_wait"}
      /\ Selects
  BY BackendInitFacts, FallbackFacts
<1>2. /\ Keeps("main") /\ preferred' = preferred /\ thread'["other"] = thread["other"]
      /\ "main" \in Thread
  BY <1>1 DEF Plain, Keeps, KeepsTypes, Thread
<1>3. /\ event_fd = 0 /\ ring = Closed /\ ring.fd = 0
      /\ preferred # "POLL" => Connected
      /\ preferred = "POLL" => backend' = "POLL"
  <2>1. event_fd = 0 /\ ring = Closed
    BY <1>0, <1>1 DEF BackendInv, At, Main
  <2>2. ring.fd = 0
    BY <2>1 DEF Closed
  <2>3. preferred # "POLL" => Connected
    BY <1>0, <1>1 DEF BesideInv, Main, Using
  <2>4. CASE BackendInit
    BY <2>1, <2>2, <2>3, <2>4, BackendInitFacts
  <2>5. CASE Fallback
    <3>1. thread["main"].pc = "fallback"
      BY <2>5, FallbackFacts
    <3>2. preferred # "POLL"
      BY <1>0, <3>1 DEF BackendInv, OtherInv, Main
    <3> QED
      BY <2>1, <2>2, <2>3, <3>2
  <2> QED
    BY <2>4, <2>5
<1>4. PICK n \in 0..MaxFd, kind \in {"none", "ring", "epoll"} :
        /\ kind # "none" => n \in Fd /\ file[n] = "free"
        /\ \A k \in Fd : file'[k] = IF kind # "none" /\ k = n THEN kind ELSE file[k]
        /\ kind = "none" => backend' = "POLL" /\ event_fd' = 0 /\ ring' = Closed
        /\ kind = "ring" => /\ backend' = "IO_URING" /\ event_fd' = 0
                            /\ ring' = [fd |-> n, mapped |-> TRUE]
        /\ kind = "epoll" => backend' = "EPOLL" /\ event_fd' = n /\ ring' = Closed
  <2>1. Free # {} => Lowest \in Fd /\ file[Lowest] = "free" /\ Lowest \in 0..MaxFd
    BY LowestFree, TransportAssumption DEF Free, Fd
  <2>2. 0 \in 0..MaxFd
    BY TransportAssumption
  <2> HIDE DEF Lowest, Free
  <2>3. CASE UNCHANGED <<file, event_fd, ring>> /\ backend' = "POLL"
    BY <1>3, <2>2, <2>3
  <2>4. CASE /\ Free # {} /\ ring' = [fd |-> Lowest, mapped |-> TRUE]
             /\ \A k \in Fd : file'[k] = IF k = Lowest THEN "ring" ELSE file[k]
             /\ backend' = "IO_URING" /\ event_fd' = event_fd
    BY <1>3, <2>1, <2>4
  <2>5. CASE /\ Free # {} /\ event_fd' = Lowest /\ backend' = "EPOLL" /\ ring' = ring
             /\ \A k \in Fd : file'[k] = IF k = Lowest THEN "epoll" ELSE file[k]
    BY <1>3, <2>1, <2>5
  <2> QED
    BY <1>1, <2>3, <2>4, <2>5 DEF Selects
<1>5. /\ Closed.fd = 0 /\ Closed.mapped = FALSE /\ 0 \notin Fd
      /\ kind = "ring" => ring'.fd = n /\ ring'.mapped = TRUE
  BY <1>4, TransportAssumption DEF Closed, Fd
<1>6. OtherInv'
  BY <1>0, <1>2, <1>3 DEF OtherInv, At
<1>7. BackendInv' /\ MappedInv'
  BY <1>1, <1>2, <1>4, <1>5 DEF BackendInv, MappedInv, At, Main
<1>8. FilesInv'
  <2>1. \A k \in Fd : file[k] # "epoll" /\ file[k] # "ring"
    BY <1>0, <1>3, <1>5 DEF FilesInv
  <2> QED
    BY <1>1, <1>4, <1>5, <2>1 DEF FilesInv, At
<1>9. SocketsInv'
  <2>1. \A k \in Fd : file'[k] = "socket" <=> file[k] = "socket"
    BY <1>4
  <2>2. thread'["main"].pc \notin Owning /\ thread["main"].pc \notin Owning
    BY <1>1 DEF Owning, Storing, Accepting
  <2> QED
    BY <1>0, <1>1, <1>2, <2>1, <2>2, SocketsKept
<1>10. BesideInv'
  <2>1. preferred = "POLL" => kind = "none"
    BY <1>3, <1>4
  <2>2. Connected' <=> Connected
    BY <1>1 DEF Connected
  <2> QED
    BY <1>1, <1>2, <1>3, <1>4, <2>1, <2>2 DEF BesideInv, Main, Using
<1> QED
  BY <1>6, <1>7, <1>8, <1>9, <1>10 DEF HeldInv

\* A socket that comes into the process is in the hand of the client's thread,
\* and one that was never stored is closed by it.
LEMMA NewSocketHeld ==
    ASSUME BaseInv, HeldInv, Open \/ Accept
    PROVE  HeldInv'
<1>0. /\ OtherInv /\ BackendInv /\ MappedInv /\ FilesInv /\ SocketsInv /\ BesideInv
      /\ TypeInv /\ 0 \notin Fd
  BY TransportAssumption DEF HeldInv, BaseInv, Fd
<1>1. /\ thread["main"].pc = "idle" /\ Keeps("main")
      /\ thread'["main"].pc \in {"store", "accept_size"}
      /\ thread'["main"].fd = Lowest /\ Lowest # 0 /\ Lowest \in Fd
      /\ file[Lowest] = "free" /\ socket_fd = 0
      /\ \A k \in Fd : file'[k] = IF k = Lowest THEN "socket" ELSE file[k]
      /\ UNCHANGED <<socket_fd, event_fd, ring, backend, preferred>>
      /\ thread'["other"] = thread["other"]
  BY NewSocketFacts DEF Connected, Keeps, Thread
<1> HIDE DEF Lowest
<1>2. OtherInv'
  BY <1>0, <1>1 DEF OtherInv, At
<1>3. BackendInv' /\ MappedInv'
  BY <1>0, <1>1 DEF BackendInv, MappedInv, At, Main
<1>4. FilesInv'
  BY <1>0, <1>1 DEF FilesInv, At
<1>5. BesideInv'
  BY <1>0, <1>1 DEF BesideInv, Main, Closing, Using, Connected
<1>6. SocketsInv'
  <2>1. Own("main") = 0 /\ Own("main")' = Lowest /\ Own("other")' = Own("other")
    BY <1>1 DEF Own, Owning, Storing, Accepting
  <2>2. \A u \in Thread : thread'[u].pc \in Owning => thread'[u].fd # 0
    BY <1>0, <1>1 DEF SocketsInv, Thread
  <2>3. Own("other") # Lowest
    BY <1>0, <1>1 DEF SocketsInv
  <2> QED
    BY <1>0, <1>1, <2>1, <2>2, <2>3 DEF SocketsInv
<1> QED
  BY <1>2, <1>3, <1>4, <1>5, <1>6 DEF HeldInv

\* A peer that mc_server_accept refuses leaves no socket behind.
LEMMA RefusedHeld ==
    ASSUME BaseInv, HeldInv, AcceptRefuses
    PROVE  HeldInv'
<1>0. /\ OtherInv /\ BackendInv /\ MappedInv /\ FilesInv /\ SocketsInv /\ BesideInv
      /\ TypeInv /\ 0 \notin Fd
  BY TransportAssumption DEF HeldInv, BaseInv, Fd
<1>1. /\ Plain("main") /\ thread["main"].pc \in Accepting /\ thread'["main"].pc = "idle"
      /\ UNCHANGED <<socket_fd, event_fd, ring, backend>>
      /\ \A k \in Fd : file'[k] = IF k = thread["main"].fd THEN "free" ELSE file[k]
  BY AcceptRefusesFacts
<1>2. /\ thread'["other"] = thread["other"] /\ preferred' = preferred
      /\ "main" \in Thread /\ Keeps("main")
  BY <1>1 DEF Plain, Keeps, KeepsTypes, Thread
<1>3. /\ thread["main"].fd # 0 /\ Own("main") = thread["main"].fd /\ Own("main")' = 0
      /\ Own("other")' = Own("other") /\ socket_fd = 0
  BY <1>0, <1>1, <1>2 DEF SocketsInv, Own, Owning, Storing, Accepting, BaseInv,
     FreshInv, Main
<1>4. thread["main"].fd \in Fd => file[thread["main"].fd] = "socket"
  BY <1>0, <1>3 DEF SocketsInv
<1>5. OtherInv'
  BY <1>0, <1>1, <1>2 DEF OtherInv, At
<1>6. BackendInv' /\ MappedInv'
  BY <1>0, <1>1, <1>2 DEF BackendInv, MappedInv, At, Main, Accepting
<1>7. FilesInv'
  BY <1>0, <1>1, <1>4 DEF FilesInv, At, Accepting
<1>8. BesideInv'
  BY <1>0, <1>1, <1>2 DEF BesideInv, Main, Closing, Using, Connected, Accepting
<1>9. SocketsInv'
  <2>1. \A u \in Thread : thread'[u].pc \in Owning => thread'[u].fd # 0
    BY <1>0, <1>1, <1>2 DEF SocketsInv, Thread, Owning, Storing, Accepting
  <2>2. \A n \in Fd : file'[n] = "socket" <=> n = Own("other")
    BY <1>0, <1>1, <1>3 DEF SocketsInv
  <2> QED
    BY <1>0, <1>1, <1>3, <2>1, <2>2 DEF SocketsInv
<1> QED
  BY <1>5, <1>6, <1>7, <1>8, <1>9 DEF HeldInv

\* The store hands the socket of the client's thread over to the client.
LEMMA StoreHeld ==
    ASSUME BaseInv, HeldInv, StoreSocket
    PROVE  HeldInv'
<1>0. /\ OtherInv /\ BackendInv /\ MappedInv /\ FilesInv /\ SocketsInv /\ BesideInv
      /\ TypeInv /\ 0 \notin Fd
  BY TransportAssumption DEF HeldInv, BaseInv, Fd
<1>1. /\ Keeps("main") /\ thread["main"].pc = "store"
      /\ thread'["main"].pc = "backend_close" /\ thread'["main"].ret = "init"
      /\ socket_fd = 0 /\ socket_fd' = thread["main"].fd
      /\ UNCHANGED <<file, event_fd, ring, backend, preferred>>
      /\ thread'["other"] = thread["other"] /\ "main" \in Thread
  BY StoreFacts DEF Keeps, Thread
<1>2. /\ thread["main"].fd # 0 /\ Own("main") = thread["main"].fd /\ Own("main")' = 0
      /\ Own("other")' = Own("other")
  BY <1>0, <1>1 DEF SocketsInv, Own, Owning, Storing, Accepting
<1>3. OtherInv'
  BY <1>0, <1>1 DEF OtherInv, At
<1>4. BackendInv' /\ MappedInv' /\ FilesInv'
  BY <1>0, <1>1 DEF BackendInv, MappedInv, FilesInv, At, Main
<1>5. BesideInv'
  BY <1>0, <1>1, <1>2 DEF BesideInv, Main, Connected
<1>6. SocketsInv'
  <2>1. \A u \in Thread : thread'[u].pc \in Owning => thread'[u].fd # 0
    BY <1>0, <1>1 DEF SocketsInv, Thread, Owning, Storing, Accepting
  <2> QED
    BY <1>0, <1>1, <1>2, <2>1 DEF SocketsInv
<1> QED
  BY <1>3, <1>4, <1>5, <1>6 DEF HeldInv

\* mc_server_accept's reads leave every file and field as they are.
LEMMA AcceptHeld ==
    ASSUME BaseInv, HeldInv, AcceptSize \/ AcceptBody \/ AcceptClient
    PROVE  HeldInv'
<1>0. /\ OtherInv /\ BackendInv /\ MappedInv /\ FilesInv /\ SocketsInv /\ BesideInv
  BY DEF HeldInv
<1>1. /\ Keeps("main") /\ thread["main"].pc \in Accepting
      /\ thread'["main"].pc \in Storing /\ thread'["main"].fd = thread["main"].fd
      /\ UNCHANGED <<file, socket_fd, event_fd, ring, backend, preferred>>
      /\ thread'["other"] = thread["other"] /\ "main" \in Thread
  BY AcceptFacts DEF Keeps, Thread
<1>2. OtherInv'
  BY <1>0, <1>1 DEF OtherInv, At
<1>3. BackendInv' /\ MappedInv' /\ FilesInv'
  BY <1>0, <1>1 DEF BackendInv, MappedInv, FilesInv, At, Main, Storing, Accepting
<1>4. BesideInv'
  BY <1>0, <1>1 DEF BesideInv, Main, Closing, Using, Connected, Storing, Accepting
<1>5. SocketsInv'
  <2>1. thread["main"].pc \in Owning /\ thread'["main"].pc \in Owning
    BY <1>1 DEF Owning, Storing
  <2> QED
    BY <1>0, <1>1, <2>1, SocketsKept
<1> QED
  BY <1>2, <1>3, <1>4, <1>5 DEF HeldInv

\* No other part of the program is given a file of the client.
LEMMA ForeignHeld ==
    ASSUME BaseInv, HeldInv, ForeignOpens \/ ForeignCloses
    PROVE  HeldInv'
<1>0. /\ OtherInv /\ BackendInv /\ MappedInv /\ FilesInv /\ SocketsInv /\ BesideInv
  BY DEF HeldInv
<1>1. /\ Foreign /\ UNCHANGED <<socket_fd, event_fd, ring, backend, preferred, thread>>
  BY ForeignFacts
<1>2. \A k \in Fd : \A kind \in {"socket", "epoll", "ring"} :
        file'[k] = kind <=> file[k] = kind
  <2>1. Free # {} => Lowest \in Fd /\ file[Lowest] = "free"
    BY LowestFree DEF Free
  <2> HIDE DEF Lowest, Free
  <2> QED
    BY <1>1, <2>1 DEF Foreign
<1>3. OtherInv' /\ BackendInv' /\ MappedInv' /\ BesideInv'
  BY <1>0, <1>1 DEF OtherInv, BackendInv, MappedInv, BesideInv, At, Main, Connected
<1>4. FilesInv'
  BY <1>0, <1>1, <1>2 DEF FilesInv, At
<1>5. SocketsInv'
  BY <1>0, <1>1, <1>2 DEF SocketsInv, Own
<1> QED
  BY <1>3, <1>4, <1>5 DEF HeldInv

\* Every step keeps what is held.
LEMMA HeldStep ==
    ASSUME Interruptible \subseteq {"POLL"}
    PROVE  BaseInv /\ HeldInv /\ [Next]_vars => HeldInv'
<1> SUFFICES ASSUME BaseInv, HeldInv, [Next]_vars PROVE HeldInv'
  OBVIOUS
<1>1. CASE MainWalk
  BY <1>1, MainWalkFacts, WalkHeld
<1>2. CASE OtherQuiet
  BY <1>2, OtherFacts, OtherWalkHeld
<1>3. CASE Open \/ Accept \/ StoreSocket \/ AcceptSize \/ AcceptBody \/ AcceptClient
           \/ AcceptRefuses \/ BackendInit \/ Fallback \/ ForeignOpens \/ ForeignCloses
  BY <1>3, NewSocketHeld, StoreHeld, AcceptHeld, RefusedHeld, SelectHeld, ForeignHeld
<1>4. ASSUME NEW t \in Thread,
             \/ ExchangeSocket(t) \/ CloseSocket(t) \/ RingClose(t) \/ RingClear(t)
             \/ EventClose(t) \/ EventClear(t)
      PROVE  HeldInv'
  BY <1>4, ExchangeHeld, CloseSocketHeld, RingCloseHeld, EventCloseHeld, EventClearHeld
<1>5. CASE UNCHANGED vars
  <2>1. UNCHANGED <<file, socket_fd, event_fd, ring, backend, preferred, thread>>
    BY <1>5 DEF vars, client
  <2>2. /\ OtherInv /\ BackendInv /\ MappedInv /\ FilesInv /\ SocketsInv /\ BesideInv
    BY DEF HeldInv
  <2>3. OtherInv' /\ BackendInv' /\ MappedInv' /\ BesideInv'
    BY <2>1, <2>2 DEF OtherInv, BackendInv, MappedInv, BesideInv, At, Main, Connected
  <2>4. FilesInv' /\ SocketsInv'
    BY <2>1, <2>2 DEF FilesInv, SocketsInv, Own, At
  <2> QED
    BY <2>3, <2>4 DEF HeldInv
<1> QED
  BY <1>1, <1>2, <1>3, <1>4, <1>5, Shapes

-----------------------------------------------------------------------------
\* A client that has never been connected holds nothing.
LEMMA InitIInv == Init => IInv
<1> SUFFICES ASSUME Init PROVE IInv
  OBVIOUS
<1>1. /\ file = [n \in Fd |-> "free"] /\ socket_fd = 0 /\ event_fd = 0 /\ ring = Closed
      /\ backend = "NONE" /\ preferred \in Preferences /\ state = "DISCONNECTED"
      /\ thread = [t \in Thread |-> Idle] /\ hand = NoHandshake /\ connections = 0
  BY DEF Init
<1>2. Idle \in ThreadState
  BY TransportAssumption DEF Idle, ThreadState, Label, CallName
<1>3. /\ \A t \in Thread : thread[t] = Idle
      /\ Idle.pc = "idle" /\ Idle.call = "none" /\ Idle.fd = 0 /\ Idle.ret = "state"
      /\ "main" \in Thread /\ "other" \in Thread
  BY <1>1 DEF Idle, Thread
<1>4. TypeInv
  <2>1. ring \in [fd : 0..MaxFd, mapped : BOOLEAN]
    BY <1>1, TransportAssumption DEF Closed
  <2>2. hand \in [header : 0..2, size : 0..(MaxHandshake + 1), taken : Nat]
    BY <1>1, TransportAssumption DEF NoHandshake
  <2> QED
    BY <1>1, <1>2, <2>1, <2>2, TransportAssumption DEF TypeInv, File
<1>5. FreshInv
  BY <1>1, <1>3 DEF FreshInv, At
<1>6. HandInv
  BY <1>1, <1>3, TransportAssumption DEF HandInv, At, Main, NoHandshake, Accepting
<1>7. HeldInv
  <2>1. OtherInv
    BY <1>1, <1>3 DEF OtherInv, At, OtherLabel
  <2>2. BackendInv /\ MappedInv /\ BesideInv
    BY <1>1, <1>3 DEF BackendInv, MappedInv, BesideInv, At, Main, Using
  <2>3. \A n \in Fd : n # 0
    BY TransportAssumption DEF Fd
  <2>4. FilesInv
    BY <1>1, <2>3 DEF FilesInv, Closed
  <2>5. SocketsInv
    BY <1>1, <1>3, <2>3 DEF SocketsInv, Own, Owning, Storing, Accepting
  <2> QED
    BY <2>1, <2>2, <2>4, <2>5 DEF HeldInv
<1> QED
  BY <1>4, <1>5, <1>6, <1>7 DEF IInv, BaseInv

\* The inductive invariant of the transport: types, and how far a handshake has
\* been read, whoever disconnects; who owns which descriptor at each step, if no
\* other thread disconnects a client that waits with a ring or with epoll.
THEOREM InvariantHolds == Spec => []IInv
<1>1. IInv /\ [Next]_vars => IInv'
  BY BaseStep, HeldStep DEF IInv
<1> QED
  BY <1>1, InitIInv, PTL DEF Spec

\* Every variable has its type, and no handshake overruns the buffer of
\* mc_server_accept, whatever the peer sends and in whichever pieces.
THEOREM TransportTypeCorrect == Spec => []TypeOK
<1>1. IInv => TypeOK
  <2> SUFFICES ASSUME TypeInv, HandInv PROVE TypeOK
    BY DEF IInv, BaseInv
  <2>1. ring.mapped \in BOOLEAN /\ ring.fd \in 0..MaxFd
    BY DEF TypeInv
  <2>2. \A t \in Thread : /\ thread[t].pc \in Label
                          /\ {thread[t].fd, thread[t].wait_fd} \subseteq 0..MaxFd
    BY ThreadFields
  <2>3. hand.taken \in 0..(hand.header + MaxHandshake)
    BY TransportAssumption DEF TypeInv, HandInv
  <2> QED
    BY <2>1, <2>2, <2>3 DEF TypeInv, TypeOK, File
<1> QED
  BY <1>1, InvariantHolds, PTL

\* The socket of an accepted client stands exactly behind its handshake.
THEOREM AcceptedAtFrame == Spec => []AcceptStopsAtFrame
<1>1. IInv => AcceptStopsAtFrame
  BY DEF IInv, BaseInv, HandInv, FreshInv, AcceptStopsAtFrame, Main, Connected,
         Storing, Accepting
<1> QED
  BY <1>1, InvariantHolds, PTL

\* Disconnects of two threads close a socket once, while it is the client's.
THEOREM SocketsClosedOnce ==
    Interruptible \subseteq {"POLL"} => (Spec => []SocketClosedOnce)
<1> SUFFICES ASSUME Interruptible \subseteq {"POLL"} PROVE Spec => []SocketClosedOnce
  OBVIOUS
<1>1. IInv => SocketClosedOnce
  <2> SUFFICES ASSUME IInv, NEW t \in Thread, thread[t].pc = "close_socket"
               PROVE  file[thread[t].fd] = "socket"
    BY DEF SocketClosedOnce, At
  <2>1. SocketsInv /\ TypeInv
    BY DEF IInv, HeldInv, BaseInv
  <2>2. thread[t].pc \in Owning /\ Own(t) = thread[t].fd
    BY DEF Own, Owning
  <2>3. thread[t].fd \in Fd
    BY <2>1, <2>2, ThreadFields, TransportAssumption DEF SocketsInv, Fd
  <2> QED
    BY <2>1, <2>2, <2>3 DEF SocketsInv, Thread
<1> QED
  BY <1>1, InvariantHolds, PTL

\* Between calls a client's files are exactly the ones its fields name, after
\* any sequence of calls and failures, and one without a socket has none.
THEOREM DescriptorsKept ==
    Interruptible \subseteq {"POLL"} => (Spec => []DescriptorsAccounted)
<1> SUFFICES ASSUME Interruptible \subseteq {"POLL"} PROVE Spec => []DescriptorsAccounted
  OBVIOUS
<1>1. IInv => DescriptorsAccounted
  <2> SUFFICES ASSUME IInv, \A t \in Thread : thread[t].pc = "idle"
               PROVE  DescriptorsAccounted
    BY DEF DescriptorsAccounted, At
  <2>1. /\ SocketsInv /\ FilesInv /\ BesideInv /\ TypeInv
        /\ thread["main"].pc = "idle" /\ thread["other"].pc = "idle"
    BY DEF IInv, HeldInv, BaseInv, Thread
  <2>2. Own("main") = 0 /\ Own("other") = 0
    BY <2>1 DEF Own, Owning, Storing, Accepting
  <2>3. /\ socket_fd \in Fd \cup {0} /\ event_fd \in Fd \cup {0} /\ ring.fd \in Fd \cup {0}
        /\ 0 \notin Fd
    BY <2>1, TransportAssumption DEF TypeInv, Fd
  <2>4. /\ {n \in Fd : file[n] = "socket"} = {socket_fd} \ {0}
        /\ {n \in Fd : file[n] = "epoll"} = {event_fd} \ {0}
        /\ {n \in Fd : file[n] = "ring"} = {ring.fd} \ {0}
    BY <2>1, <2>2, <2>3 DEF SocketsInv, FilesInv, At
  <2>5. socket_fd = 0 => event_fd = 0 /\ ring.fd = 0
    BY <2>1 DEF BesideInv, Main, Closing, Connected, Closed
  <2> QED
    BY <2>4, <2>5 DEF DescriptorsAccounted
<1> QED
  BY <1>1, InvariantHolds, PTL

\* Unless io_uring alone was asked for, no wait enters a ring that is closed.
THEOREM WaitsServed ==
    Interruptible \subseteq {"POLL"} => (Spec => []RingServesWaits)
<1> SUFFICES ASSUME Interruptible \subseteq {"POLL"} PROVE Spec => []RingServesWaits
  OBVIOUS
<1>1. IInv => RingServesWaits
  BY DEF IInv, HeldInv, MappedInv, RingServesWaits
<1> QED
  BY <1>1, InvariantHolds, PTL
=============================================================================
