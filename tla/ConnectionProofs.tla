-------------------------- MODULE ConnectionProofs --------------------------
(***************************************************************************)
(* For every set of clients, however many commands they send: the listen   *)
(* thread and the main loop, which share server_fd, server_mode and        *)
(* command_pending without a lock, lose no wakeup, keep the semaphore      *)
(* balanced, trace for the client they talk to, and carry out what HandOver *)
(* promises.                                                               *)
(*                                                                         *)
(* None of these is inductive.  Wakeups and Credit say what the two sides  *)
(* owe each other at every point of their loops; Waiting and Greeting say  *)
(* which clients the server may have answered; Streams and Descriptor      *)
(* are what the refinement needs.                                          *)
(***************************************************************************)
EXTENDS Connection, SequenceTheorems, TLAPS

ThreadPcs == {"check", "accept", "accepted", "poll", "polling", "pend", "wake", "sem", "done"}
MainPcs == {"loop", "wait", "poll", "clear", "post", "handle", "take", "greet", "read", "close",
            "minus", "stop", "exit", "detach", "bye", "join", "cancel", "done"}
Notes == {"info", "detach", "disconnect"}
Socket == [unread : Seq(Commands), inbox : Seq(Notes), shut : BOOLEAN]

ThreadState == [pc : ThreadPcs, fd : Clients \cup {NULL}]
Codes == {"none", "command", "accepted", "end", "eof"} \cup Commands
MainState == [pc : MainPcs, back : {"clear", "detach", "cancel"}, m : Codes]

Types ==
  /\ mode \in {"listen", "pair"} /\ server_fd \in Clients \cup {NULL}
  /\ server_mode \in {"none", "command", "accepted"}
  /\ command_pending \in BOOLEAN /\ sem \in Nat /\ wakeup \in BOOLEAN
  /\ thread \in ThreadState /\ main \in MainState
  /\ backlog \in Seq(Clients)
  /\ client \in [Clients -> {"off", "wait", "up", "gone"}]
  /\ sock \in [Clients -> Socket]
  /\ sent \in [Clients -> Seq(Commands)] /\ handled \in [Clients -> Seq(Commands)]
  /\ tracing \in BOOLEAN /\ alive \in BOOLEAN /\ do_exit \in BOOLEAN

\* server_handle_command returns to its caller, and mtrace_exit is final.
Returning ==
  /\ main.pc \in {"clear", "detach", "cancel"} => main.pc = main.back
  /\ main.pc \in {"join", "done"} => main.back = "cancel"
  /\ main.back = "cancel" => main.pc \in {"join", "close", "minus", "stop", "cancel", "done"}

\* Only the main loop closes, only the listen thread opens.
Descriptor ==
  /\ main.pc \in {"read", "minus"} => server_fd # NULL
  /\ thread.pc = "accept" => server_fd = NULL

\* A request made is a wakeup due, as long as the main loop is on its way to waitpid.
Wakeups ==
  (command_pending /\ main.pc \in {"post", "loop", "wait"}) => (wakeup \/ thread.pc = "wake")

\* The main loop is inside server_poll, before it clears command_pending.
Answering ==
  /\ main.back = "clear"
  /\ main.pc \in {"handle", "take", "greet", "read", "close", "minus", "stop", "clear"}

\* The posts the main loop owes, and the request the thread is ahead.
Debt == IF main.pc = "post" THEN 1 + (IF command_pending THEN 1 ELSE 0)
        ELSE IF command_pending THEN 1 ELSE 0
Ahead == IF thread.pc \in {"wake", "sem", "done"} THEN 1 ELSE 0

Credit == /\ Answering => command_pending
          /\ sem + Debt <= 1 + Ahead

\* MT_INFO, which tells a client that it is served, was sent to it or will be read from it.
Info(s) == \E i \in DOMAIN s : s[i] = "info"
Touched(c) == client[c] = "up" \/ Info(sock[c].inbox) \/ Info(sock[c].unread)

\* Nothing was sent to a client or by it.
Untouched(c) == c # server_fd /\ sock[c].inbox = <<>> /\ sock[c].unread = <<>>

\* Connected, but not accepted: each client once, and with nothing said.
Waiting ==
  /\ \A c \in Clients : client[c] = "off" => Untouched(c) /\ \A i \in DOMAIN backlog : backlog[i] # c
  /\ \A i \in DOMAIN backlog : Untouched(backlog[i]) /\ client[backlog[i]] \in {"wait", "gone"}
  /\ \A i, j \in DOMAIN backlog : backlog[i] = backlog[j] => i = j

\* The client was told that it is served only with the breakpoints enabled, and
\* they are not about to be disabled.
Greeting ==
  (server_fd # NULL /\ main.back # "cancel" /\ Touched(server_fd)) => tracing /\ main.pc # "stop"

\* What a client sent is what was handled and what is still to be read.
Streams == \A c \in Clients : sent[c] = handled[c] \o sock[c].unread

IInv == /\ Types /\ Returning /\ Descriptor /\ Wakeups /\ Credit
        /\ Waiting /\ Greeting /\ Streams

-----------------------------------------------------------------------------
(* The steps by where they happen: in the loop of mtrace_main, inside      *)
(* server_handle_command, at the end, and what clients do.                 *)

Loop == MainLoop \/ MainWakeup \/ MainEvent \/ MainPoll \/ MainClear \/ MainPost
HandleCommand == MainMode \/ MainTake \/ MainGreet \/ MainRead \/ MainEnd \/ MainClose
                   \/ MainMinus \/ MainStop
Ending == MainExit \/ MainDetach \/ MainBye \/ MainJoinClient \/ MainCancel
Others == \E c \in Clients : \/ Receive(c) \/ Broken(c) \/ Quit(c) \/ Connect(c)
                             \/ \E m \in Commands : SendCommand(c, m)

\* Every step of the specification is one of these.
LEMMA Cases ==
  [Next]_vars => \/ ThreadStep \/ Loop \/ HandleCommand \/ Ending
                 \/ Others \/ RequestExit \/ UNCHANGED vars
  BY DEF Next, MainStep, ClientStep, Loop, HandleCommand, Ending, Others

\* A client touches no variable of the server's threads.
LEMMA OthersLeave == Others => UNCHANGED <<tracer, wakeup, handled, trace>>
  BY DEF Others, Receive, Broken, Quit, Connect, SendCommand

-----------------------------------------------------------------------------
\* server_handle_command returns where it was called.
LEMMA ReturningInv == Types /\ Returning /\ [Next]_vars => Returning'
  <1> SUFFICES ASSUME Types, Returning, [Next]_vars PROVE Returning'
    OBVIOUS
  <1> USE DEF Types, Returning, MainPcs, MainState
  <1>1. CASE ThreadStep
    BY <1>1 DEF ThreadStep, ThreadCheck, ThreadAccept, ThreadAccepted, ThreadPoll, ThreadInput, ThreadPend,
                ThreadWake, ThreadSem, Thread, flags, world, trace
  <1>2. CASE Loop
    BY <1>2 DEF Loop, MainLoop, MainWakeup, MainEvent, MainPoll, MainClear, MainPost, Main, flags,
                world, trace
  <1>3. CASE HandleCommand
    BY <1>3 DEF HandleCommand, MainMode, MainTake, MainGreet, MainRead, MainEnd, MainClose, MainMinus,
                MainStop, Main, flags, world, trace
  <1>4. CASE Ending
    BY <1>4 DEF Ending, MainExit, MainDetach, MainBye, MainJoinClient, MainCancel, Main, flags,
                world, trace
  <1>5. CASE Others
    BY <1>5, OthersLeave DEF tracer
  <1>6. CASE RequestExit
    BY <1>6 DEF RequestExit, tracer, world
  <1>7. CASE UNCHANGED vars
    BY <1>7 DEF vars
  <1> QED BY <1>1, <1>2, <1>3, <1>4, <1>5, <1>6, <1>7, Cases

\* The two threads do not undo each other's changes of server_fd.
LEMMA DescriptorInv == Types /\ Returning /\ Descriptor /\ [Next]_vars => Descriptor'
  <1> SUFFICES ASSUME Types, Returning, Descriptor, [Next]_vars PROVE Descriptor'
    OBVIOUS
  <1> USE DEF Types, Returning, Descriptor, MainPcs, MainState, ThreadPcs, ThreadState, server_connected
  <1>1. CASE ThreadStep
    BY <1>1 DEF ThreadStep, ThreadCheck, ThreadAccept, ThreadAccepted, ThreadPoll, ThreadInput, ThreadPend,
                ThreadWake, ThreadSem, Thread, flags, world, trace
  <1>2. CASE Loop
    BY <1>2 DEF Loop, MainLoop, MainWakeup, MainEvent, MainPoll, MainClear, MainPost, Main, flags,
                world, trace
  <1>3. CASE HandleCommand
    BY <1>3 DEF HandleCommand, MainMode, MainTake, MainGreet, MainRead, MainEnd, MainClose, MainMinus,
                MainStop, Main, flags, world, trace
  <1>4. CASE Ending
    BY <1>4 DEF Ending, MainExit, MainDetach, MainBye, MainJoinClient, MainCancel, Main, flags,
                world, trace
  <1>5. CASE Others
    BY <1>5, OthersLeave DEF tracer
  <1>6. CASE RequestExit
    BY <1>6 DEF RequestExit, tracer, world
  <1>7. CASE UNCHANGED vars
    BY <1>7 DEF vars
  <1> QED BY <1>1, <1>2, <1>3, <1>4, <1>5, <1>6, <1>7, Cases

\* The request is made before the wakeup, and cleared before the next wait.
LEMMA WakeupsInv == Types /\ Returning /\ Wakeups /\ [Next]_vars => Wakeups'
  <1> SUFFICES ASSUME Types, Returning, Wakeups, [Next]_vars PROVE Wakeups'
    OBVIOUS
  <1> USE DEF Types, Returning, Wakeups, MainPcs, MainState, ThreadPcs, ThreadState
  <1>1. CASE ThreadStep
    BY <1>1 DEF ThreadStep, ThreadCheck, ThreadAccept, ThreadAccepted, ThreadPoll, ThreadInput, ThreadPend,
                ThreadWake, ThreadSem, Thread, flags, world, trace
  <1>2. CASE Loop
    BY <1>2 DEF Loop, MainLoop, MainWakeup, MainEvent, MainPoll, MainClear, MainPost, Main, flags,
                world, trace
  <1>3. CASE HandleCommand
    BY <1>3 DEF HandleCommand, MainMode, MainTake, MainGreet, MainRead, MainEnd, MainClose, MainMinus,
                MainStop, Main, flags, world, trace
  <1>4. CASE Ending
    BY <1>4 DEF Ending, MainExit, MainDetach, MainBye, MainJoinClient, MainCancel, Main, flags,
                world, trace
  <1>5. CASE Others
    BY <1>5, OthersLeave DEF tracer
  <1>6. CASE RequestExit
    BY <1>6 DEF RequestExit, tracer, world
  <1>7. CASE UNCHANGED vars
    BY <1>7 DEF vars
  <1> QED BY <1>1, <1>2, <1>3, <1>4, <1>5, <1>6, <1>7, Cases

\* While server_poll answers, the request stays: only server_poll clears it.
LEMMA AnsweringInv == Types /\ Returning /\ (Answering => command_pending) /\ [Next]_vars => (Answering => command_pending)'
  <1> SUFFICES ASSUME Types, Returning, (Answering => command_pending), [Next]_vars PROVE (Answering => command_pending)'
    OBVIOUS
  <1> USE DEF Types, Returning, Answering, MainPcs, MainState, ThreadPcs, ThreadState
  <1>1. CASE ThreadStep
    BY <1>1 DEF ThreadStep, ThreadCheck, ThreadAccept, ThreadAccepted, ThreadPoll, ThreadInput, ThreadPend,
                ThreadWake, ThreadSem, Thread, flags, world, trace
  <1>2. CASE Loop
    BY <1>2 DEF Loop, MainLoop, MainWakeup, MainEvent, MainPoll, MainClear, MainPost, Main, flags,
                world, trace
  <1>3. CASE HandleCommand
    BY <1>3 DEF HandleCommand, MainMode, MainTake, MainGreet, MainRead, MainEnd, MainClose, MainMinus,
                MainStop, Main, flags, world, trace
  <1>4. CASE Ending
    <2>1. CASE MainDetach
      BY <1>4, <2>1 DEF MainDetach, Main
    <2>2. CASE MainCancel
      BY <1>4, <2>2 DEF MainCancel, Main
    <2>3. CASE MainExit \/ MainBye \/ MainJoinClient
      BY <1>4, <2>3 DEF MainExit, MainBye, MainJoinClient, Main
    <2> QED BY <1>4, <2>1, <2>2, <2>3 DEF Ending
  <1>5. CASE Others
    BY <1>5, OthersLeave DEF tracer
  <1>6. CASE RequestExit
    BY <1>6 DEF RequestExit, tracer, world
  <1>7. CASE UNCHANGED vars
    BY <1>7 DEF vars
  <1> QED BY <1>1, <1>2, <1>3, <1>4, <1>5, <1>6, <1>7, Cases

\* One post for a request at most, though several requests may look like one.
LEMMA CreditInv == Types /\ Returning /\ Credit /\ [Next]_vars => Credit'
  <1> SUFFICES ASSUME Types, Returning, Credit, [Next]_vars PROVE Credit'
    OBVIOUS
  <1>0. (Answering => command_pending)'
    BY AnsweringInv DEF Credit
  <1> SUFFICES (sem + Debt <= 1 + Ahead)'
    BY <1>0 DEF Credit
  <1> USE DEF Credit, Debt, Ahead
  <1>1. CASE ThreadStep
    BY <1>1 DEF Types, ThreadState, ThreadPcs, ThreadStep, ThreadCheck, ThreadAccept, ThreadAccepted, ThreadPoll,
                ThreadInput, ThreadPend, ThreadWake, ThreadSem, Thread, flags
  <1>2. CASE MainClear
    BY <1>2 DEF Types, MainState, Returning, Answering, MainClear
  <1>3. CASE MainPost
    BY <1>3 DEF Types, MainState, MainPost, Main
  <1>4. CASE MainCancel
    BY <1>4 DEF Types, ThreadState, MainState, MainCancel, Main, flags, ThreadPcs
  <1>5. ASSUME UNCHANGED <<command_pending, sem, thread>>, main.pc # "post", main'.pc # "post"
        PROVE (sem + Debt <= 1 + Ahead)'
    BY <1>5
  <1>6. CASE MainLoop \/ MainWakeup \/ MainEvent \/ MainPoll
    BY <1>5, <1>6 DEF Types, MainState, MainLoop, MainWakeup, MainEvent, MainPoll, Main, flags
  <1>7. CASE HandleCommand
    BY <1>5, <1>7 DEF Types, MainState, HandleCommand, MainMode, MainTake, MainGreet, MainRead, MainEnd,
                      MainClose, MainMinus, MainStop, Main, flags
  <1>8. CASE MainExit \/ MainDetach \/ MainBye \/ MainJoinClient
    BY <1>5, <1>8 DEF Types, MainState, MainExit, MainDetach, MainBye, MainJoinClient, Main, flags
  <1>9. CASE Others \/ RequestExit \/ UNCHANGED vars
    BY <1>9, OthersLeave DEF RequestExit, tracer, vars
  <1> QED BY <1>1, <1>2, <1>3, <1>4, <1>6, <1>7, <1>8, <1>9, Cases DEF Loop, Ending

-----------------------------------------------------------------------------
(* Sockets.                                                                *)

\* What a reply does to the sockets: one more message for one client at most.
LEMMA ReplyType ==
  ASSUME NEW s \in [Clients -> Socket], NEW c \in Clients \cup {NULL}, NEW m \in Notes
  PROVE  /\ Reply(s, c, m) \in [Clients -> Socket]
         /\ \A d \in Clients : /\ Reply(s, c, m)[d].unread = s[d].unread
                               /\ Reply(s, c, m)[d].shut = s[d].shut
                               /\ Reply(s, c, m)[d].inbox \in {s[d].inbox, Append(s[d].inbox, m)}
                               /\ d # c => Reply(s, c, m)[d].inbox = s[d].inbox
  <1>1. \A d \in Clients : Append(s[d].inbox, m) \in Seq(Notes)
    BY DEF Socket
  <1> QED BY <1>1 DEF Reply, Socket

\* mtrace_exit sends MT_DETACH to the client it serves, or nothing.
LEMMA ExitReplies ==
  ASSUME Types, MainExit
  PROVE  /\ sock' \in [Clients -> Socket]
         /\ \A d \in Clients : /\ sock'[d].unread = sock[d].unread
                               /\ sock'[d].inbox \in {sock[d].inbox, Append(sock[d].inbox, "detach")}
                               /\ d # server_fd => sock'[d].inbox = sock[d].inbox
  <1>1. "detach" \in Notes /\ sock \in [Clients -> Socket] /\ server_fd \in Clients \cup {NULL}
    BY DEF Types, Notes
  <1>2. sock' = sock \/ sock' = Reply(sock, server_fd, "detach")
    BY DEF MainExit
  <1>3. CASE sock' = sock
    BY <1>1, <1>3
  <1>4. CASE sock' = Reply(sock, server_fd, "detach")
    BY <1>1, <1>4, ReplyType
  <1> QED BY <1>2, <1>3, <1>4

\* The first element of what is to be read moves to the end of what was handled.
LEMMA ShiftHead ==
  ASSUME NEW S, NEW s \in Seq(S), NEW t \in Seq(S), t # <<>>
  PROVE  Append(s, Head(t)) \o Tail(t) = s \o t
  <1>1. Append(s, Head(t)) \o Tail(t) \in Seq(S) /\ s \o t \in Seq(S)
    OBVIOUS
  <1>2. Len(Append(s, Head(t)) \o Tail(t)) = Len(s \o t)
    OBVIOUS
  <1>3. ASSUME NEW i \in 1..Len(s \o t)
        PROVE (Append(s, Head(t)) \o Tail(t))[i] = (s \o t)[i]
    OBVIOUS
  <1> QED BY <1>1, <1>2, <1>3, SeqEqual

\* Sending appends to what is to be read.
LEMMA ShiftAppend ==
  ASSUME NEW s \in Seq(Commands), NEW t \in Seq(Commands), NEW e \in Commands
  PROVE  Append(s \o t, e) = s \o Append(t, e)
  <1>1. Append(s \o t, e) \in Seq(Commands) /\ s \o Append(t, e) \in Seq(Commands)
    OBVIOUS
  <1>2. Len(Append(s \o t, e)) = Len(s \o Append(t, e))
    OBVIOUS
  <1>3. ASSUME NEW i \in 1..Len(Append(s \o t, e))
        PROVE Append(s \o t, e)[i] = (s \o Append(t, e))[i]
    OBVIOUS
  <1> QED BY <1>1, <1>2, <1>3, SeqEqual

\* Where MT_INFO can come from and where it can go.
LEMMA InfoSteps ==
  ASSUME NEW S, NEW s \in Seq(S)
  PROVE  /\ s # <<>> => /\ Info(s) <=> Head(s) = "info" \/ Info(Tail(s))
         /\ \A m \in S : Info(Append(s, m)) <=> Info(s) \/ m = "info"
         /\ ~Info(<<>>)
  <1>1. DOMAIN s = 1..Len(s) /\ Len(s) \in Nat
    OBVIOUS
  <1>2. ASSUME s # <<>> PROVE Info(s) <=> Head(s) = "info" \/ Info(Tail(s))
    <2>1. /\ Tail(s) \in Seq(S) /\ Len(Tail(s)) = Len(s) - 1 /\ DOMAIN Tail(s) = 1..(Len(s) - 1)
          /\ \A i \in 1..(Len(s) - 1) : Tail(s)[i] = s[i + 1]
      BY <1>2
    <2>2. Head(s) = s[1] /\ 1 \in DOMAIN s
      BY <1>1, <1>2
    <2>3. ASSUME NEW i \in DOMAIN s, i # 1 PROVE i - 1 \in DOMAIN Tail(s) /\ Tail(s)[i - 1] = s[i]
      BY <1>1, <2>1, <2>3
    <2>4. ASSUME NEW i \in DOMAIN Tail(s) PROVE i + 1 \in DOMAIN s /\ Tail(s)[i] = s[i + 1]
      BY <1>1, <2>1
    <2> QED BY <2>2, <2>3, <2>4 DEF Info
  <1>3. ASSUME NEW m \in S PROVE Info(Append(s, m)) <=> Info(s) \/ m = "info"
    <2>1. /\ DOMAIN Append(s, m) = 1..(Len(s) + 1) /\ Append(s, m)[Len(s) + 1] = m
          /\ \A i \in 1..Len(s) : Append(s, m)[i] = s[i]
      OBVIOUS
    <2> QED BY <1>1, <2>1 DEF Info
  <1>4. ~Info(<<>>)
    BY DEF Info
  <1> QED BY <1>2, <1>3, <1>4

-----------------------------------------------------------------------------
(* The types.                                                              *)

\* What an assignment to a field of the two local states gives.
LEMMA LocalTypes ==
  /\ \A s \in ThreadState, x \in ThreadPcs : [s EXCEPT !.pc = x] \in ThreadState
  /\ \A s \in MainState, x \in MainPcs : [s EXCEPT !.pc = x] \in MainState
  /\ \A s \in MainState, x \in MainPcs, b \in {"clear", "detach", "cancel"} :
       [s EXCEPT !.pc = x, !.back = b] \in MainState
  /\ \A s \in MainState, x \in MainPcs, m \in Codes : [s EXCEPT !.pc = x, !.m = m] \in MainState
  /\ \A s \in MainState : s.pc \in MainPcs /\ s.back \in MainPcs /\ s.m \in Codes
  BY DEF ThreadState, MainState, MainPcs

\* The listen thread's state.
LEMMA ThreadTyped == Types /\ Descriptor /\ [Next]_vars => thread' \in ThreadState
  <1> SUFFICES ASSUME Types, Descriptor, [Next]_vars PROVE thread' \in ThreadState
    OBVIOUS
  <1>1. CASE ThreadStep
    <2>1. CASE ThreadPoll \/ ThreadInput
      BY <2>1 DEF ThreadPoll, ThreadInput, ThreadState, ThreadPcs, Types
    <2>2. \A from \in ThreadPcs, to \in ThreadPcs : Thread(from, to) => thread' \in ThreadState
      BY DEF Thread, Types, ThreadState
    <2> QED BY <1>1, <2>1, <2>2 DEF ThreadStep, ThreadCheck, ThreadAccept, ThreadAccepted, ThreadPend,
                                    ThreadWake, ThreadSem, ThreadPcs
  <1>2. CASE MainCancel
    BY <1>2, LocalTypes DEF MainCancel, Types, ThreadPcs
  <1>3. CASE Loop \/ HandleCommand \/ (Ending /\ ~MainCancel)
    BY <1>3 DEF Types, Loop, MainLoop, MainWakeup, MainEvent, MainPoll, MainClear, MainPost,
                HandleCommand, MainMode, MainTake, MainGreet, MainRead, MainEnd, MainClose, MainMinus,
                MainStop, Ending, MainExit, MainDetach, MainBye, MainJoinClient
  <1>4. CASE Others \/ RequestExit \/ UNCHANGED vars
    BY <1>4, OthersLeave DEF Types, RequestExit, tracer, vars
  <1> QED BY <1>1, <1>2, <1>3, <1>4, Cases DEF Ending

\* The main loop's state.
LEMMA MainTyped == Types /\ Descriptor /\ [Next]_vars => main' \in MainState
  <1> SUFFICES ASSUME Types, Descriptor, [Next]_vars PROVE main' \in MainState
    OBVIOUS
  <1>0. \A to \in MainPcs : main' = [main EXCEPT !.pc = to] => main' \in MainState
    BY DEF Types, MainState
  <1>1. CASE ThreadStep
    BY <1>1 DEF Types, ThreadStep, ThreadCheck, ThreadAccept, ThreadAccepted, ThreadPoll, ThreadInput,
                ThreadPend, ThreadWake, ThreadSem
  <1>2. CASE MainLoop \/ MainWakeup \/ MainEvent \/ MainPost
    BY <1>0, <1>2 DEF MainLoop, MainWakeup, MainEvent, MainPost, Main, MainPcs
  <1>3. CASE MainPoll \/ MainClear
    BY <1>3 DEF MainPoll, MainClear, Types, MainState, MainPcs, Codes
  <1>4. CASE MainMode \/ MainTake
    <2>1. server_mode \in Codes /\ "end" \in Codes /\ main.back \in MainPcs
      BY LocalTypes DEF Types, Codes
    <2>2. {"take", "greet", "read"} \subseteq MainPcs
      BY DEF MainPcs
    <2>3. CASE MainMode
      BY <2>1, <2>2, <2>3, LocalTypes DEF MainMode, Types
    <2>4. CASE MainTake
      BY <1>0, <2>1, <2>2, <2>4, LocalTypes DEF MainTake, Types
    <2> QED BY <1>4, <2>3, <2>4
  <1>5. CASE MainGreet \/ MainClose \/ MainMinus \/ MainStop
    <2>1. main.back \in MainPcs /\ {"minus", "stop"} \subseteq MainPcs
      BY LocalTypes DEF Types, MainPcs
    <2> QED BY <1>0, <1>5, <2>1 DEF MainGreet, MainClose, MainMinus, MainStop, Main
  <1>6. CASE MainRead
    <2>1. server_fd \in Clients
      BY <1>6 DEF MainRead, Descriptor, Types
    <2>2. sock[server_fd].unread \in Seq(Commands) /\ sock[server_fd].unread # <<>>
      BY <1>6, <2>1 DEF Types, Socket, MainRead
    <2>3. Head(sock[server_fd].unread) \in Codes
      BY <2>2 DEF Codes
    <2>4. main.back \in MainPcs /\ "close" \in MainPcs
      BY LocalTypes DEF Types, MainPcs
    <2> QED BY <1>6, <2>3, <2>4, LocalTypes DEF MainRead, Types
  <1>7. CASE MainEnd
    BY <1>7, LocalTypes DEF MainEnd, Types, MainPcs, Codes
  <1>8. CASE MainDetach \/ MainJoinClient \/ MainCancel
    BY <1>0, <1>8 DEF MainDetach, MainJoinClient, MainCancel, Main, MainPcs
  <1>9. CASE MainExit \/ MainBye
    BY <1>9 DEF MainExit, MainBye, Types, MainState, MainPcs
  <1>10. CASE Others \/ RequestExit \/ UNCHANGED vars
    BY <1>10, OthersLeave DEF Types, RequestExit, tracer, vars
  <1> QED BY <1>1, <1>2, <1>3, <1>4, <1>5, <1>6, <1>7, <1>8, <1>9, <1>10, Cases
          DEF Loop, HandleCommand, Ending

\* The sockets.
LEMMA SocketsTyped == Types /\ Descriptor /\ [Next]_vars => sock' \in [Clients -> Socket]
  <1> SUFFICES ASSUME Types, Descriptor, [Next]_vars PROVE sock' \in [Clients -> Socket]
    OBVIOUS
  <1>0. \A c \in Clients : sock[c].unread \in Seq(Commands) /\ sock[c].inbox \in Seq(Notes)
    BY DEF Types, Socket
  <1>1. CASE MainGreet
    BY <1>1, ReplyType DEF MainGreet, Notes, Types
  <1>2. CASE MainRead
    <2> DEFINE s == [sock EXCEPT ![server_fd].unread = Tail(@)]
    <2>1. server_fd \in Clients
      BY <1>2 DEF MainRead, Descriptor, Types
    <2>2. Tail(sock[server_fd].unread) \in Seq(Commands)
      BY <1>0, <1>2, <2>1 DEF MainRead
    <2>3. s \in [Clients -> Socket]
      BY <2>1, <2>2 DEF Socket, Types
    <2> QED BY <1>2, <2>1, <2>3, ReplyType DEF MainRead, Notes
  <1>3. CASE MainClose
    <2>1. server_fd \in Clients => [sock EXCEPT ![server_fd].shut = TRUE] \in [Clients -> Socket]
      BY DEF Types, Socket
    <2> QED BY <1>3, <2>1 DEF MainClose, server_connected, Types
  <1>4. CASE MainExit
    BY <1>4, ExitReplies DEF Types
  <1>5. CASE MainBye
    BY <1>5, ReplyType DEF MainBye, Notes, Types
  <1>6. ASSUME NEW c \in Clients, Receive(c) PROVE sock' \in [Clients -> Socket]
    <2> DEFINE s == [sock EXCEPT ![c].inbox = Tail(@)]
    <2>1. Tail(sock[c].inbox) \in Seq(Notes)
      BY <1>0, <1>6 DEF Receive
    <2>2. s \in [Clients -> Socket] /\ s[c].unread \in Seq(Commands)
      BY <2>1 DEF Types, Socket
    <2>3. Append(s[c].unread, "detach") \in Seq(Commands)
      BY <2>2 DEF Commands
    <2>4. sock' = s \/ sock' = [s EXCEPT ![c].unread = Append(@, "detach")]
      BY <1>6 DEF Receive
    <2> HIDE DEF s
    <2>5. [s EXCEPT ![c].unread = Append(@, "detach")] \in [Clients -> Socket]
      BY <2>2, <2>3 DEF Socket
    <2> QED BY <2>2, <2>4, <2>5
  <1>7. ASSUME NEW c \in Clients, NEW m \in Commands, SendCommand(c, m)
        PROVE sock' \in [Clients -> Socket]
    <2>1. Append(sock[c].unread, m) \in Seq(Commands)
      BY <1>0
    <2>2. sock' = [sock EXCEPT ![c].unread = Append(@, m)]
      BY <1>7 DEF SendCommand
    <2> QED BY <2>1, <2>2 DEF Socket, Types
  <1>8. CASE ThreadStep
    BY <1>8 DEF ThreadStep, ThreadCheck, ThreadAccept, ThreadAccepted, ThreadPoll, ThreadInput,
                ThreadPend, ThreadWake, ThreadSem, world, Types
  <1>9. CASE Loop \/ MainMode \/ MainTake \/ MainEnd \/ MainMinus \/ MainStop \/ MainDetach
               \/ MainJoinClient \/ MainCancel
    BY <1>9 DEF Loop, MainLoop, MainWakeup, MainEvent, MainPoll, MainClear, MainPost, MainMode,
                MainTake, MainEnd, MainMinus, MainStop, MainDetach, MainJoinClient, MainCancel, world,
                Types
  <1>10. CASE Others
    BY <1>6, <1>7, <1>10 DEF Others, Broken, Quit, Connect, Types
  <1>11. CASE RequestExit \/ UNCHANGED vars
    BY <1>11 DEF RequestExit, world, vars, Types
  <1> QED BY <1>1, <1>2, <1>3, <1>4, <1>5, <1>8, <1>9, <1>10, <1>11, Cases DEF HandleCommand, Ending

\* What clients and the main loop do to the streams of commands and to the backlog.
LEMMA StreamsTyped ==
  Types /\ Descriptor /\ [Next]_vars =>
    /\ backlog' \in Seq(Clients) /\ client' \in [Clients -> {"off", "wait", "up", "gone"}]
    /\ sent' \in [Clients -> Seq(Commands)] /\ handled' \in [Clients -> Seq(Commands)]
  <1> DEFINE T == /\ backlog \in Seq(Clients) /\ client \in [Clients -> {"off", "wait", "up", "gone"}]
                  /\ sent \in [Clients -> Seq(Commands)] /\ handled \in [Clients -> Seq(Commands)]
  <1> SUFFICES ASSUME Types, Descriptor, [Next]_vars PROVE T'
    OBVIOUS
  <1>0. T
    BY DEF Types
  <1>1. CASE ThreadAccept
    BY <1>0, <1>1 DEF ThreadAccept
  <1>2. CASE ThreadStep /\ ~ThreadAccept
    BY <1>0, <1>2 DEF ThreadStep, ThreadCheck, ThreadAccepted, ThreadPoll, ThreadInput, ThreadPend,
                      ThreadWake, ThreadSem, world
  <1>3. CASE MainRead
    <2>1. server_fd \in Clients
      BY <1>3 DEF MainRead, Descriptor, Types
    <2>2. Head(sock[server_fd].unread) \in Commands
      BY <1>3, <2>1 DEF MainRead, Types, Socket
    <2> QED BY <1>0, <1>3, <2>1, <2>2 DEF MainRead
  <1>4. CASE Loop \/ (HandleCommand /\ ~MainRead) \/ Ending
    BY <1>0, <1>4 DEF Loop, MainLoop, MainWakeup, MainEvent, MainPoll, MainClear, MainPost,
         HandleCommand, MainMode, MainTake, MainGreet, MainEnd, MainClose, MainMinus, MainStop, Ending,
         MainExit, MainDetach, MainBye, MainJoinClient, MainCancel, world
  <1>5. CASE Others
    <2> PICK c \in Clients : \/ Receive(c) \/ Broken(c) \/ Quit(c) \/ Connect(c)
                             \/ \E m \in Commands : SendCommand(c, m)
      BY <1>5 DEF Others
    <2>1. CASE Receive(c)
      <3>1. client' \in [Clients -> {"off", "wait", "up", "gone"}]
        <4>1. \A x : x \in {client[c], "up", "gone"} =>
                  [client EXCEPT ![c] = x] \in [Clients -> {"off", "wait", "up", "gone"}]
          BY <1>0
        <4>2. \E x \in {client[c], "up", "gone"} : client' = [client EXCEPT ![c] = x]
          BY <2>1 DEF Receive
        <4> QED BY <4>1, <4>2
      <3>2. sent' \in [Clients -> Seq(Commands)]
        <4>1. Append(sent[c], "detach") \in Seq(Commands)
          BY <1>0 DEF Commands
        <4>2. sent' = sent \/ sent' = [sent EXCEPT ![c] = Append(@, "detach")]
          BY <2>1 DEF Receive
        <4> QED BY <1>0, <4>1, <4>2
      <3> QED BY <1>0, <2>1, <3>1, <3>2 DEF Receive
    <2>2. CASE \E m \in Commands : SendCommand(c, m)
      BY <1>0, <2>2 DEF SendCommand
    <2>3. CASE Broken(c) \/ Quit(c)
      BY <1>0, <2>3 DEF Broken, Quit
    <2>4. CASE Connect(c)
      BY <1>0, <2>4 DEF Connect
    <2> QED BY <2>1, <2>2, <2>3, <2>4
  <1>6. CASE RequestExit \/ UNCHANGED vars
    BY <1>0, <1>6 DEF RequestExit, world, vars
  <1> QED BY <1>1, <1>2, <1>3, <1>4, <1>5, <1>6, Cases

\* Every variable keeps its type.
LEMMA TypesInv == Types /\ Descriptor /\ [Next]_vars => Types'
  <1> SUFFICES ASSUME Types, Descriptor, [Next]_vars PROVE Types'
    OBVIOUS
  <1>1. /\ mode' \in {"listen", "pair"} /\ server_fd' \in Clients \cup {NULL}
        /\ server_mode' \in {"none", "command", "accepted"}
        /\ command_pending' \in BOOLEAN /\ sem' \in Nat /\ wakeup' \in BOOLEAN
        /\ tracing' \in BOOLEAN /\ alive' \in BOOLEAN /\ do_exit' \in BOOLEAN
    <2> USE DEF Types, flags, trace
    <2>1. CASE ThreadStep
      <3>1. CASE ThreadAccept
        BY <3>1 DEF ThreadAccept
      <3>2. CASE ThreadSem
        BY <3>2 DEF ThreadSem
      <3>3. CASE ThreadCheck \/ ThreadPoll
        BY <3>3 DEF ThreadCheck, ThreadPoll
      <3>4. CASE ThreadAccepted \/ ThreadInput \/ ThreadPend \/ ThreadWake
        BY <3>4 DEF ThreadAccepted, ThreadInput, ThreadPend, ThreadWake
      <3> QED BY <2>1, <3>1, <3>2, <3>3, <3>4 DEF ThreadStep
    <2>2. CASE Loop
      <3>1. CASE MainLoop \/ MainPoll
        BY <3>1 DEF MainLoop, MainPoll
      <3>2. CASE MainWakeup \/ MainClear
        BY <3>2 DEF MainWakeup, MainClear
      <3>3. CASE MainPost
        BY <3>3 DEF MainPost
      <3>4. CASE MainEvent
        BY <3>4 DEF MainEvent
      <3> QED BY <2>2, <3>1, <3>2, <3>3, <3>4 DEF Loop
    <2>3. CASE HandleCommand
      BY <2>3 DEF HandleCommand, MainMode, MainTake, MainGreet, MainRead, MainEnd, MainClose,
                  MainMinus, MainStop
    <2>4. CASE Ending
      BY <2>4 DEF Ending, MainExit, MainDetach, MainBye, MainJoinClient, MainCancel
    <2>5. CASE Others
      BY <2>5, OthersLeave DEF tracer
    <2>6. CASE RequestExit \/ UNCHANGED vars
      BY <2>6 DEF RequestExit, tracer, vars
    <2> QED BY <2>1, <2>2, <2>3, <2>4, <2>5, <2>6, Cases
  <1> QED BY <1>1, ThreadTyped, MainTyped, SocketsTyped, StreamsTyped DEF Types

-----------------------------------------------------------------------------
(* What was sent, what was handled and what is to be read.                 *)

\* A step that leaves what is to be read alone, and what was sent and handled.
LEMMA StreamsKept ==
  ASSUME Streams, UNCHANGED <<sent, handled>>,
         \A c \in Clients : sock'[c].unread = sock[c].unread
  PROVE  Streams'
  BY DEF Streams

\* No command is lost, repeated or overtaken between the socket and its handler.
LEMMA StreamsInv == Types /\ Descriptor /\ Streams /\ [Next]_vars => Streams'
  <1> SUFFICES ASSUME Types, Descriptor, Streams, [Next]_vars PROVE Streams'
    OBVIOUS
  <1>0. \A c \in Clients : sock[c].unread \in Seq(Commands) /\ handled[c] \in Seq(Commands)
    BY DEF Types, Socket
  <1>1. CASE MainRead
    <2> DEFINE u == sock[server_fd].unread
               s == [sock EXCEPT ![server_fd].unread = Tail(@)]
    <2>1. server_fd \in Clients /\ u # <<>>
      BY <1>1 DEF MainRead, Descriptor, Types
    <2>2. Tail(u) \in Seq(Commands)
      BY <1>0, <2>1
    <2>3. s \in [Clients -> Socket] /\ s[server_fd].unread = Tail(u)
          /\ \A c \in Clients \ {server_fd} : s[c].unread = sock[c].unread
      BY <2>1, <2>2 DEF Socket, Types
    <2>4. \A c \in Clients : sock'[c].unread = s[c].unread
      <3>1. sock' = s \/ sock' = Reply(s, server_fd, "info")
        BY <1>1 DEF MainRead
      <3> HIDE DEF s
      <3>2. "info" \in Notes
        BY DEF Notes
      <3> QED BY <2>1, <2>3, <3>1, <3>2, ReplyType
    <2>5. handled' = [handled EXCEPT ![server_fd] = Append(@, Head(u))] /\ sent' = sent
      BY <1>1 DEF MainRead
    <2>6. ASSUME NEW c \in Clients, c # server_fd
          PROVE sent'[c] = handled'[c] \o sock'[c].unread
      <3>1. handled'[c] = handled[c] /\ sock'[c].unread = sock[c].unread
        BY <2>3, <2>4, <2>5, <2>6 DEF Types
      <3> QED BY <2>5, <3>1 DEF Streams
    <2>7. sent'[server_fd] = handled'[server_fd] \o sock'[server_fd].unread
      <3>1. /\ handled'[server_fd] = Append(handled[server_fd], Head(u))
            /\ sock'[server_fd].unread = Tail(u)
        BY <2>1, <2>3, <2>4, <2>5 DEF Types
      <3>2. Append(handled[server_fd], Head(u)) \o Tail(u) = handled[server_fd] \o u
        BY <1>0, <2>1, ShiftHead
      <3> HIDE DEF s, u
      <3> QED BY <2>1, <2>5, <3>1, <3>2 DEF Streams, u
    <2> QED BY <2>6, <2>7 DEF Streams
  <1>2. CASE MainGreet
    <2>1. \A c \in Clients : sock'[c].unread = sock[c].unread
      BY <1>2, ReplyType DEF MainGreet, Types, Notes
    <2> QED BY <1>2, <2>1, StreamsKept DEF MainGreet
  <1>3. CASE MainClose
    <2>1. \A c \in Clients : sock'[c].unread = sock[c].unread
      BY <1>3 DEF MainClose, Types, Socket
    <2> QED BY <1>3, <2>1, StreamsKept DEF MainClose
  <1>4. CASE MainExit
    <2>1. \A c \in Clients : sock'[c].unread = sock[c].unread
      BY <1>4, ExitReplies
    <2> QED BY <1>4, <2>1, StreamsKept DEF MainExit
  <1>5. CASE MainBye
    <2>1. {"info", "disconnect"} \subseteq Notes
      BY DEF Notes
    <2> DEFINE r == Reply(sock, server_fd, "info")
    <2>2. r \in [Clients -> Socket] /\ \A c \in Clients : r[c].unread = sock[c].unread
      BY <2>1, ReplyType DEF Types
    <2>3. sock' = Reply(r, server_fd, "disconnect")
      BY <1>5 DEF MainBye
    <2> HIDE DEF r
    <2>4. \A c \in Clients : sock'[c].unread = sock[c].unread
      BY <2>1, <2>2, <2>3, ReplyType DEF Types
    <2> QED BY <1>5, <2>4, StreamsKept DEF MainBye
  <1>6. ASSUME NEW c \in Clients, NEW m \in Commands,
               sock'[c].unread = Append(sock[c].unread, m), sent'[c] = Append(sent[c], m),
               \A d \in Clients \ {c} : sock'[d].unread = sock[d].unread /\ sent'[d] = sent[d],
               handled' = handled
        PROVE  Streams'
    <2>1. handled[c] \in Seq(Commands) /\ sock[c].unread \in Seq(Commands)
      BY <1>0
    <2>2. Append(handled[c] \o sock[c].unread, m) = handled[c] \o Append(sock[c].unread, m)
      BY <2>1, ShiftAppend
    <2> QED BY <1>6, <2>2 DEF Streams
  <1>7. ASSUME NEW c \in Clients, Receive(c) PROVE Streams'
    <2> DEFINE s == [sock EXCEPT ![c].inbox = Tail(@)]
    <2>1. \A d \in Clients : s[d].unread = sock[d].unread
      BY DEF Types, Socket
    <2>2. s \in [Clients -> [unread : Seq(Commands), inbox : {Tail(sock[c].inbox)} \cup Seq(Notes),
                             shut : BOOLEAN]]
      BY DEF Types, Socket
    <2>3. CASE sock' = s /\ sent' = sent
      BY <1>7, <2>1, <2>3, StreamsKept DEF Receive
    <2>4. CASE /\ sock' = [s EXCEPT ![c].unread = Append(@, "detach")]
               /\ sent' = [sent EXCEPT ![c] = Append(@, "detach")]
      <3> HIDE DEF s
      <3>1. /\ sock'[c].unread = Append(sock[c].unread, "detach")
            /\ \A d \in Clients \ {c} : sock'[d].unread = sock[d].unread
        BY <2>1, <2>2, <2>4
      <3>2. sent'[c] = Append(sent[c], "detach") /\ \A d \in Clients \ {c} : sent'[d] = sent[d]
        BY <2>4 DEF Types
      <3>3. handled' = handled
        BY <1>7 DEF Receive
      <3> QED BY <1>6, <3>1, <3>2, <3>3 DEF Commands
    <2> QED BY <1>7, <2>3, <2>4 DEF Receive
  <1>8. ASSUME NEW c \in Clients, NEW m \in Commands, SendCommand(c, m) PROVE Streams'
    <2>1. /\ sock'[c].unread = Append(sock[c].unread, m)
          /\ \A d \in Clients \ {c} : sock'[d].unread = sock[d].unread
      BY <1>8 DEF SendCommand, Types, Socket
    <2>2. sent'[c] = Append(sent[c], m) /\ \A d \in Clients \ {c} : sent'[d] = sent[d]
      BY <1>8 DEF SendCommand, Types
    <2> QED BY <1>6, <1>8, <2>1, <2>2 DEF SendCommand
  <1>9. CASE ThreadStep
    BY <1>9 DEF ThreadStep, ThreadCheck, ThreadAccept, ThreadAccepted, ThreadPoll, ThreadInput,
                ThreadPend, ThreadWake, ThreadSem, world, Streams
  <1>10. CASE Loop \/ MainMode \/ MainTake \/ MainEnd \/ MainMinus \/ MainStop \/ MainDetach
                \/ MainJoinClient \/ MainCancel
    BY <1>10 DEF Loop, MainLoop, MainWakeup, MainEvent, MainPoll, MainClear, MainPost, MainMode,
                 MainTake, MainEnd, MainMinus, MainStop, MainDetach, MainJoinClient, MainCancel, world,
                 Streams
  <1>11. CASE Others
    BY <1>7, <1>8, <1>11 DEF Others, Broken, Quit, Connect, Streams
  <1>12. CASE RequestExit \/ UNCHANGED vars
    BY <1>12 DEF RequestExit, world, vars, Streams
  <1> QED BY <1>1, <1>2, <1>3, <1>4, <1>5, <1>9, <1>10, <1>11, <1>12, Cases DEF HandleCommand, Ending

-----------------------------------------------------------------------------
(* The backlog, and whom the server may have answered.                     *)

\* A step that does not touch the backlog, and changes only the socket of the
\* client that is served or of one that was answered.
LEMMA WaitingKept ==
  ASSUME Types, Waiting, backlog' = backlog,
         server_fd' \in {server_fd, NULL},
         \A c \in Clients : client'[c] = "off" => client[c] = "off",
         \A c \in Clients : client[c] \in {"wait", "gone"} /\ client'[c] # client[c]
                              => client'[c] = "gone" \/ ~Untouched(c),
         \A c \in Clients : Untouched(c) =>
           sock'[c].inbox = sock[c].inbox /\ sock'[c].unread = sock[c].unread
  PROVE  Waiting'
  <1>1. ASSUME NEW c \in Clients, Untouched(c) PROVE Untouched(c)'
    BY <1>1, ConnectionAssumption DEF Untouched
  <1>2. \A i \in DOMAIN backlog : backlog[i] \in Clients
    BY DEF Types
  <1>3. ASSUME NEW c \in Clients, client'[c] = "off"
        PROVE Untouched(c)' /\ \A i \in DOMAIN backlog' : backlog'[i] # c
    BY <1>1, <1>3 DEF Waiting
  <1>4. ASSUME NEW i \in DOMAIN backlog'
        PROVE (Untouched(backlog[i]) /\ client[backlog[i]] \in {"wait", "gone"})'
    <2> PICK b \in Clients : b = backlog[i] /\ b = backlog'[i]
      BY <1>2
    <2>1. Untouched(b) /\ client[b] \in {"wait", "gone"}
      BY DEF Waiting
    <2>2. Untouched(b)' /\ client'[b] \in {"wait", "gone"}
      BY <1>1, <2>1
    <2> QED BY <2>2 DEF Untouched
  <1>5. \A i, j \in DOMAIN backlog' : backlog'[i] = backlog'[j] => i = j
    BY DEF Waiting
  <1> QED BY <1>3, <1>4, <1>5 DEF Waiting

\* A reply changes only the socket of the client that is served.
LEMMA ReplyUntouched ==
  ASSUME NEW s \in [Clients -> Socket], NEW m \in Notes, NEW c \in Clients, Types, c # server_fd
  PROVE  /\ Reply(s, server_fd, m)[c].inbox = s[c].inbox
         /\ Reply(s, server_fd, m)[c].unread = s[c].unread
  BY ReplyType DEF Types

\* Clients wait to be accepted in the order they came, each of them once.
LEMMA WaitingInv == Types /\ Descriptor /\ Waiting /\ [Next]_vars => Waiting'
  <1> SUFFICES ASSUME Types, Descriptor, Waiting, [Next]_vars PROVE Waiting'
    OBVIOUS
  <1>0. \A i \in DOMAIN backlog : backlog[i] \in Clients
    BY DEF Types
  <1>1. CASE ThreadAccept
    <2>1. server_fd = NULL /\ backlog # <<>> /\ server_fd' = Head(backlog) /\ backlog' = Tail(backlog)
          /\ UNCHANGED <<client, sock>>
      BY <1>1 DEF ThreadAccept, Thread, Descriptor
    <2>2. 1 \in DOMAIN backlog /\ Head(backlog) = backlog[1]
      BY <2>1 DEF Types
    <2>3. \A i \in DOMAIN backlog' : i + 1 \in DOMAIN backlog /\ i + 1 # 1 /\ backlog'[i] = backlog[i + 1]
      BY <2>1 DEF Types
    <2>4. ASSUME NEW c \in Clients, Untouched(c), c # backlog[1] PROVE Untouched(c)'
      BY <2>1, <2>2, <2>4 DEF Untouched
    <2>5. ASSUME NEW c \in Clients, client'[c] = "off"
          PROVE Untouched(c)' /\ \A i \in DOMAIN backlog' : backlog'[i] # c
      BY <2>1, <2>2, <2>3, <2>4, <2>5 DEF Waiting
    <2>6. ASSUME NEW i \in DOMAIN backlog'
          PROVE (Untouched(backlog[i]) /\ client[backlog[i]] \in {"wait", "gone"})'
      <3> PICK b \in Clients : b = backlog[i + 1] /\ b = backlog'[i] /\ b # backlog[1]
        BY <1>0, <2>2, <2>3 DEF Waiting
      <3>1. Untouched(b) /\ client[b] \in {"wait", "gone"}
        BY <2>3 DEF Waiting
      <3>2. Untouched(b)' /\ client'[b] \in {"wait", "gone"}
        BY <2>1, <2>4, <3>1
      <3> QED BY <3>2 DEF Untouched
    <2>7. ASSUME NEW i \in DOMAIN backlog', NEW j \in DOMAIN backlog', backlog'[i] = backlog'[j]
          PROVE i = j
      <3>1. i \in Int /\ j \in Int
        BY <2>1 DEF Types
      <3>2. i + 1 = j + 1
        BY <2>3, <2>7 DEF Waiting
      <3> QED BY <3>1, <3>2
    <2> QED BY <2>5, <2>6, <2>7 DEF Waiting
  <1>2. CASE MainMinus
    BY <1>2, WaitingKept DEF MainMinus, world
  <1>3. CASE MainGreet
    <2>1. \A c \in Clients : Untouched(c) =>
            sock'[c].inbox = sock[c].inbox /\ sock'[c].unread = sock[c].unread
      BY <1>3, ReplyUntouched DEF MainGreet, Untouched, Types, Notes
    <2> QED BY <1>3, <2>1, WaitingKept DEF MainGreet
  <1>4. CASE MainRead
    <2> DEFINE s == [sock EXCEPT ![server_fd].unread = Tail(@)]
    <2>1. server_fd \in Clients
      BY <1>4 DEF MainRead, Descriptor, Types
    <2>2. sock' \in {s, Reply(s, server_fd, "info")}
      BY <1>4 DEF MainRead
    <2>3. s \in [Clients -> Socket]
      <3>1. Tail(sock[server_fd].unread) \in Seq(Commands)
        BY <1>4, <2>1 DEF MainRead, Types, Socket
      <3> QED BY <2>1, <3>1 DEF Types, Socket
    <2>4. \A c \in Clients : c # server_fd => s[c] = sock[c]
      BY DEF Types
    <2> HIDE DEF s
    <2>5. \A c \in Clients : Untouched(c) =>
            sock'[c].inbox = sock[c].inbox /\ sock'[c].unread = sock[c].unread
      BY <2>2, <2>3, <2>4, ReplyUntouched DEF Untouched, Notes
    <2> QED BY <1>4, <2>5, WaitingKept DEF MainRead
  <1>5. CASE MainClose
    <2>1. \A c \in Clients : Untouched(c) =>
            sock'[c].inbox = sock[c].inbox /\ sock'[c].unread = sock[c].unread
      BY <1>5 DEF MainClose, Untouched, Types
    <2> QED BY <1>5, <2>1, WaitingKept DEF MainClose
  <1>6. CASE MainExit
    <2>1. \A c \in Clients : Untouched(c) =>
            sock'[c].inbox = sock[c].inbox /\ sock'[c].unread = sock[c].unread
      BY <1>6, ExitReplies DEF Untouched
    <2> QED BY <1>6, <2>1, WaitingKept DEF MainExit
  <1>7. CASE MainBye
    <2> DEFINE r == Reply(sock, server_fd, "info")
    <2>1. {"info", "disconnect"} \subseteq Notes
      BY DEF Notes
    <2>2. r \in [Clients -> Socket]
      BY <2>1, ReplyType DEF Types
    <2>3. \A c \in Clients : c # server_fd => r[c].inbox = sock[c].inbox /\ r[c].unread = sock[c].unread
      BY <2>1, ReplyUntouched DEF Types
    <2>4. sock' = Reply(r, server_fd, "disconnect")
      BY <1>7 DEF MainBye
    <2> HIDE DEF r
    <2>5. \A c \in Clients : Untouched(c) =>
            sock'[c].inbox = sock[c].inbox /\ sock'[c].unread = sock[c].unread
      BY <2>1, <2>2, <2>3, <2>4, ReplyUntouched DEF Untouched
    <2> QED BY <1>7, <2>5, WaitingKept DEF MainBye
  <1>8. ASSUME NEW c \in Clients, Receive(c) PROVE Waiting'
    <2>1. ~Untouched(c) /\ client[c] \in {"wait", "up"}
      BY <1>8 DEF Receive, Untouched
    <2>2. \A d \in Clients \ {c} : client'[d] = client[d] /\ sock'[d] = sock[d]
      BY <1>8 DEF Receive, Types
    <2>3. client'[c] # "off"
      BY <1>8, <2>1 DEF Receive, Types
    <2> QED BY <1>8, <2>1, <2>2, <2>3, WaitingKept DEF Receive, tracer
  <1>9. ASSUME NEW c \in Clients, NEW m \in Commands, SendCommand(c, m) PROVE Waiting'
    <2>1. client[c] = "up" /\ client'[c] # "off"
      BY <1>9 DEF SendCommand, Types
    <2>2. \A d \in Clients \ {c} : client'[d] = client[d] /\ sock'[d] = sock[d]
      BY <1>9 DEF SendCommand, Types
    <2>3. sock'[c].inbox = sock[c].inbox
      BY <1>9 DEF SendCommand, Types, Socket
    <2>4. backlog' = backlog /\ server_fd' = server_fd
      BY <1>9 DEF SendCommand, tracer
    <2>5. ~\E i \in DOMAIN backlog : backlog[i] = c
      BY <2>1 DEF Waiting
    <2>6. \A d \in Clients \ {c} : Untouched(d) => Untouched(d)'
      BY <2>2, <2>4 DEF Untouched
    <2> QED BY <1>0, <2>1, <2>2, <2>4, <2>5, <2>6 DEF Waiting
  <1>10. ASSUME NEW c \in Clients, Broken(c) \/ Quit(c) PROVE Waiting'
    <2>1. client'[c] = "gone" /\ \A d \in Clients \ {c} : client'[d] = client[d]
      BY <1>10 DEF Broken, Quit, Types
    <2>2. UNCHANGED <<backlog, server_fd, sock>>
      BY <1>10 DEF Broken, Quit, tracer
    <2> QED BY <2>1, <2>2, WaitingKept
  <1>11. ASSUME NEW c \in Clients, Connect(c) PROVE Waiting'
    <2>1. client[c] = "off" /\ client'[c] = "wait" /\ \A d \in Clients \ {c} : client'[d] = client[d]
      BY <1>11 DEF Connect, Types
    <2>2. backlog' = Append(backlog, c) /\ UNCHANGED <<server_fd, sock>>
      BY <1>11 DEF Connect, tracer
    <2>3. \A i \in DOMAIN backlog' : \/ i \in DOMAIN backlog /\ backlog'[i] = backlog[i]
                                     \/ i = Len(backlog) + 1 /\ backlog'[i] = c
      <3>1. DOMAIN backlog = 1..Len(backlog) /\ Len(backlog) \in Nat
        BY DEF Types
      <3>2. /\ DOMAIN backlog' = 1..(Len(backlog) + 1) /\ backlog'[Len(backlog) + 1] = c
            /\ \A i \in 1..Len(backlog) : backlog'[i] = backlog[i]
        BY <2>2 DEF Types
      <3> QED BY <3>1, <3>2
    <2>4. Untouched(c)' /\ \A d \in Clients : Untouched(d) => Untouched(d)'
      BY <2>1, <2>2 DEF Waiting, Untouched
    <2>5. \A i \in DOMAIN backlog : backlog[i] # c
      BY <2>1 DEF Waiting
    <2>6. ASSUME NEW d \in Clients, client'[d] = "off"
          PROVE Untouched(d)' /\ \A i \in DOMAIN backlog' : backlog'[i] # d
      BY <2>1, <2>3, <2>4, <2>6 DEF Waiting
    <2>7. ASSUME NEW i \in DOMAIN backlog'
          PROVE (Untouched(backlog[i]) /\ client[backlog[i]] \in {"wait", "gone"})'
      <3> PICK b \in Clients : b = backlog'[i]
        BY <1>0, <2>3
      <3>1. b = c \/ (Untouched(b) /\ client[b] \in {"wait", "gone"} /\ b # c)
        BY <2>3, <2>5 DEF Waiting
      <3>2. Untouched(b)' /\ client'[b] \in {"wait", "gone"}
        BY <2>1, <2>4, <3>1
      <3> QED BY <3>2 DEF Untouched
    <2>8. ASSUME NEW i \in DOMAIN backlog', NEW j \in DOMAIN backlog', backlog'[i] = backlog'[j]
          PROVE i = j
      BY <2>3, <2>5, <2>8 DEF Waiting
    <2> QED BY <2>6, <2>7, <2>8 DEF Waiting
  <1>12. ASSUME UNCHANGED <<backlog, server_fd, client, sock>> PROVE Waiting'
    BY <1>12, WaitingKept
  <1>13. CASE ThreadStep /\ ~ThreadAccept
    BY <1>12, <1>13 DEF ThreadStep, ThreadCheck, ThreadAccepted, ThreadPoll, ThreadInput, ThreadPend,
                        ThreadWake, ThreadSem, world
  <1>14. CASE Loop \/ MainMode \/ MainTake \/ MainEnd \/ MainStop \/ MainDetach \/ MainJoinClient
                \/ MainCancel
    BY <1>12, <1>14 DEF Loop, MainLoop, MainWakeup, MainEvent, MainPoll, MainClear, MainPost, MainMode,
         MainTake, MainEnd, MainStop, MainDetach, MainJoinClient, MainCancel, world
  <1>15. CASE Others
    BY <1>8, <1>9, <1>10, <1>11, <1>15 DEF Others
  <1>16. CASE RequestExit \/ UNCHANGED vars
    BY <1>12, <1>16 DEF RequestExit, tracer, world, vars
  <1> QED BY <1>1, <1>2, <1>3, <1>4, <1>5, <1>6, <1>7, <1>13, <1>14, <1>15, <1>16, Cases
          DEF ThreadStep, HandleCommand, Ending

\* A step after which the client that is served is not closer to an answer, with
\* the breakpoints as before.
LEMMA GreetingKept ==
  ASSUME Greeting, server_fd' = server_fd, tracing' = tracing,
         main'.back # "cancel" => main.back # "cancel",
         main.pc # "stop" => main'.pc # "stop",
         server_fd # NULL => (Touched(server_fd)' => Touched(server_fd))
  PROVE  Greeting'
  BY DEF Greeting

\* The answers to the client that is served depend on its state and socket.
LEMMA TouchedKept ==
  UNCHANGED <<server_fd, client, sock>> => (Touched(server_fd)' <=> Touched(server_fd))
  BY DEF Touched, Info

\* A client is told that it is served only while the breakpoints are enabled, and
\* the end of an earlier client does not disable them.
LEMMA GreetingInv ==
  Types /\ Returning /\ Descriptor /\ Waiting /\ Greeting /\ [Next]_vars => Greeting'
  <1> SUFFICES ASSUME Types, Returning, Descriptor, Waiting, Greeting, [Next]_vars PROVE Greeting'
    OBVIOUS
  <1>0. \A c \in Clients : sock[c].unread \in Seq(Commands) /\ sock[c].inbox \in Seq(Notes)
    BY DEF Types, Socket
  <1>1. CASE ThreadAccept
    <2>1. 1 \in DOMAIN backlog /\ server_fd' = backlog[1] /\ UNCHANGED <<client, sock>>
      BY <1>1 DEF ThreadAccept, Types
    <2>2. PICK b \in Clients : b = backlog[1]
      BY <2>1 DEF Types
    <2>3. client'[b] # "up" /\ sock'[b].inbox = <<>> /\ sock'[b].unread = <<>>
      BY <2>1, <2>2 DEF Waiting, Untouched
    <2>4. ~Info(<<>>)
      BY DEF Info
    <2>5. ~Touched(server_fd)'
      BY <2>1, <2>2, <2>3, <2>4 DEF Touched, Info
    <2> QED BY <2>5 DEF Greeting
  <1>2. CASE ThreadStep /\ ~ThreadAccept
    <2>1. UNCHANGED <<server_fd, client, sock, main, tracing>>
      BY <1>2 DEF ThreadStep, ThreadCheck, ThreadAccepted, ThreadPoll, ThreadInput, ThreadPend,
                  ThreadWake, ThreadSem, world, trace
    <2> QED BY <2>1, TouchedKept, GreetingKept
  <1>3. CASE Loop
    <2>1. UNCHANGED <<server_fd, client, sock, tracing>>
      BY <1>3 DEF Loop, MainLoop, MainWakeup, MainEvent, MainPoll, MainClear, MainPost, world, trace
    <2>2. main'.pc # "stop" /\ main.back # "cancel"
      BY <1>3 DEF Loop, MainLoop, MainWakeup, MainEvent, MainPoll, MainClear, MainPost, Main,
                  Returning, Types, MainState
    <2> QED BY <2>1, <2>2, TouchedKept, GreetingKept
  <1>4. CASE MainMode \/ MainTake \/ MainEnd
    <2>1. UNCHANGED <<server_fd, client, sock, tracing>>
      BY <1>4 DEF MainMode, MainTake, MainEnd, world, trace
    <2>2. main'.pc # "stop" /\ main'.back = main.back
      BY <1>4 DEF MainMode, MainTake, MainEnd, Types, MainState
    <2> QED BY <2>1, <2>2, TouchedKept, GreetingKept
  <1>5. CASE MainGreet
    BY <1>5 DEF MainGreet, Main, Greeting, Types, MainState
  <1>6. CASE MainRead
    <2> DEFINE u == sock[server_fd].unread
               s == [sock EXCEPT ![server_fd].unread = Tail(@)]
    <2>1. server_fd \in Clients /\ u # <<>>
      BY <1>6 DEF MainRead, Descriptor, Types
    <2>2. u \in Seq(Commands) /\ Tail(u) \in Seq(Commands) /\ sock[server_fd].inbox \in Seq(Notes)
      BY <1>0, <2>1
    <2>3. /\ s \in [Clients -> Socket] /\ s[server_fd].unread = Tail(u)
          /\ s[server_fd].inbox = sock[server_fd].inbox
      BY <2>1, <2>2 DEF Socket, Types
    <2>4. /\ UNCHANGED <<server_fd, client, tracing>>
          /\ \/ sock' = s
             \/ Head(u) = "info" /\ sock' = Reply(s, server_fd, "info")
      BY <1>6 DEF MainRead, trace
    <2> HIDE DEF s, u
    <2>5. /\ sock'[server_fd].unread = Tail(u)
          /\ \/ sock'[server_fd].inbox = sock[server_fd].inbox
             \/ Head(u) = "info"
      BY <2>1, <2>3, <2>4, ReplyType DEF Notes
    <2>6. Info(u) <=> Head(u) = "info" \/ Info(Tail(u))
      BY <2>1, <2>2, InfoSteps
    <2>7. Touched(server_fd)' => Touched(server_fd)
      <3>1. Touched(server_fd)' => \/ client[server_fd] = "up" \/ Info(sock[server_fd].inbox)
                                   \/ Head(u) = "info" \/ Info(Tail(u))
        BY <2>4, <2>5 DEF Touched, Info
      <3> QED BY <2>6, <3>1 DEF Touched, u
    <2>8. main'.pc # "stop" /\ main'.back = main.back
      BY <1>6 DEF MainRead, Types, MainState
    <2> QED BY <2>4, <2>7, <2>8, GreetingKept
  <1>7. CASE MainClose
    <2>1. \A c \in Clients : sock'[c].unread = sock[c].unread /\ sock'[c].inbox = sock[c].inbox
      BY <1>7 DEF MainClose, Types, Socket
    <2>2. UNCHANGED <<server_fd, client, tracing>>
      BY <1>7 DEF MainClose, trace
    <2>3. server_fd # NULL => (Touched(server_fd)' => Touched(server_fd))
      BY <2>1, <2>2 DEF Touched, Info, Types
    <2>4. main'.pc # "stop" /\ main'.back = main.back
      BY <1>7 DEF MainClose, Types, MainState
    <2> QED BY <2>2, <2>3, <2>4, GreetingKept
  <1>8. CASE MainMinus
    BY <1>8 DEF MainMinus, Greeting
  <1>9. CASE MainStop
    <2>1. UNCHANGED <<server_fd, client, sock>> /\ main.pc = "stop" /\ main'.back = main.back
      BY <1>9 DEF MainStop, Main, world, Types, MainState
    <2> QED BY <2>1, TouchedKept DEF Greeting
  <1>10. CASE MainExit
    <2>1. UNCHANGED <<server_fd, client, tracing>> /\ main'.pc # "stop" /\ main.back # "cancel"
      BY <1>10 DEF MainExit, trace, Types, MainState, Returning
    <2>2. ASSUME server_fd # NULL PROVE Touched(server_fd)' => Touched(server_fd)
      <3>1. server_fd \in Clients
        BY <2>2 DEF Types
      <3>2. /\ sock'[server_fd].unread = sock[server_fd].unread
            /\ sock'[server_fd].inbox \in {sock[server_fd].inbox, Append(sock[server_fd].inbox, "detach")}
        BY <1>10, <3>1, ExitReplies
      <3>3. Info(Append(sock[server_fd].inbox, "detach")) <=> Info(sock[server_fd].inbox)
        BY <1>0, <3>1, InfoSteps DEF Notes
      <3>4. Touched(server_fd)' => \/ client[server_fd] = "up" \/ Info(sock[server_fd].unread)
                                   \/ Info(sock[server_fd].inbox)
                                   \/ Info(Append(sock[server_fd].inbox, "detach"))
        BY <2>1, <3>2 DEF Touched, Info
      <3> QED BY <3>3, <3>4 DEF Touched
    <2> QED BY <2>1, <2>2, GreetingKept
  <1>11. CASE MainBye
    BY <1>11 DEF MainBye, Greeting, Types, MainState
  <1>12. CASE MainDetach \/ MainJoinClient \/ MainCancel
    <2>1. UNCHANGED <<server_fd, client, sock, tracing>>
      BY <1>12 DEF MainDetach, MainJoinClient, MainCancel, world, trace
    <2>2. main'.pc # "stop" /\ main'.back = main.back
      BY <1>12 DEF MainDetach, MainJoinClient, MainCancel, Main, Types, MainState
    <2> QED BY <2>1, <2>2, TouchedKept, GreetingKept
  <1>13. CASE Others
    <2>0. UNCHANGED <<server_fd, main, tracing>>
      BY <1>13, OthersLeave DEF tracer, trace
    <2> SUFFICES ASSUME server_fd # NULL PROVE Greeting'
      BY <2>0 DEF Greeting
    <2> DEFINE f == server_fd
    <2>00. f \in Clients
      BY DEF Types
    <2> PICK c \in Clients : \/ Receive(c) \/ Broken(c) \/ Quit(c) \/ Connect(c)
                             \/ \E m \in Commands : SendCommand(c, m)
      BY <1>13 DEF Others
    <2>1. CASE c # server_fd
      <3>1. client'[f] = client[f] /\ sock'[f] = sock[f]
        BY <2>00, <2>1 DEF Receive, Broken, Quit, Connect, SendCommand, Types
      <3>2. Touched(server_fd)' => Touched(server_fd)
        BY <2>0, <3>1 DEF Touched, Info
      <3> QED BY <2>0, <3>2, GreetingKept
    <2>2. CASE c = server_fd /\ Receive(c)
      <3> DEFINE i == sock[c].inbox
      <3>1. i \in Seq(Notes) /\ i # <<>> /\ sock[c].unread \in Seq(Commands)
        BY <1>0, <2>2 DEF Receive
      <3>2. Tail(i) \in Seq(Notes) /\ Append(sock[c].unread, "detach") \in Seq(Commands)
        BY <3>1 DEF Commands
      <3> DEFINE s == [sock EXCEPT ![c].inbox = Tail(@)]
      <3>3. s \in [Clients -> Socket] /\ s[c].inbox = Tail(i) /\ s[c].unread = sock[c].unread
        BY <3>2 DEF Types, Socket
      <3>4. sock' = s \/ sock' = [s EXCEPT ![c].unread = Append(@, "detach")]
        BY <2>2 DEF Receive
      <3>5. client'[c] = "up" => client[c] = "up" \/ Head(i) = "info"
        BY <2>2 DEF Receive, Types
      <3> HIDE DEF i, s
      <3>6. /\ sock'[c].inbox = Tail(i)
            /\ sock'[c].unread \in {sock[c].unread, Append(sock[c].unread, "detach")}
        BY <3>3, <3>4 DEF Socket
      <3>7. Info(i) <=> Head(i) = "info" \/ Info(Tail(i))
        BY <3>1, InfoSteps DEF i
      <3>8. Info(Append(sock[c].unread, "detach")) <=> Info(sock[c].unread)
        BY <3>1, InfoSteps DEF Commands
      <3>9. Touched(server_fd)' => \/ client'[c] = "up" \/ Info(Tail(i)) \/ Info(sock[c].unread)
                                   \/ Info(Append(sock[c].unread, "detach"))
        BY <2>0, <2>2, <3>6 DEF Touched, Info
      <3>10. Touched(server_fd)' => Touched(server_fd)
        BY <2>2, <3>5, <3>7, <3>8, <3>9 DEF Touched, i
      <3> QED BY <2>0, <3>10, GreetingKept
    <2>3. CASE c = server_fd /\ \E m \in Commands : SendCommand(c, m)
      <3>1. Touched(server_fd)
        BY <2>3 DEF SendCommand, Touched
      <3> QED BY <2>0, <3>1, GreetingKept
    <2>4. CASE c = server_fd /\ (Broken(c) \/ Quit(c))
      <3>1. client'[c] = "gone" /\ sock' = sock
        BY <2>4 DEF Broken, Quit, Types
      <3>2. Touched(server_fd)' => Touched(server_fd)
        BY <2>0, <2>4, <3>1 DEF Touched, Info
      <3> QED BY <2>0, <3>2, GreetingKept
    <2>5. CASE c = server_fd /\ Connect(c)
      BY <2>5 DEF Connect, Waiting, Untouched
    <2> QED BY <2>1, <2>2, <2>3, <2>4, <2>5
  <1>14. CASE RequestExit \/ UNCHANGED vars
    <2>1. UNCHANGED <<server_fd, client, sock, main, tracing>>
      BY <1>14 DEF RequestExit, tracer, world, vars
    <2> QED BY <2>1, TouchedKept, GreetingKept
  <1> QED BY <1>1, <1>2, <1>3, <1>4, <1>5, <1>6, <1>7, <1>8, <1>9, <1>10, <1>11, <1>12, <1>13, <1>14,
             Cases DEF ThreadStep, HandleCommand, Ending

-----------------------------------------------------------------------------
(* The theorems.                                                           *)

\* The server starts with the invariant.
LEMMA InitInv == Init => IInv
  <1> SUFFICES ASSUME Init PROVE IInv
    OBVIOUS
  <1>0. <<>> \in Seq(Clients) /\ <<>> \in Seq(Commands) /\ <<>> \in Seq(Notes) /\ DOMAIN <<>> = {}
    OBVIOUS
  <1>1. PICK k \in Modes :
          /\ mode = IF k = "pair" THEN "pair" ELSE "listen"
          /\ server_fd = IF k = "listen" THEN NULL ELSE CHOOSE c \in Clients : TRUE
    BY DEF Init
  <1>2. mode \in {"listen", "pair"} /\ server_fd \in Clients \cup {NULL}
    BY <1>1, ConnectionAssumption
  <1>3. thread \in ThreadState /\ main \in MainState
    BY DEF Init, ThreadState, ThreadPcs, MainState, MainPcs, Codes
  <1>4. sock \in [Clients -> Socket]
    BY <1>0 DEF Init, Socket
  <1>5. Types
    BY <1>0, <1>2, <1>3, <1>4 DEF Types, Init, server_connected
  <1>6. Returning /\ Descriptor /\ Wakeups
    BY DEF Init, Returning, Descriptor, Wakeups
  <1>7. Credit
    BY DEF Init, Credit, Answering, Debt, Ahead
  <1>8. Waiting
    BY <1>0 DEF Init, Waiting, Untouched
  <1>9. Greeting
    BY DEF Init, Greeting, server_connected
  <1>10. Streams
    <2>1. \A c \in Clients : sent[c] = <<>> /\ handled[c] = <<>> /\ sock[c].unread = <<>>
      BY DEF Init
    <2>2. <<>> \o <<>> = <<>>
      OBVIOUS
    <2> QED BY <2>1, <2>2 DEF Streams
  <1> QED BY <1>5, <1>6, <1>7, <1>8, <1>9, <1>10 DEF IInv

\* Every step of the threads, the clients and the traced program keeps it.
LEMMA NextInv == IInv /\ [Next]_vars => IInv'
  BY TypesInv, ReturningInv, DescriptorInv, WakeupsInv, CreditInv, WaitingInv, GreetingInv, StreamsInv
  DEF IInv

\* The invariant of the server and its clients.
THEOREM Invariance == Spec => []IInv
  BY InitInv, NextInv, PTL DEF Spec

\* The types of the variables, for every set of clients and any number of commands.
THEOREM TypeCorrect == Spec => []TypeOK
  <1>1. IInv => TypeOK
    BY DEF IInv, Types, TypeOK, ThreadState, ThreadPcs
  <1> QED BY <1>1, Invariance, PTL

\* No wakeup is lost between request_server and waitpid.
THEOREM WakeupKept == Spec => []NoLostWakeup
  <1>1. IInv => NoLostWakeup
    BY DEF IInv, Wakeups, NoLostWakeup
  <1> QED BY <1>1, Invariance, PTL

\* server_poll posts the semaphore once for a request at most.
THEOREM SemaphoreBalanced == Spec => []Balanced
  <1>1. IInv => Balanced
    BY DEF IInv, Types, Credit, Debt, Ahead, Balanced
  <1> QED BY <1>1, Invariance, PTL

\* start_trace comes before MT_INFO is read, and stop_trace of an earlier client
\* never after it.
THEOREM GreetedIsTraced == Spec => []TracedForClient
  <1>1. IInv => TracedForClient
    <2> SUFFICES ASSUME IInv, NEW c \in Clients,
                        client[c] = "up", server_fd = c, main.back # "cancel"
                 PROVE tracing
      BY DEF TracedForClient
    <2> QED BY ConnectionAssumption DEF IInv, Greeting, Touched
  <1> QED BY <1>1, Invariance, PTL

-----------------------------------------------------------------------------
(* The server does what HandOver allows.                                   *)

\* A step maps to a step of HandOver or to none: accept serves a client, only
\* when none is served; the read of a command handles the next one that was
\* sent; server_close drops the client.
LEMMA StepPromised == IInv /\ [Next]_vars => [Promise!Next]_(Promise!vars)
  <1> SUFFICES ASSUME IInv, [Next]_vars PROVE [Promise!Next]_(Promise!vars)
    OBVIOUS
  <1> USE DEF Promise!vars
  <1>1. CASE ThreadAccept
    <2>1. server_fd = NULL /\ server_fd' = Head(backlog) /\ Head(backlog) \in Clients
          /\ UNCHANGED <<sent, handled>>
      BY <1>1 DEF ThreadAccept, Thread, IInv, Descriptor, Types
    <2>2. Promise!Serve(Head(backlog))
      BY <2>1 DEF Promise!Serve
    <2> QED BY <2>1, <2>2 DEF Promise!Next
  <1>2. CASE MainRead
    <2> DEFINE u == sock[server_fd].unread
               h == handled[server_fd]
    <2>1. server_fd \in Clients /\ server_fd # NULL /\ u # <<>>
      BY <1>2, ConnectionAssumption DEF MainRead, IInv, Descriptor, Types
    <2>2. u \in Seq(Commands) /\ h \in Seq(Commands) /\ sent[server_fd] = h \o u
      BY <2>1 DEF IInv, Types, Socket, Streams
    <2>3. Len(u) > 0 /\ u[1] = Head(u)
      BY <2>1, <2>2
    <2>4. Len(h) < Len(h \o u) /\ (h \o u)[Len(h) + 1] = Head(u)
      <3> HIDE DEF h, u
      <3>1. Len(h) \in Nat /\ Len(u) \in Nat
        BY <2>2
      <3> QED BY <2>2, <2>3, <3>1, ConcatProperties
    <2>5. /\ handled' = [handled EXCEPT ![server_fd] = Append(@, Head(u))]
          /\ UNCHANGED <<sent, server_fd>>
      BY <1>2 DEF MainRead
    <2> HIDE DEF u
    <2>6. Promise!Handle
      BY <2>1, <2>2, <2>4, <2>5 DEF Promise!Handle
    <2> QED BY <2>6 DEF Promise!Next
  <1>3. CASE MainMinus
    BY <1>3 DEF MainMinus, Main, IInv, Descriptor, world, Promise!Next, Promise!Drop
  <1>4. ASSUME NEW c \in Clients, Receive(c) PROVE [Promise!Next]_(Promise!vars)
    <2>1. UNCHANGED <<handled, server_fd>>
      BY <1>4 DEF Receive, tracer
    <2>2. CASE sent' = sent
      BY <2>1, <2>2
    <2>3. CASE sent' = [sent EXCEPT ![c] = Append(@, "detach")]
      <3>1. Promise!Send(c)
        BY <2>1, <2>3 DEF Promise!Send, Commands
      <3> QED BY <3>1 DEF Promise!Next
    <2> QED BY <1>4, <2>2, <2>3 DEF Receive
  <1>5. ASSUME NEW c \in Clients, NEW m \in Commands, SendCommand(c, m)
        PROVE [Promise!Next]_(Promise!vars)
    <2>1. Promise!Send(c)
      BY <1>5 DEF SendCommand, tracer, Promise!Send
    <2> QED BY <2>1 DEF Promise!Next
  <1>6. ASSUME UNCHANGED <<sent, handled, server_fd>> PROVE [Promise!Next]_(Promise!vars)
    BY <1>6
  <1>7. CASE ThreadStep /\ ~ThreadAccept
    BY <1>6, <1>7 DEF ThreadStep, ThreadCheck, ThreadAccepted, ThreadPoll, ThreadInput, ThreadPend,
                      ThreadWake, ThreadSem, world
  <1>8. CASE Loop \/ (HandleCommand /\ ~MainRead /\ ~MainMinus)
    BY <1>6, <1>8 DEF Loop, MainLoop, MainWakeup, MainEvent, MainPoll, MainClear, MainPost,
         HandleCommand, MainMode, MainTake, MainGreet, MainEnd, MainClose, MainStop, world
  <1>9. CASE Ending
    BY <1>6, <1>9 DEF Ending, MainExit, MainDetach, MainBye, MainJoinClient, MainCancel, world
  <1>10. CASE Others
    <2>1. \A c \in Clients : Broken(c) \/ Quit(c) \/ Connect(c) => UNCHANGED <<sent, handled, server_fd>>
      BY DEF Broken, Quit, Connect, tracer
    <2> QED BY <1>4, <1>5, <1>6, <1>10, <2>1 DEF Others
  <1>11. CASE RequestExit \/ UNCHANGED vars
    BY <1>6, <1>11 DEF RequestExit, tracer, world, vars
  <1> QED BY <1>1, <1>2, <1>3, <1>7, <1>8, <1>9, <1>10, <1>11, Cases

\* The listen thread and the main loop together serve one client at a time and
\* carry out its commands in the order they were sent, each of them once: the
\* safety part of HandOver.
THEOREM PromiseKept == Spec => Promise!Safety
  <1>1. Init => Promise!Init
    <2> SUFFICES ASSUME Init PROVE Promise!Init
      OBVIOUS
    <2>1. server_fd \in Clients \cup {NULL}
      BY InitInv DEF IInv, Types
    <2> QED BY <2>1 DEF Init, Promise!Init
  <1> QED BY <1>1, StepPromised, Invariance, PTL DEF Spec, Promise!Safety

=============================================================================
