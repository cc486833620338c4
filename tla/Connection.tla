----------------------------- MODULE Connection -----------------------------
(***************************************************************************)
(* The server and its clients (server.c, main.c, client.c, thread.c,       *)
(* socket.c, wait_event_wakeup of trace.c): the listen thread waits for a  *)
(* client or for its input and hands what it finds over to the main loop   *)
(* with server_mode, command_pending and a semaphore; the main loop, which *)
(* sleeps in waitpid, is woken by a child that ends at once.               *)
(*                                                                         *)
(* server_fd, server_mode and command_pending are plain variables of both  *)
(* threads: each read and each write of one is a step of its own, in the   *)
(* order of the code.  A socket keeps what the client sent (unread) and    *)
(* what the server sent (inbox).                                           *)
(***************************************************************************)
EXTENDS Integers, Sequences, FiniteSets

CONSTANTS Clients, NULL,
          Modes,      \* "listen", "wait" (with -w), "pair" (a client in the same process)
          MaxCommands \* a client sends no more

ASSUME ConnectionAssumption ==
  /\ IsFiniteSet(Clients) /\ Clients # {} /\ NULL \notin Clients
  /\ Modes \subseteq {"listen", "wait", "pair"} /\ MaxCommands \in Nat

\* MT_INFO, one of another process' commands, one the server does not know.
Commands == {"info", "command", "unknown", "detach"}

VARIABLES mode,             \* "listen" or "pair"
          server_fd,        \* the client it talks to
          server_mode, command_pending, sem,
          wakeup,           \* wakeup_pid # -1: that child can be waited for
          thread,           \* the listen thread: pc, and the descriptor it polls
          main,             \* the main loop: pc, where server_handle_command returns, its mode
          backlog,          \* clients that are connected but not accepted
          client,           \* what each client does: off, wait (for MT_INFO), up, gone
          sock,             \* of each client: unread, inbox, and whether the server closed it
          sent, handled,    \* the commands of each client
          tracing,          \* the breakpoints are enabled
          alive,            \* there are traced tasks
          do_exit

vars == <<mode, server_fd, server_mode, command_pending, sem, wakeup, thread, main, backlog,
          client, sock, sent, handled, tracing, alive, do_exit>>

flags == <<server_mode, command_pending, sem, wakeup>>
world == <<backlog, client, sock, sent, handled>>
trace == <<tracing, alive, do_exit>>

server_connected == server_fd # NULL

\* poll on c returns: input, the end of it, or an error.
Readable(c) == sock[c].unread # <<>> \/ client[c] = "gone" \/ sock[c].shut

\* server_send_msg: what is sent to a client that is gone is lost.
Reply(s, c, m) ==
  IF c = NULL \/ client[c] = "gone" THEN s ELSE [s EXCEPT ![c].inbox = Append(@, m)]

-----------------------------------------------------------------------------
(* server_listen_thread and server_pair_thread.                            *)

Thread(from, to) == thread.pc = from /\ thread' = [thread EXCEPT !.pc = to]

\* if (!server_connected()): the pair thread ends, the other one accepts.
ThreadCheck ==
  /\ Thread("check", IF server_connected THEN "poll" ELSE IF mode = "pair" THEN "done" ELSE "accept")
  /\ UNCHANGED <<mode, server_fd, flags, main, world, trace>>

ThreadAccept ==
  /\ Thread("accept", "accepted") /\ backlog # <<>>
  /\ server_fd' = Head(backlog) /\ backlog' = Tail(backlog)
  /\ UNCHANGED <<mode, flags, main, client, sock, sent, handled, trace>>

ThreadAccepted ==
  /\ Thread("accepted", "pend") /\ server_mode' = "accepted"
  /\ UNCHANGED <<mode, server_fd, command_pending, sem, wakeup, main, world, trace>>

\* The descriptor is read again for the call of poll.
ThreadPoll ==
  /\ thread.pc = "poll" /\ thread' = [pc |-> "polling", fd |-> server_fd]
  /\ UNCHANGED <<mode, server_fd, flags, main, world, trace>>

\* ioevent_wait_input: a descriptor of -1 is never ready.
ThreadInput ==
  /\ thread.pc = "polling" /\ thread.fd # NULL /\ Readable(thread.fd)
  /\ thread' = [pc |-> "pend", fd |-> NULL]
  /\ server_mode' = "command"
  /\ UNCHANGED <<mode, server_fd, command_pending, sem, wakeup, main, world, trace>>

\* request_server
ThreadPend ==
  /\ Thread("pend", "wake") /\ command_pending' = TRUE
  /\ UNCHANGED <<mode, server_fd, server_mode, sem, wakeup, main, world, trace>>

\* Mutant: only a new client wakes the main loop.
WakeOnce ==
  /\ Thread("wake", "sem") /\ wakeup' = (wakeup \/ server_mode = "accepted")
  /\ UNCHANGED <<mode, server_fd, server_mode, command_pending, sem, main, world, trace>>

\* wait_event_wakeup, which holds the mutex.
ThreadWake ==
  /\ Thread("wake", "sem") /\ wakeup' = TRUE
  /\ UNCHANGED <<mode, server_fd, server_mode, command_pending, sem, main, world, trace>>

\* Mutant: the thread does not wait for the main loop.
SemNoWait ==
  /\ Thread("sem", "check") /\ sem' = sem - 1
  /\ UNCHANGED <<mode, server_fd, server_mode, command_pending, wakeup, main, world, trace>>

ThreadSem ==
  /\ Thread("sem", "check") /\ sem > 0 /\ sem' = sem - 1
  /\ UNCHANGED <<mode, server_fd, server_mode, command_pending, wakeup, main, world, trace>>

ThreadStep == ThreadCheck \/ ThreadAccept \/ ThreadAccepted \/ ThreadPoll \/ ThreadInput
                \/ ThreadPend \/ ThreadWake \/ ThreadSem

-----------------------------------------------------------------------------
(* mtrace_main.                                                            *)

Main(from, to) == main.pc = from /\ main' = [main EXCEPT !.pc = to]

\* The end: it was asked for, or no task is left, and then there is none to detach.
MainLoop ==
  /\ Main("loop", IF ~alive THEN "bye" ELSE IF do_exit THEN "exit" ELSE "wait")
  /\ UNCHANGED <<mode, server_fd, flags, thread, world, trace>>

\* next_event: the child of wait_event_wakeup, or a task with an event, which is handled.
MainWakeup ==
  /\ Main("wait", "poll") /\ wakeup /\ wakeup' = FALSE
  /\ UNCHANGED <<mode, server_fd, server_mode, command_pending, sem, thread, world, trace>>

\* It may be the exit of the last task.
MainEvent ==
  /\ Main("wait", "poll") /\ alive' \in {TRUE, FALSE}
  /\ UNCHANGED <<mode, server_fd, flags, thread, world, tracing, do_exit>>

\* Mutant: the loop answers whether or not it was asked.
PollAlways ==
  /\ main.pc = "poll"
  /\ main' = IF command_pending THEN [main EXCEPT !.pc = "handle", !.back = "clear"]
             ELSE [main EXCEPT !.pc = "post"]
  /\ UNCHANGED <<mode, server_fd, flags, thread, world, trace>>

\* server_poll
MainPoll ==
  /\ main.pc = "poll"
  /\ main' = IF command_pending THEN [main EXCEPT !.pc = "handle", !.back = "clear"]
             ELSE [main EXCEPT !.pc = "loop"]
  /\ UNCHANGED <<mode, server_fd, flags, thread, world, trace>>

\* What server_handle_command returned is not looked at.
MainClear ==
  /\ main.pc = "clear" /\ main' = [main EXCEPT !.pc = "post", !.m = "none"]
  /\ command_pending' = FALSE
  /\ UNCHANGED <<mode, server_fd, server_mode, sem, wakeup, thread, world, trace>>

MainPost ==
  /\ Main("post", "loop") /\ sem' = sem + 1
  /\ UNCHANGED <<mode, server_fd, server_mode, command_pending, wakeup, thread, world, trace>>

-----------------------------------------------------------------------------
(* server_handle_command, called by server_poll and by detach_process.     *)

MainMode ==
  /\ main.pc = "handle" /\ main' = [main EXCEPT !.pc = "take", !.m = server_mode]
  /\ UNCHANGED <<mode, server_fd, flags, thread, world, trace>>

\* server_mode = MODE_NONE; without a client there is nothing else to do.
MainTake ==
  /\ main.pc = "take" /\ server_mode' = "none"
  /\ main' = IF main.m = "accepted" THEN [main EXCEPT !.pc = "greet"]
             ELSE IF server_connected THEN [main EXCEPT !.pc = "read"]
             ELSE [main EXCEPT !.pc = main.back, !.m = "end"]
  /\ UNCHANGED <<mode, server_fd, command_pending, sem, wakeup, thread, world, trace>>

\* Mutant: tracing is not started.
GreetOnly ==
  /\ Main("greet", main.back)
  /\ sock' = Reply(sock, server_fd, "info")
  /\ UNCHANGED <<mode, server_fd, flags, thread, backlog, client, sent, handled, trace>>

\* MODE_ACCEPTED: report_info, report_processes, start_trace.
MainGreet ==
  /\ Main("greet", main.back)
  /\ sock' = Reply(sock, server_fd, "info") /\ tracing' = TRUE
  /\ UNCHANGED <<mode, server_fd, flags, thread, backlog, client, sent, handled, alive, do_exit>>

\* Mutant: the command is only looked at.
ReadPeeks ==
  LET c == server_fd
      m == Head(sock[c].unread)
  IN /\ main.pc = "read" /\ sock[c].unread # <<>>
     /\ handled' = [handled EXCEPT ![c] = Append(@, m)]
     /\ sock' = IF m = "info" THEN Reply(sock, c, m) ELSE sock
     /\ main' = [main EXCEPT !.pc = IF m = "unknown" THEN "close" ELSE main.back, !.m = m]
     /\ UNCHANGED <<mode, server_fd, flags, thread, backlog, client, sent, trace>>

\* safe_read of a command, and what it asks for.
MainRead ==
  LET c == server_fd
      m == Head(sock[c].unread)
      s == [sock EXCEPT ![c].unread = Tail(@)]
  IN /\ main.pc = "read" /\ sock[c].unread # <<>>
     /\ handled' = [handled EXCEPT ![c] = Append(@, m)]
     /\ sock' = IF m = "info" THEN Reply(s, c, m) ELSE s
     /\ main' = [main EXCEPT !.pc = IF m = "unknown" THEN "close" ELSE main.back, !.m = m]
     /\ UNCHANGED <<mode, server_fd, flags, thread, backlog, client, sent, trace>>

\* safe_read returns 0: the client is gone.
MainEnd ==
  /\ main.pc = "read" /\ client[server_fd] = "gone" /\ sock[server_fd].unread = <<>>
  /\ main' = [main EXCEPT !.pc = "close", !.m = "eof"]
  /\ UNCHANGED <<mode, server_fd, flags, thread, world, trace>>

\* server_close: shutdown and close, server_fd = -1, and each process' stop_trace.
MainClose ==
  /\ main.pc = "close" /\ main' = [main EXCEPT !.pc = IF server_connected THEN "minus" ELSE main.back]
  /\ sock' = IF server_connected THEN [sock EXCEPT ![server_fd].shut = TRUE] ELSE sock
  /\ UNCHANGED <<mode, server_fd, flags, thread, backlog, client, sent, handled, trace>>

MainMinus ==
  /\ Main("minus", "stop") /\ server_fd' = NULL
  /\ UNCHANGED <<mode, flags, thread, world, trace>>

MainStop ==
  /\ Main("stop", main.back) /\ tracing' = FALSE
  /\ UNCHANGED <<mode, server_fd, flags, thread, world, alive, do_exit>>

-----------------------------------------------------------------------------
(* mtrace_exit, and the end of main().                                     *)

\* report_detach; with options.interactive, or when no process is left, nothing is detached.
MainExit ==
  /\ main.pc = "exit"
  /\ \/ /\ main' = [main EXCEPT !.pc = "handle", !.back = "detach"]
        /\ sock' = Reply(sock, server_fd, "detach")
     \/ main' = [main EXCEPT !.pc = "bye"] /\ UNCHANGED sock
  /\ UNCHANGED <<mode, server_fd, flags, thread, backlog, client, sent, handled, trace>>

\* while(server_handle_command() != -1), until the process is detached.
MainDetach ==
  /\ Main("detach", IF main.m \in {"end", "detach"} THEN "bye" ELSE "handle")
  /\ UNCHANGED <<mode, server_fd, flags, thread, world, trace>>

\* report_info, report_disconnect, client_stop (the client's thread has ended), and server_close.
MainBye ==
  /\ main.pc = "bye" /\ main' = [main EXCEPT !.pc = "join", !.back = "cancel"]
  /\ sock' = Reply(Reply(sock, server_fd, "info"), server_fd, "disconnect")
  /\ UNCHANGED <<mode, server_fd, flags, thread, backlog, client, sent, handled, trace>>

MainJoinClient ==
  /\ Main("join", "close") /\ (mode = "pair" => \A c \in Clients : client[c] # "up")
  /\ UNCHANGED <<mode, server_fd, flags, thread, world, trace>>

\* thread_cancel and thread_join: the thread ends where it waits.
MainCancel ==
  /\ Main("cancel", "done")
  /\ IF mode = "pair" THEN UNCHANGED thread
     ELSE /\ thread.pc \in {"accept", "polling", "sem"}
          /\ thread' = [thread EXCEPT !.pc = "done"]
  /\ UNCHANGED <<mode, server_fd, flags, world, trace>>

MainStep == MainLoop \/ MainWakeup \/ MainPoll \/ MainClear \/ MainPost
              \/ MainMode \/ MainTake \/ MainGreet \/ MainRead \/ MainEnd \/ MainClose
              \/ MainMinus \/ MainStop \/ MainExit \/ MainDetach \/ MainBye \/ MainJoinClient
              \/ MainCancel

-----------------------------------------------------------------------------
(* The clients, the traced program, and the signal that ends the server.   *)

tracer == <<mode, server_fd, server_mode, command_pending, sem, thread, main>>

\* client_start: connect_to, then wait for MT_INFO.
Connect(c) ==
  /\ client[c] = "off" /\ main.pc # "done"
  /\ client' = [client EXCEPT ![c] = "wait"] /\ backlog' = Append(backlog, c)
  /\ UNCHANGED <<tracer, wakeup, sock, sent, handled, trace>>

\* client_send_msg and client_request_info, which waits for the answer.
SendCommand(c, m) ==
  /\ client[c] = "up" /\ ~sock[c].shut
  /\ Len(sent[c]) < MaxCommands /\ m # "detach"
  /\ client' = [client EXCEPT ![c] = IF m = "info" THEN "wait" ELSE @]
  /\ sock' = [sock EXCEPT ![c].unread = Append(@, m)]
  /\ sent' = [sent EXCEPT ![c] = Append(@, m)]
  /\ UNCHANGED <<tracer, wakeup, backlog, handled, trace>>

\* client_func: MT_INFO, MT_DETACH (process_detach answers it), MT_DISCONNECT.
Receive(c) ==
  LET m == Head(sock[c].inbox)
      s == [sock EXCEPT ![c].inbox = Tail(@)]
  IN /\ client[c] \in {"wait", "up"} /\ sock[c].inbox # <<>>
     /\ client' = [client EXCEPT ![c] = CASE m = "info" -> "up" [] m = "disconnect" -> "gone" [] OTHER -> @]
     /\ IF m = "detach" /\ ~sock[c].shut
        THEN /\ sock' = [s EXCEPT ![c].unread = Append(@, m)]
             /\ sent' = [sent EXCEPT ![c] = Append(@, m)]
        ELSE sock' = s /\ UNCHANGED sent
     /\ UNCHANGED <<tracer, wakeup, backlog, handled, trace>>

\* client_broken: the server closed the connection.
Broken(c) ==
  /\ client[c] \in {"wait", "up"} /\ sock[c].inbox = <<>> /\ sock[c].shut
  /\ client' = [client EXCEPT ![c] = "gone"]
  /\ UNCHANGED <<tracer, wakeup, backlog, sock, sent, handled, trace>>

\* client_close: quit, a signal, or the end of the client.
Quit(c) ==
  /\ client[c] \in {"wait", "up"} /\ mode # "pair"
  /\ client' = [client EXCEPT ![c] = "gone"]
  /\ UNCHANGED <<tracer, wakeup, backlog, sock, sent, handled, trace>>

\* mtrace_request_exit; behind the loop nobody looks at it any more.
RequestExit ==
  /\ main.back # "cancel" /\ ~do_exit /\ do_exit' = TRUE /\ wakeup' = TRUE
  /\ UNCHANGED <<tracer, world, tracing, alive>>

-----------------------------------------------------------------------------
\* server_start, or server_start_pair with client_start_pair; with -w a client
\* is accepted before anything else.
Init ==
  /\ \E m \in Modes :
       /\ mode = IF m = "pair" THEN "pair" ELSE "listen"
       /\ server_fd = IF m = "listen" THEN NULL ELSE CHOOSE c \in Clients : TRUE
  /\ client = [c \in Clients |-> IF c = server_fd THEN "up" ELSE "off"]
  /\ server_mode = "none" /\ command_pending = FALSE /\ sem = 1 /\ wakeup = FALSE
  /\ thread = [pc |-> "check", fd |-> NULL]
  /\ main = [pc |-> "loop", back |-> "clear", m |-> "none"]
  /\ backlog = <<>>
  /\ sock = [c \in Clients |-> [unread |-> <<>>, inbox |-> <<>>, shut |-> FALSE]]
  /\ sent = [c \in Clients |-> <<>>] /\ handled = sent
  /\ tracing = server_connected /\ alive = TRUE /\ do_exit = FALSE

ClientStep(c) == Receive(c) \/ Broken(c)

Next ==
  \/ ThreadStep
  \/ MainStep
  \/ \E c \in Clients : \/ ClientStep(c) \/ Quit(c)
                        \/ mode # "pair" /\ Connect(c)
                        \/ \E m \in Commands : SendCommand(c, m)
  \/ MainEvent
  \/ RequestExit

\* The threads run when they can; a client reads what it is sent.  What users,
\* the program and signals do is not assumed.
Spec ==
  /\ Init /\ [][Next]_vars
  /\ WF_vars(ThreadStep) /\ WF_vars(MainStep)
  /\ \A c \in Clients : WF_vars(ClientStep(c))

-----------------------------------------------------------------------------
(* Properties.                                                             *)

\* The types of the variables.
TypeOK ==
  /\ server_fd \in Clients \cup {NULL}
  /\ server_mode \in {"none", "command", "accepted"}
  /\ command_pending \in BOOLEAN /\ sem \in Nat /\ wakeup \in BOOLEAN
  /\ thread.pc \in {"check", "accept", "accepted", "poll", "polling", "pend", "wake", "sem", "done"}
  /\ \A c \in Clients : sent[c] \in Seq(Commands) /\ handled[c] \in Seq(Commands)
  /\ tracing \in BOOLEAN /\ alive \in BOOLEAN

\* No wakeup is lost: when the main loop sleeps in waitpid with a request
\* pending, the listen thread has yet to wake it, or the child that will end the
\* wait is there.
NoLostWakeup ==
  (main.pc = "wait" /\ command_pending) => (wakeup \/ thread.pc = "wake")

\* The main loop answers no more requests than were made: with the one the
\* semaphore starts with, the listen thread is one request ahead of the main loop
\* at most, however the unlocked accesses to command_pending fall.
Balanced == sem <= (IF thread.pc \in {"wake", "sem", "done"} THEN 2 ELSE 1)

\* A client that was greeted gets the reports: while the server talks to it, and
\* has not said goodbye, the breakpoints are enabled, whatever the end of an
\* earlier client still had to do.
TracedForClient ==
  \A c \in Clients :
    (client[c] = "up" /\ server_fd = c /\ main.back # "cancel") => tracing

\* The server keeps the promise of HandOver.
Promise == INSTANCE HandOver WITH serving <- server_fd
HandOverSpec == Promise!Spec

\* A client that connects is served: it gets the MT_INFO it waits for, unless it
\* goes away, the server ends, or there is another client that is served first.
Served ==
  \A c \in Clients :
    (client[c] = "wait") ~> \/ client[c] # "wait" \/ do_exit \/ ~alive
                            \/ \E d \in Clients \ {c} : client[d] \in {"wait", "up"}
=============================================================================
