------------------------------ MODULE HandOver ------------------------------
(***************************************************************************)
(* What the server promises its clients, whatever threads, flags and       *)
(* semaphores it uses: it serves one client at a time, takes the commands  *)
(* of that client in the order they were sent, each of them once, and does *)
(* not keep a command waiting while it serves its client.                  *)
(***************************************************************************)
EXTENDS Naturals, Sequences

CONSTANTS Clients, Commands, NULL

VARIABLES sent,      \* the commands each client sent
          handled,   \* those the server carried out
          serving    \* the client that is served, or NULL

vars == <<sent, handled, serving>>

Init ==
  /\ sent = [c \in Clients |-> <<>>]
  /\ handled = [c \in Clients |-> <<>>]
  /\ serving \in Clients \cup {NULL}

Send(c) ==
  /\ \E m \in Commands : sent' = [sent EXCEPT ![c] = Append(@, m)]
  /\ UNCHANGED <<handled, serving>>

Serve(c) == serving = NULL /\ serving' = c /\ UNCHANGED <<sent, handled>>

\* The next command of the client that is served.
Handle ==
  /\ serving # NULL
  /\ Len(handled[serving]) < Len(sent[serving])
  /\ handled' = [handled EXCEPT ![serving] = Append(@, sent[serving][Len(@) + 1])]
  /\ UNCHANGED <<sent, serving>>

\* What the client still has sent is lost.
Drop == serving # NULL /\ serving' = NULL /\ UNCHANGED <<sent, handled>>

Next == (\E c \in Clients : Send(c) \/ Serve(c)) \/ Handle \/ Drop

Waiting == serving # NULL /\ Len(handled[serving]) < Len(sent[serving])

\* What may happen; and a client with a command waiting is not kept waiting.
Safety == Init /\ [][Next]_vars
Spec == Safety /\ WF_vars(Waiting /\ (Handle \/ Drop))
=============================================================================
