---------------------------- MODULE MioTcpStream ----------------------------
(***************************************************************************)
(* mio-TcpStream/src/main.rs: a server thread that accepts connections and *)
(* reads them with edge-triggered readiness, and a sender thread.          *)
(*                                                                         *)
(* The kernel reports a source once per edge: it goes to the end of the    *)
(* ready list when something arrives (or when it is registered with        *)
(* something to report) and leaves the list when poll reports it.  Every   *)
(* system call is one action, and the peers act between any two of them.   *)
(* Only a registration that follows accept or connect is one action with   *)
(* it: what arrives in between is reported by it like what came before.    *)
(* Bytes are not told apart: inbox counts the unread ones of a connection. *)
(***************************************************************************)
EXTENDS Integers, Sequences, FiniteSets

CONSTANTS
  Clients,     \* connections made from outside the program
  Sender,      \* the connection of the sender thread
  InboxCap,    \* bytes the kernel holds for a connection
  EventsCap,   \* capacity of mio::Events, 128 in the code
  MayFail      \* accept() may fail with an error other than WouldBlock

ASSUME MioAssumption ==
  /\ Sender \notin Clients
  /\ IsFiniteSet(Clients)
  /\ InboxCap \in Nat \ {0}
  /\ EventsCap \in Nat \ {0}
  /\ MayFail \in BOOLEAN

VARIABLES
  server,        \* where the server thread is
  backlog,       \* connections established and not accepted
  ready,         \* tokens with an edge to report, oldest first
  events,        \* tokens of the batch still to be handled
  unique_token,  \* the next token
  connections,   \* token -> connection, for the connections held
  link,          \* per connection: how far it has come
  inbox,         \* per connection: unread bytes
  fin,           \* connections whose peer has closed its side
  rst,           \* connections whose peer has reset them
  sender,        \* where the sender thread is
  writable,      \* the sender's source has an edge to report
  nospace        \* the sender's last send found the inbox full

serverVars == <<server, events, unique_token, connections>>
kernelVars == <<backlog, ready, link, inbox, fin, rst>>
senderVars == <<sender, writable, nospace>>
vars == <<serverVars, kernelVars, senderVars>>

Conns == Clients \cup {Sender}
SERVER == 0

TypeOK ==
  /\ server \in {"start", "bound", "poll", "dispatch", "dead"}
  /\ backlog \in Seq(Conns)
  /\ ready \in Seq(Nat)
  /\ events \in Seq(Nat)
  /\ unique_token \in Nat \ {SERVER}
  /\ DOMAIN connections \subseteq 1..(unique_token - 1)
  /\ \A t \in DOMAIN connections : connections[t] \in Conns
  /\ link \in [Conns -> {"none", "open", "refused", "gone"}]
  /\ inbox \in [Conns -> 0..InboxCap]
  /\ fin \in SUBSET Clients
  /\ rst \in SUBSET Clients
  /\ sender \in {"start", "poll", "send", "returned"}
  /\ writable \in BOOLEAN
  /\ nospace \in BOOLEAN

Init ==
  /\ server = "start"
  /\ backlog = <<>>
  /\ ready = <<>>
  /\ events = <<>>
  /\ unique_token = SERVER + 1
  /\ connections = [t \in {} |-> Sender]
  /\ link = [c \in Conns |-> "none"]
  /\ inbox = [c \in Conns |-> 0]
  /\ fin = {}
  /\ rst = {}
  /\ sender = "start"
  /\ writable = FALSE
  /\ nospace = FALSE

-----------------------------------------------------------------------------
(* The kernel.                                                             *)

Elements(s) == {s[i] : i \in DOMAIN s}

\* The list without this token, which is in it at most once.
Without(s, t) ==
  IF t \in Elements(s)
  THEN LET i == CHOOSE i \in DOMAIN s : s[i] = t
       IN  SubSeq(s, 1, i - 1) \o SubSeq(s, i + 1, Len(s))
  ELSE s

\* An edge of a source that is already in the list changes nothing.
Edge(t) == ready' = IF t \in Elements(ready) THEN ready ELSE Append(ready, t)

Listening == server \notin {"start", "dead"}
TokensOf(c) == {t \in DOMAIN connections : connections[t] = c}

\* A connection to accept: an edge, once the listener is registered.
NotifyListener == IF server = "bound" THEN UNCHANGED ready ELSE Edge(SERVER)

\* Something to report for a connection: an edge, once it is registered.
Notify(c) ==
  IF TokensOf(c) = {} THEN UNCHANGED ready
                      ELSE \E t \in TokensOf(c) : Edge(t)

Reportable(c) == inbox[c] > 0 \/ c \in fin \cup rst

Connect(c) ==
  /\ link[c] = "none"
  /\ IF Listening
     THEN /\ link' = [link EXCEPT ![c] = "open"]
          /\ backlog' = Append(backlog, c)
          /\ NotifyListener
     ELSE /\ link' = [link EXCEPT ![c] = "refused"]
          /\ UNCHANGED <<backlog, ready>>
  /\ UNCHANGED <<inbox, fin, rst>>

Deliver(c) ==
  /\ link[c] = "open"
  /\ inbox[c] < InboxCap
  /\ inbox' = [inbox EXCEPT ![c] = inbox[c] + 1]
  /\ Notify(c)
  /\ UNCHANGED <<backlog, link, fin, rst>>

-----------------------------------------------------------------------------
(* Clients from outside.                                                   *)

ClientConnect(c) == Connect(c) /\ UNCHANGED <<serverVars, senderVars>>

ClientSend(c) ==
  /\ c \notin fin \cup rst
  /\ Deliver(c)
  /\ UNCHANGED <<serverVars, senderVars>>

ClientClose(c) ==
  /\ link[c] = "open"
  /\ c \notin fin \cup rst
  /\ fin' = fin \cup {c}
  /\ Notify(c)
  /\ UNCHANGED <<backlog, link, inbox, rst, serverVars, senderVars>>

\* A reset discards what has not been read.
ClientReset(c) ==
  /\ link[c] = "open"
  /\ c \notin rst
  /\ rst' = rst \cup {c}
  /\ inbox' = [inbox EXCEPT ![c] = 0]
  /\ Notify(c)
  /\ UNCHANGED <<backlog, link, fin, serverVars, senderVars>>

ClientStep(c) ==
  ClientConnect(c) \/ ClientSend(c) \/ ClientClose(c) \/ ClientReset(c)

-----------------------------------------------------------------------------
(* The server thread.                                                      *)

\* The listener listens from now on.
Bind ==
  /\ server = "start"
  /\ server' = "bound"
  /\ UNCHANGED <<events, unique_token, connections, kernelVars, senderVars>>

\* What came before the listener was registered makes an edge now.
Register ==
  /\ server = "bound"
  /\ server' = "poll"
  /\ IF backlog # <<>> THEN Edge(SERVER) ELSE UNCHANGED ready
  /\ UNCHANGED <<events, unique_token, connections, backlog, link, inbox, fin,
                 rst, senderVars>>

Batch == IF Len(ready) < EventsCap THEN Len(ready) ELSE EventsCap

Poll ==
  /\ server = "poll"
  /\ ready # <<>>
  /\ events' = SubSeq(ready, 1, Batch)
  /\ ready' = SubSeq(ready, Batch + 1, Len(ready))
  /\ server' = "dispatch"
  /\ UNCHANGED <<unique_token, connections, backlog, link, inbox, fin, rst,
                 senderVars>>

\* The loop over the events goes on with the next one, or ends.
NextEvent ==
  /\ events' = Tail(events)
  /\ server' = IF Len(events) = 1 THEN "poll" ELSE "dispatch"

Handling(t) == server = "dispatch" /\ Head(events) = t

StuckToken(t) == t          \* mutant: next() does not count
NextToken(t) == t + 1

\* accept gives a connection, which is registered under a fresh token.
Accept ==
  /\ Handling(SERVER)
  /\ backlog # <<>>
  /\ backlog' = Tail(backlog)
  /\ connections' =
       [t \in DOMAIN connections \cup {unique_token} |->
          IF t = unique_token THEN Head(backlog) ELSE connections[t]]
  /\ unique_token' = NextToken(unique_token)
  /\ IF Reportable(Head(backlog)) THEN Edge(unique_token) ELSE UNCHANGED ready
  /\ UNCHANGED <<server, events, link, inbox, fin, rst, senderVars>>

\* Mutant: one accept per event.
AcceptDoneEarly ==
  /\ Handling(SERVER)
  /\ NextEvent
  /\ UNCHANGED <<unique_token, connections, kernelVars, senderVars>>

AcceptBlocks ==
  /\ Handling(SERVER)
  /\ backlog = <<>>
  /\ NextEvent
  /\ UNCHANGED <<unique_token, connections, kernelVars, senderVars>>

\* The thread returns: its connections and its listener are dropped.
Die ==
  /\ server' = "dead"
  /\ events' = <<>>
  /\ ready' = <<>>
  /\ backlog' = <<>>
  /\ connections' = [t \in {} |-> Sender]
  /\ link' = [c \in Conns |-> IF link[c] = "open" THEN "gone" ELSE link[c]]
  /\ writable' = (writable \/ link[Sender] = "open")

AcceptFails ==
  /\ MayFail
  /\ Handling(SERVER)
  /\ Die
  /\ UNCHANGED <<unique_token, inbox, fin, rst, sender, nospace>>

\* recv gives bytes: as many as there are, or as many as the buffer holds.
\* The sender is told when it waits for space.
RecvBytes(t) ==
  /\ Handling(t)
  /\ t \in DOMAIN connections
  /\ inbox[connections[t]] > 0
  /\ \E n \in 1..inbox[connections[t]] :
       inbox' = [inbox EXCEPT ![connections[t]] = inbox[connections[t]] - n]
  /\ LET wakes == connections[t] = Sender /\ nospace IN
     /\ writable' = (writable \/ wakes)
     /\ nospace' = (nospace /\ ~wakes)
  /\ UNCHANGED <<serverVars, backlog, ready, link, fin, rst, sender>>

\* Mutant: recv is called once per event.
DrainedAtOnce(t) ==
  t \in DOMAIN connections => connections[t] \notin fin \cup rst

Drained(t) ==
  t \in DOMAIN connections => ~Reportable(connections[t])

\* recv would block, or the token is of no connection.
RecvBlocks(t) ==
  /\ Handling(t)
  /\ Drained(t)
  /\ NextEvent
  /\ UNCHANGED <<unique_token, connections, kernelVars, senderVars>>

\* recv gives 0: the connection is removed, deregistered and dropped.
RecvEnd(t) ==
  /\ Handling(t)
  /\ t \in DOMAIN connections
  /\ inbox[connections[t]] = 0
  /\ connections[t] \in fin \ rst
  /\ link' = [link EXCEPT ![connections[t]] = "gone"]
  /\ connections' = [u \in DOMAIN connections \ {t} |-> connections[u]]
  /\ ready' = Without(ready, t)
  /\ NextEvent
  /\ UNCHANGED <<unique_token, backlog, inbox, fin, rst, senderVars>>

\* recv fails: the whole thread returns.
RecvFails(t) ==
  /\ Handling(t)
  /\ t \in DOMAIN connections
  /\ connections[t] \in rst
  /\ Die
  /\ UNCHANGED <<unique_token, inbox, fin, rst, sender, nospace>>

HandleConnection(t) ==
  RecvBytes(t) \/ RecvBlocks(t) \/ RecvEnd(t) \/ RecvFails(t)

ServerStep ==
  \/ Bind \/ Register \/ Poll \/ Accept \/ AcceptBlocks
  \/ \E t \in 1..Cardinality(Conns) : HandleConnection(t)

-----------------------------------------------------------------------------
(* The sender thread.                                                      *)

\* connect, and register for writability.  A refusal is an error of connect,
\* which ends the thread, or of the first send.
SenderConnect ==
  /\ sender = "start"
  /\ Connect(Sender)
  /\ sender' \in IF Listening THEN {"poll"} ELSE {"poll", "returned"}
  /\ writable' = TRUE
  /\ UNCHANGED <<nospace, serverVars>>

SenderPoll ==
  /\ sender = "poll"
  /\ writable
  /\ writable' = FALSE
  /\ sender' = "send"
  /\ UNCHANGED <<nospace, serverVars, kernelVars>>

\* One byte stands for the five of a send; the loop sleeps and sends again.
SenderSend ==
  /\ sender = "send"
  /\ Deliver(Sender)
  /\ UNCHANGED <<senderVars, serverVars>>

\* Mutant: the loop ends after a send that was accepted.
SenderBlocksEarly ==
  /\ sender = "send"
  /\ link[Sender] = "open"
  /\ sender' = "poll"
  /\ nospace' = (inbox[Sender] = InboxCap)
  /\ UNCHANGED <<writable, serverVars, kernelVars>>

SenderBlocks ==
  /\ sender = "send"
  /\ link[Sender] = "open"
  /\ inbox[Sender] = InboxCap
  /\ sender' = "poll"
  /\ nospace' = TRUE
  /\ UNCHANGED <<writable, serverVars, kernelVars>>

\* Any other error is printed and the send is tried again, for ever.
SenderRetries ==
  /\ sender = "send"
  /\ link[Sender] \in {"refused", "gone"}
  /\ UNCHANGED vars

SenderStep ==
  SenderConnect \/ SenderPoll \/ SenderSend \/ SenderBlocks

-----------------------------------------------------------------------------
Next ==
  \/ \E c \in Clients : ClientStep(c)
  \/ ServerStep
  \/ AcceptFails
  \/ SenderStep
  \/ SenderRetries

\* The two threads run on; nobody outside has to do anything.
Fairness == WF_vars(ServerStep) /\ WF_vars(SenderStep)

Spec == Init /\ [][Next]_vars

FairSpec == Spec /\ Fairness

-----------------------------------------------------------------------------
(* Properties.                                                             *)

Watched == Elements(ready) \cup Elements(events)

\* Nothing the kernel has for a source that is registered is without an edge
\* that is still to be handled: the accept and recv loops stop at WouldBlock
\* only (lines 26-40 and 44-83), so an arrival after it makes its own edge.
NoLostEdge ==
  /\ backlog # <<>> /\ server # "bound" => SERVER \in Watched
  /\ \A t \in DOMAIN connections : Reportable(connections[t]) => t \in Watched

\* A token names one connection for the life of the server; an event is for
\* the listener or for a connection held; a connection is held from accept
\* until its end was read (lines 36-39, 41-43, 85-89 and 156-160).
TokensNameConnections ==
  /\ \A t, u \in DOMAIN connections : connections[t] = connections[u] => t = u
  /\ Watched \subseteq {SERVER} \cup DOMAIN connections
  /\ \A c \in Conns :
       link[c] = "open" <=> c \in Elements(backlog) \/ TokensOf(c) # {}

\* The sender sleeps in poll only when the inbox is full or an edge is due
\* (lines 108-143).
SenderNeverStuck ==
  sender = "poll" /\ link[Sender] = "open" =>
    writable \/ (nospace /\ inbox[Sender] > 0)

\* While the server lives and comes back to poll, what a peer did is noticed:
\* it is accepted, read to the last byte, and dropped after its end.  A peer
\* that sends without a pause may keep the server in its recv loop.
AllServed ==
  []<>(server \in {"poll", "dead"}) =>
    \A c \in Conns :
      (link[c] = "open" /\ (TokensOf(c) = {} \/ Reportable(c)))
        ~> (TokensOf(c) # {} /\ ~Reportable(c)) \/ link[c] = "gone"
=============================================================================
