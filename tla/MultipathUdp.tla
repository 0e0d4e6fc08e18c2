----------------------------- MODULE MultipathUdp -----------------------------
(***************************************************************************)
(* multipath-Udp on Windows: one datagram to one host through each network *)
(* interface.  The network may change while the program runs: each call    *)
(* finds a route, a path or an interface, or does not.                     *)
(*                                                                         *)
(* (On other systems nothing is put into the map of interfaces: the        *)
(* program ends without sending, and its send_hello is never called.)      *)
(***************************************************************************)
EXTENDS Integers, FiniteSets, Sequences

CONSTANTS
  Interfaces,  \* indices of the machine's interfaces
  Default,     \* the interface of a socket that names none
  MayFail      \* calls may fail

ASSUME MultipathAssumption ==
  /\ IsFiniteSet(Interfaces)
  /\ Default \in Interfaces
  /\ MayFail \in BOOLEAN

Family == {"ipv4", "ipv6"}

VARIABLES
  stage,      \* where main, or send_hello for if_index, is
  family,     \* --ipv4 or --ipv6
  interfaces, \* the keys of the map that are not used up
  if_index,   \* the interface at work
  via,        \* the interface that the socket sends through
  wire,       \* the interfaces that datagrams left through, in order
  printed,    \* the outcome printed for each interface, in order
  chosen,     \* history: all keys of the map
  unset       \* history: the interfaces that the system did not let be set

loopVars == <<family, interfaces, if_index, printed, chosen>>
sendVars == <<via, wire, unset>>
multipathVars == <<stage, loopVars, sendVars>>

Init ==
  /\ stage = "resolve"
  /\ family \in Family
  /\ interfaces = {}
  /\ if_index = Default
  /\ via = Default
  /\ wire = <<>>
  /\ printed = <<>>
  /\ chosen = {}
  /\ unset = {}

-----------------------------------------------------------------------------
(* main: the host and the interfaces.                                      *)

\* to_socket_addrs fails, or gives no address of the family that is asked for.
Resolve ==
  /\ stage = "resolve"
  /\ \E addrs \in SUBSET Family :
       stage' = IF family \in addrs THEN "choose" ELSE "returned"
  /\ UNCHANGED <<loopVars, sendVars>>

\* --if_index, or the interfaces of the address table, each as often as it has
\* addresses.  Without a table there is nothing to do.
Choose ==
  /\ stage = "choose"
  /\ \E I \in SUBSET Interfaces :
       /\ interfaces' = I
       /\ chosen' = I
       /\ I = {} => MayFail
  /\ stage' = "next"
  /\ UNCHANGED <<family, if_index, printed, sendVars>>

\* The order of a HashMap is any.
NextInterface ==
  /\ stage = "next"
  /\ \E i \in interfaces :
       /\ if_index' = i
       /\ interfaces' = interfaces \ {i}
  /\ stage' = "route"
  /\ UNCHANGED <<family, printed, chosen, sendVars>>

Return ==
  /\ stage = "next"
  /\ interfaces = {}
  /\ stage' = "returned"
  /\ UNCHANGED <<loopVars, sendVars>>

-----------------------------------------------------------------------------
(* send_hello, and the outcome that main prints.                           *)

Report(outcome) ==
  printed' = Append(printed, [via |-> if_index, outcome |-> outcome])

\* Mutant: main hands the first error to its caller.
FailAndReturn ==
  /\ MayFail
  /\ Report("Failed")
  /\ stage' = "returned"
  /\ UNCHANGED <<family, interfaces, if_index, chosen, sendVars>>

\* send_hello returns an error: main goes on with the next interface.
Fail ==
  /\ MayFail
  /\ Report("Failed")
  /\ stage' = "next"
  /\ UNCHANGED <<family, interfaces, if_index, chosen, sendVars>>

Continue(next) ==
  /\ stage' = next
  /\ UNCHANGED <<loopVars, sendVars>>

BestRoute ==
  /\ stage = "route"
  /\ Continue("path") \/ Fail

PathEntry ==
  /\ stage = "path"
  /\ Continue("bind") \/ Fail

\* A fresh socket names no interface.
BindSocket ==
  /\ stage = "bind"
  /\ \/ /\ stage' = "option"
        /\ via' = Default
        /\ UNCHANGED <<loopVars, wire, unset>>
     \/ Fail

\* IP_UNICAST_IF takes the index in network byte order, IPV6_UNICAST_IF in that
\* of the host.
ByteOrderOf(f) == IF f = "ipv4" THEN "network" ELSE "host"

HostOrder(f) == "host"        \* mutant: to_be is left out
OptionOrder(f) == IF f = "ipv4" THEN "network" ELSE "host"

\* The result of setsockopt is not looked at.
SetOption ==
  /\ stage = "option"
  /\ stage' = "send"
  /\ \/ /\ via' = IF OptionOrder(family) = ByteOrderOf(family)
                  THEN if_index ELSE via
        /\ UNCHANGED unset
     \/ /\ MayFail
        /\ unset' = unset \cup {if_index}
        /\ UNCHANGED via
  /\ UNCHANGED <<loopVars, wire>>

\* Mutant: an error of send_to is lost, as in the send_hello of other systems.
SendToLosesError ==
  /\ stage = "send"
  /\ \/ wire' = Append(wire, via)
     \/ UNCHANGED wire
  /\ Report("Send")
  /\ stage' = "next"
  /\ UNCHANGED <<family, interfaces, if_index, chosen, via, unset>>

SendTo ==
  /\ stage = "send"
  /\ \/ /\ wire' = Append(wire, via)
        /\ Report("Send")
        /\ stage' = "next"
        /\ UNCHANGED <<family, interfaces, if_index, chosen, via, unset>>
     \/ Fail

SendHello == BestRoute \/ PathEntry \/ BindSocket \/ SetOption \/ SendTo

Next == Resolve \/ Choose \/ NextInterface \/ SendHello \/ Return

Spec == Init /\ [][Next]_multipathVars

-----------------------------------------------------------------------------
(* Properties.                                                             *)

\* The outcomes that say "Send", and the datagrams that left through i.
Sends == {n \in DOMAIN printed : printed[n].outcome = "Send"}
LeftThrough(i) == {n \in DOMAIN wire : wire[n] = i}

\* At the end one outcome has been printed for each interface that was chosen,
\* whatever failed for the ones before it (lines 95-107).
EachReportedOnce ==
  stage = "returned" =>
    /\ Len(printed) = Cardinality(chosen)
    /\ {printed[n].via : n \in DOMAIN printed} = chosen

\* As many datagrams left as "Send" was printed, through whatever interface: no
\* failure is printed for a datagram that left (lines 176-230, 269).
SentAsOftenAsPrinted == Len(wire) = Cardinality(Sends)

\* "Send .. via IF i" means that one datagram left through i, and no other did,
\* as long as setsockopt succeeds for all (lines 98, 243-267).
LeftAsPrinted ==
  unset = {} =>
    \A i \in Interfaces :
      Cardinality(LeftThrough(i)) =
        IF \E n \in Sends : printed[n].via = i THEN 1 ELSE 0
=============================================================================
