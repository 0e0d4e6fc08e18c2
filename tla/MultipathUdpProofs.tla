------------------------- MODULE MultipathUdpProofs -------------------------
(***************************************************************************)
(* Proofs about multipath-Udp, for any finite set of interfaces and        *)
(* whatever calls fail.                                                    *)
(***************************************************************************)
EXTENDS MultipathUdp, FiniteSetTheorems, TLAPS

Working == {"route", "path", "bind", "option", "send"}
Outcome == [via : Interfaces, outcome : {"Send", "Failed"}]

\* The types of what the proofs look at.
MultipathType ==
  /\ stage \in Working \cup {"resolve", "choose", "next", "returned"}
  /\ family \in Family
  /\ interfaces \in SUBSET Interfaces
  /\ if_index \in Interfaces
  /\ via \in Interfaces
  /\ wire \in Seq(Interfaces)
  /\ printed \in Seq(Outcome)

\* The interfaces whose outcome has been printed, and the one at work.
Reported == {printed[n].via : n \in DOMAIN printed}
Current == IF stage \in Working THEN {if_index} ELSE {}

\* Each interface is still to come, at work, or has been reported, once.
Divided ==
  /\ chosen = interfaces \cup Current \cup Reported
  /\ interfaces \cap Reported = {}
  /\ Current \cap (interfaces \cup Reported) = {}
  /\ IsFiniteSet(Reported)
  /\ Len(printed) = Cardinality(Reported)
  /\ stage \in {"resolve", "choose"} => printed = <<>> /\ interfaces = {}
  /\ stage = "returned" => interfaces = {}

\* As long as the option could be set: the socket at work sends through the
\* interface at work, and those that datagrams left through are those that
\* "Send" was printed for, no two of them the same.
Through ==
  unset = {} =>
    /\ stage = "send" => via = if_index
    /\ \A m, n \in DOMAIN wire : wire[m] = wire[n] => m = n
    /\ \A i \in Interfaces :
         (\E n \in DOMAIN wire : wire[n] = i) <=>
         (\E n \in Sends : printed[n].via = i)

MultipathInv == MultipathType /\ Divided /\ SentAsOftenAsPrinted /\ Through

-----------------------------------------------------------------------------
(* What is printed and what is sent.                                       *)

LEMMA ReportFacts ==
  ASSUME MultipathType, Divided, stage \in Working,
         NEW what \in {"Send", "Failed"}, Report(what)
  PROVE  /\ printed' \in Seq(Outcome)
         /\ Len(printed) \in Nat
         /\ Len(printed') = Len(printed) + 1
         /\ printed'[Len(printed')] = [via |-> if_index, outcome |-> what]
         /\ DOMAIN printed = 1..Len(printed)
         /\ DOMAIN printed' = DOMAIN printed \cup {Len(printed')}
         /\ \A n \in DOMAIN printed : printed'[n] = printed[n]
         /\ Reported' = Reported \cup {if_index}
         /\ IsFiniteSet(Reported')
         /\ Len(printed') = Cardinality(Reported')
<1> DEFINE o == [via |-> if_index, outcome |-> what]
<1>1. o \in Outcome /\ printed \in Seq(Outcome)
  BY DEF MultipathType, Outcome
<1>2. /\ printed' \in Seq(Outcome)
      /\ Len(printed) \in Nat
      /\ Len(printed') = Len(printed) + 1
      /\ printed'[Len(printed')] = o
      /\ \A n \in 1..Len(printed) : printed'[n] = printed[n]
      /\ DOMAIN printed = 1..Len(printed)
      /\ DOMAIN printed' = 1..Len(printed')
  BY <1>1 DEF Report
<1>3. DOMAIN printed' = DOMAIN printed \cup {Len(printed')}
  BY <1>2
<1>4. o.via = if_index
  OBVIOUS
<1> HIDE DEF o
<1>5. Reported' = Reported \cup {if_index}
  BY <1>2, <1>3, <1>4 DEF Reported
<1>6. if_index \notin Reported /\ IsFiniteSet(Reported)
  BY DEF Divided, Current
<1>7. /\ IsFiniteSet(Reported')
      /\ Cardinality(Reported') = Cardinality(Reported) + 1
  BY <1>5, <1>6, FS_AddElement
<1> QED BY <1>2, <1>3, <1>5, <1>7 DEF Divided, o

LEMMA SendsFinite == MultipathType => IsFiniteSet(Sends)
<1> SUFFICES ASSUME MultipathType PROVE IsFiniteSet(Sends)
  OBVIOUS
<1>1. DOMAIN printed = 1..Len(printed) /\ Len(printed) \in Nat
  BY DEF MultipathType
<1>2. IsFiniteSet(1..Len(printed))
  BY <1>1, FS_Interval
<1> QED BY <1>1, <1>2, FS_Subset DEF Sends

LEMMA SendsAfter ==
  ASSUME MultipathType, Divided, stage \in Working
  PROVE  /\ Report("Failed") => Sends' = Sends
         /\ Report("Send") =>
              /\ Sends' = Sends \cup {Len(printed')}
              /\ Len(printed') \notin Sends
              /\ Cardinality(Sends') = Cardinality(Sends) + 1
<1>1. ASSUME NEW what \in {"Send", "Failed"}, Report(what)
      PROVE  Sends' =
               IF what = "Send" THEN Sends \cup {Len(printed')} ELSE Sends
  <2>1. /\ Len(printed) \in Nat
        /\ DOMAIN printed = 1..Len(printed)
        /\ DOMAIN printed' = DOMAIN printed \cup {Len(printed')}
        /\ \A n \in DOMAIN printed : printed'[n] = printed[n]
        /\ printed'[Len(printed')].outcome = what
    <3>1. [via |-> if_index, outcome |-> what].outcome = what
      OBVIOUS
    <3> QED BY <1>1, <3>1, ReportFacts
  <2>2. CASE what = "Send"
    BY <2>1, <2>2, Zenon DEF Sends
  <2>3. CASE what = "Failed"
    BY <2>1, <2>3 DEF Sends
  <2> QED BY <1>1, <2>2, <2>3
<1>2. ASSUME Report("Send")
      PROVE  Len(printed') \notin Sends
  <2>1. Len(printed') = Len(printed) + 1 /\ Len(printed) \in Nat
    BY <1>2, ReportFacts
  <2>2. DOMAIN printed = 1..Len(printed)
    BY DEF MultipathType
  <2> QED BY <2>1, <2>2 DEF Sends
<1>3. Report("Send") => Cardinality(Sends') = Cardinality(Sends) + 1
  BY <1>1, <1>2, SendsFinite, FS_AddElement
<1> QED BY <1>1, <1>2, <1>3

-----------------------------------------------------------------------------
(* The steps.                                                              *)

LEMMA InitMultipath == Init => MultipathInv
<1> SUFFICES ASSUME Init PROVE MultipathInv
  OBVIOUS
<1>1. MultipathType
  BY MultipathAssumption DEF Init, MultipathType, Family
<1>2. Reported = {} /\ Current = {} /\ Sends = {}
  BY DEF Init, Reported, Current, Sends, Working
<1>3. Divided
  BY <1>2, FS_EmptySet DEF Init, Divided
<1>4. SentAsOftenAsPrinted
  BY <1>2, FS_EmptySet DEF Init, SentAsOftenAsPrinted
<1>5. Through
  BY <1>2 DEF Init, Through
<1> QED BY <1>1, <1>3, <1>4, <1>5 DEF MultipathInv

LEMMA FailInv ==
  ASSUME MultipathInv, stage \in Working, Fail
  PROVE  MultipathInv'
<1>1. /\ MultipathType /\ Divided /\ SentAsOftenAsPrinted /\ Through
      /\ Report("Failed") /\ stage' = "next"
      /\ UNCHANGED <<family, interfaces, if_index, chosen, via, wire, unset>>
  BY DEF MultipathInv, Fail, sendVars
<1>2. /\ printed' \in Seq(Outcome)
      /\ Len(printed) \in Nat
      /\ \A n \in DOMAIN printed : printed'[n] = printed[n]
      /\ Reported' = Reported \cup {if_index}
      /\ IsFiniteSet(Reported')
      /\ Len(printed') = Cardinality(Reported')
  BY <1>1, ReportFacts
<1>3. Sends' = Sends
  BY <1>1, SendsAfter
<1>4. MultipathType'
  BY <1>1, <1>2 DEF MultipathType
<1>5. Divided'
  <2>1. Current = {if_index} /\ Current' = {}
    BY <1>1 DEF Current, Working
  <2> QED BY <1>1, <1>2, <2>1 DEF Divided
<1>6. SentAsOftenAsPrinted'
  BY <1>1, <1>3 DEF SentAsOftenAsPrinted
<1>7. \A n \in Sends : printed'[n] = printed[n]
  BY <1>2 DEF Sends
<1>8. Through'
  BY <1>1, <1>3, <1>7 DEF Through
<1> QED BY <1>4, <1>5, <1>6, <1>8 DEF MultipathInv

LEMMA SentInv ==
  ASSUME MultipathInv, stage = "send",
         wire' = Append(wire, via), Report("Send"), stage' = "next",
         UNCHANGED <<family, interfaces, if_index, chosen, via, unset>>
  PROVE  MultipathInv'
<1>1. /\ MultipathType /\ Divided /\ SentAsOftenAsPrinted /\ Through
      /\ stage \in Working
  BY DEF MultipathInv, Working
<1>2. /\ printed' \in Seq(Outcome)
      /\ Len(printed) \in Nat
      /\ Len(printed') = Len(printed) + 1
      /\ printed'[Len(printed')] = [via |-> if_index, outcome |-> "Send"]
      /\ \A n \in DOMAIN printed : printed'[n] = printed[n]
      /\ Reported' = Reported \cup {if_index}
      /\ IsFiniteSet(Reported')
      /\ Len(printed') = Cardinality(Reported')
  BY <1>1, ReportFacts
<1>3. /\ wire \in Seq(Interfaces) /\ via \in Interfaces
      /\ wire' \in Seq(Interfaces)
      /\ Len(wire) \in Nat
      /\ Len(wire') = Len(wire) + 1
      /\ wire'[Len(wire')] = via
      /\ \A n \in DOMAIN wire : wire'[n] = wire[n]
      /\ DOMAIN wire' = DOMAIN wire \cup {Len(wire')}
      /\ Len(wire') \notin DOMAIN wire
  <2>1. wire \in Seq(Interfaces) /\ via \in Interfaces
    BY <1>1 DEF MultipathType
  <2>2. /\ DOMAIN wire = 1..Len(wire) /\ DOMAIN wire' = 1..Len(wire')
        /\ wire' \in Seq(Interfaces)
        /\ Len(wire) \in Nat
        /\ Len(wire') = Len(wire) + 1
        /\ wire'[Len(wire')] = via
        /\ \A n \in 1..Len(wire) : wire'[n] = wire[n]
    BY <2>1
  <2>3. /\ 1..Len(wire) + 1 = 1..Len(wire) \cup {Len(wire) + 1}
        /\ Len(wire) + 1 \notin 1..Len(wire)
    BY <2>2
  <2> QED BY <2>1, <2>2, <2>3
<1>4. /\ Sends' = Sends \cup {Len(printed')}
      /\ Cardinality(Sends') = Cardinality(Sends) + 1
  BY <1>1, SendsAfter
<1>5. MultipathType'
  BY <1>1, <1>2, <1>3 DEF MultipathType
<1>6. Divided'
  <2>1. Current = {if_index} /\ Current' = {}
    BY <1>1 DEF Current, Working
  <2> QED BY <1>1, <1>2, <2>1 DEF Divided
<1>7. SentAsOftenAsPrinted'
  BY <1>1, <1>3, <1>4 DEF SentAsOftenAsPrinted
<1>8. /\ \A n \in Sends :
           printed'[n] = printed[n] /\ printed[n].via \in Reported
      /\ printed'[Len(printed')].via = if_index
  <2>1. [via |-> if_index, outcome |-> "Send"].via = if_index
    OBVIOUS
  <2> QED BY <1>2, <2>1 DEF Sends, Reported
<1>9. Through'
  <2> SUFFICES ASSUME unset = {}
               PROVE  Through'
    BY DEF Through
  <2>1. /\ via = if_index /\ if_index \in Interfaces /\ if_index \notin Reported
        /\ \A m, n \in DOMAIN wire : wire[m] = wire[n] => m = n
        /\ \A i \in Interfaces :
             (\E n \in DOMAIN wire : wire[n] = i) <=>
             (\E n \in Sends : printed[n].via = i)
    BY <1>1 DEF Through, Divided, Current, MultipathType
  <2>2. \A n \in DOMAIN wire : wire[n] # via
    <3> SUFFICES ASSUME NEW n \in DOMAIN wire, wire[n] = via PROVE FALSE
      OBVIOUS
    <3>1. PICK m \in Sends : printed[m].via = if_index
      BY <2>1
    <3> QED BY <1>8, <2>1, <3>1
  <2>3. \A m, n \in DOMAIN wire' : wire'[m] = wire'[n] => m = n
    <3> SUFFICES ASSUME NEW m \in DOMAIN wire', NEW n \in DOMAIN wire',
                        wire'[m] = wire'[n]
                 PROVE  m = n
      OBVIOUS
    <3>1. CASE m \in DOMAIN wire /\ n \in DOMAIN wire
      BY <1>3, <2>1, <3>1
    <3>2. CASE m \in DOMAIN wire /\ n = Len(wire')
      <4>1. wire[m] = via
        BY <1>3, <3>2
      <4> QED BY <2>2, <3>2, <4>1
    <3>3. CASE m = Len(wire') /\ n \in DOMAIN wire
      <4>1. wire[n] = via
        BY <1>3, <3>3
      <4> QED BY <2>2, <3>3, <4>1
    <3>4. \A k \in DOMAIN wire' : k \in DOMAIN wire \/ k = Len(wire')
      BY <1>3
    <3> QED BY <3>1, <3>2, <3>3, <3>4
  <2>4. ASSUME NEW i \in Interfaces
        PROVE  (\E n \in DOMAIN wire' : wire'[n] = i) <=>
               (\E n \in Sends' : printed'[n].via = i)
    <3>1. (\E n \in DOMAIN wire' : wire'[n] = i) <=>
          (\E n \in DOMAIN wire : wire[n] = i) \/ i = via
      BY <1>3, Zenon
    <3>2. (\E n \in Sends' : printed'[n].via = i) <=>
          (\E n \in Sends : printed[n].via = i) \/ i = if_index
      BY <1>4, <1>8, Zenon
    <3> QED BY <2>1, <3>1, <3>2
  <2> QED BY <2>3, <2>4 DEF Through
<1> QED BY <1>5, <1>6, <1>7, <1>9 DEF MultipathInv

\* Steps that print and send nothing.
LEMMA QuietInv ==
  ASSUME MultipathInv, MultipathType', Divided',
         UNCHANGED <<wire, printed>>,
         unset' = {} => unset = {},
         unset' = {} /\ stage' = "send" => via' = if_index'
  PROVE  MultipathInv'
<1>1. SentAsOftenAsPrinted /\ Through
  BY DEF MultipathInv
<1>2. Sends' = Sends
  BY DEF Sends
<1>3. SentAsOftenAsPrinted' /\ Through'
  BY <1>1, <1>2 DEF SentAsOftenAsPrinted, Through
<1> QED BY <1>3 DEF MultipathInv

LEMMA NextMultipath ==
  ASSUME MultipathInv, [Next]_multipathVars
  PROVE  MultipathInv'
<1>0. MultipathType /\ Divided /\ Through
  BY DEF MultipathInv
<1>1. ASSUME UNCHANGED printed
      PROVE  Reported' = Reported
  BY <1>1 DEF Reported
<1>2. CASE Resolve
  <2>1. stage' \in {"choose", "returned"} /\ stage = "resolve"
    BY <1>2 DEF Resolve
  <2>2. UNCHANGED <<family, interfaces, if_index, printed, chosen, via, wire,
                    unset>>
    BY <1>2 DEF Resolve, loopVars, sendVars
  <2>3. MultipathType'
    BY <1>0, <2>1, <2>2 DEF MultipathType
  <2>4. Current = {} /\ Current' = {}
    BY <2>1 DEF Current, Working
  <2>5. Divided'
    BY <1>0, <1>1, <2>1, <2>2, <2>4 DEF Divided
  <2> QED BY <2>1, <2>2, <2>3, <2>5, QuietInv
<1>3. CASE Choose
  <2>1. /\ stage = "choose" /\ stage' = "next"
        /\ interfaces' \in SUBSET Interfaces /\ chosen' = interfaces'
        /\ UNCHANGED <<family, if_index, printed, via, wire, unset>>
    BY <1>3 DEF Choose, sendVars
  <2>2. MultipathType'
    BY <1>0, <2>1 DEF MultipathType
  <2>3. Current' = {} /\ Reported' = {}
    BY <1>0, <1>1, <2>1 DEF Current, Working, Divided, Reported
  <2>4. Divided'
    BY <1>0, <1>1, <2>1, <2>3 DEF Divided
  <2> QED BY <2>1, <2>2, <2>4, QuietInv
<1>4. CASE NextInterface
  <2>1. /\ stage = "next" /\ stage' = "route"
        /\ if_index' \in interfaces /\ interfaces' = interfaces \ {if_index'}
        /\ UNCHANGED <<family, printed, chosen, via, wire, unset>>
    BY <1>4 DEF NextInterface, sendVars
  <2>2. MultipathType'
    BY <1>0, <2>1 DEF MultipathType, Working
  <2>3. Current = {} /\ Current' = {if_index'}
    BY <2>1 DEF Current, Working
  <2>4. Divided'
    BY <1>0, <1>1, <2>1, <2>3 DEF Divided
  <2> QED BY <2>1, <2>2, <2>4, QuietInv
<1>5. CASE Return
  <2>1. /\ stage = "next" /\ stage' = "returned" /\ interfaces = {}
        /\ UNCHANGED <<family, interfaces, if_index, printed, chosen, via, wire,
                       unset>>
    BY <1>5 DEF Return, loopVars, sendVars
  <2>2. MultipathType'
    BY <1>0, <2>1 DEF MultipathType
  <2>3. Current = {} /\ Current' = {}
    BY <2>1 DEF Current, Working
  <2>4. Divided'
    BY <1>0, <1>1, <2>1, <2>3 DEF Divided
  <2> QED BY <2>1, <2>2, <2>4, QuietInv
\* Within send_hello, no error.
<1>6. ASSUME stage \in Working, stage' \in Working,
             UNCHANGED <<loopVars, wire>>, via' \in Interfaces,
             unset' = {} => unset = {},
             unset' = {} /\ stage' = "send" => via' = if_index
      PROVE  MultipathInv'
  <2>1. UNCHANGED <<family, interfaces, if_index, printed, chosen, wire>>
    BY <1>6 DEF loopVars
  <2>2. MultipathType'
    BY <1>0, <1>6, <2>1 DEF MultipathType
  <2>3. Current' = Current
    BY <1>6, <2>1 DEF Current
  <2>4. Divided'
    BY <1>0, <1>1, <1>6, <2>1, <2>3 DEF Divided, Working
  <2> QED BY <1>6, <2>1, <2>2, <2>4, QuietInv
<1>7. CASE BestRoute
  <2>1. stage \in Working
    BY <1>7 DEF BestRoute, Working
  <2>2. CASE Continue("path")
    BY <1>0, <1>6, <2>1, <2>2 DEF Continue, sendVars, MultipathType, Working
  <2> QED BY <1>7, <2>1, <2>2, FailInv DEF BestRoute
<1>8. CASE PathEntry
  <2>1. stage \in Working
    BY <1>8 DEF PathEntry, Working
  <2>2. CASE Continue("bind")
    BY <1>0, <1>6, <2>1, <2>2 DEF Continue, sendVars, MultipathType, Working
  <2> QED BY <1>8, <2>1, <2>2, FailInv DEF PathEntry
<1>9. CASE BindSocket
  <2>1. stage \in Working
    BY <1>9 DEF BindSocket, Working
  <2>2. CASE /\ stage' = "option"
             /\ via' = Default
             /\ UNCHANGED <<loopVars, wire, unset>>
    BY <1>6, <2>1, <2>2, MultipathAssumption DEF Working
  <2> QED BY <1>9, <2>1, <2>2, FailInv DEF BindSocket
<1>10. CASE SetOption
  <2>1. /\ stage \in Working /\ stage' = "send" /\ stage' \in Working
        /\ UNCHANGED <<loopVars, wire>>
    BY <1>10 DEF SetOption, Working
  <2>2. OptionOrder(family) = ByteOrderOf(family)
    BY DEF OptionOrder, ByteOrderOf
  <2>3. \/ via' = if_index /\ unset' = unset
        \/ via' = via /\ unset' # {}
    BY <1>10, <2>2 DEF SetOption
  <2>4. via' \in Interfaces
    BY <1>0, <2>3 DEF MultipathType
  <2> QED BY <1>6, <2>1, <2>3, <2>4
<1>11. CASE SendTo
  <2>1. stage = "send" /\ stage \in Working
    BY <1>11 DEF SendTo, Working
  <2> QED BY <1>11, <2>1, FailInv, SentInv DEF SendTo
<1>12. CASE UNCHANGED multipathVars
  <2>1. UNCHANGED <<stage, family, interfaces, if_index, printed, chosen, via,
                    wire, unset>>
    BY <1>12 DEF multipathVars, loopVars, sendVars
  <2>2. MultipathType' /\ Divided'
    BY <1>0, <1>1, <2>1 DEF MultipathType, Divided, Current
  <2> QED BY <1>0, <2>1, <2>2, QuietInv DEF Through
<1> QED
  BY <1>2, <1>3, <1>4, <1>5, <1>7, <1>8, <1>9, <1>10, <1>11, <1>12
  DEF Next, SendHello

\* main goes through the interfaces one by one and loses none.
THEOREM MultipathInvariant == Spec => []MultipathInv
BY InitMultipath, NextMultipath, PTL DEF Spec

-----------------------------------------------------------------------------
(* The theorems.                                                           *)

\* When main returns it has printed one outcome for each interface.
THEOREM EachReportedOnceTheorem == Spec => []EachReportedOnce
<1>1. ASSUME MultipathInv PROVE EachReportedOnce
  <2> SUFFICES ASSUME stage = "returned"
               PROVE  /\ Len(printed) = Cardinality(chosen)
                      /\ Reported = chosen
    BY DEF EachReportedOnce, Reported
  <2>1. Current = {} /\ interfaces = {}
    BY <1>1 DEF MultipathInv, Divided, Current, Working
  <2> QED BY <1>1, <2>1 DEF MultipathInv, Divided
<1> QED BY <1>1, MultipathInvariant, PTL

\* As many datagrams leave as "Send" is printed.
THEOREM SentAsOftenTheorem == Spec => []SentAsOftenAsPrinted
<1>1. MultipathInv => SentAsOftenAsPrinted
  BY DEF MultipathInv
<1> QED BY <1>1, MultipathInvariant, PTL

\* "Send" names the one interface that the datagram left through, as long as
\* setsockopt does not fail.
THEOREM LeftAsPrintedTheorem == Spec => []LeftAsPrinted
<1>1. ASSUME MultipathInv PROVE LeftAsPrinted
  <2> SUFFICES ASSUME unset = {}, NEW i \in Interfaces
               PROVE  Cardinality(LeftThrough(i)) =
                        IF \E n \in Sends : printed[n].via = i THEN 1 ELSE 0
    BY DEF LeftAsPrinted
  <2>1. /\ \A m, n \in DOMAIN wire : wire[m] = wire[n] => m = n
        /\ (\E n \in DOMAIN wire : wire[n] = i) <=>
           (\E n \in Sends : printed[n].via = i)
    BY <1>1 DEF MultipathInv, Through
  <2>2. CASE \E n \in DOMAIN wire : wire[n] = i
    <3>1. PICK n \in DOMAIN wire : wire[n] = i
      BY <2>2
    <3>2. LeftThrough(i) = {n}
      BY <2>1, <3>1 DEF LeftThrough
    <3> QED BY <2>1, <2>2, <3>2, FS_Singleton
  <2>3. CASE ~ \E n \in DOMAIN wire : wire[n] = i
    <3>1. LeftThrough(i) = {}
      BY <2>3 DEF LeftThrough
    <3> QED BY <2>1, <2>3, <3>1, FS_EmptySet
  <2> QED BY <2>2, <2>3
<1> QED BY <1>1, MultipathInvariant, PTL
=============================================================================
