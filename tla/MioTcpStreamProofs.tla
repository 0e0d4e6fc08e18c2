------------------------- MODULE MioTcpStreamProofs -------------------------
(***************************************************************************)
(* Proofs about mio-TcpStream, for any clients, inboxes and batches of     *)
(* events, with peers that reset and an accept that may fail.              *)
(***************************************************************************)
EXTENDS MioTcpStream, SequenceTheorems, TLAPS

\* No element twice.
Distinct(s) == \A i, j \in DOMAIN s : s[i] = s[j] => i = j

\* There is an event at hand exactly while the events are gone through; the
\* kernel has a source in its list only once.
Events ==
  /\ server = "dispatch" <=> events # <<>>
  /\ Distinct(ready)
  /\ Distinct(events)

\* A connection waits once to be accepted, and is not held meanwhile.
Backlog ==
  /\ Distinct(backlog)
  /\ \A c \in Elements(backlog) : TokensOf(c) = {}

\* The types of what the server and the kernel have, and of what the sender has.
ServerType ==
  /\ server \in {"start", "bound", "poll", "dispatch", "dead"}
  /\ backlog \in Seq(Conns)
  /\ ready \in Seq(Nat)
  /\ events \in Seq(Nat)
  /\ unique_token \in Nat \ {SERVER}
  /\ DOMAIN connections \subseteq 1..(unique_token - 1)
  /\ \A t \in DOMAIN connections : connections[t] \in Conns
  /\ link \in [Conns -> {"none", "open", "refused", "gone"}]
  /\ inbox \in [Conns -> 0..InboxCap]
  /\ fin \in SUBSET Clients
  /\ rst \in SUBSET Clients

SenderType ==
  /\ sender \in {"start", "poll", "send", "returned"}
  /\ writable \in BOOLEAN
  /\ nospace \in BOOLEAN

ServerInv ==
  ServerType /\ Events /\ Backlog /\ NoLostEdge /\ TokensNameConnections

-----------------------------------------------------------------------------
(* Lists without repetition.                                               *)

LEMMA ElementsOf ==
  ASSUME NEW S, NEW s \in Seq(S)
  PROVE  /\ Len(s) \in Nat /\ DOMAIN s = 1..Len(s)
         /\ Elements(s) \subseteq S
         /\ s = <<>> <=> Elements(s) = {}
<1>1. Len(s) \in Nat /\ DOMAIN s = 1..Len(s) /\ s \in [1..Len(s) -> S]
  BY LenProperties
<1>2. s = <<>> <=> Len(s) = 0
  BY EmptySeq, <1>1
<1>3. Len(s) # 0 => 1 \in DOMAIN s
  BY <1>1
<1>4. Len(s) = 0 => DOMAIN s = {}
  BY <1>1
<1> QED BY <1>1, <1>2, <1>3, <1>4 DEF Elements

LEMMA AppendElements ==
  ASSUME NEW S, NEW s \in Seq(S), NEW x \in S
  PROVE  /\ Append(s, x) \in Seq(S)
         /\ Elements(Append(s, x)) = Elements(s) \cup {x}
         /\ Distinct(s) /\ x \notin Elements(s) => Distinct(Append(s, x))
<1> DEFINE a == Append(s, x)
           last == Len(s) + 1
<1>1. /\ a \in Seq(S)
      /\ DOMAIN a = 1..last /\ DOMAIN s = 1..Len(s) /\ Len(s) \in Nat
      /\ a[last] = x
      /\ \A i \in DOMAIN s : a[i] = s[i]
  OBVIOUS
<1>2. DOMAIN a = DOMAIN s \cup {last}
  BY <1>1
<1> HIDE DEF a, last
<1>3. Elements(a) = Elements(s) \cup {x}
  BY <1>1, <1>2 DEF Elements
<1>4. ASSUME Distinct(s), x \notin Elements(s) PROVE Distinct(a)
  <2> SUFFICES ASSUME NEW i \in DOMAIN a, NEW j \in DOMAIN a, a[i] = a[j]
               PROVE  i = j
    BY DEF Distinct
  <2>1. \A k \in DOMAIN s : s[k] # x
    BY <1>4 DEF Elements
  <2>2. CASE i \in DOMAIN s /\ j \in DOMAIN s
    BY <1>1, <1>4, <2>2 DEF Distinct
  <2>3. CASE i = last \/ j = last
    BY <1>1, <1>2, <2>1, <2>3
  <2> QED BY <1>2, <2>2, <2>3
<1> QED BY <1>1, <1>3, <1>4 DEF a

\* The first element comes out, and the others stay.
LEMMA TailElements ==
  ASSUME NEW S, NEW s \in Seq(S), s # <<>>
  PROVE  /\ Head(s) \in S /\ Head(s) \in Elements(s)
         /\ Tail(s) \in Seq(S)
         /\ Elements(s) = Elements(Tail(s)) \cup {Head(s)}
         /\ Distinct(s) => Distinct(Tail(s)) /\ Head(s) \notin Elements(Tail(s))
         /\ Len(s) \in Nat
         /\ Len(s) = 1 <=> Tail(s) = <<>>
<1> DEFINE u == Tail(s)
<1>1. /\ Head(s) = s[1] /\ Head(s) \in S
      /\ u \in Seq(S)
      /\ Len(u) = Len(s) - 1 /\ Len(s) \in Nat /\ Len(s) > 0
      /\ \A i \in 1..Len(u) : u[i] = s[i + 1]
      /\ DOMAIN s = 1..Len(s) /\ DOMAIN u = 1..Len(u)
      /\ u = <<>> <=> Len(u) = 0
  <2>1. /\ Head(s) \in S /\ u \in Seq(S) /\ Len(u) = Len(s) - 1
        /\ \A i \in 1..Len(u) : u[i] = s[i + 1]
    BY HeadTailProperties
  <2>2. /\ Len(s) \in Nat /\ Len(s) > 0
        /\ DOMAIN s = 1..Len(s) /\ DOMAIN u = 1..Len(u)
        /\ u = <<>> <=> Len(u) = 0
    BY <2>1, EmptySeq, LenProperties
  <2> QED BY <2>1, <2>2
<1> HIDE DEF u
<1>2. /\ 1 \in DOMAIN s
      /\ \A i \in DOMAIN u : i + 1 \in DOMAIN s /\ i + 1 # 1 /\ u[i] = s[i + 1]
      /\ \A i \in DOMAIN s : i = 1 \/ (i - 1 \in DOMAIN u /\ u[i - 1] = s[i])
  BY <1>1
<1>3. Elements(s) = Elements(u) \cup {Head(s)}
  <2>1. \A x \in Elements(s) : x \in Elements(u) \/ x = Head(s)
    BY <1>1, <1>2 DEF Elements
  <2>2. \A x \in Elements(u) : x \in Elements(s)
    BY <1>2 DEF Elements
  <2>3. Head(s) \in Elements(s)
    BY <1>1, <1>2 DEF Elements
  <2> QED BY <2>1, <2>2, <2>3
<1>4. ASSUME Distinct(s) PROVE Distinct(u) /\ Head(s) \notin Elements(u)
  <2>1. ASSUME NEW i \in DOMAIN u, NEW j \in DOMAIN u, u[i] = u[j]
        PROVE  i = j
    <3>1. i + 1 = j + 1
      BY <1>2, <1>4, <2>1 DEF Distinct
    <3> QED BY <3>1, <1>1
  <2>2. \A i \in DOMAIN u : u[i] # s[1]
    BY <1>2, <1>4 DEF Distinct
  <2> QED BY <1>1, <2>1, <2>2 DEF Distinct, Elements
<1>5. Len(s) = 1 <=> u = <<>>
  BY <1>1
<1> QED BY <1>1, <1>3, <1>4, <1>5 DEF u

\* The first n elements of a list, and the elements after them.
LEMMA Prefix ==
  ASSUME NEW S, NEW s \in Seq(S), NEW n \in 0..Len(s)
  PROVE  LET a == SubSeq(s, 1, n)
         IN  /\ a \in Seq(S) /\ Len(a) = n /\ DOMAIN a = 1..n
             /\ \A i \in 1..n : a[i] = s[i]
<1> DEFINE a == SubSeq(s, 1, n)
<1>1. Len(s) \in Nat /\ n \in Nat /\ n <= Len(s)
  BY ElementsOf
<1>2. \A i \in 1..n : s[i] \in S
  BY <1>1, ElementOfSeq
<1>3. /\ a \in Seq(S)
      /\ Len(a) = IF 1 <= n THEN n - 1 + 1 ELSE 0
      /\ \A i \in 1..n - 1 + 1 : a[i] = s[1 + i - 1]
  BY <1>1, <1>2, SubSeqProperties
<1> HIDE DEF a
<1>4. Len(a) = n
  BY <1>1, <1>3
<1>5. \A i \in 1..n : a[i] = s[i]
  BY <1>1, <1>3
<1>6. DOMAIN a = 1..n
  BY <1>3, <1>4, LenProperties
<1> QED BY <1>3, <1>4, <1>5, <1>6 DEF a

LEMMA Suffix ==
  ASSUME NEW S, NEW s \in Seq(S), NEW n \in 0..Len(s)
  PROVE  LET b == SubSeq(s, n + 1, Len(s))
         IN  /\ b \in Seq(S) /\ Len(b) = Len(s) - n
             /\ DOMAIN b = 1..Len(s) - n
             /\ \A i \in 1..Len(s) - n : b[i] = s[n + i]
<1> DEFINE b == SubSeq(s, n + 1, Len(s))
<1>1. Len(s) \in Nat /\ n \in Nat /\ n <= Len(s)
  BY ElementsOf
<1>2. \A i \in n + 1..Len(s) : s[i] \in S
  BY <1>1, ElementOfSeq
<1>3. /\ b \in Seq(S)
      /\ Len(b) = IF n + 1 <= Len(s) THEN Len(s) - (n + 1) + 1 ELSE 0
      /\ \A i \in 1..Len(s) - (n + 1) + 1 : b[i] = s[n + 1 + i - 1]
  <2>1. n + 1 \in Int /\ Len(s) \in Int
    BY <1>1
  <2> QED BY <1>2, <2>1, SubSeqProperties
<1> HIDE DEF b
<1>4. Len(b) = Len(s) - n
  <2>1. CASE n + 1 <= Len(s)
    <3>1. Len(b) = Len(s) - (n + 1) + 1
      BY <1>3, <2>1
    <3> QED BY <1>1, <3>1
  <2>2. CASE ~(n + 1 <= Len(s))
    <3>1. Len(b) = 0
      BY <1>3, <2>2
    <3> QED BY <1>1, <2>2, <3>1
  <2> QED BY <2>1, <2>2
<1>5. ASSUME NEW i \in 1..Len(s) - n PROVE b[i] = s[n + i]
  <2>1. i \in 1..Len(s) - (n + 1) + 1 /\ n + 1 + i - 1 = n + i
    BY <1>1
  <2> QED BY <1>3, <2>1
<1>6. DOMAIN b = 1..Len(s) - n
  BY <1>3, <1>4, LenProperties
<1> QED BY <1>3, <1>4, <1>5, <1>6 DEF b

\* A list is cut after n elements.
LEMMA CutElements ==
  ASSUME NEW S, NEW s \in Seq(S), NEW n \in 0..Len(s)
  PROVE  LET a == SubSeq(s, 1, n)
             b == SubSeq(s, n + 1, Len(s))
         IN  /\ a \in Seq(S) /\ b \in Seq(S)
             /\ Elements(s) = Elements(a) \cup Elements(b)
             /\ Distinct(s) => Distinct(a) /\ Distinct(b)
             /\ n > 0 => a # <<>>
<1> DEFINE a == SubSeq(s, 1, n)
           b == SubSeq(s, n + 1, Len(s))
<1>1. Len(s) \in Nat /\ DOMAIN s = 1..Len(s) /\ n \in Nat
  BY ElementsOf
<1>2. a \in Seq(S) /\ DOMAIN a = 1..n /\ \A i \in 1..n : a[i] = s[i]
  BY Prefix
<1>3. /\ b \in Seq(S) /\ DOMAIN b = 1..Len(s) - n
      /\ \A i \in 1..Len(s) - n : b[i] = s[n + i]
  BY Suffix
<1> HIDE DEF a, b
<1>5. \A i \in DOMAIN a : i \in DOMAIN s /\ a[i] = s[i]
  BY <1>1, <1>2
<1>6. \A i \in DOMAIN b : n + i \in DOMAIN s /\ b[i] = s[n + i]
  BY <1>1, <1>3
<1>7. \A i \in DOMAIN s : \/ i \in DOMAIN a /\ a[i] = s[i]
                          \/ i - n \in DOMAIN b /\ b[i - n] = s[i]
  <2> SUFFICES ASSUME NEW i \in DOMAIN s
               PROVE  \/ i \in DOMAIN a /\ a[i] = s[i]
                      \/ i - n \in DOMAIN b /\ b[i - n] = s[i]
    OBVIOUS
  <2>1. CASE i <= n
    BY <1>1, <1>2, <2>1
  <2>2. CASE i > n
    <3>1. i - n \in DOMAIN b /\ n + (i - n) = i
      BY <1>1, <1>3, <2>2
    <3> QED BY <1>6, <3>1
  <2> QED BY <1>1, <2>1, <2>2
<1>8. Elements(s) = Elements(a) \cup Elements(b)
  BY <1>5, <1>6, <1>7 DEF Elements
<1>9. ASSUME Distinct(s) PROVE Distinct(a) /\ Distinct(b)
  <2>1. Distinct(a)
    BY <1>5, <1>9 DEF Distinct
  <2>2. ASSUME NEW i \in DOMAIN b, NEW j \in DOMAIN b, b[i] = b[j]
        PROVE  i = j
    <3>1. n + i = n + j
      BY <1>6, <1>9, <2>2 DEF Distinct
    <3> QED BY <3>1, <1>1, <1>3
  <2> QED BY <2>1, <2>2 DEF Distinct
<1>10. n > 0 => a # <<>>
  <2>1. n > 0 => 1 \in DOMAIN a
    BY <1>1, <1>2
  <2>2. a = <<>> => DOMAIN a = {}
    OBVIOUS
  <2> QED BY <2>1, <2>2
<1> QED BY <1>2, <1>3, <1>8, <1>9, <1>10 DEF a, b

LEMMA WithoutElements ==
  ASSUME NEW S, NEW s \in Seq(S), NEW t, Distinct(s)
  PROVE  /\ Without(s, t) \in Seq(S)
         /\ Elements(Without(s, t)) = Elements(s) \ {t}
         /\ Distinct(Without(s, t))
<1>1. CASE t \notin Elements(s)
  BY <1>1 DEF Without
<1>2. CASE t \in Elements(s)
  <2> DEFINE k == CHOOSE i \in DOMAIN s : s[i] = t
             a == SubSeq(s, 1, k - 1)
             b == SubSeq(s, k + 1, Len(s))
             w == a \o b
  <2>1. k \in DOMAIN s /\ s[k] = t
    BY <1>2 DEF Elements
  <2> HIDE DEF k
  <2>2. /\ Len(s) \in Nat /\ DOMAIN s = 1..Len(s) /\ k \in 1..Len(s)
        /\ \A i \in 1..Len(s) : s[i] \in S
    BY <2>1, ElementsOf, ElementOfSeq
  <2>3. /\ a \in Seq(S) /\ Len(a) = k - 1
        /\ \A i \in 1..k - 1 : a[i] = s[i]
    BY <2>2, Prefix
  <2>4. /\ b \in Seq(S) /\ Len(b) = Len(s) - k
        /\ \A i \in 1..Len(s) - k : b[i] = s[k + i]
    <3>1. k \in 0..Len(s)
      BY <2>2
    <3> QED BY <3>1, Suffix, Zenon
  <2> HIDE DEF a, b
  <2>5. /\ w \in Seq(S)
        /\ Len(w) = Len(a) + Len(b)
        /\ \A i \in 1..Len(a) + Len(b) :
             w[i] = IF i <= Len(a) THEN a[i] ELSE b[i - Len(a)]
        /\ DOMAIN w = 1..Len(w)
    BY <2>3, <2>4, ConcatProperties, LenProperties
  <2> HIDE DEF w
  <2>6. /\ DOMAIN w = 1..Len(s) - 1
        /\ \A i \in DOMAIN w : w[i] = IF i < k THEN s[i] ELSE s[i + 1]
    <3>1. Len(w) = Len(s) - 1
      BY <2>2, <2>3, <2>4, <2>5
    <3>2. ASSUME NEW i \in 1..Len(s) - 1
          PROVE  w[i] = IF i < k THEN s[i] ELSE s[i + 1]
      <4>1. CASE i < k
        BY <2>2, <2>3, <2>4, <2>5, <4>1
      <4>2. CASE i >= k
        <5>1. /\ w[i] = b[i - (k - 1)]
              /\ i - (k - 1) \in 1..Len(s) - k
              /\ k + (i - (k - 1)) = i + 1
          BY <2>2, <2>3, <2>4, <2>5, <4>2
        <5> QED BY <2>2, <2>4, <4>2, <5>1
      <4> QED BY <2>2, <4>1, <4>2
    <3> QED BY <2>5, <3>1, <3>2
  \* Where the elements of w come from, and where those of s go.
  <2> DEFINE from(i) == IF i < k THEN i ELSE i + 1
  <2>7. \A i \in DOMAIN w :
          from(i) \in DOMAIN s /\ from(i) # k /\ w[i] = s[from(i)]
    BY <2>2, <2>6
  <2>8. \A j \in DOMAIN s : j # k => \E i \in DOMAIN w : from(i) = j
    <3> SUFFICES ASSUME NEW j \in DOMAIN s, j # k
                 PROVE  \E i \in DOMAIN w : from(i) = j
      OBVIOUS
    <3>1. CASE j < k
      <4>1. j \in DOMAIN w /\ from(j) = j
        BY <2>2, <2>6, <3>1
      <4> QED BY <4>1
    <3>2. CASE j > k
      <4>1. j - 1 \in DOMAIN w /\ from(j - 1) = j
        BY <2>2, <2>6, <3>2
      <4> QED BY <4>1
    <3> QED BY <2>2, <3>1, <3>2
  <2>9. \A i, j \in DOMAIN w : from(i) = from(j) => i = j
    BY <2>2, <2>6
  <2> HIDE DEF from
  <2>10. Elements(w) = Elements(s) \ {t}
    <3>1. ASSUME NEW x \in Elements(w) PROVE x \in Elements(s) /\ x # t
      <4>1. PICK i \in DOMAIN w : x = w[i]
        BY DEF Elements
      <4>2. from(i) \in DOMAIN s /\ from(i) # k /\ x = s[from(i)]
        BY <2>7, <4>1
      <4> QED BY <2>1, <4>2 DEF Elements, Distinct
    <3>2. ASSUME NEW x \in Elements(s), x # t PROVE x \in Elements(w)
      <4>1. PICK j \in DOMAIN s : x = s[j]
        BY DEF Elements
      <4>2. PICK i \in DOMAIN w : from(i) = j
        BY <2>1, <2>8, <3>2, <4>1
      <4>3. w[i] = x
        BY <2>7, <4>1, <4>2
      <4> QED BY <4>3 DEF Elements
    <3> QED BY <3>1, <3>2
  <2>11. Distinct(w)
    <3> SUFFICES ASSUME NEW i \in DOMAIN w, NEW j \in DOMAIN w, w[i] = w[j]
                 PROVE  i = j
      BY DEF Distinct
    <3>1. from(i) = from(j)
      BY <2>7 DEF Distinct
    <3> QED BY <2>9, <3>1
  <2>12. Without(s, t) = w
    BY <1>2 DEF Without, w, a, b, k
  <2> QED BY <2>5, <2>10, <2>11, <2>12
<1> QED BY <1>1, <1>2

-----------------------------------------------------------------------------
(* The kernel's list.                                                      *)

LEMMA EdgeFacts ==
  ASSUME ready \in Seq(Nat), Distinct(ready), NEW t \in Nat, Edge(t)
  PROVE  /\ ready' \in Seq(Nat)
         /\ Distinct(ready')
         /\ Elements(ready') = Elements(ready) \cup {t}
<1>1. CASE t \in Elements(ready)
  BY <1>1 DEF Edge
<1>2. CASE t \notin Elements(ready)
  <2>1. ready' = Append(ready, t)
    BY <1>2 DEF Edge
  <2> QED BY <1>2, <2>1, AppendElements
<1> QED BY <1>1, <1>2

\* A connection that is held has one token, and gets an edge.
LEMMA NotifyFacts ==
  ASSUME ServerInv, NEW c, Notify(c)
  PROVE  /\ ready' \in Seq(Nat)
         /\ Distinct(ready')
         /\ Elements(ready') = Elements(ready) \cup TokensOf(c)
<1>1. ready \in Seq(Nat) /\ Distinct(ready)
  BY DEF ServerInv, ServerType, Events
<1>2. CASE TokensOf(c) = {}
  BY <1>1, <1>2 DEF Notify
<1>3. CASE TokensOf(c) # {}
  <2>1. PICK t \in TokensOf(c) : Edge(t)
    BY <1>3 DEF Notify
  <2>2. TokensOf(c) = {t}
    BY <2>1 DEF TokensOf, ServerInv, TokensNameConnections
  <2>3. t \in Nat
    <3>1. t \in 1..(unique_token - 1) /\ unique_token \in Nat
      BY <2>1 DEF TokensOf, ServerInv, ServerType
    <3> QED BY <3>1
  <2> QED BY <1>1, <2>1, <2>2, <2>3, EdgeFacts
<1> QED BY <1>2, <1>3

\* Something arrives for the connection c, held or not.
LEMMA ArrivalInv ==
  ASSUME ServerInv, NEW c \in Conns, Notify(c),
         UNCHANGED <<serverVars, backlog, link>>,
         inbox' \in [Conns -> 0..InboxCap],
         fin' \in SUBSET Clients, rst' \in SUBSET Clients,
         \A d \in Conns \ {c} : Reportable(d)' => Reportable(d)
  PROVE  ServerInv'
<1>1. UNCHANGED <<server, events, unique_token, connections, backlog, link>>
  BY DEF serverVars
<1>2. /\ ready' \in Seq(Nat)
      /\ Distinct(ready')
      /\ Elements(ready') = Elements(ready) \cup TokensOf(c)
  BY NotifyFacts
<1>3. ServerType'
  BY <1>1, <1>2 DEF ServerInv, ServerType
<1>4. Events'
  BY <1>1, <1>2 DEF ServerInv, Events
<1>5. \A d : TokensOf(d)' = TokensOf(d)
  BY <1>1 DEF TokensOf
<1>6. Backlog'
  BY <1>1, <1>5 DEF ServerInv, Backlog
<1>7. Watched' = Watched \cup TokensOf(c)
  BY <1>1, <1>2 DEF Watched
<1>8. NoLostEdge'
  <2>1. backlog' # <<>> /\ server' # "bound" => SERVER \in Watched'
    BY <1>1, <1>7 DEF ServerInv, NoLostEdge
  <2>2. ASSUME NEW t \in DOMAIN connections,
               \/ inbox'[connections[t]] > 0
               \/ connections[t] \in fin' \cup rst'
        PROVE  t \in Watched'
    <3>1. CASE connections[t] = c
      BY <1>7, <3>1 DEF TokensOf
    <3>2. CASE connections[t] # c
      <4>1. connections[t] \in Conns \ {c}
        BY <3>2 DEF ServerInv, ServerType
      <4>2. Reportable(connections[t])
        BY <1>1, <2>2, <4>1 DEF Reportable
      <4> QED BY <1>7, <4>2 DEF ServerInv, NoLostEdge
    <3> QED BY <3>1, <3>2
  <2> QED BY <1>1, <2>1, <2>2 DEF NoLostEdge, Reportable
<1>9. TokensNameConnections'
  BY <1>1, <1>5, <1>7 DEF ServerInv, TokensNameConnections, TokensOf
<1> QED BY <1>3, <1>4, <1>6, <1>8, <1>9 DEF ServerInv

-----------------------------------------------------------------------------
(* The peers.                                                              *)

LEMMA ConnectInv ==
  ASSUME ServerInv, NEW c \in Conns, Connect(c), UNCHANGED serverVars
  PROVE  ServerInv'
<1>1. UNCHANGED <<server, events, unique_token, connections, inbox, fin, rst>>
  BY DEF serverVars, Connect
<1>2. \A d : TokensOf(d)' = TokensOf(d)
  BY <1>1 DEF TokensOf
<1>3. \A d : Reportable(d)' = Reportable(d)
  BY <1>1 DEF Reportable
<1>4. /\ link[c] = "none"
      /\ link \in [Conns -> {"none", "open", "refused", "gone"}]
  BY DEF Connect, ServerInv, ServerType
<1>5. CASE Listening
  <2>1. /\ link' = [link EXCEPT ![c] = "open"]
        /\ backlog' = Append(backlog, c)
        /\ NotifyListener
    BY <1>5 DEF Connect
  <2>2. SERVER \in Nat /\ ready \in Seq(Nat) /\ Distinct(ready)
    BY DEF SERVER, ServerInv, ServerType, Events
  <2>3. /\ ready' \in Seq(Nat) /\ Distinct(ready')
        /\ Elements(ready') = IF server = "bound" THEN Elements(ready)
                              ELSE Elements(ready) \cup {SERVER}
    <3>1. CASE server = "bound"
      BY <2>1, <2>2, <3>1 DEF NotifyListener
    <3>2. CASE server # "bound"
      BY <2>1, <2>2, <3>2, EdgeFacts DEF NotifyListener
    <3> QED BY <3>1, <3>2
  <2>4. c \notin Elements(backlog) /\ TokensOf(c) = {}
    BY <1>4 DEF ServerInv, TokensNameConnections
  <2>5. /\ backlog' \in Seq(Conns) /\ Distinct(backlog')
        /\ Elements(backlog') = Elements(backlog) \cup {c}
    BY <2>1, <2>4, AppendElements DEF ServerInv, ServerType, Backlog
  <2>6. /\ link' \in [Conns -> {"none", "open", "refused", "gone"}]
        /\ \A d \in Conns : link'[d] = "open" <=> link[d] = "open" \/ d = c
    BY <1>4, <2>1
  <2>7. ServerType' /\ Events'
    BY <1>1, <2>3, <2>5, <2>6 DEF ServerInv, ServerType, Events
  <2>8. Backlog'
    BY <1>2, <2>4, <2>5 DEF ServerInv, Backlog
  <2>9. Watched' = IF server = "bound" THEN Watched ELSE Watched \cup {SERVER}
    BY <1>1, <2>3 DEF Watched
  <2>10. NoLostEdge'
    BY <1>1, <1>3, <2>9 DEF ServerInv, NoLostEdge, Reportable
  <2>11. TokensNameConnections'
    BY <1>1, <1>2, <2>4, <2>5, <2>6, <2>9 DEF ServerInv, TokensNameConnections
  <2> QED BY <2>7, <2>8, <2>10, <2>11 DEF ServerInv
<1>6. CASE ~Listening
  <2>1. /\ link' = [link EXCEPT ![c] = "refused"]
        /\ UNCHANGED <<backlog, ready>>
    BY <1>6 DEF Connect
  <2>2. /\ link' \in [Conns -> {"none", "open", "refused", "gone"}]
        /\ \A d \in Conns : link'[d] = "open" <=> link[d] = "open"
    BY <1>4, <2>1
  <2>3. ServerType' /\ Events' /\ Backlog'
    BY <1>1, <1>2, <2>1, <2>2 DEF ServerInv, ServerType, Events, Backlog
  <2>4. Watched' = Watched
    BY <1>1, <2>1 DEF Watched
  <2>5. NoLostEdge'
    BY <1>1, <2>1, <2>4 DEF ServerInv, NoLostEdge, Reportable
  <2>6. TokensNameConnections'
    BY <1>1, <1>2, <2>1, <2>2, <2>4 DEF ServerInv, TokensNameConnections
  <2> QED BY <2>3, <2>5, <2>6 DEF ServerInv
<1> QED BY <1>5, <1>6

LEMMA DeliverInv ==
  ASSUME ServerInv, NEW c \in Conns, Deliver(c), UNCHANGED serverVars
  PROVE  ServerInv'
<1>1. /\ inbox' = [inbox EXCEPT ![c] = inbox[c] + 1] /\ inbox[c] < InboxCap
      /\ Notify(c)
      /\ UNCHANGED <<backlog, link, fin, rst>>
  BY DEF Deliver
<1>2. inbox \in [Conns -> 0..InboxCap] /\ InboxCap \in Nat
  BY MioAssumption DEF ServerInv, ServerType
<1>3. /\ inbox' \in [Conns -> 0..InboxCap]
      /\ \A d \in Conns \ {c} : inbox'[d] = inbox[d]
  BY <1>1, <1>2
<1>4. fin' \in SUBSET Clients /\ rst' \in SUBSET Clients
  BY <1>1 DEF ServerInv, ServerType
<1>5. \A d \in Conns \ {c} : Reportable(d)' => Reportable(d)
  BY <1>1, <1>3 DEF Reportable
<1> QED BY <1>1, <1>3, <1>4, <1>5, ArrivalInv

LEMMA ClientInv ==
  ASSUME ServerInv, NEW c \in Clients, ClientStep(c)
  PROVE  ServerInv'
<1>0. c \in Conns
  BY DEF Conns
<1>1. CASE ClientConnect(c)
  BY <1>0, <1>1, ConnectInv DEF ClientConnect
<1>2. CASE ClientSend(c)
  BY <1>0, <1>2, DeliverInv DEF ClientSend
<1>3. CASE ClientClose(c)
  <2>1. /\ fin' = fin \cup {c} /\ Notify(c)
        /\ UNCHANGED <<backlog, link, inbox, rst, serverVars>>
    BY <1>3 DEF ClientClose
  <2>2. /\ inbox' \in [Conns -> 0..InboxCap]
        /\ fin' \in SUBSET Clients /\ rst' \in SUBSET Clients
    BY <2>1 DEF ServerInv, ServerType
  <2>3. \A d \in Conns \ {c} : Reportable(d)' => Reportable(d)
    BY <2>1 DEF Reportable
  <2>4. UNCHANGED <<serverVars, backlog, link>>
    BY <2>1
  <2> QED BY <1>0, <2>1, <2>2, <2>3, <2>4, ArrivalInv
<1>4. CASE ClientReset(c)
  <2>1. /\ rst' = rst \cup {c} /\ inbox' = [inbox EXCEPT ![c] = 0] /\ Notify(c)
        /\ UNCHANGED <<backlog, link, fin, serverVars>>
    BY <1>4 DEF ClientReset
  <2>2. inbox \in [Conns -> 0..InboxCap] /\ InboxCap \in Nat
    BY MioAssumption DEF ServerInv, ServerType
  <2>3. /\ inbox' \in [Conns -> 0..InboxCap]
        /\ \A d \in Conns \ {c} : inbox'[d] = inbox[d]
    BY <1>0, <2>1, <2>2
  <2>4. fin' \in SUBSET Clients /\ rst' \in SUBSET Clients
    BY <2>1 DEF ServerInv, ServerType
  <2>5. \A d \in Conns \ {c} : Reportable(d)' => Reportable(d)
    BY <2>1, <2>3 DEF Reportable
  <2>6. UNCHANGED <<serverVars, backlog, link>>
    BY <2>1
  <2> QED BY <1>0, <2>1, <2>3, <2>4, <2>5, <2>6, ArrivalInv
<1> QED BY <1>1, <1>2, <1>3, <1>4 DEF ClientStep

-----------------------------------------------------------------------------
(* The server thread.                                                      *)

LEMMA InitServer == Init => ServerInv
<1> SUFFICES ASSUME Init PROVE ServerInv
  OBVIOUS
<1>1. DOMAIN connections = {}
  BY DEF Init
<1>2. Elements(<<>>) = {} /\ Distinct(<<>>)
  BY DEF Elements, Distinct
<1>3. Sender \in Conns
  BY DEF Conns
<1>4. ServerType
  BY <1>1, MioAssumption DEF Init, ServerType, SERVER
<1>5. Events /\ Backlog
  BY <1>2 DEF Init, Events, Backlog
<1>6. \A c : TokensOf(c) = {}
  BY <1>1 DEF TokensOf
<1>7. NoLostEdge /\ TokensNameConnections
  BY <1>1, <1>2, <1>6 DEF Init, NoLostEdge, TokensNameConnections, Watched
<1> QED BY <1>4, <1>5, <1>7 DEF ServerInv

LEMMA ServerUnchanged ==
  ASSUME ServerInv, UNCHANGED <<serverVars, kernelVars>>
  PROVE  ServerInv'
<1>1. UNCHANGED <<server, events, unique_token, connections, backlog, ready,
                  link, inbox, fin, rst>>
  BY DEF serverVars, kernelVars
<1>2. Watched' = Watched /\ \A c : TokensOf(c)' = TokensOf(c)
  BY <1>1 DEF Watched, TokensOf
<1> QED
  BY <1>1, <1>2 DEF ServerInv, ServerType, Events, Backlog, NoLostEdge,
    TokensNameConnections, Reportable

LEMMA BindInv ==
  ASSUME ServerInv, Bind
  PROVE  ServerInv'
<1>1. /\ server = "start" /\ server' = "bound"
      /\ UNCHANGED <<events, unique_token, connections, backlog, ready, link,
                     inbox, fin, rst>>
  BY DEF Bind, kernelVars
<1>2. Watched' = Watched /\ \A c : TokensOf(c)' = TokensOf(c)
  BY <1>1 DEF Watched, TokensOf
<1> QED
  BY <1>1, <1>2 DEF ServerInv, ServerType, Events, Backlog, NoLostEdge,
    TokensNameConnections, Reportable

LEMMA RegisterInv ==
  ASSUME ServerInv, Register
  PROVE  ServerInv'
<1>1. /\ server = "bound" /\ server' = "poll"
      /\ IF backlog # <<>> THEN Edge(SERVER) ELSE UNCHANGED ready
      /\ UNCHANGED <<events, unique_token, connections, backlog, link, inbox,
                     fin, rst>>
  BY DEF Register
<1>2. SERVER \in Nat /\ ready \in Seq(Nat) /\ Distinct(ready)
  BY DEF SERVER, ServerInv, ServerType, Events
<1>3. /\ ready' \in Seq(Nat) /\ Distinct(ready')
      /\ Elements(ready') = IF backlog # <<>> THEN Elements(ready) \cup {SERVER}
                            ELSE Elements(ready)
  <2>1. CASE backlog # <<>>
    BY <1>1, <1>2, <2>1, EdgeFacts
  <2>2. CASE backlog = <<>>
    BY <1>1, <1>2, <2>2
  <2> QED BY <2>1, <2>2
<1>4. Watched' = IF backlog # <<>> THEN Watched \cup {SERVER} ELSE Watched
  BY <1>1, <1>3 DEF Watched
<1>5. \A c : TokensOf(c)' = TokensOf(c)
  BY <1>1 DEF TokensOf
<1>6. ServerType' /\ Events' /\ Backlog'
  BY <1>1, <1>3, <1>5 DEF ServerInv, ServerType, Events, Backlog
<1>7. NoLostEdge'
  BY <1>1, <1>4 DEF ServerInv, NoLostEdge, Reportable
<1>8. TokensNameConnections'
  BY <1>1, <1>4, <1>5 DEF ServerInv, TokensNameConnections
<1> QED BY <1>6, <1>7, <1>8 DEF ServerInv

LEMMA PollInv ==
  ASSUME ServerInv, Poll
  PROVE  ServerInv'
<1>1. /\ server = "poll" /\ server' = "dispatch"
      /\ ready # <<>>
      /\ events' = SubSeq(ready, 1, Batch)
      /\ ready' = SubSeq(ready, Batch + 1, Len(ready))
      /\ UNCHANGED <<unique_token, connections, backlog, link, inbox, fin, rst>>
  BY DEF Poll
<1>2. events = <<>> /\ ready \in Seq(Nat) /\ Distinct(ready)
  BY <1>1 DEF ServerInv, Events, ServerType
<1>3. Len(ready) \in Nat /\ Len(ready) > 0
  BY <1>1, <1>2, ElementsOf, EmptySeq
<1>4. Batch \in 0..Len(ready) /\ Batch > 0
  BY <1>3, MioAssumption DEF Batch
<1>5. /\ events' \in Seq(Nat) /\ ready' \in Seq(Nat)
      /\ Elements(ready) = Elements(events') \cup Elements(ready')
      /\ Distinct(events') /\ Distinct(ready')
      /\ events' # <<>>
  BY <1>1, <1>2, <1>4, CutElements
<1>6. Watched' = Watched /\ \A c : TokensOf(c)' = TokensOf(c)
  <2>1. Elements(events) = {}
    BY <1>2 DEF Elements
  <2> QED BY <1>1, <1>5, <2>1 DEF Watched, TokensOf
<1> QED
  BY <1>1, <1>5, <1>6 DEF ServerInv, ServerType, Events, Backlog, NoLostEdge,
    TokensNameConnections, Reportable

\* An event at hand, and the loop that goes on with the next one.
LEMMA HandlingFacts ==
  ASSUME ServerInv, NEW t, Handling(t)
  PROVE  /\ events # <<>> /\ t \in Elements(events) /\ t \in Watched
         /\ NextEvent =>
              /\ events' \in Seq(Nat)
              /\ Elements(events) = Elements(events') \cup {t}
              /\ t \notin Elements(events')
              /\ Distinct(events')
              /\ server' \in {"poll", "dispatch"}
              /\ server' = "dispatch" <=> events' # <<>>
<1>1. /\ events \in Seq(Nat) /\ Distinct(events)
      /\ events # <<>> /\ Head(events) = t
  BY DEF ServerInv, ServerType, Events, Handling
<1>2. /\ t \in Elements(events)
      /\ Tail(events) \in Seq(Nat)
      /\ Elements(events) = Elements(Tail(events)) \cup {t}
      /\ t \notin Elements(Tail(events))
      /\ Distinct(Tail(events))
      /\ Len(events) = 1 <=> Tail(events) = <<>>
  BY <1>1, TailElements
<1>3. t \in Watched
  BY <1>2 DEF Watched
<1>4. ASSUME NextEvent
      PROVE  /\ events' = Tail(events)
             /\ server' \in {"poll", "dispatch"}
             /\ server' = "dispatch" <=> Tail(events) # <<>>
  BY <1>2, <1>4 DEF NextEvent
<1> QED BY <1>1, <1>2, <1>3, <1>4

\* The event is done with, and nothing is left for its token.
LEMMA DoneInv ==
  ASSUME ServerInv, NEW t, Handling(t), NextEvent,
         UNCHANGED <<unique_token, connections, kernelVars>>,
         t = SERVER => backlog = <<>>,
         t \in DOMAIN connections => ~Reportable(connections[t])
  PROVE  ServerInv'
<1>1. UNCHANGED <<unique_token, connections, backlog, ready, link, inbox, fin,
                  rst>>
  BY DEF kernelVars
<1>2. /\ events' \in Seq(Nat)
      /\ Elements(events) = Elements(events') \cup {t}
      /\ Distinct(events')
      /\ server' \in {"poll", "dispatch"}
      /\ server' = "dispatch" <=> events' # <<>>
  BY HandlingFacts
<1>3. \A c : TokensOf(c)' = TokensOf(c)
  BY <1>1 DEF TokensOf
<1>4. ServerType' /\ Events' /\ Backlog'
  BY <1>1, <1>2, <1>3 DEF ServerInv, ServerType, Events, Backlog
<1>5. Watched \subseteq Watched' \cup {t} /\ Watched' \subseteq Watched
  BY <1>1, <1>2 DEF Watched
<1>6. NoLostEdge'
  BY <1>1, <1>5 DEF ServerInv, NoLostEdge, Reportable, Handling
<1>7. TokensNameConnections'
  BY <1>1, <1>3, <1>5 DEF ServerInv, TokensNameConnections
<1> QED BY <1>4, <1>6, <1>7 DEF ServerInv

LEMMA DieInv ==
  ASSUME ServerInv, Die, UNCHANGED <<unique_token, inbox, fin, rst>>
  PROVE  ServerInv'
<1>1. /\ server' = "dead" /\ events' = <<>> /\ ready' = <<>> /\ backlog' = <<>>
      /\ DOMAIN connections' = {}
      /\ link' = [c \in Conns |-> IF link[c] = "open" THEN "gone" ELSE link[c]]
  BY DEF Die
<1>2. Elements(<<>>) = {} /\ Distinct(<<>>)
  BY DEF Elements, Distinct
<1>3. /\ link' \in [Conns -> {"none", "open", "refused", "gone"}]
      /\ \A c \in Conns : link'[c] # "open"
  BY <1>1 DEF ServerInv, ServerType
<1>4. ServerType'
  BY <1>1, <1>3 DEF ServerInv, ServerType
<1>5. Events' /\ Backlog'
  BY <1>1, <1>2 DEF Events, Backlog
<1>6. \A c : TokensOf(c)' = {}
  BY <1>1 DEF TokensOf
<1>7. NoLostEdge' /\ TokensNameConnections'
  BY <1>1, <1>2, <1>3, <1>6 DEF NoLostEdge, TokensNameConnections, Watched
<1> QED BY <1>4, <1>5, <1>7 DEF ServerInv

LEMMA AcceptInv ==
  ASSUME ServerInv, Accept
  PROVE  ServerInv'
<1>0. PICK c, token : c = Head(backlog) /\ token = unique_token
  OBVIOUS
<1>1. /\ Handling(SERVER) /\ backlog # <<>>
      /\ backlog' = Tail(backlog)
      /\ connections' = [t \in DOMAIN connections \cup {token} |->
                           IF t = token THEN c ELSE connections[t]]
      /\ unique_token' = token + 1
      /\ IF Reportable(c) THEN Edge(token) ELSE UNCHANGED ready
      /\ UNCHANGED <<server, events, link, inbox, fin, rst>>
  BY <1>0 DEF Accept, NextToken
<1>2. /\ c \in Conns /\ c \in Elements(backlog)
      /\ backlog' \in Seq(Conns)
      /\ Elements(backlog) = Elements(backlog') \cup {c}
      /\ Distinct(backlog')
      /\ c \notin Elements(backlog')
  BY <1>0, <1>1, TailElements DEF ServerInv, ServerType, Backlog
<1>3. /\ token \in Nat /\ token # SERVER
      /\ DOMAIN connections \subseteq 1..(token - 1)
      /\ token \notin DOMAIN connections
  BY <1>0 DEF ServerInv, ServerType
<1>4. /\ ready' \in Seq(Nat) /\ Distinct(ready')
      /\ Elements(ready) \subseteq Elements(ready')
      /\ Elements(ready') \subseteq Elements(ready) \cup {token}
      /\ Reportable(c) => token \in Elements(ready')
  <2>1. ready \in Seq(Nat) /\ Distinct(ready)
    BY DEF ServerInv, ServerType, Events
  <2>2. CASE Reportable(c)
    BY <1>1, <1>3, <2>1, <2>2, EdgeFacts
  <2>3. CASE ~Reportable(c)
    BY <1>1, <2>1, <2>3
  <2> QED BY <2>2, <2>3
<1>5. /\ DOMAIN connections' = DOMAIN connections \cup {token}
      /\ connections'[token] = c
      /\ \A t \in DOMAIN connections : connections'[t] = connections[t]
  BY <1>1, <1>3
<1>6. TokensOf(c) = {}
  BY <1>2 DEF ServerInv, Backlog
<1>7. /\ TokensOf(c)' = {token}
      /\ \A d : d # c => TokensOf(d)' = TokensOf(d)
  BY <1>5, <1>6 DEF TokensOf
<1>8. ServerType'
  <2>1. unique_token' \in Nat \ {SERVER}
    BY <1>1, <1>3 DEF SERVER
  <2>2. DOMAIN connections' \subseteq 1..(unique_token' - 1)
    BY <1>1, <1>3, <1>5 DEF SERVER
  <2>3. \A t \in DOMAIN connections' : connections'[t] \in Conns
    BY <1>2, <1>5 DEF ServerInv, ServerType
  <2> QED BY <1>1, <1>2, <1>4, <2>1, <2>2, <2>3 DEF ServerInv, ServerType
<1>9. Events'
  BY <1>1, <1>4 DEF ServerInv, Events
<1>10. Backlog'
  BY <1>2, <1>7 DEF ServerInv, Backlog
<1>11. /\ Watched \subseteq Watched' /\ Watched' \subseteq Watched \cup {token}
       /\ Reportable(c) => token \in Watched'
       /\ SERVER \in Watched'
  BY <1>1, <1>4, HandlingFacts DEF Watched
<1>12. NoLostEdge'
  <2>1. ASSUME NEW t \in DOMAIN connections',
               \/ inbox[connections'[t]] > 0
               \/ connections'[t] \in fin \cup rst
        PROVE  t \in Watched'
    <3>1. CASE t = token
      BY <1>5, <1>11, <2>1, <3>1 DEF Reportable
    <3>2. CASE t \in DOMAIN connections
      BY <1>5, <1>11, <2>1, <3>2 DEF Reportable, ServerInv, NoLostEdge
    <3> QED BY <1>5, <3>1, <3>2
  <2> QED BY <1>1, <1>11, <2>1 DEF NoLostEdge, Reportable
<1>13. TokensNameConnections'
  <2>1. \A t \in DOMAIN connections : connections[t] # c
    BY <1>6 DEF TokensOf
  <2>2. \A t, u \in DOMAIN connections' :
          connections'[t] = connections'[u] => t = u
    BY <1>5, <2>1 DEF ServerInv, TokensNameConnections
  <2>3. Watched' \subseteq {SERVER} \cup DOMAIN connections'
    BY <1>5, <1>11 DEF ServerInv, TokensNameConnections
  <2>4. ASSUME NEW d \in Conns
        PROVE  link'[d] = "open" <=>
                 d \in Elements(backlog') \/ TokensOf(d)' # {}
    BY <1>1, <1>2, <1>6, <1>7 DEF ServerInv, TokensNameConnections
  <2> QED BY <2>2, <2>3, <2>4 DEF TokensNameConnections
<1> QED BY <1>8, <1>9, <1>10, <1>12, <1>13 DEF ServerInv

LEMMA RecvBytesInv ==
  ASSUME ServerInv, NEW t, RecvBytes(t)
  PROVE  ServerInv'
<1> DEFINE c == connections[t]
<1>1. /\ t \in DOMAIN connections /\ c \in Conns
      /\ inbox \in [Conns -> 0..InboxCap] /\ InboxCap \in Nat
      /\ UNCHANGED <<server, events, unique_token, connections, backlog, ready,
                     link, fin, rst>>
  BY MioAssumption DEF RecvBytes, serverVars, ServerInv, ServerType
<1>2. PICK n \in 1..inbox[c] : inbox' = [inbox EXCEPT ![c] = inbox[c] - n]
  BY DEF RecvBytes
<1> HIDE DEF c
<1>3. /\ inbox' \in [Conns -> 0..InboxCap]
      /\ \A d \in Conns : inbox'[d] > 0 => inbox[d] > 0
  <2>1. inbox[c] \in 0..InboxCap /\ inbox[c] - n \in 0..InboxCap /\ inbox[c] > 0
    BY <1>1
  <2>2. \A d \in Conns : inbox'[d] = IF d = c THEN inbox[c] - n ELSE inbox[d]
    BY <1>1, <1>2
  <2> QED BY <1>1, <1>2, <2>1, <2>2
<1>4. Watched' = Watched /\ \A d : TokensOf(d)' = TokensOf(d)
  BY <1>1 DEF Watched, TokensOf
<1>5. ServerType' /\ Events' /\ Backlog' /\ TokensNameConnections'
  BY <1>1, <1>3, <1>4 DEF ServerInv, ServerType, Events, Backlog,
    TokensNameConnections
<1>6. NoLostEdge'
  <2>1. ASSUME NEW u \in DOMAIN connections,
               \/ inbox'[connections[u]] > 0
               \/ connections[u] \in fin \cup rst
        PROVE  u \in Watched
    <3>1. connections[u] \in Conns
      BY DEF ServerInv, ServerType
    <3> QED BY <1>3, <2>1, <3>1 DEF ServerInv, NoLostEdge, Reportable
  <2> QED BY <1>1, <1>4, <2>1 DEF ServerInv, NoLostEdge, Reportable
<1> QED BY <1>5, <1>6 DEF ServerInv

LEMMA RecvEndInv ==
  ASSUME ServerInv, NEW t \in Nat \ {SERVER}, RecvEnd(t)
  PROVE  ServerInv'
<1>0. PICK c : c = connections[t]
  OBVIOUS
<1>1. /\ Handling(t) /\ t \in DOMAIN connections /\ NextEvent
      /\ link' = [link EXCEPT ![c] = "gone"]
      /\ connections' = [u \in DOMAIN connections \ {t} |-> connections[u]]
      /\ ready' = Without(ready, t)
      /\ UNCHANGED <<unique_token, backlog, inbox, fin, rst>>
  BY <1>0 DEF RecvEnd
<1>2. /\ events' \in Seq(Nat)
      /\ Elements(events) = Elements(events') \cup {t}
      /\ t \notin Elements(events')
      /\ Distinct(events')
      /\ server' \in {"poll", "dispatch"}
      /\ server' = "dispatch" <=> events' # <<>>
  BY <1>1, HandlingFacts
<1>3. /\ ready' \in Seq(Nat) /\ Distinct(ready')
      /\ Elements(ready') = Elements(ready) \ {t}
  BY <1>1, WithoutElements DEF ServerInv, ServerType, Events
<1>4. Watched' = Watched \ {t}
  BY <1>2, <1>3 DEF Watched
<1>5. c \in Conns /\ t \in TokensOf(c)
  BY <1>0, <1>1 DEF ServerInv, ServerType, TokensOf
<1>6. \A u \in DOMAIN connections : connections[u] = c => u = t
  BY <1>0, <1>1 DEF ServerInv, TokensNameConnections
<1>7. /\ DOMAIN connections' = DOMAIN connections \ {t}
      /\ \A u \in DOMAIN connections' : connections'[u] = connections[u]
  BY <1>1
<1>8. /\ TokensOf(c)' = {}
      /\ \A d : d # c => TokensOf(d)' = TokensOf(d)
  BY <1>0, <1>6, <1>7 DEF TokensOf
<1>9. /\ link' \in [Conns -> {"none", "open", "refused", "gone"}]
      /\ link'[c] = "gone"
      /\ \A d \in Conns \ {c} : link'[d] = link[d]
  BY <1>1, <1>5 DEF ServerInv, ServerType
<1>10. ServerType' /\ Events'
  BY <1>1, <1>2, <1>3, <1>7, <1>9 DEF ServerInv, ServerType, Events
<1>11. Backlog'
  BY <1>1, <1>8 DEF ServerInv, Backlog
<1>12. NoLostEdge'
  <2>1. backlog' # <<>> /\ server' # "bound" => SERVER \in Watched'
    BY <1>1, <1>4 DEF ServerInv, NoLostEdge, Handling
  <2>2. ASSUME NEW u \in DOMAIN connections',
               \/ inbox[connections'[u]] > 0
               \/ connections'[u] \in fin \cup rst
        PROVE  u \in Watched'
    BY <1>4, <1>7, <2>2 DEF ServerInv, NoLostEdge, Reportable
  <2> QED BY <1>1, <2>1, <2>2 DEF NoLostEdge, Reportable
<1>13. TokensNameConnections'
  <2>1. \A u, v \in DOMAIN connections' :
          connections'[u] = connections'[v] => u = v
    BY <1>7 DEF ServerInv, TokensNameConnections
  <2>2. Watched' \subseteq {SERVER} \cup DOMAIN connections'
    BY <1>4, <1>7 DEF ServerInv, TokensNameConnections
  <2>3. ASSUME NEW d \in Conns
        PROVE  link'[d] = "open" <=>
                 d \in Elements(backlog') \/ TokensOf(d)' # {}
    <3>1. CASE d = c
      <4>1. c \notin Elements(backlog)
        BY <1>5 DEF ServerInv, Backlog
      <4> QED BY <1>1, <1>8, <1>9, <3>1, <4>1
    <3>2. CASE d # c
      BY <1>1, <1>8, <1>9, <3>2 DEF ServerInv, TokensNameConnections
    <3> QED BY <3>1, <3>2
  <2> QED BY <2>1, <2>2, <2>3 DEF TokensNameConnections
<1> QED BY <1>10, <1>11, <1>12, <1>13 DEF ServerInv

LEMMA ServerStepInv ==
  ASSUME ServerInv, ServerStep \/ AcceptFails
  PROVE  ServerInv'
<1>1. SERVER \notin DOMAIN connections
  BY DEF ServerInv, ServerType, SERVER
<1>2. CASE AcceptBlocks
  <2>1. /\ Handling(SERVER) /\ backlog = <<>> /\ NextEvent
        /\ UNCHANGED <<unique_token, connections, kernelVars>>
    BY <1>2 DEF AcceptBlocks
  <2> QED BY <1>1, <2>1, DoneInv
<1>3. CASE AcceptFails
  BY <1>3, DieInv DEF AcceptFails
<1>4. ASSUME NEW t \in 1..Cardinality(Conns), HandleConnection(t)
      PROVE  ServerInv'
  <2>1. t # SERVER /\ t \in Int
    BY DEF SERVER
  <2>2. CASE RecvBytes(t)
    BY <2>2, RecvBytesInv
  <2>3. CASE RecvBlocks(t)
    <3>1. /\ Handling(t) /\ Drained(t) /\ NextEvent
          /\ UNCHANGED <<unique_token, connections, kernelVars>>
      BY <2>3 DEF RecvBlocks
    <3> QED BY <2>1, <3>1, DoneInv DEF Drained
  <2>4. CASE RecvEnd(t)
    <3>1. t \in Nat
      BY <2>4 DEF RecvEnd, ServerInv, ServerType
    <3> QED BY <2>1, <2>4, <3>1, RecvEndInv
  <2>5. CASE RecvFails(t)
    BY <2>5, DieInv DEF RecvFails
  <2> QED BY <1>4, <2>2, <2>3, <2>4, <2>5 DEF HandleConnection
<1> QED
  BY <1>2, <1>3, <1>4, BindInv, RegisterInv, PollInv, AcceptInv
  DEF ServerStep

-----------------------------------------------------------------------------
(* The sender thread.                                                      *)

SenderInv == SenderType /\ SenderNeverStuck

\* A step of another that leaves bytes in the sender's connection if there were
\* any, or wakes the sender.
LEMMA OthersLeaveSender ==
  ASSUME SenderInv, sender' = sender,
         writable' \in BOOLEAN, nospace' \in BOOLEAN, writable => writable',
         link'[Sender] = "open" =>
           \/ writable'
           \/ /\ link[Sender] = "open"
              /\ nospace' = nospace
              /\ inbox[Sender] > 0 => inbox'[Sender] > 0
  PROVE  SenderInv'
<1>1. SenderType'
  BY DEF SenderInv, SenderType
<1>2. SenderNeverStuck'
  BY DEF SenderInv, SenderNeverStuck
<1> QED BY <1>1, <1>2 DEF SenderInv

LEMMA SenderAndClients ==
  ASSUME ServerInv, SenderInv, NEW c \in Clients, ClientStep(c)
  PROVE  SenderInv'
<1>1. c # Sender /\ Sender \in Conns /\ c \in Conns
  BY MioAssumption DEF Conns
<1>2. UNCHANGED <<sender, writable, nospace>>
  BY DEF ClientStep, ClientConnect, ClientSend, ClientClose, ClientReset,
    senderVars
<1>3. /\ inbox \in [Conns -> 0..InboxCap]
      /\ link \in [Conns -> {"none", "open", "refused", "gone"}]
  BY DEF ServerInv, ServerType
<1>4. link'[Sender] = link[Sender] /\ inbox'[Sender] = inbox[Sender]
  <2>1. CASE ClientConnect(c)
    <3>1. UNCHANGED inbox /\ \E l : link' = [link EXCEPT ![c] = l]
      BY <2>1 DEF ClientConnect, Connect
    <3> QED BY <1>1, <1>3, <3>1
  <2>2. CASE ClientSend(c)
    BY <1>1, <1>3, <2>2 DEF ClientSend, Deliver
  <2>3. CASE ClientClose(c)
    BY <2>3 DEF ClientClose
  <2>4. CASE ClientReset(c)
    BY <1>1, <1>3, <2>4 DEF ClientReset
  <2> QED BY <2>1, <2>2, <2>3, <2>4 DEF ClientStep
<1>5. writable' \in BOOLEAN /\ nospace' \in BOOLEAN
  BY <1>2 DEF SenderInv, SenderType
<1> QED BY <1>2, <1>4, <1>5, OthersLeaveSender

LEMMA SenderAndServer ==
  ASSUME ServerInv, SenderInv, ServerStep \/ AcceptFails
  PROVE  SenderInv'
<1>0. /\ Sender \in Conns
      /\ writable \in BOOLEAN /\ nospace \in BOOLEAN
      /\ inbox \in [Conns -> 0..InboxCap]
      /\ link \in [Conns -> {"none", "open", "refused", "gone"}]
  BY DEF Conns, ServerInv, ServerType, SenderInv, SenderType
<1>1. ASSUME UNCHANGED <<senderVars, link, inbox>>
      PROVE  SenderInv'
  BY <1>0, <1>1, OthersLeaveSender DEF senderVars
<1>2. ASSUME Die, UNCHANGED <<inbox, sender, nospace>>
      PROVE  SenderInv'
  <2>1. /\ link'[Sender] # "open"
        /\ writable' = (writable \/ link[Sender] = "open")
    BY <1>0, <1>2 DEF Die
  <2>2. writable' \in BOOLEAN /\ (writable => writable')
    BY <2>1
  <2> QED BY <1>0, <1>2, <2>1, <2>2, OthersLeaveSender
<1>3. CASE Bind \/ Register \/ Poll \/ Accept \/ AcceptBlocks
  BY <1>1, <1>3 DEF Bind, Register, Poll, Accept, AcceptBlocks, kernelVars
<1>4. CASE AcceptFails
  BY <1>2, <1>4 DEF AcceptFails
<1>5. ASSUME NEW t \in 1..Cardinality(Conns), HandleConnection(t)
      PROVE  SenderInv'
  <2>1. CASE RecvBytes(t)
    <3>1. PICK c, n : /\ c = connections[t]
                      /\ inbox' = [inbox EXCEPT ![c] = inbox[c] - n]
      BY <2>1 DEF RecvBytes
    <3>2. /\ c \in Conns
          /\ writable' = (writable \/ (c = Sender /\ nospace))
          /\ nospace' = (nospace /\ ~(c = Sender /\ nospace))
          /\ UNCHANGED <<link, sender>>
      BY <2>1, <3>1 DEF RecvBytes, ServerInv, ServerType
    <3>3. writable' \in BOOLEAN /\ nospace' \in BOOLEAN
      BY <3>2
    <3>4. CASE c = Sender /\ ~nospace
      <4>1. writable' = writable /\ nospace' = nospace
        BY <1>0, <3>2, <3>4
      <4> QED BY <3>2, <3>4, <4>1 DEF SenderInv, SenderType, SenderNeverStuck
    <3>5. CASE c = Sender /\ nospace
      <4>1. writable'
        BY <3>2, <3>5
      <4> QED BY <3>2, <3>3, <4>1, OthersLeaveSender
    <3>6. CASE c # Sender
      <4>1. inbox'[Sender] = inbox[Sender]
        BY <1>0, <3>1, <3>2, <3>6
      <4>2. writable' = writable /\ nospace' = nospace
        BY <1>0, <3>2, <3>6
      <4> QED BY <1>0, <3>2, <4>1, <4>2, OthersLeaveSender
    <3> QED BY <3>4, <3>5, <3>6
  <2>2. CASE RecvBlocks(t)
    BY <1>1, <2>2 DEF RecvBlocks, kernelVars
  <2>3. CASE RecvEnd(t)
    <3>1. PICK c : /\ c \in fin
                   /\ link' = [link EXCEPT ![c] = "gone"]
      BY <2>3 DEF RecvEnd
    <3>2. c # Sender
      BY <3>1, MioAssumption DEF ServerInv, ServerType
    <3>3. link'[Sender] = link[Sender]
      BY <1>0, <3>1, <3>2
    <3>4. UNCHANGED <<sender, writable, nospace, inbox>>
      BY <2>3 DEF RecvEnd, senderVars
    <3> QED BY <1>0, <3>3, <3>4, OthersLeaveSender
  <2>4. CASE RecvFails(t)
    BY <1>2, <2>4 DEF RecvFails
  <2> QED BY <1>5, <2>1, <2>2, <2>3, <2>4 DEF HandleConnection
<1> QED BY <1>3, <1>4, <1>5 DEF ServerStep

LEMMA SenderStepInv ==
  ASSUME ServerInv, SenderInv, SenderStep
  PROVE  ServerInv' /\ SenderInv'
<1>0. /\ Sender \in Conns
      /\ writable \in BOOLEAN /\ nospace \in BOOLEAN
  BY DEF Conns, SenderInv, SenderType
<1>1. CASE SenderConnect
  <2>1. ServerInv'
    BY <1>0, <1>1, ConnectInv DEF SenderConnect
  <2>2. /\ sender' \in {"poll", "returned"} /\ writable' = TRUE
        /\ nospace' = nospace
    BY <1>1 DEF SenderConnect
  <2> QED
    BY <1>0, <2>1, <2>2 DEF SenderInv, SenderType, SenderNeverStuck
<1>2. CASE SenderPoll
  <2>1. /\ sender' = "send" /\ writable' = FALSE /\ nospace' = nospace
        /\ UNCHANGED <<serverVars, kernelVars>>
    BY <1>2 DEF SenderPoll
  <2>2. SenderInv'
    BY <1>0, <2>1 DEF SenderInv, SenderType, SenderNeverStuck
  <2> QED BY <2>1, <2>2, ServerUnchanged
<1>3. CASE SenderSend
  <2>1. ServerInv'
    BY <1>0, <1>3, DeliverInv DEF SenderSend
  <2>2. sender' = "send" /\ UNCHANGED <<writable, nospace>>
    BY <1>3 DEF SenderSend, senderVars
  <2> QED
    BY <1>0, <2>1, <2>2 DEF SenderInv, SenderType, SenderNeverStuck
<1>4. CASE SenderBlocks
  <2>1. /\ sender' = "poll" /\ nospace' = TRUE /\ inbox[Sender] = InboxCap
        /\ UNCHANGED <<writable, serverVars, kernelVars>>
    BY <1>4 DEF SenderBlocks
  <2>2. inbox'[Sender] > 0
    BY <2>1, MioAssumption DEF kernelVars
  <2>3. SenderInv'
    BY <1>0, <2>1, <2>2 DEF SenderInv, SenderType, SenderNeverStuck
  <2>4. UNCHANGED <<serverVars, kernelVars>>
    BY <2>1
  <2> QED BY <2>3, <2>4, ServerUnchanged
<1> QED BY <1>1, <1>2, <1>3, <1>4 DEF SenderStep

-----------------------------------------------------------------------------
(* The theorems.                                                           *)

LEMMA InitTcp == Init => ServerInv /\ SenderInv
<1>1. Init => SenderInv
  BY DEF Init, SenderInv, SenderType, SenderNeverStuck
<1> QED BY <1>1, InitServer

LEMMA NextTcp ==
  ASSUME ServerInv, SenderInv, [Next]_vars
  PROVE  ServerInv' /\ SenderInv'
<1>1. ASSUME UNCHANGED vars
      PROVE  ServerInv' /\ SenderInv'
  <2>1. UNCHANGED <<serverVars, kernelVars, senderVars>>
    BY <1>1 DEF vars
  <2>2. ServerInv'
    BY <2>1, ServerUnchanged
  <2>3. UNCHANGED <<sender, writable, nospace, link, inbox>>
    BY <2>1 DEF kernelVars, senderVars
  <2>4. SenderInv'
    BY <2>3 DEF SenderInv, SenderType, SenderNeverStuck
  <2> QED BY <2>2, <2>4
<1>2. CASE \E c \in Clients : ClientStep(c)
  BY <1>2, ClientInv, SenderAndClients
<1>3. CASE ServerStep \/ AcceptFails
  BY <1>3, ServerStepInv, SenderAndServer
<1>4. CASE SenderStep
  BY <1>4, SenderStepInv
<1>5. CASE SenderRetries
  BY <1>1, <1>5 DEF SenderRetries
<1> QED BY <1>1, <1>2, <1>3, <1>4, <1>5 DEF Next

\* The invariant of the server thread, and the one of the sender thread.
THEOREM TcpInvariant == Spec => [](ServerInv /\ SenderInv)
BY InitTcp, NextTcp, PTL DEF Spec

\* The variables have their types.
THEOREM TcpTypeTheorem == Spec => []TypeOK
<1>1. ServerInv /\ SenderInv => TypeOK
  BY DEF ServerInv, ServerType, SenderInv, SenderType, TypeOK
<1> QED BY <1>1, TcpInvariant, PTL

\* Nothing that the kernel has for the server is without an edge.
THEOREM NoLostEdgeTheorem == Spec => []NoLostEdge
<1>1. ServerInv => NoLostEdge
  BY DEF ServerInv
<1> QED BY <1>1, TcpInvariant, PTL

\* Tokens and connections belong to each other one to one, and a connection is
\* held until its end was read.
THEOREM TokensTheorem == Spec => []TokensNameConnections
<1>1. ServerInv => TokensNameConnections
  BY DEF ServerInv
<1> QED BY <1>1, TcpInvariant, PTL

\* The sender does not sleep while there is room for what it sends.
THEOREM SenderNeverStuckTheorem == Spec => []SenderNeverStuck
<1>1. SenderInv => SenderNeverStuck
  BY DEF SenderInv
<1> QED BY <1>1, TcpInvariant, PTL
=============================================================================
