--------------------------- MODULE CacheWalkProof ---------------------------
(***************************************************************************)
(* The safety of CacheWalk for any number of processes, lanes, elements,   *)
(* nodes and payloads: its types, one request per node, the exact count of *)
(* the credits, the completeness of the walk, and that the counters        *)
(* implement WalkTermination.                                              *)
(*                                                                         *)
(* The inductive invariant IInv is the type invariant and nine parts, each *)
(* about one thing: lanes, seeding, queues, requests, installs, parked     *)
(* elements, resume messages, credits, and the pairs an element still has  *)
(* to work on.  The credits are exact only because a request is sent once  *)
(* and a message is unlike every other; no pair is forgotten only because  *)
(* a queue is not empty exactly while a goDown is due.                     *)
(***************************************************************************)
EXTENDS CacheWalk, FiniteSetTheorems, SequenceTheorems, TLAPS

Asking == {"latch", "ask", "send", "park", "wake", "self"}

\* The handler of lane l is at a node it does not have.
Asks(l, k) == lane[l].pc \in Asking /\ lane[l].key = k

\* It was the first to be there.
Requesting(l, k) == lane[l].pc \in {"ask", "send"} /\ lane[l].key = k

\* Lane l works on pairs of element e.
Works(l, e) == lane[l].handler \in {"start", "goDown"} /\ lane[l].pc # "debit" /\ lane[l].elem = e

GoesDown(e) == lane[LaneOf[e]].handler = "goDown" /\ Works(LaneOf[e], e)

Queued(e, k) == \E i \in 1 .. Len(queue[e]) : queue[e][i] = k

-----------------------------------------------------------------------------
\* A handler runs on the lane of its element.
LaneInv ==
  \A l \in Lanes : lane[l].handler \in {"start", "goDown"} => LaneOf[lane[l].elem] = l

\* Nothing happens before the broadcast, which waits for every counter to be armed.
SeedInv ==
  /\ \A p \in Processes : walking => state[p] # 0
  /\ released # {} => seeded = Elements
  /\ \A l \in Lanes : lane[l].handler = "start" => lane[l].elem \notin seeded
  /\ ~ walking =>
       /\ \A l \in Lanes : lane[l] = Idle
       /\ \A p \in Processes : latch[p] = {}
       /\ \A e \in Elements : queue[e] = << >>
       /\ resumes = {} /\ seeded = {} /\ ~ finished
  /\ finished => \A p \in Processes : reports[p] > 0

\* An element has nodes in its queue exactly if a goDown is on its way to it or at
\* work; and what is in the queue is in the cache.
QueueOK(e) ==
  /\ goDowns[e] \in {0, 1}
  /\ queue[e] # << >> <=> goDowns[e] = 1 \/ GoesDown(e)
  /\ ~ (goDowns[e] = 1 /\ GoesDown(e))
  /\ \A i \in 1 .. Len(queue[e]) : queue[e][i] \in installed[Home(e)]

QueueInv == \A e \in Elements : QueueOK(e)

\* The one request of a latched node is with a lane, under way, or answered.
RequestOK(p, k) ==
  /\ requests[p][k] + replies[p][k] <= 1
  /\ requests[p][k] + replies[p][k] = 1 => ipc[p][k] = "none"
  /\ k \in latch[p] <=>
       \/ requests[p][k] + replies[p][k] = 1
       \/ ipc[p][k] # "none"
       \/ \E l \in LanesOf(p) : Requesting(l, k)
  /\ \A l \in LanesOf(p) : Requesting(l, k) =>
       /\ requests[p][k] + replies[p][k] = 0 /\ ipc[p][k] = "none"
       /\ \A m \in LanesOf(p) : Requesting(m, k) => m = l

RequestInv == \A p \in Processes, k \in Keys : RequestOK(p, k)

\* Nobody has met a node that a reply may still bring along with another, and nobody
\* asks for one that a reply brought along.
AskOK(p, l, k) ==
  /\ k \in installed[p] => k \in latch[p]
  /\ lane[l].pc # "latch" => k \in latch[p]
  /\ lane[l].pc \in {"wake", "self"} => k \in closed[p]

KeyOK(p, k) ==
  /\ ipc[p][k] # "none" => Shipped[k] \subseteq installed[p]
  /\ ipc[p][k] \in {"wake", "send", "done"} => k \in closed[p]
  /\ k \in latch[p] /\ ipc[p][k] = "none" => k \notin installed[p]
  /\ \A l \in LanesOf(p) : Asks(l, k) => AskOK(p, l, k)

\* The pairs element e still has to work on.
Pending(e) == stack[e] \cup held[e] \cup fresh[e]

\* Node k comes with the reply for j.
Unmet(p, k) == \A e \in ElementsOf(p) : \A pr \in Pending(e) : pr[1] # k

ShipOK(p, j, k) ==
  /\ j \notin installed[p] \/ ipc[p][j] # "none" =>
       k \notin latch[p] /\ \A l \in LanesOf(p) : ~ Asks(l, k)
  /\ j \notin installed[p] => k \notin installed[p] /\ Unmet(p, k)

InstallInv ==
  \A p \in Processes :
    /\ closed[p] \subseteq installed[p]
    /\ \A k \in Keys : KeyOK(p, k)
    /\ \A j \in Keys : \A k \in Shipped[j] \ {j} : ShipOK(p, j, k)

\* Elements wait only for nodes that were asked for and not drained.
ParkedOK(p, k) ==
  /\ parked[p][k] \cup toWake[p][k] \subseteq ElementsOf(p)
  /\ parked[p][k] # {} => k \in latch[p] /\ k \notin closed[p]
  /\ toWake[p][k] # {} => ipc[p][k] \in {"wake", "send"}
  /\ ipc[p][k] = "send" => toWake[p][k] # {}

ParkedInv == \A p \in Processes, k \in Keys : ParkedOK(p, k)

\* A resume message names a node of the cache and elements of its lane, and no
\* message is sent twice.
MailOK(p, m) ==
  /\ \A e \in m.elems : LaneOf[e] = m.to
  /\ m.key \in installed[p]
  /\ m.by = "install" =>
       /\ ipc[p][m.key] \notin {"none", "drain"}
       /\ \A e \in toWake[p][m.key] : LaneOf[e] # m.to

\* The message of an element that wakes itself.
SelfMessage(l, k) == [to |-> l, key |-> k, elems |-> {lane[l].elem}, by |-> "self"]

MailInv ==
  /\ IsFiniteSet(resumes)
  /\ \A m \in resumes : MailOK(ProcessOf[m.to], m)
  /\ \A l \in Lanes, k \in Keys : Asks(l, k) => SelfMessage(l, k) \notin resumes

-----------------------------------------------------------------------------
\* What the credits of a process are for.
Owed(p) == {k \in Keys : Outstanding(p, k)}
Sending(p) == {k \in Keys : ipc[p][k] = "send"}
Mail(p) == {m \in resumes : m.to \in LanesOf(p)}
SelfWaking(p) == {l \in LanesOf(p) : lane[l].pc = "self"}
Going(p) == {e \in ElementsOf(p) : goDowns[e] > 0}
Handling(p) == {l \in LanesOf(p) : lane[l].handler \in {"goDown", "process"}}
OpenCredit(p) == IF p \in released THEN 0 ELSE 1

Total(p) ==
  OpenCredit(p) + Cardinality(Owed(p)) + Cardinality(Sending(p)) + Cardinality(Mail(p))
    + Cardinality(SelfWaking(p)) + Cardinality(Going(p)) + Cardinality(Handling(p))

\* An armed counter is positive and exact, and after it fired nothing is outstanding.
CreditOK(p) ==
  /\ state[p] = 1 => credits[p] = Total(p) /\ credits[p] > 0
  /\ state[p] = 2 => Total(p) = 0
  /\ reports[p] = IF state[p] = 2 THEN 1 ELSE 0

CreditInv == \A p \in Processes : CreditOK(p)
-----------------------------------------------------------------------------
\* Element e will hear of node k.
Registered(e, k) ==
  \/ Queued(e, k)
  \/ e \in parked[Home(e)][k] \cup toWake[Home(e)][k]
  \/ \E m \in resumes : m.key = k /\ e \in m.elems
  \/ Asks(LaneOf[e], k) /\ Works(LaneOf[e], e)

\* No pair is forgotten: an element was at it, has it on its stack, or will hear of
\* its source.
WorkOK(e) ==
  /\ ~ Works(LaneOf[e], e) => stack[e] = {} /\ fresh[e] = {}
  /\ \A pr \in held[e] \cup fresh[e] : Registered(e, pr[1])
  /\ GoesDown(e) =>
       /\ \A pr \in fresh[e] : pr[1] # Head(queue[e])
       /\ Front(e) \subseteq visited[e] \cup stack[e]
  /\ e \in seeded \/ (Works(LaneOf[e], e) /\ ~ GoesDown(e)) => Seeds[e] \subseteq visited[e] \cup Pending(e)
  /\ \A pr \in visited[e] : \A k \in Kids[pr[1]] : <<k, pr[2]>> \in visited[e] \cup Pending(e)

WorkInv == \A e \in Elements : WorkOK(e)

IInv ==
  /\ TypeOK /\ LaneInv /\ SeedInv /\ QueueInv /\ RequestInv /\ InstallInv
  /\ ParkedInv /\ MailInv /\ CreditInv /\ WorkInv

-----------------------------------------------------------------------------
(* What the types give.                                                    *)

LEMMA LayoutFacts ==
  ASSUME TypeOK
  PROVE  /\ LaneOf \in [Elements -> Lanes]
         /\ ProcessOf \in [Lanes -> Processes]
         /\ Kids \in [Keys -> SUBSET Keys]
         /\ Shipped \in [Keys -> SUBSET Keys]
         /\ Seeds \in [Elements -> SUBSET Pairs]
         /\ Rooted(layout)
         /\ \A e \in Elements : Home(e) \in Processes
BY WalkAssumption DEF TypeOK, LaneOf, ProcessOf, Kids, Shipped, Seeds, Home

LEMMA TailFacts ==
  ASSUME NEW S, NEW s \in Seq(S), s # << >>
  PROVE  /\ Len(s) \in Nat /\ Len(s) > 0
         /\ Head(s) = s[1]
         /\ Tail(s) \in Seq(S)
         /\ Tail(s) = << >> <=> Len(s) = 1
         /\ \A i \in 1 .. Len(Tail(s)) : i + 1 \in 1 .. Len(s) /\ Tail(s)[i] = s[i + 1]
         /\ \A i \in 1 .. Len(s) : i # 1 => i - 1 \in 1 .. Len(Tail(s)) /\ Tail(s)[i - 1] = s[i]
<1>1. /\ Tail(s) \in Seq(S) /\ Len(Tail(s)) = Len(s) - 1
      /\ \A i \in 1 .. Len(Tail(s)) : Tail(s)[i] = s[i + 1]
  BY HeadTailProperties
<1>2. Len(s) \in Nat /\ Len(s) > 0
  BY EmptySeq
<1>3. Tail(s) = << >> <=> Len(s) = 1
  <2>1. \A t \in Seq(S) : t = << >> <=> Len(t) = 0
    BY EmptySeq
  <2>2. Tail(s) = << >> <=> Len(Tail(s)) = 0
    BY <1>1, <2>1
  <2>3. QED
    BY <1>1, <1>2, <2>2
<1>4. \A i \in 1 .. Len(s) : i # 1 => i - 1 \in 1 .. Len(Tail(s)) /\ Tail(s)[i - 1] = s[i]
  <2> SUFFICES ASSUME NEW i \in 1 .. Len(s), i # 1
               PROVE  i - 1 \in 1 .. Len(Tail(s)) /\ Tail(s)[i - 1] = s[i]
    OBVIOUS
  <2>1. i - 1 \in 1 .. Len(Tail(s)) /\ (i - 1) + 1 = i
    BY <1>1, <1>2
  <2>2. Tail(s)[i - 1] = s[(i - 1) + 1]
    BY <1>1, <2>1
  <2>3. QED
    BY <2>1, <2>2
<1>5. QED
  BY <1>1, <1>2, <1>3, <1>4

LEMMA AppendFacts ==
  ASSUME NEW S, NEW s \in Seq(S), NEW x \in S
  PROVE  /\ Append(s, x) \in Seq(S) /\ Append(s, x) # << >>
         /\ Len(Append(s, x)) = Len(s) + 1 /\ Len(s) \in Nat
         /\ \A i \in 1 .. Len(s) : i \in 1 .. Len(Append(s, x)) /\ Append(s, x)[i] = s[i]
         /\ Append(s, x)[Len(s) + 1] = x
         /\ \A i \in 1 .. Len(Append(s, x)) :
              Append(s, x)[i] = x \/ (i \in 1 .. Len(s) /\ Append(s, x)[i] = s[i])
<1>1. /\ Append(s, x) \in Seq(S) /\ Append(s, x) # << >>
      /\ Len(Append(s, x)) = Len(s) + 1 /\ Len(s) \in Nat
      /\ \A i \in 1 .. Len(s) : Append(s, x)[i] = s[i]
      /\ Append(s, x)[Len(s) + 1] = x
  BY AppendProperties, LenProperties
<1>2. \A i \in 1 .. Len(Append(s, x)) : i \in 1 .. Len(s) \/ i = Len(s) + 1
  BY <1>1
<1>3. \A i \in 1 .. Len(s) : i \in 1 .. Len(Append(s, x))
  BY <1>1
<1>4. \A i \in 1 .. Len(Append(s, x)) :
        Append(s, x)[i] = x \/ (i \in 1 .. Len(s) /\ Append(s, x)[i] = s[i])
  BY <1>1, <1>2, Zenon
<1>5. QED
  BY <1>1, <1>3, <1>4

\* What kinds of records describe a lane.
LEMMA LaneFacts ==
  ASSUME TypeOK, NEW l \in Lanes
  PROVE  /\ lane[l].pc \in Asking \cup {"idle", "travel", "debit"}
         /\ lane[l].handler \in {"none", "process", "start", "goDown"}
         /\ lane[l].pc = "idle" <=> lane[l] = Idle
         /\ lane[l].handler = "none" <=> lane[l] = Idle
         /\ lane[l].handler = "process" => lane[l].pc = "debit"
         /\ lane[l].pc = "debit" => lane[l].handler \in {"process", "goDown"}
         /\ lane[l].handler \in {"start", "goDown"} => lane[l].elem \in Elements
         /\ lane[l].pc \in Asking => lane[l].key \in Keys
         /\ lane[l].pc \in Asking =>
              lane[l] \in [handler : {"start", "goDown"},
                           pc : {"latch", "ask", "send", "park", "wake", "self"},
                           elem : Elements, key : Keys]
         /\ lane[l].pc = "travel" =>
              lane[l] \in [handler : {"start", "goDown"}, pc : {"travel"}, elem : Elements]
<1>1. lane[l] \in Handlers
  BY DEF TypeOK
<1>2. CASE lane[l] = Idle
  BY <1>2 DEF Idle, Asking
<1>3. CASE lane[l] = [handler |-> "process", pc |-> "debit"]
  BY <1>3 DEF Idle, Asking
<1>4. CASE lane[l] \in [handler : {"goDown"}, pc : {"debit"}, elem : Elements]
  BY <1>4 DEF Idle, Asking
<1>5. CASE lane[l] \in [handler : {"start", "goDown"}, pc : {"travel"}, elem : Elements]
  BY <1>5 DEF Idle, Asking
<1>6. CASE lane[l] \in [handler : {"start", "goDown"},
                        pc : {"latch", "ask", "send", "park", "wake", "self"},
                        elem : Elements, key : Keys]
  BY <1>6 DEF Idle, Asking
<1>7. QED
  BY <1>1, <1>2, <1>3, <1>4, <1>5, <1>6 DEF Handlers

\* A lane that is at a node stays there as its label changes.
LEMMA AtFacts ==
  ASSUME TypeOK, NEW l \in Lanes, lane[l].pc \in Asking,
         NEW label \in Asking, At(l, label)
  PROVE  /\ lane' \in [Lanes -> Handlers]
         /\ lane'[l].pc = label
         /\ lane'[l].handler = lane[l].handler
         /\ lane'[l].elem = lane[l].elem
         /\ lane'[l].key = lane[l].key
         /\ \A m \in Lanes : m # l => lane'[m] = lane[m]
<1>1. lane[l] \in [handler : {"start", "goDown"},
                   pc : {"latch", "ask", "send", "park", "wake", "self"},
                   elem : Elements, key : Keys]
  BY DEF TypeOK, Handlers, Asking, Idle
<1>2. lane'[l] = [lane[l] EXCEPT !.pc = label]
  BY DEF At, TypeOK
<1>3. lane'[l] \in Handlers
  BY <1>1, <1>2 DEF Handlers, Asking
<1>4. QED
  BY <1>1, <1>2, <1>3 DEF At, TypeOK

LEMMA TravelFacts ==
  ASSUME TypeOK, NEW l \in Lanes, lane[l].pc \in Asking, Travel(l)
  PROVE  /\ lane' \in [Lanes -> Handlers]
         /\ lane'[l] = [handler |-> lane[l].handler, elem |-> lane[l].elem, pc |-> "travel"]
         /\ \A m \in Lanes : m # l => lane'[m] = lane[m]
<1>1. lane[l] \in [handler : {"start", "goDown"},
                   pc : {"latch", "ask", "send", "park", "wake", "self"},
                   elem : Elements, key : Keys]
  BY DEF TypeOK, Handlers, Asking, Idle
<1>2. lane'[l] = [handler |-> lane[l].handler, elem |-> lane[l].elem, pc |-> "travel"]
  BY DEF Travel, TypeOK
<1>3. lane'[l] \in Handlers
  BY <1>1, <1>2 DEF Handlers
<1>4. QED
  BY <1>2, <1>3 DEF Travel, TypeOK

\* doTrav has returned: a goDown gives its credit back.
LEMMA DebitFacts ==
  ASSUME TypeOK, NEW l \in Lanes, lane[l].pc = "travel", lane[l].handler = "goDown",
         At(l, "debit")
  PROVE  /\ lane' \in [Lanes -> Handlers]
         /\ lane'[l] = [handler |-> "goDown", pc |-> "debit", elem |-> lane[l].elem]
         /\ \A m \in Lanes : m # l => lane'[m] = lane[m]
<1>1. lane[l] \in [handler : {"start", "goDown"}, pc : {"travel"}, elem : Elements]
  BY LaneFacts
<1>2. lane'[l] = [lane[l] EXCEPT !.pc = "debit"]
  BY DEF At, TypeOK
<1>3. lane'[l] = [handler |-> "goDown", pc |-> "debit", elem |-> lane[l].elem]
  BY <1>1, <1>2
<1>4. lane'[l] \in Handlers
  BY <1>1, <1>3 DEF Handlers
<1>5. QED
  BY <1>3, <1>4 DEF At, TypeOK

\* The counter of an armed process is positive.
LEMMA DebitType ==
  ASSUME TypeOK, CreditInv, NEW p \in Processes, Debit(p)
  PROVE  /\ credits' \in [Processes -> Nat]
         /\ state' \in [Processes -> 0 .. 2]
         /\ reports' \in [Processes -> Nat]
<1>1. CASE ~ Armed(p)
  BY <1>1 DEF Debit, creditVars, TypeOK
<1>2. CASE Armed(p)
  <2>1. credits[p] \in Nat /\ credits[p] > 0 /\ reports[p] \in Nat
    BY <1>2 DEF CreditInv, CreditOK, Armed, TypeOK
  <2>2. credits' = [credits EXCEPT ![p] = credits[p] - 1] /\ credits[p] - 1 \in Nat
    BY <1>2, <2>1 DEF Debit
  <2>3. credits' \in [Processes -> Nat]
    BY <2>2 DEF TypeOK
  <2>4. state \in [Processes -> 0 .. 2] /\ reports \in [Processes -> Nat]
    BY DEF TypeOK
  <2>5. CASE credits[p] = 1
    <3>1. state' = [state EXCEPT ![p] = 2] /\ reports' = [reports EXCEPT ![p] = reports[p] + 1]
      BY <1>2, <2>5 DEF Debit
    <3>2. QED
      BY <2>1, <2>3, <2>4, <3>1
  <2>6. CASE credits[p] # 1
    BY <1>2, <2>3, <2>4, <2>6 DEF Debit
  <2>7. QED
    BY <2>5, <2>6
<1>3. QED
  BY <1>1, <1>2

LEMMA CreditType ==
  ASSUME TypeOK, NEW p \in Processes, NEW n \in Nat, Credit(p, n)
  PROVE  credits' \in [Processes -> Nat]
BY DEF TypeOK, Credit, Armed

LEMMA TypeStep ==
  ASSUME IInv, Next
  PROVE  TypeOK'
<1> USE DEF IInv, creditVars, cacheVars, installVars, elemVars, messageVars, driverVars
<1>1. ASSUME NEW p \in Processes, Arm(p)
      PROVE  TypeOK'
  BY <1>1 DEF Arm, TypeOK
<1>2. CASE Broadcast
  BY <1>2 DEF Broadcast, TypeOK
<1>3. ASSUME NEW p \in Processes, Release(p)
      PROVE  TypeOK'
  BY <1>3, DebitType DEF Release, TypeOK
<1>4. CASE WalkDone
  BY <1>4 DEF WalkDone, TypeOK
<1>5. ASSUME NEW e \in Elements, Start(e)
      PROVE  TypeOK'
  BY <1>5, LayoutFacts DEF Start, TypeOK, Handlers
<1>6. ASSUME NEW e \in Elements, GoDown(e)
      PROVE  TypeOK'
  <2>1. LaneOf[e] \in Lanes /\ Front(e) \subseteq Pairs
    BY LayoutFacts DEF TypeOK, Front
  <2>2. /\ [handler |-> "goDown", pc |-> "debit", elem |-> e] \in Handlers
        /\ [handler |-> "goDown", pc |-> "travel", elem |-> e] \in Handlers
    BY DEF Handlers
  <2>3. lane' \in [Lanes -> Handlers]
    BY <1>6, <2>1, <2>2 DEF GoDown, TypeOK
  <2>4. stack' \in [Elements -> SUBSET Pairs]
    BY <1>6, <2>1 DEF GoDown, TypeOK
  <2>5. goDowns' \in [Elements -> Nat]
    BY <1>6 DEF GoDown, TypeOK
  <2>6. QED
    BY <1>6, <2>3, <2>4, <2>5 DEF GoDown, TypeOK
<1>7. ASSUME NEW l \in Lanes, Visit(l)
      PROVE  TypeOK'
  <2>1. lane[l].pc = "travel" /\ lane[l].elem \in Elements /\ lane[l].handler \in {"start", "goDown"}
    BY <1>7, LaneFacts DEF Visit
  <2>2. PICK pr \in stack[lane[l].elem] : Open(l, lane[l].elem, pr) \/ Miss(l, lane[l].elem, pr)
    BY <1>7 DEF Visit
  <2>3. pr \in Pairs /\ pr[1] \in Keys /\ {<<k, pr[2]>> : k \in Kids[pr[1]]} \subseteq Pairs
    BY <2>1, LayoutFacts DEF TypeOK, Pairs
  <2>4. CASE Open(l, lane[l].elem, pr)
    <3>1. /\ stack' \in [Elements -> SUBSET Pairs]
          /\ visited' \in [Elements -> SUBSET Pairs]
      BY <2>1, <2>3, <2>4 DEF Open, TypeOK
    <3>2. QED
      BY <1>7, <2>4, <3>1 DEF Visit, Open, TypeOK
  <2>5. CASE Miss(l, lane[l].elem, pr)
    <3>1. [handler |-> lane[l].handler, elem |-> lane[l].elem, pc |-> "latch", key |-> pr[1]] \in Handlers
      BY <2>1, <2>3 DEF Handlers
    <3>2. lane' \in [Lanes -> Handlers]
      BY <2>5, <3>1 DEF Miss, TypeOK
    <3>3. /\ stack' \in [Elements -> SUBSET Pairs]
          /\ fresh' \in [Elements -> SUBSET Pairs]
      BY <2>1, <2>3, <2>5 DEF Miss, TypeOK
    <3>4. QED
      BY <1>7, <2>5, <3>2, <3>3 DEF Visit, Miss, TypeOK
  <2>6. QED
    BY <2>2, <2>4, <2>5
<1>8. ASSUME NEW l \in Lanes, Latch(l)
      PROVE  TypeOK'
  BY <1>8, LayoutFacts, LaneFacts, AtFacts DEF Latch, TypeOK, Asking
<1>9. ASSUME NEW l \in Lanes, AskCredit(l)
      PROVE  TypeOK'
  BY <1>9, LayoutFacts, LaneFacts, AtFacts, CreditType DEF AskCredit, TypeOK, Asking
<1>10. ASSUME NEW l \in Lanes, AskSend(l)
       PROVE  TypeOK'
  <2>1. lane[l].pc \in Asking /\ lane[l].key \in Keys /\ ProcessOf[l] \in Processes
    BY <1>10, LayoutFacts, LaneFacts DEF AskSend, Asking
  <2>2. lane' \in [Lanes -> Handlers]
    BY <1>10, <2>1, AtFacts DEF AskSend, Asking
  <2>3. requests[ProcessOf[l]] \in [Keys -> Nat]
    BY <2>1 DEF TypeOK
  <2>4. requests' \in [Processes -> [Keys -> Nat]]
    BY <1>10, <2>1, <2>3 DEF AskSend, TypeOK
  <2>5. QED
    BY <1>10, <2>2, <2>4 DEF AskSend, TypeOK
<1>11. ASSUME NEW l \in Lanes, Park(l)
       PROVE  TypeOK'
  <2>1. lane[l].pc \in Asking /\ lane[l].elem \in Elements /\ lane[l].key \in Keys
    BY <1>11, LaneFacts DEF Park, Asking
  <2>2. lane' \in [Lanes -> Handlers]
    BY <1>11, <2>1, AtFacts, TravelFacts DEF Park, Asking
  <2>3. parked[ProcessOf[l]] \in [Keys -> SUBSET Elements] /\ ProcessOf[l] \in Processes
    BY LayoutFacts DEF TypeOK
  <2>4. parked[ProcessOf[l]][lane[l].key] \cup {lane[l].elem} \subseteq Elements
    BY <2>1, <2>3
  <2>5. parked' \in [Processes -> [Keys -> SUBSET Elements]]
    <3>1. CASE lane[l].key \in closed[ProcessOf[l]]
      BY <1>11, <3>1 DEF Park, TypeOK
    <3>2. CASE lane[l].key \notin closed[ProcessOf[l]]
      <4>1. parked' = [parked EXCEPT ![ProcessOf[l]][lane[l].key] = @ \cup {lane[l].elem}]
        BY <1>11, <3>2 DEF Park
      <4>2. QED
        BY <2>1, <2>3, <2>4, <4>1 DEF TypeOK
    <3>3. QED
      BY <3>1, <3>2
  <2>6. QED
    BY <1>11, <2>2, <2>5 DEF Park, TypeOK
<1>12. ASSUME NEW l \in Lanes, WakeCredit(l)
       PROVE  TypeOK'
  BY <1>12, LayoutFacts, LaneFacts, AtFacts, CreditType DEF WakeCredit, TypeOK, Asking
<1>13. ASSUME NEW l \in Lanes, WakeSelf(l)
       PROVE  TypeOK'
  <2>1. lane[l].pc \in Asking /\ lane[l].elem \in Elements /\ lane[l].key \in Keys
    BY <1>13, LaneFacts DEF WakeSelf, Asking
  <2>2. lane' \in [Lanes -> Handlers]
    BY <1>13, <2>1, TravelFacts DEF WakeSelf
  <2>3. [to |-> l, key |-> lane[l].key, elems |-> {lane[l].elem}, by |-> "self"]
          \in [to : Lanes, key : Keys, elems : SUBSET Elements, by : {"self", "install"}]
    BY <2>1
  <2>4. QED
    BY <1>13, <2>2, <2>3 DEF WakeSelf, TypeOK
<1>14. ASSUME NEW l \in Lanes, Seeded(l)
       PROVE  TypeOK'
  BY <1>14, LayoutFacts, LaneFacts DEF Seeded, TypeOK, HeldAfter, Handlers
<1>15. ASSUME NEW l \in Lanes, Descended(l)
       PROVE  TypeOK'
  <2> DEFINE e == lane[l].elem
  <2>1. e \in Elements /\ lane[l].handler = "goDown" /\ lane[l].pc = "travel" /\ LaneOf[e] = l
    BY <1>15, LaneFacts DEF Descended, LaneInv
  <2>2. queue[e] # << >>
    BY <2>1 DEF QueueInv, QueueOK, GoesDown, Works
  <2>3. Tail(queue[e]) \in Seq(Keys)
    BY <2>1, <2>2 DEF TypeOK
  <2>4. lane' \in [Lanes -> Handlers]
    BY <1>15, <2>1, DebitFacts DEF Descended, TypeOK
  <2>5. held[e] \subseteq Pairs /\ fresh[e] \subseteq Pairs
    BY <2>1 DEF TypeOK
  <2>6. HeldAfter(e, Front(e)) \subseteq Pairs
    BY <2>5 DEF HeldAfter
  <2>7. {pr \in HeldAfter(e, Front(e)) : pr[1] = queue[e][2]} \subseteq Pairs
    BY <2>6
  <2>8. held' = [held EXCEPT ![e] = HeldAfter(e, Front(e))]
    BY <1>15 DEF Descended
  <2>9. \/ stack' = stack
        \/ stack' = [stack EXCEPT ![e] = {pr \in HeldAfter(e, Front(e)) : pr[1] = queue[e][2]}]
    BY <1>15 DEF Descended
  <2>10. held \in [Elements -> SUBSET Pairs] /\ stack \in [Elements -> SUBSET Pairs]
    BY DEF TypeOK
  <2>11. held' \in [Elements -> SUBSET Pairs]
    BY <2>1, <2>6, <2>8, <2>10
  <2>12. held' \in [Elements -> SUBSET Pairs] /\ stack' \in [Elements -> SUBSET Pairs]
    BY <2>1, <2>7, <2>9, <2>10, <2>11
  <2>13. fresh' \in [Elements -> SUBSET Pairs] /\ queue' \in [Elements -> Seq(Keys)]
    BY <1>15, <2>1, <2>3 DEF Descended, TypeOK
  <2>14. QED
    BY <1>15, <2>4, <2>13, <2>12 DEF Descended, TypeOK
<1>16. ASSUME NEW l \in Lanes, Resume(l)
       PROVE  TypeOK'
  <2>1. PICK m \in resumes : Process(l, m)
    BY <1>16 DEF Resume
  <2>2. m.key \in Keys /\ m.elems \subseteq Elements /\ IdleOf(m) \subseteq Elements
    BY DEF TypeOK, IdleOf
  <2>3. Cardinality(IdleOf(m)) \in Nat
    BY <2>2, WalkAssumption, FS_Subset, FS_CardinalityType
  <2>4. credits' \in [Processes -> Nat]
    BY <2>1, <2>3, CreditType, LayoutFacts DEF Process
  <2>5. queue' \in [Elements -> Seq(Keys)]
    BY <2>1, <2>2 DEF Process, TypeOK
  <2>6. goDowns' \in [Elements -> Nat]
    BY <2>1 DEF Process, TypeOK
  <2>7. resumes' \subseteq resumes
    BY <2>1 DEF Process
  <2>8. lane' \in [Lanes -> Handlers]
    BY <1>16 DEF Resume, TypeOK, Handlers
  <2>9. QED
    BY <1>16, <2>4, <2>5, <2>6, <2>7, <2>8 DEF Resume, TypeOK
<1>17. ASSUME NEW l \in Lanes, Return(l)
       PROVE  TypeOK'
  BY <1>17, LayoutFacts, DebitType DEF Return, TypeOK, Handlers
<1>18. ASSUME NEW p \in Processes, NEW k \in Keys, Serve(p, k)
       PROVE  TypeOK'
  BY <1>18 DEF Serve, TypeOK
<1>19. ASSUME NEW p \in Processes, NEW k \in Keys, Install(p, k)
       PROVE  TypeOK'
  BY <1>19, LayoutFacts DEF Install, TypeOK
<1>20. ASSUME NEW p \in Processes, NEW k \in Keys, Drain(p, k)
       PROVE  TypeOK'
  BY <1>20, LayoutFacts DEF Drain, TypeOK
<1>21. ASSUME NEW p \in Processes, NEW k \in Keys, LaneCredit(p, k)
       PROVE  TypeOK'
  BY <1>21, CreditType DEF LaneCredit, TypeOK
<1>22. ASSUME NEW p \in Processes, NEW k \in Keys, WakeLane(p, k)
       PROVE  TypeOK'
  <2>1. PICK e \in toWake[p][k] : SendResume(p, k, LaneOf[e])
    BY <1>22 DEF WakeLane
  <2>2. toWake[p][k] \subseteq Elements /\ LaneOf[e] \in Lanes
    BY LayoutFacts DEF TypeOK
  <2>3. [to |-> LaneOf[e], key |-> k, elems |-> WaitersOn(p, k, LaneOf[e]), by |-> "install"]
          \in [to : Lanes, key : Keys, elems : SUBSET Elements, by : {"self", "install"}]
    BY <2>2 DEF WaitersOn
  <2>4. resumes' \subseteq [to : Lanes, key : Keys, elems : SUBSET Elements, by : {"self", "install"}]
    BY <2>1, <2>3 DEF SendResume, TypeOK
  <2>5. toWake' \in [Processes -> [Keys -> SUBSET Elements]]
    BY <2>1 DEF SendResume, TypeOK
  <2>6. QED
    BY <1>22, <2>4, <2>5 DEF WakeLane, TypeOK
<1>23. ASSUME NEW p \in Processes, NEW k \in Keys, ReturnRequest(p, k)
       PROVE  TypeOK'
  BY <1>23, DebitType DEF ReturnRequest, TypeOK
<1>24. CASE Over
  BY <1>24 DEF Over, TypeOK, vars
<1>25. QED
  BY <1>1, <1>2, <1>3, <1>4, <1>5, <1>6, <1>7, <1>8, <1>9, <1>10, <1>11, <1>12, <1>13, <1>14,
     <1>15, <1>16, <1>17, <1>18, <1>19, <1>20, <1>21, <1>22, <1>23, <1>24
  DEF Next, ElementStep, LaneStep, ReplyStep, DriverStep

\* Each term of the count is that of a finite set.
LEMMA TotalFacts ==
  ASSUME TypeOK, MailInv, NEW p \in Processes
  PROVE  /\ IsFiniteSet(Owed(p)) /\ IsFiniteSet(Sending(p)) /\ IsFiniteSet(Mail(p))
         /\ IsFiniteSet(SelfWaking(p)) /\ IsFiniteSet(Going(p)) /\ IsFiniteSet(Handling(p))
         /\ Cardinality(Owed(p)) \in Nat /\ Cardinality(Sending(p)) \in Nat
         /\ Cardinality(Mail(p)) \in Nat /\ Cardinality(SelfWaking(p)) \in Nat
         /\ Cardinality(Going(p)) \in Nat /\ Cardinality(Handling(p)) \in Nat
         /\ OpenCredit(p) \in {0, 1}
         /\ Total(p) \in Nat
<1>1. /\ Owed(p) \subseteq Keys /\ Sending(p) \subseteq Keys /\ Mail(p) \subseteq resumes
      /\ SelfWaking(p) \subseteq Lanes /\ Going(p) \subseteq Elements /\ Handling(p) \subseteq Lanes
  BY DEF Owed, Sending, Mail, SelfWaking, Going, Handling, LanesOf, ElementsOf
<1>2. /\ IsFiniteSet(Owed(p)) /\ IsFiniteSet(Sending(p)) /\ IsFiniteSet(Mail(p))
      /\ IsFiniteSet(SelfWaking(p)) /\ IsFiniteSet(Going(p)) /\ IsFiniteSet(Handling(p))
  BY <1>1, WalkAssumption, FS_Subset DEF MailInv
<1>3. /\ Cardinality(Owed(p)) \in Nat /\ Cardinality(Sending(p)) \in Nat
      /\ Cardinality(Mail(p)) \in Nat /\ Cardinality(SelfWaking(p)) \in Nat
      /\ Cardinality(Going(p)) \in Nat /\ Cardinality(Handling(p)) \in Nat
  BY <1>2, FS_CardinalityType
<1>4. OpenCredit(p) \in {0, 1}
  BY DEF OpenCredit
<1>5. QED
  BY <1>2, <1>3, <1>4 DEF Total

\* A debit never takes a counter back.
LEMMA DebitKeeps ==
  ASSUME TypeOK, NEW p \in Processes, Debit(p)
  PROVE  /\ \A r \in Processes : state[r] # 0 => state'[r] # 0
         /\ \A r \in Processes : reports[r] > 0 => reports'[r] > 0
<1>1. \A r \in Processes : state[r] # 0 => state'[r] # 0
  BY DEF Debit, creditVars, TypeOK
<1>2. CASE reports' = [reports EXCEPT ![p] = reports[p] + 1]
  <2>1. reports \in [Processes -> Nat]
    BY DEF TypeOK
  <2>2. QED
    BY <1>1, <1>2, <2>1
<1>3. reports' = reports \/ reports' = [reports EXCEPT ![p] = reports[p] + 1]
  BY DEF Debit, creditVars
<1>4. QED
  BY <1>1, <1>2, <1>3

-----------------------------------------------------------------------------
(* What the steps leave alone.                                             *)

LEMMA LayoutKept ==
  ASSUME Next
  PROVE  /\ layout' = layout
         /\ LaneOf' = LaneOf /\ ProcessOf' = ProcessOf /\ Kids' = Kids
         /\ Shipped' = Shipped /\ Seeds' = Seeds
         /\ \A e : Home(e)' = Home(e)
         /\ \A p : LanesOf(p)' = LanesOf(p) /\ ElementsOf(p)' = ElementsOf(p)
<1>1. layout' = layout
  BY DEF Next, ElementStep, LaneStep, ReplyStep, DriverStep, Start, GoDown, Visit, Latch,
         AskCredit, AskSend, Park, WakeCredit, WakeSelf, Seeded, Descended, Resume, Return,
         Serve, Install, Drain, LaneCredit, WakeLane, ReturnRequest, Arm, Release, Broadcast,
         WalkDone, Over, vars, driverVars
<1>2. QED
  BY <1>1 DEF LaneOf, ProcessOf, Kids, Shipped, Seeds, Home, LanesOf, ElementsOf

LEMMA ElementFrame ==
  ASSUME NEW e, ElementStep(e)
  PROVE  UNCHANGED <<creditVars, cacheVars, installVars, messageVars, driverVars,
                     held, fresh, queue, visited>>
BY DEF ElementStep, Start, GoDown, elemVars, messageVars, driverVars, creditVars, cacheVars, installVars

LEMMA ReplyFrame ==
  ASSUME NEW p, NEW k, ReplyStep(p, k)
  PROVE  UNCHANGED <<lane, elemVars, driverVars, latch>>
BY DEF ReplyStep, Serve, Install, Drain, LaneCredit, WakeLane, ReturnRequest,
       elemVars, driverVars, cacheVars

LEMMA DriverFrame ==
  ASSUME DriverStep \/ Over
  PROVE  UNCHANGED <<cacheVars, installVars, lane, elemVars, messageVars, layout>>
BY DEF DriverStep, Over, Arm, Release, Broadcast, WalkDone, vars, driverVars, cacheVars, installVars,
       elemVars, messageVars

\* Lane l goes on with the handler it runs.
KeepsLane(l) ==
  /\ \A m \in Lanes : m # l => lane'[m] = lane[m]
  /\ lane'[l].handler = lane[l].handler
  /\ lane'[l].elem = lane[l].elem
  /\ lane[l].handler \in {"start", "goDown"}
  /\ lane[l].pc \in Asking \cup {"travel"} /\ lane'[l].pc \in Asking \cup {"travel"}

AskingStep(l) ==
  Latch(l) \/ AskCredit(l) \/ AskSend(l) \/ Park(l) \/ WakeCredit(l) \/ WakeSelf(l)

LEMMA KeepsFacts ==
  ASSUME TypeOK, NEW l \in Lanes, Visit(l) \/ AskingStep(l)
  PROVE  KeepsLane(l)
<1>1. CASE Visit(l)
  <2>1. PICK pr \in stack[lane[l].elem] : Open(l, lane[l].elem, pr) \/ Miss(l, lane[l].elem, pr)
    BY <1>1 DEF Visit
  <2>2. lane[l].pc = "travel" /\ lane[l].handler \in {"start", "goDown"}
    BY <1>1, LaneFacts DEF Visit
  <2>3. CASE Open(l, lane[l].elem, pr)
    BY <2>2, <2>3 DEF Open, KeepsLane
  <2>4. CASE Miss(l, lane[l].elem, pr)
    BY <2>2, <2>4 DEF Miss, KeepsLane, Asking, TypeOK
  <2>5. QED
    BY <2>1, <2>3, <2>4
<1>2. CASE AskingStep(l)
  <2>1. lane[l].pc \in Asking
    BY <1>2 DEF AskingStep, Latch, AskCredit, AskSend, Park, WakeCredit, WakeSelf, Asking
  <2>2. lane[l].handler \in {"start", "goDown"}
    BY <2>1, LaneFacts
  <2>3. Travel(l) \/ \E label \in Asking : At(l, label)
    BY <1>2 DEF AskingStep, Latch, AskCredit, AskSend, Park, WakeCredit, WakeSelf, Asking
  <2>4. CASE Travel(l)
    <3>1. lane'[l] = [handler |-> lane[l].handler, elem |-> lane[l].elem, pc |-> "travel"]
      BY <2>1, <2>4, TravelFacts
    <3>2. \A m \in Lanes : m # l => lane'[m] = lane[m]
      BY <2>1, <2>4, TravelFacts
    <3>3. QED
      BY <2>1, <2>2, <3>1, <3>2 DEF KeepsLane
  <2>5. CASE \E label \in Asking : At(l, label)
    BY <2>1, <2>2, <2>5, AtFacts DEF KeepsLane
  <2>6. QED
    BY <2>3, <2>4, <2>5
<1>3. QED
  BY <1>1, <1>2

\* From where to where handleRemoteNode takes a lane.
LEMMA AskingFacts ==
  ASSUME TypeOK, NEW l \in Lanes
  PROVE  /\ AskingStep(l) /\ lane'[l].pc # "travel" => lane'[l].key = lane[l].key
         /\ Latch(l) => /\ lane[l].pc = "latch"
                        /\ lane'[l].pc = IF lane[l].key \in latch[ProcessOf[l]] THEN "park" ELSE "ask"
         /\ AskCredit(l) => lane[l].pc = "ask" /\ lane'[l].pc = "send"
         /\ AskSend(l) => lane[l].pc = "send" /\ lane'[l].pc = "park"
         /\ Park(l) => /\ lane[l].pc = "park"
                       /\ lane'[l].pc = IF lane[l].key \in closed[ProcessOf[l]] THEN "wake" ELSE "travel"
         /\ WakeCredit(l) => lane[l].pc = "wake" /\ lane'[l].pc = "self"
         /\ WakeSelf(l) => lane[l].pc = "self" /\ lane'[l].pc = "travel"
<1>1. ASSUME Travel(l), lane[l].pc \in Asking
      PROVE  lane'[l].pc = "travel"
  <2>1. lane'[l] = [handler |-> lane[l].handler, elem |-> lane[l].elem, pc |-> "travel"]
    BY <1>1, TravelFacts
  <2>2. QED
    BY <2>1
<1>2. ASSUME NEW label \in Asking, At(l, label), lane[l].pc \in Asking
      PROVE  lane'[l].pc = label /\ lane'[l].key = lane[l].key
  BY <1>2, AtFacts
<1>3. Latch(l) => /\ lane[l].pc = "latch" /\ lane'[l].key = lane[l].key
                  /\ lane'[l].pc = IF lane[l].key \in latch[ProcessOf[l]] THEN "park" ELSE "ask"
  BY <1>2 DEF Latch, Asking
<1>4. AskCredit(l) => lane[l].pc = "ask" /\ lane'[l].pc = "send" /\ lane'[l].key = lane[l].key
  BY <1>2 DEF AskCredit, Asking
<1>5. AskSend(l) => lane[l].pc = "send" /\ lane'[l].pc = "park" /\ lane'[l].key = lane[l].key
  BY <1>2 DEF AskSend, Asking
<1>6. ASSUME Park(l)
      PROVE  /\ lane[l].pc = "park"
             /\ lane'[l].pc = IF lane[l].key \in closed[ProcessOf[l]] THEN "wake" ELSE "travel"
             /\ lane'[l].pc # "travel" => lane'[l].key = lane[l].key
  <2>1. lane[l].pc = "park"
    BY <1>6 DEF Park
  <2>2. CASE lane[l].key \in closed[ProcessOf[l]]
    <3>1. At(l, "wake")
      BY <1>6, <2>2 DEF Park
    <3>2. QED
      BY <1>2, <2>1, <2>2, <3>1 DEF Asking
  <2>3. CASE lane[l].key \notin closed[ProcessOf[l]]
    <3>1. Travel(l)
      BY <1>6, <2>3 DEF Park
    <3>2. QED
      BY <1>1, <2>1, <2>3, <3>1 DEF Asking
  <2>4. QED
    BY <2>2, <2>3
<1>7. WakeCredit(l) => lane[l].pc = "wake" /\ lane'[l].pc = "self" /\ lane'[l].key = lane[l].key
  BY <1>2 DEF WakeCredit, Asking
<1>8. WakeSelf(l) => lane[l].pc = "self" /\ lane'[l].pc = "travel"
  BY <1>1 DEF WakeSelf, Asking
<1>9. QED
  BY <1>3, <1>4, <1>5, <1>6, <1>7, <1>8 DEF AskingStep

\* A turn of doTrav's loop.
LEMMA VisitFacts ==
  ASSUME TypeOK, NEW l \in Lanes, Visit(l)
  PROVE  /\ lane[l].pc = "travel" /\ lane[l].elem \in Elements
         /\ \E pr \in stack[lane[l].elem] :
              /\ pr \in Pairs /\ pr[1] \in Keys
              /\ \/ Open(l, lane[l].elem, pr) /\ lane' = lane
                 \/ /\ Miss(l, lane[l].elem, pr)
                    /\ lane'[l] = [handler |-> lane[l].handler, elem |-> lane[l].elem,
                                   pc |-> "latch", key |-> pr[1]]
<1>1. lane[l].pc = "travel" /\ lane[l].elem \in Elements
  BY LaneFacts DEF Visit
<1>2. PICK pr \in stack[lane[l].elem] : Open(l, lane[l].elem, pr) \/ Miss(l, lane[l].elem, pr)
  BY DEF Visit
<1>3. pr \in Pairs /\ pr[1] \in Keys
  BY <1>1 DEF TypeOK, Pairs
<1>4. Open(l, lane[l].elem, pr) => lane' = lane
  BY DEF Open
<1>5. Miss(l, lane[l].elem, pr) =>
        lane'[l] = [handler |-> lane[l].handler, elem |-> lane[l].elem, pc |-> "latch", key |-> pr[1]]
  BY DEF Miss, TypeOK
<1>6. QED
  BY <1>1, <1>2, <1>3, <1>4, <1>5

LEMMA VisitPcs ==
  ASSUME TypeOK, NEW l \in Lanes, Visit(l)
  PROVE  lane[l].pc = "travel" /\ lane'[l].pc \in {"travel", "latch"}
<1>1. PICK pr \in stack[lane[l].elem] :
        \/ lane' = lane
        \/ lane'[l] = [handler |-> lane[l].handler, elem |-> lane[l].elem, pc |-> "latch", key |-> pr[1]]
  BY VisitFacts
<1>2. QED
  BY <1>1, VisitFacts

\* What the handlers that end, or go on with the next node, leave in their lane.
LEMMA LaneEndFacts ==
  ASSUME TypeOK, NEW l \in Lanes
  PROVE  /\ Seeded(l) =>
              /\ lane[l].handler = "start" /\ lane[l].pc = "travel"
              /\ lane' = [lane EXCEPT ![l] = Idle]
         /\ Return(l) =>
              /\ lane[l].pc = "debit"
              /\ lane' = [lane EXCEPT ![l] = Idle]
         /\ Resume(l) =>
              /\ lane[l] = Idle
              /\ lane' = [lane EXCEPT ![l] = [handler |-> "process", pc |-> "debit"]]
         /\ Descended(l) =>
              /\ lane[l].handler = "goDown" /\ lane[l].pc = "travel"
              /\ \/ lane' = lane /\ Len(queue[lane[l].elem]) # 1
                 \/ /\ Len(queue[lane[l].elem]) = 1
                    /\ lane' = [lane EXCEPT ![l] = [handler |-> "goDown", pc |-> "debit",
                                                   elem |-> lane[l].elem]]
<1>1. ASSUME Descended(l), lane' # lane
      PROVE  /\ Len(queue[lane[l].elem]) = 1
             /\ lane' = [lane EXCEPT ![l] = [handler |-> "goDown", pc |-> "debit", elem |-> lane[l].elem]]
  <2>1. /\ lane[l].pc = "travel" /\ lane[l].handler = "goDown" /\ At(l, "debit")
        /\ Len(queue[lane[l].elem]) = 1
    BY <1>1 DEF Descended
  <2>2. QED
    BY <2>1, DebitFacts DEF TypeOK
<1>2. Descended(l) =>
        /\ lane[l].handler = "goDown" /\ lane[l].pc = "travel"
        /\ lane' = lane => Len(queue[lane[l].elem]) # 1
  <2>1. lane' = lane /\ At(l, "debit") => lane[l].pc = "debit"
    BY DEF At, TypeOK
  <2>2. QED
    BY <2>1 DEF Descended
<1>3. QED
  BY <1>1, <1>2 DEF Seeded, Return, Resume, IdleLane

\* A request becomes a reply, a reply an install.
LEMMA ReplyMoves ==
  ASSUME TypeOK, RequestInv, NEW q \in Processes, NEW j \in Keys, ReplyStep(q, j),
         NEW p \in Processes, NEW k \in Keys
  PROVE  \/ /\ requests'[p][k] + replies'[p][k] = requests[p][k] + replies[p][k]
            /\ ipc'[p][k] = ipc[p][k] \/ (ipc[p][k] # "none" /\ ipc'[p][k] # "none")
         \/ /\ requests[p][k] + replies[p][k] = 1 /\ requests'[p][k] + replies'[p][k] = 0
            /\ ipc'[p][k] # "none"
<1>1. /\ requests[p][k] \in Nat /\ replies[p][k] \in Nat /\ RequestOK(p, k)
      /\ requests \in [Processes -> [Keys -> Nat]] /\ replies \in [Processes -> [Keys -> Nat]]
      /\ ipc \in [Processes -> [Keys -> {"none", "drain", "wake", "send", "done"}]]
  BY DEF TypeOK, RequestInv
<1>2. CASE p # q \/ k # j
  <2>1. requests'[p][k] = requests[p][k] /\ replies'[p][k] = replies[p][k]
    BY <1>1, <1>2 DEF ReplyStep, Serve, Install, Drain, LaneCredit, WakeLane, ReturnRequest, messageVars
  <2>2. ipc'[p][k] = ipc[p][k]
    BY <1>1, <1>2 DEF ReplyStep, Serve, Install, Drain, LaneCredit, WakeLane, ReturnRequest, installVars
  <2>3. QED
    BY <2>1, <2>2
<1>3. CASE p = q /\ k = j
  <2>1. CASE Serve(p, k)
    <3>1. requests'[p][k] = requests[p][k] - 1 /\ replies'[p][k] = replies[p][k] + 1 /\ ipc' = ipc
      BY <1>1, <2>1 DEF Serve, installVars
    <3>2. QED
      BY <1>1, <3>1
  <2>2. CASE Install(p, k)
    <3>1. requests'[p][k] = requests[p][k] /\ replies'[p][k] = replies[p][k] - 1 /\ ipc'[p][k] = "drain"
      BY <1>1, <2>2 DEF Install
    <3>2. requests[p][k] + replies[p][k] = 1
      <4>1. replies[p][k] > 0
        BY <2>2 DEF Install
      <4>2. requests[p][k] + replies[p][k] <= 1
        BY <1>1 DEF RequestOK
      <4>3. QED
        <5>1. requests[p][k] \in Nat /\ replies[p][k] \in Nat
          BY <1>1
        <5>2. QED
          BY <4>1, <4>2, <5>1
    <3>3. QED
      BY <1>1, <3>1, <3>2
  <2>3. CASE Drain(p, k) \/ LaneCredit(p, k) \/ WakeLane(p, k) \/ ReturnRequest(p, k)
    <3>1. UNCHANGED <<requests, replies>>
      BY <2>3 DEF Drain, LaneCredit, WakeLane, ReturnRequest, messageVars
    <3>2. ipc[p][k] # "none" /\ ipc'[p][k] # "none"
      BY <1>1, <2>3 DEF Drain, LaneCredit, WakeLane, ReturnRequest
    <3>3. QED
      BY <3>1, <3>2
  <2>4. QED
    BY <1>3, <2>1, <2>2, <2>3 DEF ReplyStep
<1>4. QED
  BY <1>2, <1>3

LEMMA LaneStarts ==
  ASSUME TypeOK, QueueInv, NEW e \in Elements
  PROVE  /\ Start(e) =>
              /\ lane[LaneOf[e]] = Idle
              /\ lane' = [lane EXCEPT ![LaneOf[e]] = [handler |-> "start", pc |-> "travel", elem |-> e]]
         /\ GoDown(e) =>
              /\ lane[LaneOf[e]] = Idle /\ goDowns[e] = 1 /\ queue[e] # << >>
              /\ lane' = [lane EXCEPT ![LaneOf[e]] = [handler |-> "goDown", pc |-> "travel", elem |-> e]]
              /\ stack' = [stack EXCEPT ![e] = Front(e)]
BY DEF Start, GoDown, IdleLane, QueueInv, QueueOK

\* The handlers that begin.
LEMMA StartPcs ==
  ASSUME TypeOK, QueueInv, NEW e \in Elements, ElementStep(e)
  PROVE  /\ LaneOf[e] \in Lanes /\ lane[LaneOf[e]] = Idle
         /\ lane'[LaneOf[e]].pc = "travel" /\ lane'[LaneOf[e]].elem = e
         /\ lane'[LaneOf[e]].handler = IF Start(e) THEN "start" ELSE "goDown"
         /\ \A m \in Lanes : m # LaneOf[e] => lane'[m] = lane[m]
<1>1. LaneOf[e] \in Lanes
  BY LayoutFacts
<1>2. CASE Start(e)
  <2>1. /\ lane[LaneOf[e]] = Idle
        /\ lane' = [lane EXCEPT ![LaneOf[e]] = [handler |-> "start", pc |-> "travel", elem |-> e]]
    BY <1>2, LaneStarts
  <2>2. lane'[LaneOf[e]] = [handler |-> "start", pc |-> "travel", elem |-> e]
    BY <1>1, <2>1 DEF TypeOK
  <2>3. QED
    BY <1>1, <1>2, <2>1, <2>2 DEF TypeOK
<1>3. CASE ~ Start(e)
  <2>1. /\ lane[LaneOf[e]] = Idle
        /\ lane' = [lane EXCEPT ![LaneOf[e]] = [handler |-> "goDown", pc |-> "travel", elem |-> e]]
    BY <1>3, LaneStarts DEF ElementStep
  <2>2. lane'[LaneOf[e]] = [handler |-> "goDown", pc |-> "travel", elem |-> e]
    BY <1>1, <2>1 DEF TypeOK
  <2>3. QED
    BY <1>1, <1>3, <2>1, <2>2 DEF TypeOK
<1>4. QED
  BY <1>2, <1>3

\* The labels at which the other handlers end.
LEMMA EndPcs ==
  ASSUME TypeOK, NEW l \in Lanes, Seeded(l) \/ Return(l) \/ Resume(l) \/ Descended(l)
  PROVE  /\ lane[l].pc \in {"idle", "travel", "debit"} /\ lane'[l].pc \in {"idle", "travel", "debit"}
         /\ \A m \in Lanes : m # l => lane'[m] = lane[m]
<1>1. CASE Seeded(l) \/ Return(l)
  BY <1>1, LaneEndFacts DEF TypeOK, Idle
<1>2. CASE Resume(l)
  BY <1>2, LaneEndFacts DEF TypeOK, Idle
<1>3. CASE Descended(l)
  <2>1. CASE lane' = lane
    BY <1>3, <2>1, LaneEndFacts
  <2>2. CASE lane' = [lane EXCEPT ![l] = [handler |-> "goDown", pc |-> "debit", elem |-> lane[l].elem]]
    BY <1>3, <2>2, LaneEndFacts DEF TypeOK
  <2>3. QED
    BY <1>3, <2>1, <2>2, LaneEndFacts
<1>4. QED
  BY <1>1, <1>2, <1>3

-----------------------------------------------------------------------------
(* The parts of the inductive invariant, one lemma each.                   *)

LEMMA LaneStepInv ==
  ASSUME IInv, Next
  PROVE  LaneInv'
<1> USE DEF IInv
<1>1. CASE UNCHANGED lane
  BY <1>1, LayoutKept DEF LaneInv
<1>2. ASSUME NEW e \in Elements, ElementStep(e)
      PROVE  LaneInv'
  <2>1. LaneOf[e] \in Lanes
    BY LayoutFacts
  <2>2. \/ lane' = [lane EXCEPT ![LaneOf[e]] = [handler |-> "start", pc |-> "travel", elem |-> e]]
        \/ lane' = [lane EXCEPT ![LaneOf[e]] = [handler |-> "goDown", pc |-> "travel", elem |-> e]]
    BY <1>2, LaneStarts DEF ElementStep
  <2>3. /\ \A m \in Lanes : m # LaneOf[e] => lane'[m] = lane[m]
        /\ lane'[LaneOf[e]].elem = e
    BY <2>1, <2>2 DEF TypeOK
  <2>4. QED
    BY <2>3, LayoutKept DEF LaneInv
<1>3. ASSUME NEW l \in Lanes, Visit(l) \/ AskingStep(l)
      PROVE  LaneInv'
  BY <1>3, KeepsFacts, LayoutKept DEF LaneInv, KeepsLane
<1>4. ASSUME NEW l \in Lanes, Seeded(l) \/ Return(l) \/ Resume(l) \/ Descended(l)
      PROVE  LaneInv'
  <2>1. /\ \A m \in Lanes : m # l => lane'[m] = lane[m]
        /\ \/ lane'[l].handler \in {"none", "process"}
           \/ lane'[l].handler = lane[l].handler /\ lane'[l].elem = lane[l].elem
    <3>1. CASE Seeded(l) \/ Return(l)
      BY <3>1, LaneEndFacts DEF TypeOK, Idle
    <3>2. CASE Resume(l)
      BY <3>2, LaneEndFacts DEF TypeOK
    <3>3. CASE Descended(l)
      <4>1. CASE lane' = lane
        BY <3>3, <4>1, LaneEndFacts
      <4>2. CASE lane' # lane
        <5>1. lane' = [lane EXCEPT ![l] = [handler |-> "goDown", pc |-> "debit", elem |-> lane[l].elem]]
          BY <3>3, <4>2, LaneEndFacts
        <5>2. lane[l].handler = "goDown"
          BY <3>3, LaneEndFacts
        <5>3. QED
          BY <5>1, <5>2 DEF TypeOK
      <4>3. QED
        BY <4>1, <4>2
    <3>4. QED
      BY <1>4, <3>1, <3>2, <3>3
  <2>2. QED
    BY <2>1, LayoutKept DEF LaneInv
<1>5. QED
  BY <1>1, <1>2, <1>3, <1>4, ReplyFrame, DriverFrame DEF Next, LaneStep, AskingStep

LEMMA SeedStepInv ==
  ASSUME IInv, Next
  PROVE  SeedInv'
<1> USE DEF IInv, SeedInv
<1>1. ASSUME walking, walking', released' # {} => seeded' = Elements, finished' = finished,
              \A p \in Processes : state[p] # 0 => state'[p] # 0,
              \A p \in Processes : reports[p] > 0 => reports'[p] > 0,
              \A l \in Lanes : lane'[l].handler = "start" => lane'[l].elem \notin seeded'
       PROVE  SeedInv'
  BY <1>1
<1>2. CASE DriverStep \/ Over
  <2>1. ASSUME NEW p \in Processes, Arm(p)
        PROVE  SeedInv'
    BY <2>1, DriverFrame, LayoutKept DEF Arm, TypeOK, driverVars, elemVars, cacheVars, messageVars
  <2>2. ASSUME NEW p \in Processes, Release(p)
        PROVE  SeedInv'
    <3>1. Debit(p)
      BY <2>2 DEF Release
    <3>2. walking
      BY <2>2, WalkAssumption DEF Release
    <3>3. QED
      <4>1. /\ \A r \in Processes : state[r] # 0 => state'[r] # 0
            /\ \A r \in Processes : reports[r] > 0 => reports'[r] > 0
        BY <3>1, DebitKeeps
      <4>2. seeded' = Elements /\ walking' = walking /\ finished' = finished /\ lane' = lane
        BY <2>2 DEF Release
      <4>3. \A l \in Lanes : lane'[l].handler = "start" => lane'[l].elem \notin seeded'
        BY <2>2, <4>2 DEF Release
      <4>4. QED
        BY <1>1, <3>2, <4>1, <4>2, <4>3
  <2>3. CASE Broadcast
    BY <2>3 DEF Broadcast, driverVars, elemVars, cacheVars, messageVars, creditVars
  <2>4. CASE WalkDone
    <3>1. PICK e \in Elements : TRUE
      BY WalkAssumption
    <3>2. Home(e) \in Processes /\ reports[Home(e)] > 0
      BY <2>4, LayoutFacts DEF WalkDone
    <3>3. Total(Home(e)) = 0
      BY <3>2 DEF CreditInv, CreditOK
    <3>4. Home(e) \in released
      <4>1. Total(Home(e)) # 0 \/ OpenCredit(Home(e)) # 1
        BY TotalFacts, <3>2 DEF Total
      <4>2. QED
        BY <3>3, <4>1 DEF OpenCredit
    <3>5. walking
      BY <3>1, <3>4
    <3>6. QED
      BY <2>4, <3>5, LayoutKept DEF WalkDone, driverVars, elemVars, cacheVars, messageVars, creditVars
  <2>5. CASE Over
    BY <2>5 DEF Over, vars, driverVars, elemVars, cacheVars, messageVars, creditVars
  <2>6. QED
    BY <1>2, <2>1, <2>2, <2>3, <2>4, <2>5 DEF DriverStep
<1>3. CASE ~ walking /\ ~ (DriverStep \/ Over)
  <2>1. ASSUME NEW e \in Elements, ElementStep(e)
        PROVE  FALSE
    <3>1. queue[e] = << >> /\ lane[LaneOf[e]].handler = "none"
      BY <1>3, LayoutFacts DEF Idle
    <3>2. goDowns[e] = 0
      BY <3>1 DEF QueueInv, QueueOK
    <3>3. QED
      BY <1>3, <2>1, <3>2 DEF ElementStep, Start, GoDown
  <2>2. ASSUME NEW l \in Lanes, LaneStep(l)
        PROVE  FALSE
    <3>1. lane[l].pc = "idle" /\ resumes = {}
      BY <1>3 DEF Idle
    <3>2. QED
      BY <2>2, <3>1 DEF LaneStep, Visit, Latch, AskCredit, AskSend, Park, WakeCredit, WakeSelf,
                      Seeded, Descended, Resume, Return
  <2>3. ~ \E p \in Processes, k \in Keys : ReplyStep(p, k)
    BY <1>3 DEF ReplyStep, Serve, Install, Drain, LaneCredit, WakeLane, ReturnRequest, RequestInv, RequestOK, TypeOK
  <2>4. QED
    BY <1>3, <2>1, <2>2, <2>3 DEF Next
<1>4. ASSUME NEW e \in Elements, ElementStep(e), walking
      PROVE  SeedInv'
  <2>1. LaneOf[e] \in Lanes
    BY LayoutFacts
  <2>2. Start(e) => e \notin seeded
    BY DEF Start
  <2>3. \/ e \notin seeded /\ lane' = [lane EXCEPT ![LaneOf[e]] = [handler |-> "start", pc |-> "travel", elem |-> e]]
        \/ lane' = [lane EXCEPT ![LaneOf[e]] = [handler |-> "goDown", pc |-> "travel", elem |-> e]]
    BY <1>4, <2>2, LaneStarts DEF ElementStep
  <2>4. \A l \in Lanes : lane'[l].handler = "start" => lane'[l].elem \notin seeded
    <3>1. CASE e \notin seeded /\ lane' = [lane EXCEPT ![LaneOf[e]] = [handler |-> "start", pc |-> "travel", elem |-> e]]
      BY <2>1, <3>1 DEF TypeOK
    <3>2. CASE lane' = [lane EXCEPT ![LaneOf[e]] = [handler |-> "goDown", pc |-> "travel", elem |-> e]]
      BY <2>1, <3>2 DEF TypeOK
    <3>3. QED
      BY <2>3, <3>1, <3>2
  <2>5. QED
    BY <1>1, <1>4, <2>4, ElementFrame DEF driverVars, creditVars
<1>5. ASSUME NEW l \in Lanes, Visit(l) \/ AskingStep(l), walking
      PROVE  SeedInv'
  <2>1. \A m \in Lanes : lane'[m].handler = "start" => lane'[m].elem \notin seeded
    BY <1>5, KeepsFacts DEF KeepsLane
  <2>2. UNCHANGED <<walking, released, finished, seeded, state, reports>>
    BY <1>5 DEF AskingStep, Visit, Latch, AskCredit, AskSend, Park, WakeCredit, WakeSelf, driverVars, creditVars
  <2>3. QED
    BY <1>1, <1>5, <2>1, <2>2
<1>6. ASSUME NEW l \in Lanes, Resume(l) \/ Descended(l), walking
      PROVE  SeedInv'
  <2>1. \A m \in Lanes : lane'[m].handler = "start" => lane'[m] = lane[m]
    BY <1>6, LaneEndFacts DEF TypeOK
  <2>2. UNCHANGED <<walking, released, finished, seeded, state, reports>>
    BY <1>6 DEF Resume, Descended, driverVars, creditVars
  <2>3. QED
    BY <1>1, <1>6, <2>1, <2>2
<1>7. ASSUME NEW l \in Lanes, Seeded(l), walking
      PROVE  SeedInv'
  <2>1. \A m \in Lanes : lane'[m].handler = "start" => lane'[m] = lane[m] /\ m # l
    BY <1>7, LaneEndFacts DEF TypeOK, Idle
  <2>2. lane[l].elem \in Elements /\ lane[l].elem \notin seeded /\ LaneOf[lane[l].elem] = l
    BY <1>7, LaneFacts, LaneEndFacts DEF LaneInv
  <2>3. \A m \in Lanes : lane'[m].handler = "start" => lane'[m].elem # lane[l].elem
    BY <2>1, <2>2 DEF LaneInv
  <2>4. seeded' \subseteq seeded \cup {lane[l].elem} /\ seeded \subseteq seeded'
    BY <1>7 DEF Seeded
  <2>5. UNCHANGED <<walking, released, finished, state, reports>>
    BY <1>7 DEF Seeded, creditVars
  <2>6. released = {}
    BY <2>2
  <2>7. QED
    BY <1>7, <2>1, <2>3, <2>4, <2>5, <2>6
<1>8. ASSUME NEW l \in Lanes, Return(l), walking
      PROVE  SeedInv'
  <2>1. \A m \in Lanes : lane'[m].handler = "start" => lane'[m] = lane[m]
    BY <1>8, LaneEndFacts DEF TypeOK, Idle
  <2>2. /\ \A r \in Processes : state[r] # 0 => state'[r] # 0
        /\ \A r \in Processes : reports[r] > 0 => reports'[r] > 0
    BY <1>8, DebitKeeps, LayoutFacts DEF Return
  <2>3. UNCHANGED <<walking, released, finished, seeded>>
    BY <1>8 DEF Return, driverVars
  <2>4. QED
    BY <1>1, <1>8, <2>1, <2>2, <2>3
<1>9. ASSUME NEW p \in Processes, NEW k \in Keys, ReplyStep(p, k), walking
       PROVE  SeedInv'
  <2>1. UNCHANGED <<lane, walking, released, finished, seeded>>
    BY <1>9, ReplyFrame DEF driverVars
  <2>2. UNCHANGED <<state, reports>> \/ Debit(p)
    BY <1>9 DEF ReplyStep, Serve, Install, Drain, LaneCredit, WakeLane, ReturnRequest, creditVars
  <2>3. /\ \A r \in Processes : state[r] # 0 => state'[r] # 0
        /\ \A r \in Processes : reports[r] > 0 => reports'[r] > 0
    BY <2>2, DebitKeeps
  <2>4. QED
    BY <1>1, <1>9, <2>1, <2>3
<1>10. QED
  BY <1>2, <1>3, <1>4, <1>5, <1>6, <1>7, <1>8, <1>9 DEF Next, LaneStep, AskingStep

LEMMA QueueStepInv ==
  ASSUME IInv, Next
  PROVE  QueueInv'
<1> USE DEF IInv
<1>1. ASSUME UNCHANGED <<queue, goDowns>>, \A p \in Processes : installed[p] \subseteq installed'[p],
             \A e \in Elements : GoesDown(e)' <=> GoesDown(e)
      PROVE  QueueInv'
  <2> SUFFICES ASSUME NEW e \in Elements
               PROVE  QueueOK(e)'
    BY DEF QueueInv, QueueOK
  <2>1. Home(e) \in Processes /\ Home(e)' = Home(e)
    BY LayoutFacts, LayoutKept
  <2>2. QED
    BY <1>1, <2>1 DEF QueueInv, QueueOK
<1>2. CASE DriverStep \/ Over
  <2>1. UNCHANGED <<queue, goDowns, installed, lane>>
    BY <1>2, DriverFrame DEF elemVars, cacheVars
  <2>2. QED
    BY <1>1, <2>1, LayoutKept DEF GoesDown, Works
<1>3. ASSUME NEW p \in Processes, NEW k \in Keys, ReplyStep(p, k)
      PROVE  QueueInv'
  <2>1. UNCHANGED <<queue, goDowns, lane>>
    BY <1>3, ReplyFrame DEF elemVars
  <2>2. \A r \in Processes : installed[r] \subseteq installed'[r]
    <3>1. \/ installed' = installed
          \/ installed' = [installed EXCEPT ![p] = installed[p] \cup Shipped[k]]
      BY <1>3 DEF ReplyStep, Serve, Install, Drain, LaneCredit, WakeLane, ReturnRequest, cacheVars
    <3>2. QED
      BY <3>1 DEF TypeOK
  <2>3. QED
    BY <1>1, <2>1, <2>2, LayoutKept DEF GoesDown, Works
<1>4. ASSUME NEW l \in Lanes, Visit(l) \/ AskingStep(l)
      PROVE  QueueInv'
  <2>1. UNCHANGED <<queue, goDowns, installed>>
    BY <1>4 DEF AskingStep, Visit, Latch, AskCredit, AskSend, Park, WakeCredit, WakeSelf, elemVars, cacheVars
  <2>2. \A m \in Lanes : /\ lane'[m].handler = lane[m].handler
                         /\ lane'[m].elem = lane[m].elem
                         /\ lane'[m].pc # "debit" <=> lane[m].pc # "debit"
    BY <1>4, KeepsFacts DEF KeepsLane, Asking
  <2>3. QED
    BY <1>1, <2>1, <2>2, LayoutKept, LayoutFacts DEF GoesDown, Works
<1>5. ASSUME NEW l \in Lanes, Seeded(l) \/ Return(l)
      PROVE  QueueInv'
  <2>1. UNCHANGED <<queue, goDowns, installed>>
    BY <1>5 DEF Seeded, Return, elemVars, cacheVars
  <2>2. lane' = [lane EXCEPT ![l] = Idle] /\ (lane[l].handler # "goDown" \/ lane[l].pc = "debit")
    BY <1>5, LaneEndFacts
  <2>3. \A e \in Elements : GoesDown(e)' <=> GoesDown(e)
    BY <2>2, LayoutKept, LayoutFacts DEF GoesDown, Works, TypeOK, Idle
  <2>4. QED
    BY <1>1, <2>1, <2>3
<1>6. ASSUME NEW e \in Elements, Start(e)
      PROVE  QueueInv'
  <2>1. UNCHANGED <<queue, goDowns, installed>>
    BY <1>6 DEF Start, cacheVars
  <2>2. /\ lane[LaneOf[e]] = Idle
        /\ lane' = [lane EXCEPT ![LaneOf[e]] = [handler |-> "start", pc |-> "travel", elem |-> e]]
    BY <1>6, LaneStarts
  <2>3. \A f \in Elements : GoesDown(f)' <=> GoesDown(f)
    BY <2>2, LayoutKept, LayoutFacts DEF GoesDown, Works, TypeOK, Idle
  <2>4. QED
    BY <1>1, <2>1, <2>3
<1>7. ASSUME NEW e \in Elements, GoDown(e)
      PROVE  QueueInv'
  <2>1. UNCHANGED <<queue, installed>> /\ goDowns' = [goDowns EXCEPT ![e] = goDowns[e] - 1] /\ goDowns[e] = 1
    BY <1>7, LaneStarts DEF GoDown, cacheVars
  <2>2. /\ lane[LaneOf[e]] = Idle /\ queue[e] # << >>
        /\ lane' = [lane EXCEPT ![LaneOf[e]] = [handler |-> "goDown", pc |-> "travel", elem |-> e]]
    BY <1>7, LaneStarts
  <2>3. \A f \in Elements : f # e => (GoesDown(f)' <=> GoesDown(f))
    <3>1. /\ lane'[LaneOf[e]].elem = e
          /\ \A m \in Lanes : m # LaneOf[e] => lane'[m] = lane[m]
      BY <2>2, LayoutFacts DEF TypeOK
    <3>2. QED
      BY <2>2, <3>1, LayoutKept, LayoutFacts DEF GoesDown, Works, Idle
  <2>4. GoesDown(e)' /\ ~ GoesDown(e)
    <3>1. lane'[LaneOf[e]] = [handler |-> "goDown", pc |-> "travel", elem |-> e]
      BY <2>2, LayoutFacts DEF TypeOK
    <3>2. QED
      BY <2>2, <3>1, LayoutKept DEF GoesDown, Works, Idle
  <2>5. goDowns'[e] = 0 /\ \A f \in Elements : f # e => goDowns'[f] = goDowns[f]
    BY <2>1 DEF TypeOK
  <2>6. QED
    BY <2>1, <2>2, <2>3, <2>4, <2>5, LayoutKept DEF QueueInv, QueueOK
<1>8. ASSUME NEW l \in Lanes, Descended(l)
      PROVE  QueueInv'
  <2>1. PICK e \in Elements : e = lane[l].elem /\ lane[l].handler = "goDown" /\ lane[l].pc = "travel"
    BY <1>8, LaneEndFacts, LaneFacts
  <2>2. LaneOf[e] = l /\ GoesDown(e) /\ queue[e] # << >> /\ goDowns[e] = 0
    <3>1. lane[l].handler = "goDown" /\ lane[l].pc = "travel"
      BY <2>1
    <3>2. e = lane[l].elem /\ LaneOf[e] = l
      BY <2>1 DEF LaneInv
    <3>3. QED
      BY <3>1, <3>2 DEF GoesDown, Works, QueueInv, QueueOK
  <2>3. UNCHANGED <<goDowns, installed>> /\ queue' = [queue EXCEPT ![e] = Tail(queue[e])]
    BY <1>8, <2>1 DEF Descended, cacheVars
  <2>4. queue[e] \in Seq(Keys) /\ Tail(queue[e]) \in Seq(Keys) /\ Len(queue[e]) \in Nat
    BY <2>2 DEF TypeOK
  <2>5. /\ Tail(queue[e]) = << >> <=> Len(queue[e]) = 1
        /\ \A i \in 1 .. Len(Tail(queue[e])) : i + 1 \in 1 .. Len(queue[e]) /\ Tail(queue[e])[i] = queue[e][i + 1]
    BY <2>2, <2>4, TailFacts
  <2>6. GoesDown(e)' <=> Len(queue[e]) # 1
    BY <1>8, <2>2, <2>1, LaneEndFacts, LayoutKept DEF GoesDown, Works, TypeOK
  <2>7. \A f \in Elements : f # e => (GoesDown(f)' <=> GoesDown(f))
    <3>1. CASE lane' = lane
      BY <3>1, LayoutKept DEF GoesDown, Works
    <3>2. CASE lane' = [lane EXCEPT ![l] = [handler |-> "goDown", pc |-> "debit", elem |-> e]]
      BY <2>2, <3>2, LayoutKept, LayoutFacts DEF GoesDown, Works, TypeOK
    <3>3. QED
      BY <1>8, <2>1, <3>1, <3>2, LaneEndFacts
  <2>8. queue'[e] = Tail(queue[e]) /\ \A f \in Elements : f # e => queue'[f] = queue[f]
    BY <2>2, <2>3 DEF TypeOK
  <2>9. QueueOK(e)'
    <3>1. QueueOK(e) /\ Home(e)' = Home(e)
      BY LayoutKept DEF QueueInv
    <3>2. goDowns'[e] = 0 /\ installed' = installed /\ ~ (goDowns'[e] = 1 /\ GoesDown(e)')
      BY <2>2, <2>3
    <3>3. queue'[e] # << >> <=> GoesDown(e)'
      BY <2>5, <2>6, <2>8
    <3>4. \A i \in 1 .. Len(queue'[e]) : queue'[e][i] \in installed'[Home(e)']
      BY <2>5, <2>8, <3>1, <3>2 DEF QueueOK
    <3>5. QED
      BY <3>2, <3>3, <3>4 DEF QueueOK
  <2>10. \A f \in Elements : f # e => QueueOK(f)'
    BY <2>3, <2>7, <2>8, LayoutKept DEF QueueInv, QueueOK
  <2>11. QED
    BY <2>9, <2>10 DEF QueueInv
<1>9. ASSUME NEW l \in Lanes, Resume(l)
      PROVE  QueueInv'
  <2>1. PICK m \in resumes : Process(l, m)
    BY <1>9 DEF Resume
  <2>2. m.to = l /\ m.key \in Keys /\ m.elems \subseteq Elements
    BY <2>1 DEF Process, TypeOK
  <2>3. \A f \in m.elems : LaneOf[f] = l /\ m.key \in installed[Home(f)]
    BY <2>2 DEF MailInv, MailOK, Home
  <2>4. \A f \in Elements : GoesDown(f)' <=> GoesDown(f)
    <3>1. lane[l] = Idle /\ lane'[l].handler = "process" /\ \A n \in Lanes : n # l => lane'[n] = lane[n]
      BY <1>9, LaneEndFacts DEF TypeOK
    <3>2. QED
      BY <3>1, LayoutKept, LayoutFacts DEF GoesDown, Works, Idle
  <2>5. installed' = installed
    BY <1>9 DEF Resume, cacheVars
  <2>6. ASSUME NEW f \in Elements
        PROVE  QueueOK(f)'
    <3>1. CASE f \notin m.elems
      <4>1. queue'[f] = queue[f] /\ goDowns'[f] = goDowns[f]
        BY <2>1, <3>1 DEF Process, IdleOf
      <4>2. QED
        BY <2>4, <2>5, <4>1, LayoutKept DEF QueueInv, QueueOK
    <3>2. CASE f \in m.elems
      <4>1. queue'[f] = Append(queue[f], m.key) /\ queue[f] \in Seq(Keys)
        BY <2>1, <3>2 DEF Process, TypeOK
      <4>2. goDowns'[f] = IF queue[f] = << >> THEN goDowns[f] + 1 ELSE goDowns[f]
        BY <2>1, <3>2 DEF Process, IdleOf
      <4>3. /\ queue'[f] # << >>
            /\ \A i \in 1 .. Len(queue'[f]) :
                 queue'[f][i] = m.key \/ (i \in 1 .. Len(queue[f]) /\ queue'[f][i] = queue[f][i])
        BY <2>2, <4>1, AppendFacts
      <4>4. QED
        BY <2>3, <2>4, <2>5, <3>2, <4>2, <4>3, LayoutKept DEF QueueInv, QueueOK
    <3>3. QED
      BY <3>1, <3>2
  <2>7. QED
    BY <2>6 DEF QueueInv, QueueOK
<1>10. QED
  BY <1>2, <1>3, <1>4, <1>5, <1>6, <1>7, <1>8, <1>9 DEF Next, ElementStep, LaneStep, AskingStep

LEMMA RequestStepInv ==
  ASSUME IInv, Next
  PROVE  RequestInv'
<1> USE DEF IInv
<1>1. ASSUME UNCHANGED <<latch, requests, replies, ipc>>,
             \A l \in Lanes, k \in Keys : Requesting(l, k)' <=> Requesting(l, k)
      PROVE  RequestInv'
  <2>1. ASSUME NEW p \in Processes, NEW k \in Keys
        PROVE  RequestOK(p, k)'
    <3>1. LanesOf(p)' = LanesOf(p) /\ LanesOf(p) \subseteq Lanes /\ RequestOK(p, k)
      BY LayoutKept DEF LanesOf, RequestInv
    <3>2. QED
      BY <1>1, <3>1 DEF RequestOK
  <2>2. QED
    BY <2>1 DEF RequestInv
<1>2. CASE DriverStep \/ Over
  <2>1. UNCHANGED <<latch, requests, replies, ipc, lane>>
    BY <1>2, DriverFrame DEF messageVars, cacheVars, installVars
  <2>2. QED
    BY <1>1, <2>1 DEF Requesting
<1>3. ASSUME NEW e \in Elements, ElementStep(e)
      PROVE  RequestInv'
  <2>1. UNCHANGED <<latch, requests, replies, ipc>>
    BY <1>3, ElementFrame DEF messageVars, cacheVars, installVars
  <2>2. /\ lane[LaneOf[e]].pc = "idle" /\ lane'[LaneOf[e]].pc = "travel"
        /\ \A m \in Lanes : m # LaneOf[e] => lane'[m] = lane[m]
    BY <1>3, StartPcs DEF Idle
  <2>3. QED
    BY <1>1, <2>1, <2>2 DEF Requesting
<1>4. ASSUME NEW l \in Lanes, Seeded(l) \/ Return(l) \/ Resume(l) \/ Descended(l)
      PROVE  RequestInv'
  <2>1. UNCHANGED <<latch, requests, replies, ipc>>
    BY <1>4 DEF Seeded, Return, Resume, Descended, messageVars, cacheVars, installVars
  <2>2. /\ lane[l].pc \notin {"ask", "send"} /\ lane'[l].pc \notin {"ask", "send"}
        /\ \A m \in Lanes : m # l => lane'[m] = lane[m]
    BY <1>4, EndPcs
  <2>3. QED
    BY <1>1, <2>1, <2>2 DEF Requesting
<1>5. ASSUME NEW l \in Lanes, Visit(l) \/ Park(l) \/ WakeCredit(l) \/ WakeSelf(l)
      PROVE  RequestInv'
  <2>1. UNCHANGED <<latch, requests, replies, ipc>>
    BY <1>5 DEF Visit, Park, WakeCredit, WakeSelf, messageVars, cacheVars, installVars
  <2>2. lane[l].pc \notin {"ask", "send"} /\ lane'[l].pc \notin {"ask", "send"}
    <3>1. CASE Visit(l)
      BY <3>1, VisitPcs
    <3>2. CASE Park(l) \/ WakeCredit(l) \/ WakeSelf(l)
      BY <3>2, AskingFacts
    <3>3. QED
      BY <1>5, <3>1, <3>2
  <2>3. \A m \in Lanes : m # l => lane'[m] = lane[m]
    BY <1>5, KeepsFacts DEF KeepsLane, AskingStep
  <2>4. QED
    BY <1>1, <2>1, <2>2, <2>3 DEF Requesting
<1>6. ASSUME NEW l \in Lanes, AskCredit(l)
      PROVE  RequestInv'
  <2>1. UNCHANGED <<latch, requests, replies, ipc>>
    BY <1>6 DEF AskCredit, messageVars, cacheVars, installVars
  <2>2. /\ lane[l].pc = "ask" /\ lane'[l].pc = "send" /\ lane'[l].key = lane[l].key
        /\ \A m \in Lanes : m # l => lane'[m] = lane[m]
    BY <1>6, AskingFacts, KeepsFacts DEF KeepsLane, AskingStep
  <2>3. QED
    BY <1>1, <2>1, <2>2 DEF Requesting
<1>7. ASSUME NEW l \in Lanes, Latch(l)
      PROVE  RequestInv'
  <2>1. /\ UNCHANGED <<requests, replies, ipc>>
        /\ latch' = [latch EXCEPT ![ProcessOf[l]] = latch[ProcessOf[l]] \cup {lane[l].key}]
    BY <1>7 DEF Latch, messageVars, installVars
  <2>2. /\ lane[l].pc = "latch" /\ lane'[l].key = lane[l].key /\ lane[l].key \in Keys
        /\ lane'[l].pc = IF lane[l].key \in latch[ProcessOf[l]] THEN "park" ELSE "ask"
        /\ \A m \in Lanes : m # l => lane'[m] = lane[m]
    BY <1>7, LaneFacts, AskingFacts, KeepsFacts DEF KeepsLane, AskingStep, Asking
  <2>3. ASSUME NEW p \in Processes, NEW k \in Keys
        PROVE  RequestOK(p, k)'
    <3>1. LanesOf(p)' = LanesOf(p) /\ LanesOf(p) \subseteq Lanes /\ RequestOK(p, k)
      BY LayoutKept DEF LanesOf, RequestInv
    <3>2. CASE p = ProcessOf[l] /\ k = lane[l].key /\ k \notin latch[p]
      <4>1. k \in latch'[p] /\ l \in LanesOf(p)
        BY <2>1, <3>2 DEF TypeOK, LanesOf
      <4>2. /\ requests[p][k] + replies[p][k] = 0 /\ ipc[p][k] = "none"
            /\ \A m \in LanesOf(p) : ~ Requesting(m, k)
        <5>1. requests[p][k] \in Nat /\ replies[p][k] \in Nat
          BY DEF TypeOK
        <5>2. QED
          BY <3>1, <3>2, <5>1 DEF RequestOK
      <4>3. \A m \in LanesOf(p) : Requesting(m, k)' <=> m = l
        BY <2>2, <3>1, <3>2, <4>1, <4>2 DEF Requesting
      <4>4. QED
        BY <2>1, <3>1, <4>1, <4>2, <4>3 DEF RequestOK
    <3>3. CASE ~ (p = ProcessOf[l] /\ k = lane[l].key /\ k \notin latch[p])
      <4>1. k \in latch'[p] <=> k \in latch[p]
        BY <2>1, <3>3 DEF TypeOK
      <4>2. \A m \in LanesOf(p) : Requesting(m, k)' <=> Requesting(m, k)
        BY <2>2, <3>1, <3>3 DEF Requesting, LanesOf
      <4>3. QED
        BY <2>1, <3>1, <4>1, <4>2 DEF RequestOK
    <3>4. QED
      BY <3>2, <3>3
  <2>4. QED
    BY <2>3 DEF RequestInv
<1>8. ASSUME NEW l \in Lanes, AskSend(l)
      PROVE  RequestInv'
  <2>1. /\ UNCHANGED <<latch, replies, ipc>>
        /\ requests' = [requests EXCEPT ![ProcessOf[l]][lane[l].key] = requests[ProcessOf[l]][lane[l].key] + 1]
    BY <1>8 DEF AskSend, cacheVars, installVars
  <2>2. /\ lane[l].pc = "send" /\ lane'[l].pc = "park" /\ lane[l].key \in Keys
        /\ \A m \in Lanes : m # l => lane'[m] = lane[m]
    BY <1>8, LaneFacts, AskingFacts, KeepsFacts DEF KeepsLane, AskingStep, Asking
  <2>3. ASSUME NEW p \in Processes, NEW k \in Keys
        PROVE  RequestOK(p, k)'
    <3>1. /\ LanesOf(p)' = LanesOf(p) /\ LanesOf(p) \subseteq Lanes /\ RequestOK(p, k)
          /\ requests[p][k] \in Nat /\ replies[p][k] \in Nat
          /\ requests \in [Processes -> [Keys -> Nat]]
      BY LayoutKept DEF LanesOf, RequestInv, TypeOK
    <3>2. CASE p = ProcessOf[l] /\ k = lane[l].key
      <4>1. l \in LanesOf(p) /\ Requesting(l, k)
        BY <2>2, <3>2 DEF LanesOf, Requesting
      <4>2. /\ requests[p][k] + replies[p][k] = 0 /\ ipc[p][k] = "none" /\ k \in latch[p]
            /\ \A m \in LanesOf(p) : Requesting(m, k) => m = l
        BY <3>1, <4>1 DEF RequestOK
      <4>3. requests'[p][k] = requests[p][k] + 1
        BY <2>1, <3>1, <3>2
      <4>4. \A m \in LanesOf(p) : ~ Requesting(m, k)'
        BY <2>2, <3>1, <4>2 DEF Requesting
      <4>5. requests'[p][k] + replies'[p][k] = 1
        BY <2>1, <3>1, <4>2, <4>3
      <4>6. QED
        BY <2>1, <3>1, <4>2, <4>4, <4>5 DEF RequestOK
    <3>3. CASE ~ (p = ProcessOf[l] /\ k = lane[l].key)
      <4>1. requests'[p][k] = requests[p][k]
        BY <2>1, <3>1, <3>3
      <4>2. \A m \in LanesOf(p) : Requesting(m, k)' <=> Requesting(m, k)
        BY <2>2, <3>1, <3>3 DEF Requesting, LanesOf
      <4>3. QED
        BY <2>1, <3>1, <4>1, <4>2 DEF RequestOK
    <3>4. QED
      BY <3>2, <3>3
  <2>4. QED
    BY <2>3 DEF RequestInv
<1>9. ASSUME NEW q \in Processes, NEW j \in Keys, ReplyStep(q, j)
      PROVE  RequestInv'
  <2>1. UNCHANGED <<lane, latch>>
    BY <1>9, ReplyFrame
  <2>2. ASSUME NEW p \in Processes, NEW k \in Keys
        PROVE  RequestOK(p, k)'
    <3>1. /\ LanesOf(p)' = LanesOf(p) /\ LanesOf(p) \subseteq Lanes /\ RequestOK(p, k)
          /\ requests[p][k] \in Nat /\ replies[p][k] \in Nat
      BY LayoutKept DEF LanesOf, RequestInv, TypeOK
    <3>2. \/ /\ requests'[p][k] + replies'[p][k] = requests[p][k] + replies[p][k]
             /\ ipc'[p][k] = ipc[p][k] \/ (ipc[p][k] # "none" /\ ipc'[p][k] # "none")
          \/ /\ requests[p][k] + replies[p][k] = 1 /\ requests'[p][k] + replies'[p][k] = 0
             /\ ipc'[p][k] # "none"
      BY <1>9, ReplyMoves
    <3>3. \A m \in LanesOf(p) : Requesting(m, k)' <=> Requesting(m, k)
      BY <2>1 DEF Requesting
    <3>4. QED
      BY <2>1, <3>1, <3>2, <3>3 DEF RequestOK
  <2>3. QED
    BY <2>2 DEF RequestInv
<1>10. QED
  BY <1>2, <1>3, <1>4, <1>5, <1>6, <1>7, <1>8, <1>9 DEF Next, LaneStep

\* What InstallInv says of a node.
LEMMA OldKeys ==
  ASSUME IInv
  PROVE  /\ \A p \in Processes : closed[p] \subseteq closed[p] /\ closed[p] \subseteq installed[p]
         /\ \A p \in Processes, k \in Keys :
              ipc[p][k] \in {"wake", "send", "done"} => k \in closed[p]
BY DEF IInv, InstallInv, KeyOK

LEMMA OldAsks ==
  ASSUME IInv, NEW l \in Lanes, NEW k \in Keys, Asks(l, k)
  PROVE  /\ ProcessOf[l] \in Processes
         /\ AskOK(ProcessOf[l], l, k)
         /\ lane[l].pc \in {"wake", "self"} => k \in closed[ProcessOf[l]]
<1>1. ProcessOf[l] \in Processes /\ l \in LanesOf(ProcessOf[l])
  BY LayoutFacts DEF IInv, LanesOf
<1>2. KeyOK(ProcessOf[l], k)
  BY <1>1 DEF IInv, InstallInv
<1>3. AskOK(ProcessOf[l], l, k)
  BY <1>1, <1>2 DEF KeyOK
<1>4. QED
  BY <1>1, <1>3 DEF AskOK

\* Only a descent adds to the work of an element.
LEMMA PendingFalls ==
  ASSUME TypeOK, NEW l \in Lanes,
         Seeded(l) \/ Return(l) \/ Resume(l) \/ Descended(l) \/ AskingStep(l),
         NEW e \in Elements
  PROVE  Pending(e)' \subseteq Pending(e)
<1>1. CASE Return(l) \/ Resume(l) \/ AskingStep(l)
  BY <1>1 DEF Return, Resume, AskingStep, Latch, AskCredit, AskSend, Park, WakeCredit, WakeSelf, elemVars, Pending
<1>2. CASE Seeded(l)
  <2>1. /\ held' = [held EXCEPT ![lane[l].elem] = HeldAfter(lane[l].elem, {})]
        /\ fresh' = [fresh EXCEPT ![lane[l].elem] = {}] /\ stack' = stack
    BY <1>2 DEF Seeded
  <2>2. held'[e] \subseteq held[e] \cup fresh[e] /\ fresh'[e] \subseteq fresh[e]
    BY <2>1 DEF TypeOK, HeldAfter
  <2>3. QED
    BY <2>1, <2>2 DEF Pending
<1>3. CASE Descended(l)
  <2> DEFINE d == lane[l].elem
  <2>1. /\ held' = [held EXCEPT ![d] = HeldAfter(d, Front(d))]
        /\ fresh' = [fresh EXCEPT ![d] = {}]
        /\ \/ stack' = stack
           \/ stack' = [stack EXCEPT ![d] = {pr \in HeldAfter(d, Front(d)) : pr[1] = queue[d][2]}]
    BY <1>3 DEF Descended
  <2>2. HeldAfter(d, Front(d)) \subseteq held[d] \cup fresh[d]
    BY DEF HeldAfter
  <2>3. held'[e] \subseteq held[e] \cup fresh[e] /\ fresh'[e] \subseteq fresh[e]
    BY <2>1, <2>2 DEF TypeOK
  <2>4. stack'[e] \subseteq stack[e] \cup held[e] \cup fresh[e]
    BY <2>1, <2>2 DEF TypeOK
  <2>5. QED
    BY <2>3, <2>4 DEF Pending
<1>4. QED
  BY <1>1, <1>2, <1>3

LEMMA InstallStepInv ==
  ASSUME IInv, Next
  PROVE  InstallInv'
<1> USE DEF IInv
<1>1. \A p \in Processes :
        /\ LanesOf(p)' = LanesOf(p) /\ LanesOf(p) \subseteq Lanes
        /\ ElementsOf(p)' = ElementsOf(p) /\ ElementsOf(p) \subseteq Elements
        /\ \A l \in LanesOf(p) : ProcessOf[l] = p
        /\ \A e \in ElementsOf(p) : Home(e) = p
  BY LayoutKept DEF LanesOf, ElementsOf
<1>2. Shipped' = Shipped /\ Shipped \in [Keys -> SUBSET Keys] /\ Rooted(layout)
  BY LayoutKept, LayoutFacts
<1>3. ASSUME installed' = installed, latch' = latch,
             \A p \in Processes : closed[p] \subseteq closed'[p] /\ closed'[p] \subseteq installed[p],
             \A p \in Processes, k \in Keys :
               /\ ipc'[p][k] # "none" <=> ipc[p][k] # "none"
               /\ ipc'[p][k] \in {"wake", "send", "done"} => k \in closed'[p],
             \A l \in Lanes, k \in Keys : Asks(l, k)' =>
               /\ Asks(l, k)
               /\ lane[l].pc = "latch" => lane'[l].pc = "latch"
               /\ lane'[l].pc \in {"wake", "self"} => k \in closed'[ProcessOf[l]],
             \A p \in Processes, j \in Keys : \A k \in Shipped[j] \ {j} :
               j \notin installed[p] => Unmet(p, k)'
      PROVE  InstallInv'
  <2>1. ASSUME NEW p \in Processes, NEW k \in Keys
        PROVE  KeyOK(p, k)'
    <3>1. KeyOK(p, k)
      BY DEF InstallInv
    <3>2. ASSUME NEW l \in LanesOf(p), Asks(l, k)'
          PROVE  AskOK(p, l, k)'
      BY <1>1, <1>3, <3>1, <3>2 DEF KeyOK, AskOK
    <3>3. QED
      BY <1>1, <1>2, <1>3, <3>1, <3>2 DEF KeyOK
  <2>2. ASSUME NEW p \in Processes, NEW j \in Keys, NEW k \in Shipped[j] \ {j}
        PROVE  ShipOK(p, j, k)'
    <3>1. ShipOK(p, j, k) /\ k \in Keys
      BY <1>2 DEF InstallInv
    <3>2. QED
      BY <1>1, <1>3, <3>1 DEF ShipOK
  <2>3. QED
    BY <1>2, <1>3, <2>1, <2>2 DEF InstallInv
<1>4. ASSUME \A e \in Elements : Pending(e)' \subseteq Pending(e)
      PROVE  \A p \in Processes, j \in Keys : \A k \in Shipped[j] \ {j} :
               j \notin installed[p] => Unmet(p, k)'
  BY <1>1, <1>4 DEF InstallInv, ShipOK, Unmet
<1>5. CASE DriverStep \/ Over
  <2>1. UNCHANGED <<installed, latch, closed, ipc, lane, stack, held, fresh>>
    BY <1>5, DriverFrame DEF cacheVars, installVars, elemVars
  <2>2. \A e \in Elements : Pending(e)' \subseteq Pending(e)
    BY <2>1 DEF Pending
  <2>3. \A m \in Lanes, k \in Keys : Asks(m, k)' => Asks(m, k) /\ lane'[m] = lane[m]
    BY <2>1 DEF Asks
  <2>4. QED
    BY <1>3, <1>4, <2>1, <2>2, <2>3, OldAsks, OldKeys
<1>6. ASSUME NEW e \in Elements, ElementStep(e)
      PROVE  InstallInv'
  <2>1. UNCHANGED <<installed, latch, closed, ipc, held, fresh>>
    BY <1>6, ElementFrame DEF cacheVars, installVars
  <2>2. \A l \in Lanes, k \in Keys : Asks(l, k)' => Asks(l, k) /\ lane'[l] = lane[l]
    BY <1>6, StartPcs DEF Asks, Asking
  <2>3. \A p \in Processes, j \in Keys : \A k \in Shipped[j] \ {j} : j \notin installed[p] => Unmet(p, k)'
    <3>1. CASE Start(e)
      <4>1. stack' = [stack EXCEPT ![e] = Seeds[e]]
        BY <3>1 DEF Start
      <4>2. SUFFICES ASSUME NEW p \in Processes, NEW j \in Keys, NEW k \in Shipped[j] \ {j},
                            j \notin installed[p], NEW f \in ElementsOf(p), NEW pr \in Pending(f)'
                     PROVE  pr[1] # k
        BY <1>1 DEF Unmet
      <4>3. CASE pr \in Pending(f)
        BY <1>1, <1>2, <4>2, <4>3 DEF InstallInv, ShipOK, Unmet
      <4>4. CASE pr \notin Pending(f)
        <5>1. f \in Elements /\ stack'[f] = IF f = e THEN Seeds[e] ELSE stack[f]
          BY <1>1, <4>1 DEF TypeOK
        <5>2. pr \in Seeds[e]
          BY <2>1, <4>4, <5>1 DEF Pending
        <5>3. k \in Keys /\ \E i \in Keys : k \in Kids[i]
          BY <1>2 DEF Rooted, Shipped, Kids
        <5>4. QED
          BY <1>2, <5>2, <5>3 DEF Rooted, Seeds, Kids
      <4>5. QED
        BY <4>3, <4>4
    <3>2. CASE GoDown(e)
      <4>1. stack' = [stack EXCEPT ![e] = Front(e)] /\ Front(e) \subseteq held[e]
        BY <3>2, LaneStarts DEF Front
      <4>2. \A f \in Elements : Pending(f)' \subseteq Pending(f)
        BY <2>1, <4>1 DEF Pending, TypeOK
      <4>3. QED
        BY <1>4, <4>2
    <3>3. QED
      BY <1>6, <3>1, <3>2 DEF ElementStep
  <2>4. QED
    BY <1>3, <2>1, <2>2, <2>3, OldAsks, OldKeys
<1>7. ASSUME NEW l \in Lanes, Seeded(l) \/ Return(l) \/ Resume(l) \/ Descended(l)
      PROVE  InstallInv'
  <2>1. UNCHANGED <<installed, latch, closed, ipc>>
    BY <1>7 DEF Seeded, Return, Resume, Descended, cacheVars, installVars
  <2>2. \A m \in Lanes, k \in Keys : Asks(m, k)' => Asks(m, k) /\ lane'[m] = lane[m]
    BY <1>7, EndPcs DEF Asks, Asking
  <2>3. \A e \in Elements : Pending(e)' \subseteq Pending(e)
    BY <1>7, PendingFalls DEF AskingStep
  <2>4. QED
    BY <1>3, <1>4, <2>1, <2>2, <2>3, OldAsks, OldKeys
<1>8. ASSUME NEW l \in Lanes, AskCredit(l) \/ AskSend(l) \/ Park(l) \/ WakeCredit(l) \/ WakeSelf(l)
      PROVE  InstallInv'
  <2>1. UNCHANGED <<installed, latch, closed, ipc>>
    BY <1>8 DEF AskCredit, AskSend, Park, WakeCredit, WakeSelf, cacheVars, installVars
  <2>2. \A e \in Elements : Pending(e)' \subseteq Pending(e)
    BY <1>8, PendingFalls DEF AskingStep
  <2>3. \A m \in Lanes : m # l => lane'[m] = lane[m]
    BY <1>8, KeepsFacts DEF AskingStep, KeepsLane
  <2>4. /\ lane[l].pc \in Asking \ {"latch"}
        /\ lane'[l].pc # "travel" => lane'[l].key = lane[l].key
        /\ lane'[l].pc \in {"wake", "self"} => lane[l].pc = "wake" \/ lane[l].key \in closed[ProcessOf[l]]
    BY <1>8, AskingFacts DEF AskingStep, Asking
  <2>5. ASSUME NEW m \in Lanes, NEW k \in Keys, Asks(m, k)'
        PROVE  /\ Asks(m, k)
               /\ lane[m].pc = "latch" => lane'[m].pc = "latch"
               /\ lane'[m].pc \in {"wake", "self"} => k \in closed'[ProcessOf[m]]
    <3>1. Asks(m, k) /\ (lane[m].pc = "latch" => lane'[m].pc = "latch")
      BY <2>3, <2>4, <2>5 DEF Asks, Asking
    <3>2. lane[m].pc \in {"wake", "self"} => k \in closed[ProcessOf[m]]
      BY <3>1, OldAsks
    <3>3. QED
      BY <2>1, <2>3, <2>4, <3>1, <3>2 DEF Asks
  <2>6. QED
    BY <1>3, <1>4, <2>1, <2>2, <2>5, OldKeys
<1>9. ASSUME NEW l \in Lanes, Visit(l)
      PROVE  InstallInv'
  <2>1. UNCHANGED <<installed, latch, closed, ipc, held>>
    BY <1>9 DEF Visit, cacheVars, installVars
  <2>2. PICK e \in Elements : e = lane[l].elem /\ LaneOf[e] = l /\ lane[l].pc = "travel"
    BY <1>9, VisitFacts, LaneFacts DEF LaneInv
  <2>3. PICK pr \in stack[e] :
          /\ pr \in Pairs /\ pr[1] \in Keys
          /\ \/ Open(l, e, pr) /\ lane' = lane
             \/ /\ Miss(l, e, pr)
                /\ lane'[l] = [handler |-> lane[l].handler, elem |-> e, pc |-> "latch", key |-> pr[1]]
    BY <1>9, <2>2, VisitFacts
  <2>4. Home(e) = ProcessOf[l] /\ Home(e) \in Processes /\ e \in ElementsOf(Home(e)) /\ l \in LanesOf(Home(e))
    BY <2>2, LayoutFacts DEF Home, ElementsOf, LanesOf
  <2>5. CASE Open(l, e, pr) /\ lane' = lane
    <3>1. \A m \in Lanes, k \in Keys : Asks(m, k)' => Asks(m, k) /\ lane'[m] = lane[m]
      BY <2>5 DEF Asks
    <3>2. /\ pr[1] \in installed[Home(e)] /\ fresh' = fresh
          /\ stack' = [stack EXCEPT ![e] = (stack[e] \ {pr}) \cup {<<k, pr[2]>> : k \in Kids[pr[1]]}]
      BY <2>5 DEF Open
    <3>3. SUFFICES ASSUME NEW p \in Processes, NEW j \in Keys, NEW k \in Shipped[j] \ {j},
                          j \notin installed[p], NEW f \in ElementsOf(p), NEW qr \in Pending(f)'
                   PROVE  qr[1] # k
      BY <1>1, <1>3, <2>1, <3>1, OldAsks, OldKeys DEF Unmet
    <3>4. ShipOK(p, j, k)
      BY <1>2 DEF InstallInv
    <3>5. CASE qr \in Pending(f)
      BY <3>3, <3>4, <3>5 DEF ShipOK, Unmet
    <3>6. CASE qr \notin Pending(f)
      <4>1. f \in Elements /\ f = e /\ p = Home(e)
        BY <1>1, <2>1, <3>2, <3>6 DEF Pending, TypeOK
      <4>2. qr \in {<<i, pr[2]>> : i \in Kids[pr[1]]}
        BY <2>1, <3>2, <3>6, <4>1 DEF Pending, TypeOK
      <4>3. SUFFICES ASSUME k \in Kids[pr[1]]
                     PROVE  FALSE
        BY <4>2
      <4>4. PICK i \in Shipped[j] : k \in Kids[i]
        BY <1>2 DEF Rooted, Shipped, Kids
      <4>5. i = pr[1]
        BY <1>2, <2>3, <4>3, <4>4 DEF Rooted, Kids
      <4>6. i # j /\ i \in Shipped[j] \ {j}
        BY <3>2, <3>3, <4>1, <4>5
      <4>7. ShipOK(p, j, i)
        BY <4>6 DEF InstallInv
      <4>8. QED
        BY <3>2, <3>3, <4>1, <4>5, <4>7 DEF ShipOK
    <3>7. QED
      BY <3>5, <3>6
  <2>6. CASE Miss(l, e, pr) /\ lane'[l] = [handler |-> lane[l].handler, elem |-> e, pc |-> "latch", key |-> pr[1]]
    <3>1. /\ pr[1] \notin installed[Home(e)]
          /\ stack' = [stack EXCEPT ![e] = stack[e] \ {pr}]
          /\ fresh' = [fresh EXCEPT ![e] = fresh[e] \cup {pr}]
      BY <2>6 DEF Miss
    <3>2. \A m \in Lanes : m # l => lane'[m] = lane[m]
      BY <1>9, KeepsFacts DEF KeepsLane
    <3>3. \A f \in Elements : Pending(f)' \subseteq Pending(f)
      BY <2>1, <2>3, <3>1 DEF Pending, TypeOK
    <3>4. \A p \in Processes, j \in Keys : \A k \in Shipped[j] \ {j} : j \notin installed[p] => Unmet(p, k)'
      BY <1>4, <3>3
    <3>5. \A m \in Lanes, k \in Keys : Asks(m, k)' => (m = l /\ k = pr[1]) \/ (Asks(m, k) /\ m # l)
      BY <2>6, <3>2 DEF Asks
    <3>6. ASSUME NEW p \in Processes, NEW k \in Keys
          PROVE  KeyOK(p, k)'
      <4>1. KeyOK(p, k)
        BY DEF InstallInv
      <4>2. ASSUME NEW m \in LanesOf(p), Asks(m, k)'
            PROVE  AskOK(p, m, k)'
        <5>1. CASE m # l
          <6>1. Asks(m, k) /\ lane'[m] = lane[m]
            BY <1>1, <3>2, <3>5, <4>2, <5>1
          <6>2. AskOK(p, m, k)
            BY <4>1, <6>1 DEF KeyOK
          <6>3. QED
            BY <2>1, <6>1, <6>2 DEF AskOK
        <5>2. CASE m = l
          <6>1. p = Home(e) /\ k = pr[1]
            BY <1>1, <2>4, <3>5, <4>2, <5>2
          <6>2. QED
            BY <2>1, <2>6, <3>1, <5>2, <6>1 DEF AskOK
        <5>3. QED
          BY <5>1, <5>2
      <4>3. QED
        BY <1>1, <1>2, <2>1, <4>1, <4>2 DEF KeyOK
    <3>7. ASSUME NEW p \in Processes, NEW j \in Keys, NEW k \in Shipped[j] \ {j}
          PROVE  ShipOK(p, j, k)'
      <4>1. ShipOK(p, j, k) /\ k \in Keys /\ KeyOK(p, j)
        BY <1>2 DEF InstallInv
      <4>2. ASSUME j \notin installed[p] \/ ipc[p][j] # "none", NEW m \in LanesOf(p), Asks(m, k)'
            PROVE  FALSE
        <5>1. ~ Asks(m, k)
          BY <4>1, <4>2 DEF ShipOK
        <5>2. m = l /\ k = pr[1] /\ p = Home(e)
          BY <1>1, <2>4, <3>5, <4>1, <4>2, <5>1
        <5>3. j \notin installed[p]
          BY <3>1, <4>1, <4>2, <5>2 DEF KeyOK
        <5>4. Unmet(p, k)
          BY <4>1, <5>3 DEF ShipOK
        <5>5. QED
          BY <2>3, <2>4, <5>2, <5>4 DEF Unmet, Pending
      <4>3. QED
        BY <1>1, <2>1, <3>4, <4>1, <4>2 DEF ShipOK
    <3>8. QED
      BY <1>2, <2>1, <3>6, <3>7 DEF InstallInv
  <2>7. QED
    BY <2>3, <2>5, <2>6
<1>10. ASSUME NEW l \in Lanes, Latch(l)
       PROVE  InstallInv'
  <2>1. PICK i \in Keys : i = lane[l].key /\ lane[l].pc = "latch"
    BY <1>10, LaneFacts DEF Latch, Asking
  <2>2. PICK r \in Processes : r = ProcessOf[l]
    BY LayoutFacts
  <2>3. /\ UNCHANGED <<installed, closed, ipc, stack, held, fresh>>
        /\ latch' = [latch EXCEPT ![r] = latch[r] \cup {i}]
    BY <1>10, <2>1, <2>2 DEF Latch, installVars, elemVars
  <2>4. /\ lane'[l].key = i /\ lane'[l].pc \in {"park", "ask"}
        /\ \A m \in Lanes : m # l => lane'[m] = lane[m]
    BY <1>10, <2>1, AskingFacts, KeepsFacts DEF AskingStep, KeepsLane
  <2>5. l \in LanesOf(r) /\ Asks(l, i) /\ AskOK(r, l, i)
    BY <2>1, <2>2, OldAsks DEF LanesOf, Asks, Asking
  <2>6. \A m \in Lanes, k \in Keys : Asks(m, k)' <=> Asks(m, k)
    BY <2>1, <2>4 DEF Asks, Asking
  <2>7. ASSUME NEW p \in Processes, NEW k \in Keys
        PROVE  KeyOK(p, k)'
    <3>1. KeyOK(p, k) /\ latch[p] \subseteq latch'[p]
      BY <2>3 DEF InstallInv, TypeOK
    <3>2. ASSUME NEW m \in LanesOf(p), Asks(m, k)'
          PROVE  AskOK(p, m, k)'
      <4>1. AskOK(p, m, k)
        BY <1>1, <2>6, <3>1, <3>2 DEF KeyOK
      <4>2. CASE m # l
        BY <1>1, <2>3, <2>4, <3>1, <4>1, <4>2 DEF AskOK
      <4>3. CASE m = l
        <5>1. p = r /\ k = i
          BY <1>1, <2>2, <2>4, <3>2, <4>3 DEF Asks
        <5>2. k \in latch'[p]
          BY <2>3, <5>1 DEF TypeOK
        <5>3. QED
          BY <2>4, <4>3, <5>2 DEF AskOK
      <4>4. QED
        BY <4>2, <4>3
    <3>3. k \in latch'[p] /\ ipc[p][k] = "none" => k \notin installed[p]
      <4>1. CASE k \in latch[p]
        BY <3>1, <4>1 DEF KeyOK
      <4>2. CASE k \in latch'[p] /\ k \notin latch[p]
        <5>1. p = r /\ k = i
          BY <2>3, <4>2 DEF TypeOK
        <5>2. QED
          BY <2>5, <4>2, <5>1 DEF AskOK
      <4>3. QED
        BY <4>1, <4>2
    <3>4. QED
      BY <1>1, <1>2, <2>3, <3>1, <3>2, <3>3 DEF KeyOK
  <2>8. ASSUME NEW p \in Processes, NEW j \in Keys, NEW k \in Shipped[j] \ {j}
        PROVE  ShipOK(p, j, k)'
    <3>1. ShipOK(p, j, k) /\ k \in Keys
      BY <1>2 DEF InstallInv
    <3>2. Unmet(p, k)' <=> Unmet(p, k)
      BY <1>1, <2>3 DEF Unmet, Pending
    <3>3. j \notin installed[p] \/ ipc[p][j] # "none" => k \notin latch'[p]
      BY <2>3, <2>5, <3>1 DEF ShipOK, TypeOK
    <3>4. QED
      BY <1>1, <2>3, <2>6, <3>1, <3>2, <3>3 DEF ShipOK
  <2>9. QED
    BY <1>2, <2>3, <2>7, <2>8 DEF InstallInv
<1>11. ASSUME NEW r \in Processes, NEW i \in Keys, ReplyStep(r, i), ~ Install(r, i)
       PROVE  InstallInv'
  <2>1. UNCHANGED <<lane, latch, stack, held, fresh, installed>>
    BY <1>11, ReplyFrame DEF ReplyStep, Serve, Drain, LaneCredit, WakeLane, ReturnRequest, elemVars, cacheVars
  <2>2. \A e \in Elements : Pending(e)' \subseteq Pending(e)
    BY <2>1 DEF Pending
  <2>3. \A p \in Processes, k \in Keys : ipc'[p][k] # "none" <=> ipc[p][k] # "none"
    <3>1. \/ ipc' = ipc
          \/ ipc[r][i] # "none" /\ \E x \in {"wake", "send", "done"} : ipc' = [ipc EXCEPT ![r][i] = x]
      BY <1>11 DEF ReplyStep, Serve, Drain, LaneCredit, WakeLane, ReturnRequest, installVars
    <3>2. ipc \in [Processes -> [Keys -> {"none", "drain", "wake", "send", "done"}]]
      BY DEF TypeOK
    <3>3. QED
      BY <3>1, <3>2
  <2>4. KeyOK(r, i) /\ i \in Shipped[i]
    BY <1>2 DEF InstallInv, Rooted, Shipped
  <2>5. ASSUME NEW p \in Processes
        PROVE  /\ closed[p] \subseteq closed'[p] /\ closed'[p] \subseteq installed[p]
               /\ \A k \in Keys : ipc'[p][k] \in {"wake", "send", "done"} => k \in closed'[p]
    <3>1. CASE Drain(r, i)
      <4>1. /\ closed' = [closed EXCEPT ![r] = closed[r] \cup Shipped[i]]
            /\ ipc' = [ipc EXCEPT ![r][i] = "wake"] /\ ipc[r][i] = "drain"
        BY <3>1 DEF Drain
      <4>2. Shipped[i] \subseteq installed[r]
        BY <2>4, <4>1 DEF KeyOK
      <4>3. closed[p] \subseteq closed'[p] /\ closed'[p] \subseteq installed[p]
        BY <4>1, <4>2, OldKeys DEF TypeOK
      <4>4. \A k \in Keys : ipc'[p][k] \in {"wake", "send", "done"} => k \in closed'[p]
        <5>1. ipc \in [Processes -> [Keys -> {"none", "drain", "wake", "send", "done"}]]
          BY DEF TypeOK
        <5>2. \A k \in Keys : (p = r /\ k = i) \/ ipc'[p][k] = ipc[p][k]
          BY <4>1, <5>1
        <5>3. i \in closed'[r]
          BY <2>4, <4>1 DEF TypeOK
        <5>4. QED
          BY <4>3, <5>2, <5>3, OldKeys
      <4>5. QED
        BY <4>3, <4>4
    <3>2. CASE ~ Drain(r, i)
      <4>1. closed' = closed
        BY <1>11, <3>2 DEF ReplyStep, Serve, LaneCredit, WakeLane, ReturnRequest, cacheVars
      <4>2. \A k \in Keys : ipc'[p][k] \in {"wake", "send", "done"} => ipc[p][k] \in {"wake", "send", "done"}
        <5>1. \/ ipc' = ipc
              \/ ipc[r][i] \in {"wake", "send"} /\ \E x \in {"wake", "send", "done"} : ipc' = [ipc EXCEPT ![r][i] = x]
          BY <1>11, <3>2 DEF ReplyStep, Serve, LaneCredit, WakeLane, ReturnRequest, installVars
        <5>2. ipc \in [Processes -> [Keys -> {"none", "drain", "wake", "send", "done"}]]
          BY DEF TypeOK
        <5>3. QED
          BY <5>1, <5>2
      <4>3. QED
        BY <4>1, <4>2, OldKeys
    <3>3. QED
      BY <3>1, <3>2
  <2>6. \A m \in Lanes, k \in Keys : Asks(m, k)' =>
          /\ Asks(m, k)
          /\ lane[m].pc = "latch" => lane'[m].pc = "latch"
          /\ lane'[m].pc \in {"wake", "self"} => k \in closed'[ProcessOf[m]]
    BY <2>1, <2>5, OldAsks DEF Asks
  <2>7. QED
    BY <1>3, <1>4, <2>1, <2>2, <2>3, <2>5, <2>6
<1>12. ASSUME NEW r \in Processes, NEW i \in Keys, Install(r, i)
       PROVE  InstallInv'
  <2>1. /\ UNCHANGED <<lane, latch, stack, held, fresh, closed>>
        /\ installed' = [installed EXCEPT ![r] = installed[r] \cup Shipped[i]]
        /\ ipc' = [ipc EXCEPT ![r][i] = "drain"]
    BY <1>12 DEF Install, elemVars
  <2>2. i \in latch[r] /\ ipc[r][i] = "none" /\ i \notin installed[r]
    <3>1. RequestOK(r, i) /\ requests[r][i] \in Nat /\ replies[r][i] \in Nat /\ replies[r][i] > 0
      BY <1>12 DEF Install, RequestInv, TypeOK
    <3>2. requests[r][i] + replies[r][i] = 1
      BY <3>1 DEF RequestOK
    <3>3. i \in latch[r] /\ ipc[r][i] = "none"
      BY <3>1, <3>2 DEF RequestOK
    <3>4. QED
      BY <3>3 DEF InstallInv, KeyOK
  <2>3. /\ installed'[r] = installed[r] \cup Shipped[i]
        /\ \A p \in Processes : p # r => installed'[p] = installed[p]
        /\ ipc'[r][i] = "drain"
        /\ \A p \in Processes, k \in Keys : p # r \/ k # i => ipc'[p][k] = ipc[p][k]
    BY <2>1 DEF TypeOK
  <2>4. \A k \in Shipped[i] \ {i} : k \notin latch[r] /\ \A l \in LanesOf(r) : ~ Asks(l, k)
    BY <2>2 DEF InstallInv, ShipOK
  <2>5. ASSUME NEW p \in Processes, NEW k \in Keys
        PROVE  KeyOK(p, k)'
    <3>1. KeyOK(p, k)
      BY DEF InstallInv
    <3>2. ASSUME NEW m \in LanesOf(p), Asks(m, k)'
          PROVE  AskOK(p, m, k)'
      <4>1. Asks(m, k) /\ AskOK(p, m, k)
        BY <2>1, <3>1, <3>2 DEF Asks, KeyOK
      <4>2. k \in installed'[p] => k \in latch[p]
        BY <2>2, <2>3, <2>4, <4>1 DEF AskOK
      <4>3. QED
        BY <2>1, <4>1, <4>2 DEF AskOK
    <3>3. ipc'[p][k] # "none" => Shipped[k] \subseteq installed'[p]
      BY <2>3, <3>1 DEF KeyOK
    <3>4. ipc'[p][k] \in {"wake", "send", "done"} => k \in closed[p]
      BY <2>3, <3>1 DEF KeyOK
    <3>5. k \in latch[p] /\ ipc'[p][k] = "none" => k \notin installed'[p]
      BY <2>2, <2>3, <2>4, <3>1 DEF KeyOK
    <3>6. QED
      BY <1>1, <1>2, <2>1, <3>2, <3>3, <3>4, <3>5 DEF KeyOK
  <2>6. ASSUME NEW p \in Processes, NEW j \in Keys, NEW k \in Shipped[j] \ {j}
        PROVE  ShipOK(p, j, k)'
    <3>1. ShipOK(p, j, k) /\ k \in Keys
      BY <1>2 DEF InstallInv
    <3>2. CASE p # r
      BY <1>1, <2>1, <2>3, <3>1, <3>2 DEF ShipOK, Asks, Unmet, Pending
    <3>3. CASE p = r
      <4>1. j \notin installed'[p] \/ ipc'[p][j] # "none" => j \notin installed[p] \/ ipc[p][j] # "none"
        BY <2>2, <2>3, <3>3
      <4>2. ASSUME j \notin installed'[p]
            PROVE  k \notin installed'[p] /\ Unmet(p, k)
        <5>1. j \notin installed[p] /\ j \notin Shipped[i] /\ j # i
          BY <1>2, <2>3, <3>3, <4>2 DEF Rooted, Shipped
        <5>2. k \notin Shipped[i]
          <6>1. SUFFICES ASSUME k \in Shipped[i]
                         PROVE  FALSE
            OBVIOUS
          <6>2. i \in Shipped[j] \ {j}
            BY <1>2, <5>1, <6>1 DEF Rooted, Shipped
          <6>3. ShipOK(p, j, i)
            BY <6>2 DEF InstallInv
          <6>4. QED
            BY <2>2, <3>3, <5>1, <6>3 DEF ShipOK
        <5>3. QED
          BY <2>3, <3>1, <3>3, <5>1, <5>2 DEF ShipOK
      <4>3. QED
        BY <1>1, <2>1, <3>1, <4>1, <4>2 DEF ShipOK, Asks, Unmet, Pending
    <3>4. QED
      BY <3>2, <3>3
  <2>7. \A p \in Processes : closed'[p] \subseteq installed'[p]
    BY <2>1, <2>3, OldKeys
  <2>8. QED
    BY <1>2, <2>5, <2>6, <2>7 DEF InstallInv
<1>13. QED
  BY <1>5, <1>6, <1>7, <1>8, <1>9, <1>10, <1>11, <1>12 DEF Next, LaneStep, ReplyStep

LEMMA ParkedStepInv ==
  ASSUME IInv, Next
  PROVE  ParkedInv'
<1> USE DEF IInv
<1>1. ASSUME UNCHANGED <<parked, toWake, ipc, closed>>, \A p \in Processes : latch[p] \subseteq latch'[p]
      PROVE  ParkedInv'
  BY <1>1, LayoutKept DEF ParkedInv, ParkedOK
<1>2. CASE DriverStep \/ Over
  BY <1>1, <1>2, DriverFrame DEF cacheVars, installVars
<1>3. ASSUME NEW e \in Elements, ElementStep(e)
      PROVE  ParkedInv'
  BY <1>1, <1>3, ElementFrame DEF cacheVars, installVars
<1>4. ASSUME NEW l \in Lanes, LaneStep(l), ~ Park(l)
      PROVE  ParkedInv'
  <2>1. UNCHANGED <<parked, toWake, ipc, closed>>
    BY <1>4 DEF LaneStep, Visit, Latch, AskCredit, AskSend, WakeCredit, WakeSelf, Seeded, Descended,
                Resume, Return, cacheVars, installVars
  <2>2. latch' = latch \/ latch' = [latch EXCEPT ![ProcessOf[l]] = latch[ProcessOf[l]] \cup {lane[l].key}]
    BY <1>4 DEF LaneStep, Visit, Latch, AskCredit, AskSend, WakeCredit, WakeSelf, Seeded, Descended,
                Resume, Return, cacheVars
  <2>3. \A p \in Processes : latch[p] \subseteq latch'[p]
    <3>1. CASE latch' = [latch EXCEPT ![ProcessOf[l]] = latch[ProcessOf[l]] \cup {lane[l].key}]
      BY <3>1 DEF TypeOK
    <3>2. QED
      BY <2>2, <3>1
  <2>4. QED
    BY <1>1, <2>1, <2>3
<1>5. ASSUME NEW l \in Lanes, Park(l)
      PROVE  ParkedInv'
  <2>1. PICK i \in Keys : i = lane[l].key /\ lane[l].pc = "park"
    BY <1>5, LaneFacts DEF Park, Asking
  <2>2. PICK e \in Elements : e = lane[l].elem /\ LaneOf[e] = l
    BY <2>1, LaneFacts DEF LaneInv, Asking
  <2>3. PICK r \in Processes : r = ProcessOf[l] /\ e \in ElementsOf(r)
    BY <2>2, LayoutFacts DEF ElementsOf, Home
  <2>4. i \in latch[r]
    BY <2>1, <2>3, OldAsks DEF Asks, Asking, AskOK
  <2>5. UNCHANGED <<toWake, ipc, closed, latch>>
    BY <1>5 DEF Park, installVars
  <2>6. CASE i \in closed[r]
    BY <1>1, <1>5, <2>1, <2>3, <2>5, <2>6 DEF Park
  <2>7. CASE i \notin closed[r]
    <3>1. parked' = [parked EXCEPT ![r][i] = parked[r][i] \cup {e}]
      BY <1>5, <2>1, <2>2, <2>3, <2>7 DEF Park
    <3>2. /\ parked'[r][i] = parked[r][i] \cup {e}
          /\ \A p \in Processes, k \in Keys : p # r \/ k # i => parked'[p][k] = parked[p][k]
      BY <3>1 DEF TypeOK
    <3>3. ASSUME NEW p \in Processes, NEW k \in Keys
          PROVE  ParkedOK(p, k)'
      <4>1. ParkedOK(p, k) /\ ElementsOf(p)' = ElementsOf(p)
        BY LayoutKept DEF ParkedInv
      <4>2. CASE p = r /\ k = i
        BY <2>3, <2>4, <2>5, <2>7, <3>2, <4>1, <4>2 DEF ParkedOK
      <4>3. CASE p # r \/ k # i
        BY <2>5, <3>2, <4>1, <4>3 DEF ParkedOK
      <4>4. QED
        BY <4>2, <4>3
    <3>4. QED
      BY <3>3 DEF ParkedInv
  <2>8. QED
    BY <2>6, <2>7
<1>6. ASSUME NEW r \in Processes, NEW i \in Keys, ReplyStep(r, i)
      PROVE  ParkedInv'
  <2>1. /\ ipc \in [Processes -> [Keys -> {"none", "drain", "wake", "send", "done"}]]
        /\ toWake \in [Processes -> [Keys -> SUBSET Elements]]
        /\ parked \in [Processes -> [Keys -> SUBSET Elements]]
        /\ closed \in [Processes -> SUBSET Keys]
    BY DEF TypeOK
  <2>2. latch' = latch
    BY <1>6, ReplyFrame
  <2>3. CASE Serve(r, i)
    BY <1>1, <2>2, <2>3 DEF Serve, cacheVars, installVars
  <2>4. CASE Drain(r, i)
    <3>1. /\ closed' = [closed EXCEPT ![r] = closed[r] \cup Shipped[i]]
          /\ toWake' = [toWake EXCEPT ![r][i] = parked[r][i]]
          /\ parked' = [parked EXCEPT ![r][i] = {}]
          /\ ipc' = [ipc EXCEPT ![r][i] = "wake"] /\ ipc[r][i] = "drain"
      BY <2>4 DEF Drain
    <3>2. \A k \in Shipped[i] \ {i} : k \notin latch[r]
      BY <3>1 DEF InstallInv, ShipOK
    <3>3. ASSUME NEW p \in Processes, NEW k \in Keys
          PROVE  ParkedOK(p, k)'
      <4>1. ParkedOK(p, k) /\ ElementsOf(p)' = ElementsOf(p)
        BY LayoutKept DEF ParkedInv
      <4>2. CASE p = r /\ k = i
        <5>1. parked'[p][k] = {} /\ toWake'[p][k] = parked[p][k] /\ ipc'[p][k] = "wake"
          BY <2>1, <3>1, <4>2
        <5>2. QED
          BY <4>1, <5>1 DEF ParkedOK
      <4>3. CASE p # r \/ k # i
        <5>1. parked'[p][k] = parked[p][k] /\ toWake'[p][k] = toWake[p][k] /\ ipc'[p][k] = ipc[p][k]
          BY <2>1, <3>1, <4>3
        <5>2. k \in latch[p] /\ k \notin closed[p] => k \notin closed'[p]
          BY <2>1, <3>1, <3>2, <4>3
        <5>3. QED
          BY <2>2, <4>1, <5>1, <5>2 DEF ParkedOK
      <4>4. QED
        BY <4>2, <4>3
    <3>4. QED
      BY <3>3 DEF ParkedInv
  <2>5. CASE ~ Serve(r, i) /\ ~ Drain(r, i)
    <3>1. UNCHANGED <<parked, closed>>
      BY <1>6, <2>5 DEF ReplyStep, Install, LaneCredit, WakeLane, ReturnRequest, cacheVars
    <3>2. /\ toWake'[r][i] \subseteq toWake[r][i]
          /\ toWake'[r][i] # {} => ipc'[r][i] \in {"wake", "send"}
          /\ ipc'[r][i] = "send" => toWake'[r][i] # {}
      <4>1. ParkedOK(r, i)
        BY DEF ParkedInv
      <4>2. CASE Install(r, i)
        <5>1. toWake' = toWake /\ ipc'[r][i] = "drain" /\ ipc[r][i] \in {"none", "done"}
          BY <2>1, <4>2 DEF Install
        <5>2. QED
          BY <4>1, <5>1 DEF ParkedOK
      <4>3. CASE LaneCredit(r, i)
        <5>1. toWake' = toWake /\ ipc'[r][i] = "send" /\ toWake[r][i] # {}
          BY <2>1, <4>3 DEF LaneCredit
        <5>2. QED
          BY <5>1
      <4>4. CASE WakeLane(r, i)
        <5>1. PICK e \in toWake[r][i] : toWake' = [toWake EXCEPT ![r][i] = toWake[r][i] \ WaitersOn(r, i, LaneOf[e])]
          BY <4>4 DEF WakeLane, SendResume
        <5>2. ipc'[r][i] = "wake"
          BY <2>1, <4>4 DEF WakeLane
        <5>3. QED
          BY <2>1, <5>1, <5>2
      <4>5. CASE ReturnRequest(r, i)
        <5>1. toWake' = toWake /\ ipc'[r][i] = "done" /\ toWake[r][i] = {}
          BY <2>1, <4>5 DEF ReturnRequest
        <5>2. QED
          BY <5>1
      <4>6. QED
        BY <1>6, <2>5, <4>2, <4>3, <4>4, <4>5 DEF ReplyStep
    <3>3. \A p \in Processes, k \in Keys : p # r \/ k # i =>
            toWake'[p][k] = toWake[p][k] /\ ipc'[p][k] = ipc[p][k]
      BY <1>6, <2>1, <2>5 DEF ReplyStep, Install, LaneCredit, WakeLane, SendResume, ReturnRequest
    <3>4. ASSUME NEW p \in Processes, NEW k \in Keys
          PROVE  ParkedOK(p, k)'
      <4>1. ParkedOK(p, k) /\ ElementsOf(p)' = ElementsOf(p)
        BY LayoutKept DEF ParkedInv
      <4>2. CASE p = r /\ k = i
        BY <2>2, <3>1, <3>2, <4>1, <4>2 DEF ParkedOK
      <4>3. CASE p # r \/ k # i
        BY <2>2, <3>1, <3>3, <4>1, <4>3 DEF ParkedOK
      <4>4. QED
        BY <4>2, <4>3
    <3>5. QED
      BY <3>4 DEF ParkedInv
  <2>6. QED
    BY <2>3, <2>4, <2>5
<1>7. QED
  BY <1>2, <1>3, <1>4, <1>5, <1>6 DEF Next

LEMMA MailStepInv ==
  ASSUME IInv, Next, TypeOK'
  PROVE  MailInv'
<1> USE DEF IInv
<1>1. /\ ProcessOf' = ProcessOf /\ LaneOf' = LaneOf
      /\ \A l \in Lanes : ProcessOf[l] \in Processes
      /\ \A m \in resumes : /\ m.to \in Lanes /\ m.key \in Keys /\ m.elems \subseteq Elements
                            /\ ProcessOf[m.to] \in Processes /\ MailOK(ProcessOf[m.to], m)
  BY LayoutKept, LayoutFacts DEF MailInv, TypeOK
<1>2. ASSUME \A p \in Processes : installed[p] \subseteq installed'[p],
             \A p \in Processes, k \in Keys :
               ipc[p][k] \notin {"none", "drain"} =>
                 ipc'[p][k] \notin {"none", "drain"} /\ toWake'[p][k] \subseteq toWake[p][k]
      PROVE  \A m \in resumes : MailOK(ProcessOf[m.to], m)'
  BY <1>1, <1>2 DEF MailOK
<1>3. ASSUME NEW m \in resumes, NEW l \in Lanes, NEW k \in Keys, m = SelfMessage(l, k)
      PROVE  k \in installed[ProcessOf[l]]
  <2>1. m.to = l /\ m.key = k
    BY <1>3 DEF SelfMessage
  <2>2. QED
    BY <1>1, <1>3, <2>1 DEF MailOK
<1>4. ASSUME resumes' \subseteq resumes, UNCHANGED <<installed, ipc, toWake>>,
             \A l \in Lanes, k \in Keys : Asks(l, k)' =>
               \/ k \notin installed[ProcessOf[l]]
               \/ Asks(l, k) /\ lane'[l].elem = lane[l].elem
      PROVE  MailInv'
  <2>1. IsFiniteSet(resumes')
    BY <1>4, FS_Subset DEF MailInv
  <2>2. \A m \in resumes' : MailOK(ProcessOf[m.to], m)'
    BY <1>2, <1>4
  <2>3. ASSUME NEW l \in Lanes, NEW k \in Keys, Asks(l, k)'
        PROVE  SelfMessage(l, k)' \notin resumes'
    <3>1. CASE k \notin installed[ProcessOf[l]]
      <4>1. SUFFICES ASSUME SelfMessage(l, k)' \in resumes'
                     PROVE  FALSE
        OBVIOUS
      <4>2. PICK m \in resumes : m.to = l /\ m.key = k
        BY <1>4, <4>1 DEF SelfMessage
      <4>3. QED
        BY <1>1, <3>1, <4>2 DEF MailOK
    <3>2. CASE Asks(l, k) /\ lane'[l].elem = lane[l].elem
      BY <1>4, <3>2 DEF MailInv, SelfMessage
    <3>3. QED
      BY <1>4, <2>3, <3>1, <3>2
  <2>4. QED
    BY <1>1, <2>1, <2>2, <2>3 DEF MailInv
<1>5. CASE DriverStep \/ Over
  <2>1. UNCHANGED <<installed, ipc, toWake, lane, resumes>>
    BY <1>5, DriverFrame DEF cacheVars, installVars, messageVars
  <2>2. QED
    BY <1>4, <2>1 DEF Asks
<1>6. ASSUME NEW e \in Elements, ElementStep(e)
      PROVE  MailInv'
  <2>1. UNCHANGED <<installed, ipc, toWake, resumes>>
    BY <1>6, ElementFrame DEF cacheVars, installVars, messageVars
  <2>2. \A l \in Lanes, k \in Keys : Asks(l, k)' => Asks(l, k) /\ lane'[l] = lane[l]
    BY <1>6, StartPcs DEF Asks, Asking
  <2>3. QED
    BY <1>4, <2>1, <2>2
<1>7. ASSUME NEW l \in Lanes, Seeded(l) \/ Return(l) \/ Resume(l) \/ Descended(l)
      PROVE  MailInv'
  <2>1. UNCHANGED <<installed, ipc, toWake>> /\ resumes' \subseteq resumes
    BY <1>7 DEF Seeded, Return, Resume, Process, Descended, cacheVars, installVars, messageVars
  <2>2. \A m \in Lanes, k \in Keys : Asks(m, k)' => Asks(m, k) /\ lane'[m] = lane[m]
    BY <1>7, EndPcs DEF Asks, Asking
  <2>3. QED
    BY <1>4, <2>1, <2>2
<1>8. ASSUME NEW l \in Lanes, AskingStep(l), ~ WakeSelf(l)
      PROVE  MailInv'
  <2>1. UNCHANGED <<installed, ipc, toWake, resumes>>
    BY <1>8 DEF AskingStep, Latch, AskCredit, AskSend, Park, WakeCredit, cacheVars, installVars, messageVars
  <2>2. /\ \A m \in Lanes : m # l => lane'[m] = lane[m]
        /\ lane'[l].elem = lane[l].elem
    BY <1>8, KeepsFacts DEF KeepsLane
  <2>3. lane[l].pc \in Asking /\ (lane'[l].pc # "travel" => lane'[l].key = lane[l].key)
    BY <1>8, AskingFacts DEF AskingStep, Asking
  <2>4. \A m \in Lanes, k \in Keys : Asks(m, k)' => Asks(m, k) /\ lane'[m].elem = lane[m].elem
    BY <2>2, <2>3 DEF Asks, Asking
  <2>5. QED
    BY <1>4, <2>1, <2>4
<1>9. ASSUME NEW l \in Lanes, Visit(l)
      PROVE  MailInv'
  <2>1. UNCHANGED <<installed, ipc, toWake, resumes>>
    BY <1>9 DEF Visit, cacheVars, installVars, messageVars
  <2>2. PICK e \in Elements : e = lane[l].elem /\ LaneOf[e] = l /\ lane[l].pc = "travel"
    BY <1>9, VisitFacts, LaneFacts DEF LaneInv
  <2>3. PICK pr \in stack[e] :
          \/ lane' = lane
          \/ /\ Miss(l, e, pr)
             /\ lane'[l] = [handler |-> lane[l].handler, elem |-> e, pc |-> "latch", key |-> pr[1]]
    BY <1>9, <2>2, VisitFacts
  <2>4. \A m \in Lanes : m # l => lane'[m] = lane[m]
    BY <1>9, KeepsFacts DEF KeepsLane
  <2>5. ASSUME NEW m \in Lanes, NEW k \in Keys, Asks(m, k)'
        PROVE  \/ k \notin installed[ProcessOf[m]]
               \/ Asks(m, k) /\ lane'[m].elem = lane[m].elem
    <3>1. CASE lane' = lane
      BY <2>5, <3>1 DEF Asks
    <3>2. CASE /\ Miss(l, e, pr)
               /\ lane'[l] = [handler |-> lane[l].handler, elem |-> e, pc |-> "latch", key |-> pr[1]]
      BY <2>2, <2>4, <2>5, <3>2 DEF Asks, Miss, Home
    <3>3. QED
      BY <2>3, <3>1, <3>2
  <2>6. QED
    BY <1>4, <2>1, <2>5
<1>10. ASSUME NEW l \in Lanes, WakeSelf(l)
       PROVE  MailInv'
  <2>1. PICK i \in Keys : i = lane[l].key /\ lane[l].pc = "self"
    BY <1>10, LaneFacts DEF WakeSelf, Asking
  <2>2. PICK e \in Elements : e = lane[l].elem /\ LaneOf[e] = l
    BY <2>1, LaneFacts DEF LaneInv, Asking
  <2>3. PICK m : m = SelfMessage(l, i) /\ m = [to |-> l, key |-> i, elems |-> {e}, by |-> "self"]
    BY <2>2 DEF SelfMessage
  <2>4. /\ UNCHANGED <<installed, ipc, toWake>> /\ resumes' = resumes \cup {m}
        /\ lane'[l].pc = "travel" /\ \A n \in Lanes : n # l => lane'[n] = lane[n]
    BY <1>10, <2>1, <2>2, <2>3, AskingFacts, KeepsFacts DEF WakeSelf, AskingStep, KeepsLane, cacheVars, installVars
  <2>5. i \in installed[ProcessOf[l]]
    BY <2>1, OldAsks, OldKeys DEF Asks, Asking
  <2>6. MailOK(ProcessOf[m.to], m)'
    BY <1>1, <2>2, <2>3, <2>4, <2>5 DEF MailOK
  <2>7. \A n \in resumes : MailOK(ProcessOf[n.to], n)'
    BY <1>2, <2>4
  <2>8. IsFiniteSet(resumes')
    BY <2>4, FS_AddElement DEF MailInv
  <2>9. ASSUME NEW n \in Lanes, NEW k \in Keys, Asks(n, k)'
        PROVE  SelfMessage(n, k)' \notin resumes'
    <3>1. n # l /\ Asks(n, k) /\ lane'[n] = lane[n]
      BY <2>4, <2>9 DEF Asks, Asking
    <3>2. SelfMessage(n, k)' = SelfMessage(n, k) /\ SelfMessage(n, k) \notin resumes
      BY <3>1 DEF SelfMessage, MailInv
    <3>3. SelfMessage(n, k) # m
      BY <2>3, <3>1 DEF SelfMessage
    <3>4. QED
      BY <2>4, <3>2, <3>3
  <2>10. QED
    BY <1>1, <2>4, <2>6, <2>7, <2>8, <2>9 DEF MailInv
<1>11. ASSUME NEW r \in Processes, NEW i \in Keys, ReplyStep(r, i), ~ WakeLane(r, i)
       PROVE  MailInv'
  <2>1. UNCHANGED <<resumes, lane>>
    BY <1>11, ReplyFrame DEF ReplyStep, Serve, Install, Drain, LaneCredit, ReturnRequest, messageVars
  <2>2. \A p \in Processes : installed[p] \subseteq installed'[p]
    <3>1. installed' = installed \/ installed' = [installed EXCEPT ![r] = installed[r] \cup Shipped[i]]
      BY <1>11 DEF ReplyStep, Serve, Install, Drain, LaneCredit, ReturnRequest, cacheVars
    <3>2. CASE installed' = [installed EXCEPT ![r] = installed[r] \cup Shipped[i]]
      BY <3>2 DEF TypeOK
    <3>3. QED
      BY <3>1, <3>2
  <2>3. \A p \in Processes, k \in Keys :
          ipc[p][k] \notin {"none", "drain"} =>
            ipc'[p][k] \notin {"none", "drain"} /\ toWake'[p][k] \subseteq toWake[p][k]
    <3>1. /\ ipc \in [Processes -> [Keys -> {"none", "drain", "wake", "send", "done"}]]
          /\ toWake \in [Processes -> [Keys -> SUBSET Elements]]
      BY DEF TypeOK
    <3>2. Install(r, i) => ipc[r][i] = "none"
      <4>1. ASSUME Install(r, i)
            PROVE  ipc[r][i] = "none"
        <5>1. RequestOK(r, i) /\ requests[r][i] \in Nat /\ replies[r][i] \in Nat /\ replies[r][i] > 0
          BY <4>1 DEF Install, RequestInv, TypeOK
        <5>2. requests[r][i] + replies[r][i] = 1
          BY <5>1 DEF RequestOK
        <5>3. QED
          BY <5>1, <5>2 DEF RequestOK
      <4>2. QED
        BY <4>1
    <3>3. \/ UNCHANGED <<ipc, toWake>>
          \/ ipc[r][i] \in {"none", "drain"} /\ \E x, y : ipc' = [ipc EXCEPT ![r][i] = x] /\ toWake' = [toWake EXCEPT ![r][i] = y]
          \/ toWake' = toWake /\ \E x \in {"send", "done"} : ipc' = [ipc EXCEPT ![r][i] = x]
      <4>1. toWake' = [toWake EXCEPT ![r][i] = toWake[r][i]] \/ toWake' # toWake
        BY <3>1
      <4>2. QED
        BY <1>11, <3>2, <4>1 DEF ReplyStep, Serve, Install, Drain, LaneCredit, ReturnRequest, installVars
    <3>4. QED
      BY <3>1, <3>3
  <2>4. \A m \in resumes : MailOK(ProcessOf[m.to], m)'
    BY <1>2, <2>2, <2>3
  <2>5. QED
    BY <1>1, <2>1, <2>4 DEF MailInv, Asks, SelfMessage
<1>12. ASSUME NEW r \in Processes, NEW i \in Keys, WakeLane(r, i)
       PROVE  MailInv'
  <2>1. PICK e \in toWake[r][i] : SendResume(r, i, LaneOf[e])
    BY <1>12 DEF WakeLane
  <2>2. PICK m : m = [to |-> LaneOf[e], key |-> i, elems |-> WaitersOn(r, i, LaneOf[e]), by |-> "install"]
    OBVIOUS
  <2>3. /\ UNCHANGED <<installed, lane>> /\ resumes' = resumes \cup {m}
        /\ toWake' = [toWake EXCEPT ![r][i] = toWake[r][i] \ WaitersOn(r, i, LaneOf[e])]
        /\ ipc' = [ipc EXCEPT ![r][i] = "wake"] /\ ipc[r][i] = "send"
    BY <1>12, <2>1, <2>2 DEF WakeLane, SendResume, cacheVars
  <2>4. /\ toWake'[r][i] = toWake[r][i] \ WaitersOn(r, i, LaneOf[e]) /\ ipc'[r][i] = "wake"
        /\ \A p \in Processes, k \in Keys : p # r \/ k # i => toWake'[p][k] = toWake[p][k] /\ ipc'[p][k] = ipc[p][k]
    <3>1. /\ ipc \in [Processes -> [Keys -> {"none", "drain", "wake", "send", "done"}]]
          /\ toWake \in [Processes -> [Keys -> SUBSET Elements]]
      BY DEF TypeOK
    <3>2. QED
      BY <2>3, <3>1
  <2>5. e \in Elements /\ ProcessOf[LaneOf[e]] = r
    BY DEF ParkedInv, ParkedOK, ElementsOf, Home
  <2>6. i \in installed[r]
    BY <2>3, LayoutFacts DEF InstallInv, KeyOK, Rooted, Shipped
  <2>7. MailOK(ProcessOf[m.to], m)'
    BY <1>1, <2>2, <2>3, <2>4, <2>5, <2>6 DEF MailOK, WaitersOn
  <2>8. \A n \in resumes : MailOK(ProcessOf[n.to], n)'
    BY <1>2, <2>3, <2>4
  <2>9. IsFiniteSet(resumes')
    BY <2>3, FS_AddElement DEF MailInv
  <2>10. ASSUME NEW n \in Lanes, NEW k \in Keys, Asks(n, k)'
         PROVE  SelfMessage(n, k)' \notin resumes'
    <3>1. SelfMessage(n, k)' = SelfMessage(n, k) /\ SelfMessage(n, k) \notin resumes
      BY <2>3, <2>10 DEF SelfMessage, MailInv, Asks
    <3>2. SelfMessage(n, k) # m
      BY <2>2 DEF SelfMessage
    <3>3. QED
      BY <2>3, <3>1, <3>2
  <2>11. QED
    BY <1>1, <2>3, <2>7, <2>8, <2>9, <2>10 DEF MailInv
<1>13. QED
  BY <1>5, <1>6, <1>7, <1>8, <1>9, <1>10, <1>11, <1>12 DEF Next, LaneStep, AskingStep, ReplyStep

-----------------------------------------------------------------------------
(* The count of the credits.                                               *)

LEMMA SetsKept ==
  ASSUME Next, NEW p \in Processes
  PROVE  /\ UNCHANGED ipc => Sending(p)' = Sending(p)
         /\ UNCHANGED resumes => Mail(p)' = Mail(p)
         /\ UNCHANGED goDowns => Going(p)' = Going(p)
         /\ UNCHANGED lane => SelfWaking(p)' = SelfWaking(p) /\ Handling(p)' = Handling(p)
         /\ UNCHANGED <<requests, replies, ipc, lane>> => Owed(p)' = Owed(p)
         /\ UNCHANGED released => OpenCredit(p)' = OpenCredit(p)
BY LayoutKept DEF Sending, Mail, Going, SelfWaking, Handling, Owed, Outstanding, OpenCredit

\* What the step of one lane changes.
LEMMA LaneSetsKept ==
  ASSUME Next, NEW l \in Lanes, \A m \in Lanes : m # l => lane'[m] = lane[m], NEW p \in Processes
  PROVE  /\ (lane'[l].pc = "self" <=> lane[l].pc = "self") \/ p # ProcessOf[l] =>
              SelfWaking(p)' = SelfWaking(p)
         /\ \/ lane'[l].handler \in {"goDown", "process"} <=> lane[l].handler \in {"goDown", "process"}
            \/ p # ProcessOf[l]
            => Handling(p)' = Handling(p)
         /\ /\ (lane'[l].pc # "send" /\ lane[l].pc # "send") \/ p # ProcessOf[l]
            /\ UNCHANGED <<requests, replies, ipc>>
            => Owed(p)' = Owed(p)
<1>1. LanesOf(p)' = LanesOf(p) /\ LanesOf(p) \subseteq Lanes /\ \A m \in LanesOf(p) : ProcessOf[m] = p
  BY LayoutKept DEF LanesOf
<1>2. (lane'[l].pc = "self" <=> lane[l].pc = "self") \/ p # ProcessOf[l] =>
        SelfWaking(p)' = SelfWaking(p)
  BY <1>1 DEF SelfWaking
<1>3. ASSUME \/ lane'[l].handler \in {"goDown", "process"} <=> lane[l].handler \in {"goDown", "process"}
             \/ p # ProcessOf[l]
      PROVE  Handling(p)' = Handling(p)
  BY <1>1, <1>3 DEF Handling
<1>4. ASSUME (lane'[l].pc # "send" /\ lane[l].pc # "send") \/ p # ProcessOf[l],
             UNCHANGED <<requests, replies, ipc>>
      PROVE  Owed(p)' = Owed(p)
  <2>1. \A m \in LanesOf(p), k \in Keys :
          lane'[m].pc = "send" /\ lane'[m].key = k <=> lane[m].pc = "send" /\ lane[m].key = k
    BY <1>1, <1>4
  <2>2. \A k \in Keys : Outstanding(p, k)' <=> Outstanding(p, k)
    BY <1>1, <1>4, <2>1 DEF Outstanding
  <2>3. QED
    BY <2>2 DEF Owed
<1>5. QED
  BY <1>2, <1>3, <1>4

LEMMA SameTotal ==
  ASSUME NEW p \in Processes, OpenCredit(p)' = OpenCredit(p), Owed(p)' = Owed(p),
         Sending(p)' = Sending(p), Mail(p)' = Mail(p), SelfWaking(p)' = SelfWaking(p),
         Going(p)' = Going(p), Handling(p)' = Handling(p)
  PROVE  Total(p)' = Total(p)
BY DEF Total

\* A step that takes no credit, takes n for what it starts, or returns one for what it
\* ends.
LEMMA CreditKept ==
  ASSUME CreditInv, NEW p \in Processes, Total(p)' = Total(p),
         credits'[p] = credits[p], state'[p] = state[p], reports'[p] = reports[p]
  PROVE  CreditOK(p)'
BY DEF CreditInv, CreditOK

LEMMA CreditUp ==
  ASSUME TypeOK, MailInv, CreditInv, NEW p \in Processes, NEW n \in Nat, Credit(p, n),
         UNCHANGED <<state, reports>>, Total(p) > 0, Total(p)' = Total(p) + n
  PROVE  CreditOK(p)' /\ \A q \in Processes : q # p => credits'[q] = credits[q]
<1>1. CreditOK(p) /\ Total(p) \in Nat /\ credits[p] \in Nat /\ state[p] # 2
  BY TotalFacts DEF CreditInv, CreditOK, TypeOK
<1>2. CASE Armed(p)
  <2>1. credits'[p] = credits[p] + n /\ \A q \in Processes : q # p => credits'[q] = credits[q]
    BY <1>2 DEF Credit, TypeOK
  <2>2. QED
    BY <1>1, <1>2, <2>1 DEF CreditOK, Armed
<1>3. CASE ~ Armed(p)
  BY <1>1, <1>3 DEF CreditOK, Credit, Armed
<1>4. QED
  BY <1>2, <1>3

LEMMA CreditDown ==
  ASSUME TypeOK, MailInv, CreditInv, NEW p \in Processes, Debit(p),
         Total(p) > 0, Total(p)' = Total(p) - 1
  PROVE  /\ CreditOK(p)'
         /\ \A q \in Processes : q # p =>
              credits'[q] = credits[q] /\ state'[q] = state[q] /\ reports'[q] = reports[q]
<1>1. CreditOK(p) /\ Total(p) \in Nat /\ credits[p] \in Nat /\ state[p] # 2
  BY TotalFacts DEF CreditInv, CreditOK, TypeOK
<1>2. CASE Armed(p)
  <2>1. credits[p] = Total(p) /\ reports[p] = 0
    BY <1>1, <1>2 DEF CreditOK, Armed
  <2>2. credits'[p] = credits[p] - 1 /\ \A q \in Processes : q # p => credits'[q] = credits[q]
    BY <1>2 DEF Debit, TypeOK
  <2>3. CASE credits[p] = 1
    <3>1. state' = [state EXCEPT ![p] = 2] /\ reports' = [reports EXCEPT ![p] = reports[p] + 1]
      BY <1>2, <2>3 DEF Debit
    <3>2. /\ state'[p] = 2 /\ reports'[p] = 1
          /\ \A q \in Processes : q # p => state'[q] = state[q] /\ reports'[q] = reports[q]
      BY <2>1, <3>1 DEF TypeOK
    <3>3. QED
      BY <1>1, <2>1, <2>2, <2>3, <3>2 DEF CreditOK
  <2>4. CASE credits[p] # 1
    <3>1. UNCHANGED <<state, reports>>
      BY <1>2, <2>4 DEF Debit
    <3>2. QED
      BY <1>1, <1>2, <2>1, <2>2, <2>4, <3>1 DEF CreditOK, Armed
  <2>5. QED
    BY <2>3, <2>4
<1>3. CASE ~ Armed(p)
  BY <1>1, <1>3 DEF CreditOK, Debit, Armed, creditVars
<1>4. QED
  BY <1>2, <1>3

\* A process with a handler at work, or anything else to count, has not fired.
LEMMA SomeTotal ==
  ASSUME IInv, NEW p \in Processes
  PROVE  /\ Owed(p) # {} \/ Mail(p) # {} \/ Going(p) # {} \/ Handling(p) # {} => Total(p) > 0
         /\ \A l \in LanesOf(p) : lane[l] # Idle => Total(p) > 0
<1> USE DEF IInv
<1>1. \A S : IsFiniteSet(S) /\ S # {} => Cardinality(S) > 0
  BY FS_EmptySet, FS_CardinalityType
<1>2. Owed(p) # {} \/ Mail(p) # {} \/ Going(p) # {} \/ Handling(p) # {} => Total(p) > 0
  <2>1. /\ Owed(p) # {} => Cardinality(Owed(p)) > 0
        /\ Mail(p) # {} => Cardinality(Mail(p)) > 0
        /\ Going(p) # {} => Cardinality(Going(p)) > 0
        /\ Handling(p) # {} => Cardinality(Handling(p)) > 0
    BY <1>1, TotalFacts
  <2>2. /\ OpenCredit(p) \in Nat
        /\ Cardinality(Owed(p)) \in Nat /\ Cardinality(Sending(p)) \in Nat
        /\ Cardinality(Mail(p)) \in Nat /\ Cardinality(SelfWaking(p)) \in Nat
        /\ Cardinality(Going(p)) \in Nat /\ Cardinality(Handling(p)) \in Nat
    BY TotalFacts
  <2>3. QED
    BY <2>1, <2>2 DEF Total
<1>3. ASSUME NEW l \in LanesOf(p), lane[l] # Idle
      PROVE  Total(p) > 0
  <2>1. l \in Lanes /\ lane[l].handler \in {"process", "start", "goDown"}
    BY <1>3, LaneFacts DEF LanesOf
  <2>2. CASE lane[l].handler = "start"
    <3>1. released = {}
      BY <2>1, <2>2, LaneFacts DEF SeedInv
    <3>2. OpenCredit(p) = 1
      BY <3>1 DEF OpenCredit
    <3>3. QED
      BY <3>2, TotalFacts DEF Total
  <2>3. CASE lane[l].handler # "start"
    BY <1>2, <2>1, <2>3 DEF Handling
  <2>4. QED
    BY <2>2, <2>3
<1>4. QED
  BY <1>2, <1>3

LEMMA Adds ==
  ASSUME NEW S, IsFiniteSet(S), NEW x, x \notin S
  PROVE  Cardinality(S \cup {x}) = Cardinality(S) + 1
BY FS_AddElement

LEMMA Drops ==
  ASSUME NEW S, IsFiniteSet(S), NEW x \in S
  PROVE  Cardinality(S \ {x}) = Cardinality(S) - 1
BY FS_RemoveElement

\* Steps that neither begin nor end anything that holds a credit.
LEMMA QuietLanes ==
  ASSUME IInv, Next, NEW l \in Lanes,
         Visit(l) \/ Latch(l) \/ Park(l) \/ Seeded(l) \/ Descended(l)
  PROVE  CreditInv'
<1> USE DEF IInv
<1>1. UNCHANGED <<credits, state, reports, released, requests, replies, ipc, resumes, goDowns>>
  BY DEF Visit, Latch, Park, Seeded, Descended, creditVars, driverVars, messageVars, installVars, elemVars
<1>2. \A m \in Lanes : m # l => lane'[m] = lane[m]
  BY KeepsFacts, EndPcs DEF KeepsLane, AskingStep
<1>3. lane[l].pc \notin {"self", "send"} /\ lane'[l].pc \notin {"self", "send"}
  BY VisitPcs, EndPcs, AskingFacts
<1>4. lane'[l].handler \in {"goDown", "process"} <=> lane[l].handler \in {"goDown", "process"}
  <2>1. CASE Visit(l) \/ Latch(l) \/ Park(l)
    BY <2>1, KeepsFacts DEF KeepsLane, AskingStep
  <2>2. CASE Seeded(l)
    <3>1. lane[l].handler = "start" /\ lane' = [lane EXCEPT ![l] = Idle]
      BY <2>2, LaneEndFacts
    <3>2. QED
      BY <3>1 DEF TypeOK, Idle
  <2>3. CASE Descended(l)
    <3>1. lane[l].handler = "goDown"
      BY <2>3, LaneEndFacts
    <3>2. CASE lane' = lane
      BY <3>2
    <3>3. CASE lane' = [lane EXCEPT ![l] = [handler |-> "goDown", pc |-> "debit", elem |-> lane[l].elem]]
      BY <3>1, <3>3 DEF TypeOK
    <3>4. QED
      BY <2>3, <3>2, <3>3, LaneEndFacts
  <2>4. QED
    BY <2>1, <2>2, <2>3
<1>5. ASSUME NEW p \in Processes
      PROVE  CreditOK(p)'
  <2>1. /\ Sending(p)' = Sending(p) /\ Mail(p)' = Mail(p) /\ Going(p)' = Going(p)
        /\ OpenCredit(p)' = OpenCredit(p)
    BY <1>1, SetsKept
  <2>2. SelfWaking(p)' = SelfWaking(p) /\ Handling(p)' = Handling(p) /\ Owed(p)' = Owed(p)
    BY <1>1, <1>2, <1>3, <1>4, LaneSetsKept
  <2>3. QED
    BY <1>1, <2>1, <2>2, SameTotal, CreditKept
<1>6. QED
  BY <1>5 DEF CreditInv

\* A request under way stays one, wherever it is.
LEMMA QuietRequests ==
  ASSUME IInv, Next, NEW q \in Processes, NEW j \in Keys, Serve(q, j) \/ Install(q, j) \/ Drain(q, j)
  PROVE  CreditInv'
<1> USE DEF IInv
<1>1. UNCHANGED <<credits, state, reports, released, lane, resumes, goDowns>>
  BY DEF Serve, Install, Drain, creditVars, driverVars, messageVars, elemVars
<1>2. \A p \in Processes, k \in Keys : ipc'[p][k] = "send" <=> ipc[p][k] = "send"
  <2>1. ipc \in [Processes -> [Keys -> {"none", "drain", "wake", "send", "done"}]]
    BY DEF TypeOK
  <2>2. \/ ipc' = ipc
        \/ ipc[q][j] # "send" /\ \E x \in {"drain", "wake"} : ipc' = [ipc EXCEPT ![q][j] = x]
    BY DEF Serve, Install, Drain, installVars
  <2>3. QED
    BY <2>1, <2>2
<1>3. ASSUME NEW p \in Processes, NEW k \in Keys
      PROVE  Outstanding(p, k)' <=> Outstanding(p, k)
  <2>1. /\ requests \in [Processes -> [Keys -> Nat]] /\ replies \in [Processes -> [Keys -> Nat]]
        /\ ipc \in [Processes -> [Keys -> {"none", "drain", "wake", "send", "done"}]]
        /\ requests[p][k] \in Nat /\ replies[p][k] \in Nat
    BY DEF TypeOK
  <2>2. CASE p # q \/ k # j
    <3>1. requests'[p][k] = requests[p][k] /\ replies'[p][k] = replies[p][k]
      BY <2>1, <2>2 DEF Serve, Install, Drain, messageVars
    <3>2. ipc'[p][k] = ipc[p][k]
      BY <2>1, <2>2 DEF Serve, Install, Drain, installVars
    <3>3. QED
      BY <1>1, <3>1, <3>2, LayoutKept DEF Outstanding
  <2>3. CASE Serve(p, k)
    <3>1. requests[p][k] > 0 /\ replies'[p][k] > 0
      BY <2>1, <2>3 DEF Serve
    <3>2. QED
      BY <3>1 DEF Outstanding
  <2>4. CASE Install(p, k)
    <3>1. replies[p][k] > 0 /\ ipc'[p][k] = "drain"
      BY <2>1, <2>4 DEF Install
    <3>2. QED
      BY <3>1 DEF Outstanding
  <2>5. CASE Drain(p, k)
    <3>1. ipc[p][k] = "drain" /\ ipc'[p][k] = "wake"
      BY <2>1, <2>5 DEF Drain
    <3>2. QED
      BY <3>1 DEF Outstanding
  <2>6. QED
    BY <2>2, <2>3, <2>4, <2>5
<1>4. ASSUME NEW p \in Processes
      PROVE  CreditOK(p)'
  <2>1. /\ Mail(p)' = Mail(p) /\ Going(p)' = Going(p) /\ OpenCredit(p)' = OpenCredit(p)
        /\ SelfWaking(p)' = SelfWaking(p) /\ Handling(p)' = Handling(p)
    BY <1>1, SetsKept
  <2>2. Sending(p)' = Sending(p)
    BY <1>2 DEF Sending
  <2>3. Owed(p)' = Owed(p)
    BY <1>3 DEF Owed
  <2>4. QED
    BY <1>1, <2>1, <2>2, <2>3, SameTotal, CreditKept
<1>5. QED
  BY <1>4 DEF CreditInv

\* The handlers that begin: startDual holds no credit, goDown the one of its message.
LEMMA StartCredits ==
  ASSUME IInv, Next, NEW e \in Elements, ElementStep(e)
  PROVE  CreditInv'
<1> USE DEF IInv
<1>1. UNCHANGED <<credits, state, reports, released, requests, replies, ipc, resumes>>
  BY ElementFrame DEF creditVars, driverVars, messageVars, installVars
<1>2. PICK l \in Lanes :
        /\ l = LaneOf[e] /\ lane[l] = Idle /\ lane'[l].pc = "travel"
        /\ lane'[l].handler = IF Start(e) THEN "start" ELSE "goDown"
        /\ \A m \in Lanes : m # l => lane'[m] = lane[m]
  BY StartPcs
<1>3. ASSUME NEW p \in Processes
      PROVE  CreditOK(p)'
  <2>1. Sending(p)' = Sending(p) /\ Mail(p)' = Mail(p) /\ OpenCredit(p)' = OpenCredit(p)
    BY <1>1, SetsKept
  <2>2. SelfWaking(p)' = SelfWaking(p) /\ Owed(p)' = Owed(p)
    BY <1>1, <1>2, LaneSetsKept DEF Idle
  <2>3. CASE Start(e)
    <3>1. Going(p)' = Going(p)
      BY <2>3, SetsKept DEF Start, elemVars
    <3>2. Handling(p)' = Handling(p)
      BY <1>2, <2>3, LaneSetsKept DEF Idle
    <3>3. QED
      BY <1>1, <2>1, <2>2, <3>1, <3>2, SameTotal, CreditKept
  <2>4. CASE ~ Start(e) /\ p # Home(e)
    <3>1. goDowns' = [goDowns EXCEPT ![e] = goDowns[e] - 1]
      BY <2>4 DEF ElementStep, GoDown
    <3>2. Going(p)' = Going(p)
      BY <2>4, <3>1, LayoutKept DEF Going, ElementsOf, TypeOK
    <3>3. Handling(p)' = Handling(p)
      BY <1>2, <2>4, LaneSetsKept DEF Home
    <3>4. QED
      BY <1>1, <2>1, <2>2, <3>2, <3>3, SameTotal, CreditKept
  <2>5. CASE ~ Start(e) /\ p = Home(e)
    <3>1. goDowns' = [goDowns EXCEPT ![e] = goDowns[e] - 1] /\ goDowns[e] = 1
      BY <2>5, LaneStarts DEF ElementStep, GoDown
    <3>2. Going(p)' = Going(p) \ {e} /\ e \in Going(p)
      BY <2>5, <3>1, LayoutKept DEF Going, ElementsOf, TypeOK
    <3>3. Handling(p)' = Handling(p) \cup {l} /\ l \notin Handling(p)
      BY <1>2, <2>5, LayoutKept DEF Handling, LanesOf, Home, Idle
    <3>4. /\ Cardinality(Going(p)') = Cardinality(Going(p)) - 1
          /\ Cardinality(Handling(p)') = Cardinality(Handling(p)) + 1
      BY <3>2, <3>3, TotalFacts, Adds, Drops
    <3>5. Total(p)' = Total(p)
      BY <2>1, <2>2, <3>4, TotalFacts DEF Total
    <3>6. QED
      BY <1>1, <3>5, CreditKept
  <2>6. QED
    BY <2>3, <2>4, <2>5
<1>4. QED
  BY <1>3 DEF CreditInv

\* The request's credit comes before the request.
LEMMA AskCredits ==
  ASSUME IInv, Next, NEW l \in Lanes, AskCredit(l) \/ AskSend(l)
  PROVE  CreditInv'
<1> USE DEF IInv
<1>1. UNCHANGED <<state, reports, released, replies, ipc, resumes, goDowns>>
  BY DEF AskCredit, AskSend, creditVars, driverVars, messageVars, installVars, elemVars
<1>2. /\ \A m \in Lanes : m # l => lane'[m] = lane[m]
      /\ lane'[l].handler = lane[l].handler
  BY KeepsFacts DEF KeepsLane, AskingStep
<1>3. lane[l].pc \in {"ask", "send"} /\ lane'[l].pc \in {"send", "park"} /\ lane'[l].key = lane[l].key
  BY AskingFacts DEF AskingStep
<1>4. PICK q \in Processes : q = ProcessOf[l]
  BY LayoutFacts
<1>5. PICK k \in Keys : k = lane[l].key
  BY <1>3, LaneFacts DEF Asking
<1>6. ASSUME NEW p \in Processes
      PROVE  /\ Sending(p)' = Sending(p) /\ Mail(p)' = Mail(p) /\ Going(p)' = Going(p)
             /\ OpenCredit(p)' = OpenCredit(p)
             /\ SelfWaking(p)' = SelfWaking(p) /\ Handling(p)' = Handling(p)
  <2>1. /\ Sending(p)' = Sending(p) /\ Mail(p)' = Mail(p) /\ Going(p)' = Going(p)
        /\ OpenCredit(p)' = OpenCredit(p)
    BY <1>1, SetsKept
  <2>2. SelfWaking(p)' = SelfWaking(p) /\ Handling(p)' = Handling(p)
    BY <1>2, <1>3, LaneSetsKept
  <2>3. QED
    BY <2>1, <2>2
<1>7. /\ requests \in [Processes -> [Keys -> Nat]]
      /\ requests' = requests \/ (AskSend(l) /\ requests' = [requests EXCEPT ![q][k] = requests[q][k] + 1])
  BY <1>4, <1>5 DEF TypeOK, AskCredit, AskSend, messageVars
<1>8. \A p \in Processes, j \in Keys : p # q \/ j # k => requests'[p][j] = requests[p][j]
  BY <1>7
<1>9. ASSUME NEW p \in Processes, NEW j \in Keys, p # q \/ j # k
      PROVE  Outstanding(p, j)' <=> Outstanding(p, j)
  <2>1. \A m \in LanesOf(p) :
          lane'[m].pc = "send" /\ lane'[m].key = j <=> lane[m].pc = "send" /\ lane[m].key = j
    BY <1>2, <1>3, <1>4, <1>5, <1>9 DEF LanesOf
  <2>2. QED
    BY <1>1, <1>8, <1>9, <2>1, LayoutKept DEF Outstanding
<1>10. \A p \in Processes : p # q => Owed(p)' = Owed(p)
  BY <1>9 DEF Owed
<1>11. CASE AskSend(l)
  <2>1. lane[l].pc = "send" /\ UNCHANGED credits
    BY <1>11 DEF AskSend, creditVars
  <2>2. Outstanding(q, k)
    BY <1>4, <1>5, <2>1 DEF Outstanding, LanesOf
  <2>3. requests'[q][k] > 0
    <3>1. requests' = [requests EXCEPT ![q][k] = requests[q][k] + 1]
      BY <1>4, <1>5, <1>11 DEF AskSend
    <3>2. QED
      BY <1>7, <3>1
  <2>4. Outstanding(q, k)'
    BY <2>3 DEF Outstanding
  <2>5. Owed(q)' = Owed(q)
    BY <1>9, <2>2, <2>4 DEF Owed
  <2>6. \A p \in Processes : CreditOK(p)'
    BY <1>1, <1>6, <1>10, <2>1, <2>5, SameTotal, CreditKept
  <2>7. QED
    BY <2>6 DEF CreditInv
<1>12. CASE AskCredit(l)
  <2>1. lane[l].pc = "ask" /\ lane'[l].pc = "send" /\ Credit(q, 1) /\ UNCHANGED requests
    BY <1>4, <1>12, AskingFacts DEF AskCredit, messageVars
  <2>2. ~ Outstanding(q, k)
    <3>1. l \in LanesOf(q) /\ Requesting(l, k) /\ RequestOK(q, k)
      BY <1>4, <1>5, <2>1 DEF LanesOf, Requesting, RequestInv
    <3>2. /\ requests[q][k] + replies[q][k] = 0 /\ ipc[q][k] = "none"
          /\ \A m \in LanesOf(q) : Requesting(m, k) => m = l
      BY <3>1 DEF RequestOK
    <3>3. requests[q][k] \in Nat /\ replies[q][k] \in Nat
      BY DEF TypeOK
    <3>4. requests[q][k] = 0 /\ replies[q][k] = 0
      BY <3>2, <3>3
    <3>5. \A m \in LanesOf(q) : ~ (lane[m].pc = "send" /\ lane[m].key = k)
      BY <2>1, <3>2 DEF Requesting
    <3>6. QED
      BY <3>2, <3>4, <3>5 DEF Outstanding
  <2>3. Outstanding(q, k)'
    BY <1>3, <1>4, <1>5, <2>1, LayoutKept DEF Outstanding, LanesOf
  <2>4. Owed(q)' = Owed(q) \cup {k} /\ k \notin Owed(q)
    BY <1>9, <2>2, <2>3 DEF Owed
  <2>5. Cardinality(Owed(q)') = Cardinality(Owed(q)) + 1
    BY <2>4, TotalFacts, Adds
  <2>6. Total(q)' = Total(q) + 1
    BY <1>6, <2>5, TotalFacts DEF Total
  <2>7. Total(q) > 0
    BY <1>4, <2>1, SomeTotal DEF LanesOf, Idle
  <2>8. CreditOK(q)' /\ \A p \in Processes : p # q => credits'[p] = credits[p]
    BY <1>1, <2>1, <2>6, <2>7, CreditUp
  <2>9. \A p \in Processes : p # q => CreditOK(p)'
    BY <1>1, <1>6, <1>10, <2>8, SameTotal, CreditKept
  <2>10. QED
    BY <2>8, <2>9 DEF CreditInv
<1>13. QED
  BY <1>11, <1>12

\* An element that wakes itself: the credit, then the message that holds it.
LEMMA WakeCredits ==
  ASSUME IInv, Next, NEW l \in Lanes, WakeCredit(l) \/ WakeSelf(l)
  PROVE  CreditInv'
<1> USE DEF IInv
<1>1. UNCHANGED <<state, reports, released, requests, replies, ipc, goDowns>>
  BY DEF WakeCredit, WakeSelf, creditVars, driverVars, messageVars, installVars, elemVars
<1>2. /\ \A m \in Lanes : m # l => lane'[m] = lane[m]
      /\ lane'[l].handler = lane[l].handler
  BY KeepsFacts DEF KeepsLane, AskingStep
<1>3. lane[l].pc \in {"wake", "self"} /\ lane'[l].pc \in {"self", "travel"}
  BY AskingFacts DEF AskingStep
<1>4. PICK q \in Processes : q = ProcessOf[l]
  BY LayoutFacts
<1>5. l \in LanesOf(q) /\ lane[l] # Idle
  BY <1>3, <1>4 DEF LanesOf, Idle
<1>6. ASSUME NEW p \in Processes
      PROVE  /\ Sending(p)' = Sending(p) /\ Owed(p)' = Owed(p) /\ Going(p)' = Going(p)
             /\ OpenCredit(p)' = OpenCredit(p) /\ Handling(p)' = Handling(p)
             /\ p # q => SelfWaking(p)' = SelfWaking(p)
  <2>1. Sending(p)' = Sending(p) /\ Going(p)' = Going(p) /\ OpenCredit(p)' = OpenCredit(p)
    BY <1>1, SetsKept
  <2>2. Handling(p)' = Handling(p) /\ Owed(p)' = Owed(p) /\ (p # q => SelfWaking(p)' = SelfWaking(p))
    BY <1>1, <1>2, <1>3, <1>4, LaneSetsKept
  <2>3. QED
    BY <2>1, <2>2
<1>7. CASE WakeCredit(l)
  <2>1. lane[l].pc = "wake" /\ lane'[l].pc = "self" /\ Credit(q, 1) /\ UNCHANGED resumes
    BY <1>4, <1>7, AskingFacts DEF WakeCredit, messageVars
  <2>2. \A p \in Processes : Mail(p)' = Mail(p)
    BY <2>1, SetsKept
  <2>3. SelfWaking(q)' = SelfWaking(q) \cup {l} /\ l \notin SelfWaking(q)
    BY <1>2, <1>5, <2>1, LayoutKept DEF SelfWaking, LanesOf
  <2>4. Cardinality(SelfWaking(q)') = Cardinality(SelfWaking(q)) + 1
    BY <2>3, TotalFacts, Adds
  <2>5. Total(q)' = Total(q) + 1
    BY <1>6, <2>2, <2>4, TotalFacts DEF Total
  <2>6. Total(q) > 0
    BY <1>5, SomeTotal
  <2>7. CreditOK(q)' /\ \A p \in Processes : p # q => credits'[p] = credits[p]
    BY <1>1, <2>1, <2>5, <2>6, CreditUp
  <2>8. \A p \in Processes : p # q => CreditOK(p)'
    BY <1>1, <1>6, <2>2, <2>7, SameTotal, CreditKept
  <2>9. QED
    BY <2>7, <2>8 DEF CreditInv
<1>8. CASE WakeSelf(l)
  <2>1. lane[l].pc = "self" /\ lane'[l].pc = "travel" /\ UNCHANGED credits
    BY <1>8, AskingFacts DEF WakeSelf, creditVars
  <2>2. PICK k \in Keys : k = lane[l].key /\ Asks(l, k)
    BY <2>1, LaneFacts DEF Asks, Asking
  <2>3. PICK m : m = SelfMessage(l, k)
    OBVIOUS
  <2>4. m.to = l /\ m \notin resumes /\ resumes' = resumes \cup {m}
    BY <1>8, <2>2, <2>3 DEF SelfMessage, WakeSelf, MailInv
  <2>5. Mail(q)' = Mail(q) \cup {m} /\ m \notin Mail(q)
    BY <1>5, <2>4, LayoutKept DEF Mail
  <2>6. \A p \in Processes : p # q => Mail(p)' = Mail(p)
    BY <1>4, <2>4, LayoutKept DEF Mail, LanesOf
  <2>7. SelfWaking(q)' = SelfWaking(q) \ {l} /\ l \in SelfWaking(q)
    BY <1>2, <1>5, <2>1, LayoutKept DEF SelfWaking, LanesOf
  <2>8. /\ Cardinality(SelfWaking(q)') = Cardinality(SelfWaking(q)) - 1
        /\ Cardinality(Mail(q)') = Cardinality(Mail(q)) + 1
    BY <2>5, <2>7, TotalFacts, Adds, Drops
  <2>9. Total(q)' = Total(q)
    BY <1>6, <2>8, TotalFacts DEF Total
  <2>10. CreditOK(q)'
    BY <1>1, <2>1, <2>9, CreditKept
  <2>11. \A p \in Processes : p # q => CreditOK(p)'
    BY <1>1, <1>6, <2>1, <2>6, SameTotal, CreditKept
  <2>12. QED
    BY <2>10, <2>11 DEF CreditInv
<1>9. QED
  BY <1>7, <1>8

\* An installer wakes lane by lane, a credit before each message, and returns the
\* request's credit last.
LEMMA InstallCredits ==
  ASSUME IInv, Next, NEW q \in Processes, NEW k \in Keys,
         LaneCredit(q, k) \/ WakeLane(q, k) \/ ReturnRequest(q, k)
  PROVE  CreditInv'
<1> USE DEF IInv
<1>1. UNCHANGED <<lane, released, requests, replies, goDowns>>
  BY DEF LaneCredit, WakeLane, ReturnRequest, driverVars, messageVars, elemVars
<1>2. /\ ipc \in [Processes -> [Keys -> {"none", "drain", "wake", "send", "done"}]]
      /\ \E x : ipc' = [ipc EXCEPT ![q][k] = x]
  BY DEF TypeOK, LaneCredit, WakeLane, ReturnRequest
<1>3. \A p \in Processes, j \in Keys : p # q \/ j # k => ipc'[p][j] = ipc[p][j]
  BY <1>2
<1>4. /\ LaneCredit(q, k) => ipc[q][k] = "wake" /\ ipc'[q][k] = "send"
      /\ WakeLane(q, k) => ipc[q][k] = "send" /\ ipc'[q][k] = "wake"
      /\ ReturnRequest(q, k) => ipc[q][k] = "wake" /\ ipc'[q][k] = "done"
  BY <1>2 DEF LaneCredit, WakeLane, ReturnRequest
<1>5. \A p \in Processes, j \in Keys : p # q \/ j # k => (Outstanding(p, j)' <=> Outstanding(p, j))
  BY <1>1, <1>3, LayoutKept DEF Outstanding
<1>6. Outstanding(q, k)
  BY <1>4 DEF Outstanding
<1>7. \A p \in Processes : p # q => Sending(p)' = Sending(p) /\ Owed(p)' = Owed(p)
  BY <1>3, <1>5 DEF Sending, Owed
<1>8. \A p \in Processes :
        /\ Going(p)' = Going(p) /\ OpenCredit(p)' = OpenCredit(p)
        /\ SelfWaking(p)' = SelfWaking(p) /\ Handling(p)' = Handling(p)
  BY <1>1, SetsKept
<1>9. k \in Owed(q) /\ Total(q) > 0
  BY <1>6, SomeTotal DEF Owed
<1>10. CASE LaneCredit(q, k)
  <2>1. UNCHANGED <<state, reports, resumes>> /\ Credit(q, 1)
    BY <1>10 DEF LaneCredit, messageVars
  <2>2. \A p \in Processes : Mail(p)' = Mail(p)
    BY <2>1, SetsKept
  <2>3. Outstanding(q, k)'
    BY <1>4, <1>10 DEF Outstanding
  <2>4. Owed(q)' = Owed(q)
    BY <1>5, <1>6, <2>3 DEF Owed
  <2>5. Sending(q)' = Sending(q) \cup {k} /\ k \notin Sending(q)
    BY <1>3, <1>4, <1>10 DEF Sending
  <2>6. Cardinality(Sending(q)') = Cardinality(Sending(q)) + 1
    BY <2>5, TotalFacts, Adds
  <2>7. Total(q)' = Total(q) + 1
    BY <1>8, <2>2, <2>4, <2>6, TotalFacts DEF Total
  <2>8. CreditOK(q)' /\ \A p \in Processes : p # q => credits'[p] = credits[p]
    BY <1>9, <2>1, <2>7, CreditUp
  <2>9. \A p \in Processes : p # q => CreditOK(p)'
    BY <1>7, <1>8, <2>1, <2>2, <2>8, SameTotal, CreditKept
  <2>10. QED
    BY <2>8, <2>9 DEF CreditInv
<1>11. CASE WakeLane(q, k)
  <2>1. UNCHANGED <<credits, state, reports>>
    BY <1>11 DEF WakeLane, creditVars
  <2>2. PICK e \in toWake[q][k] : SendResume(q, k, LaneOf[e])
    BY <1>11 DEF WakeLane
  <2>3. PICK m : m = [to |-> LaneOf[e], key |-> k, elems |-> WaitersOn(q, k, LaneOf[e]), by |-> "install"]
    OBVIOUS
  <2>4. resumes' = resumes \cup {m} /\ m.to = LaneOf[e] /\ m.by = "install" /\ m.key = k
    BY <2>2, <2>3 DEF SendResume
  <2>5. e \in Elements /\ ProcessOf[LaneOf[e]] = q /\ LaneOf[e] \in Lanes
    BY LayoutFacts DEF ParkedInv, ParkedOK, ElementsOf, Home
  <2>6. m \notin resumes
    BY <2>4, <2>5 DEF MailInv, MailOK
  <2>7. Mail(q)' = Mail(q) \cup {m} /\ m \notin Mail(q)
    BY <2>4, <2>5, <2>6, LayoutKept DEF Mail, LanesOf
  <2>8. \A p \in Processes : p # q => Mail(p)' = Mail(p)
    BY <2>4, <2>5, LayoutKept DEF Mail, LanesOf
  <2>9. Outstanding(q, k)'
    BY <1>4, <1>11 DEF Outstanding
  <2>10. Owed(q)' = Owed(q)
    BY <1>5, <1>6, <2>9 DEF Owed
  <2>11. Sending(q)' = Sending(q) \ {k} /\ k \in Sending(q)
    BY <1>3, <1>4, <1>11 DEF Sending
  <2>12. /\ Cardinality(Sending(q)') = Cardinality(Sending(q)) - 1
         /\ Cardinality(Mail(q)') = Cardinality(Mail(q)) + 1
    BY <2>7, <2>11, TotalFacts, Adds, Drops
  <2>13. Total(q)' = Total(q)
    BY <1>8, <2>10, <2>12, TotalFacts DEF Total
  <2>14. CreditOK(q)'
    BY <2>1, <2>13, CreditKept
  <2>15. \A p \in Processes : p # q => CreditOK(p)'
    BY <1>7, <1>8, <2>1, <2>8, SameTotal, CreditKept
  <2>16. QED
    BY <2>14, <2>15 DEF CreditInv
<1>12. CASE ReturnRequest(q, k)
  <2>1. UNCHANGED resumes /\ Debit(q)
    BY <1>12 DEF ReturnRequest, messageVars
  <2>2. \A p \in Processes : Mail(p)' = Mail(p)
    BY <2>1, SetsKept
  <2>3. ~ Outstanding(q, k)'
    <3>1. RequestOK(q, k) /\ requests[q][k] \in Nat /\ replies[q][k] \in Nat
      BY DEF RequestInv, TypeOK
    <3>2. requests[q][k] + replies[q][k] # 1 /\ requests[q][k] + replies[q][k] <= 1
      BY <1>4, <1>12, <3>1 DEF RequestOK
    <3>3. requests[q][k] = 0 /\ replies[q][k] = 0
      BY <3>1, <3>2
    <3>4. \A l \in LanesOf(q) : ~ Requesting(l, k)
      BY <1>4, <1>12, <3>1 DEF RequestOK
    <3>5. QED
      BY <1>1, <1>4, <1>12, <3>3, <3>4, LayoutKept DEF Outstanding, Requesting
  <2>4. Owed(q)' = Owed(q) \ {k}
    BY <1>5, <1>9, <2>3 DEF Owed
  <2>5. Sending(q)' = Sending(q)
    BY <1>3, <1>4, <1>12 DEF Sending
  <2>6. Cardinality(Owed(q)') = Cardinality(Owed(q)) - 1
    BY <1>9, <2>4, TotalFacts, Drops
  <2>7. Total(q)' = Total(q) - 1
    BY <1>8, <2>2, <2>5, <2>6, TotalFacts DEF Total
  <2>8. /\ CreditOK(q)'
        /\ \A p \in Processes : p # q =>
             credits'[p] = credits[p] /\ state'[p] = state[p] /\ reports'[p] = reports[p]
    BY <1>9, <2>1, <2>7, CreditDown
  <2>9. \A p \in Processes : p # q => CreditOK(p)'
    BY <1>7, <1>8, <2>2, <2>8, SameTotal, CreditKept
  <2>10. QED
    BY <2>8, <2>9 DEF CreditInv
<1>13. QED
  BY <1>10, <1>11, <1>12

\* Resumer::process takes a credit for each goDown it sends, and returns its own.
LEMMA ResumeCredits ==
  ASSUME IInv, Next, NEW l \in Lanes, Resume(l)
  PROVE  CreditInv'
<1> USE DEF IInv
<1>1. UNCHANGED <<state, reports, released, requests, replies, ipc>>
  BY DEF Resume, driverVars, installVars
<1>2. lane[l] = Idle /\ lane' = [lane EXCEPT ![l] = [handler |-> "process", pc |-> "debit"]]
  BY LaneEndFacts
<1>3. PICK m \in resumes : Process(l, m)
  BY DEF Resume
<1>4. PICK q \in Processes : q = ProcessOf[l]
  BY LayoutFacts
<1>5. /\ m.to = l /\ resumes' = resumes \ {m} /\ m.elems \subseteq Elements
      /\ goDowns' = [e \in Elements |-> IF e \in IdleOf(m) THEN goDowns[e] + 1 ELSE goDowns[e]]
      /\ Credit(q, Cardinality(IdleOf(m)))
  BY <1>3, <1>4 DEF Process, TypeOK
<1>6. l \in LanesOf(q) /\ \A e \in IdleOf(m) : e \in ElementsOf(q) /\ goDowns[e] = 0
  <2>1. \A e \in IdleOf(m) : e \in Elements /\ LaneOf[e] = l /\ queue[e] = << >>
    BY <1>5 DEF IdleOf, MailInv, MailOK
  <2>2. \A e \in IdleOf(m) : goDowns[e] = 0
    BY <2>1 DEF QueueInv, QueueOK
  <2>3. QED
    BY <1>4, <2>1, <2>2 DEF LanesOf, ElementsOf, Home
<1>7. /\ \A n \in Lanes : n # l => lane'[n] = lane[n]
      /\ lane'[l] = [handler |-> "process", pc |-> "debit"]
  BY <1>2 DEF TypeOK
<1>8. ASSUME NEW p \in Processes
      PROVE  /\ Sending(p)' = Sending(p) /\ Owed(p)' = Owed(p) /\ OpenCredit(p)' = OpenCredit(p)
             /\ SelfWaking(p)' = SelfWaking(p)
             /\ p # q => Handling(p)' = Handling(p) /\ Mail(p)' = Mail(p) /\ Going(p)' = Going(p)
  <2>1. Sending(p)' = Sending(p) /\ OpenCredit(p)' = OpenCredit(p)
    BY <1>1, SetsKept
  <2>2. SelfWaking(p)' = SelfWaking(p) /\ Owed(p)' = Owed(p) /\ (p # q => Handling(p)' = Handling(p))
    BY <1>1, <1>2, <1>4, <1>7, LaneSetsKept DEF Idle
  <2>3. p # q => Mail(p)' = Mail(p)
    BY <1>4, <1>5, LayoutKept DEF Mail, LanesOf
  <2>4. p # q => Going(p)' = Going(p)
    BY <1>5, <1>6, LayoutKept DEF Going, ElementsOf
  <2>5. QED
    BY <2>1, <2>2, <2>3, <2>4
<1>9. Mail(q)' = Mail(q) \ {m} /\ m \in Mail(q)
  BY <1>5, <1>6, LayoutKept DEF Mail
<1>10. Handling(q)' = Handling(q) \cup {l} /\ l \notin Handling(q)
  BY <1>2, <1>6, <1>7, LayoutKept DEF Handling, LanesOf, Idle
<1>11. Going(q)' = Going(q) \cup IdleOf(m) /\ Going(q) \cap IdleOf(m) = {}
  <2>1. \A e \in Elements : goDowns[e] \in Nat
    BY DEF TypeOK
  <2>2. \A e \in IdleOf(m) : goDowns'[e] > 0 /\ ~ (goDowns[e] > 0)
    BY <1>5, <1>6 DEF ElementsOf
  <2>3. \A e \in ElementsOf(q) : e \notin IdleOf(m) => goDowns'[e] = goDowns[e]
    BY <1>5 DEF ElementsOf
  <2>4. QED
    BY <1>6, <2>2, <2>3, LayoutKept DEF Going
<1>12. IsFiniteSet(IdleOf(m)) /\ Cardinality(IdleOf(m)) \in Nat
  BY <1>5, WalkAssumption, FS_Subset, FS_CardinalityType DEF IdleOf
<1>13. /\ Cardinality(Mail(q)') = Cardinality(Mail(q)) - 1
       /\ Cardinality(Handling(q)') = Cardinality(Handling(q)) + 1
  BY <1>9, <1>10, TotalFacts, Adds, Drops
<1>14. Cardinality(Going(q)') = Cardinality(Going(q)) + Cardinality(IdleOf(m))
  <2>1. Cardinality(Going(q) \cup IdleOf(m)) =
          Cardinality(Going(q)) + Cardinality(IdleOf(m)) - Cardinality(Going(q) \cap IdleOf(m))
    BY <1>12, TotalFacts, FS_Union
  <2>2. Cardinality(Going(q) \cap IdleOf(m)) = 0
    BY <1>11, FS_EmptySet
  <2>3. QED
    BY <1>11, <1>12, <2>1, <2>2, TotalFacts
<1>15. Total(q)' = Total(q) + Cardinality(IdleOf(m))
  BY <1>8, <1>12, <1>13, <1>14, TotalFacts DEF Total
<1>16. Total(q) > 0
  BY <1>9, SomeTotal
<1>17. CreditOK(q)' /\ \A p \in Processes : p # q => credits'[p] = credits[p]
  BY <1>1, <1>5, <1>12, <1>15, <1>16, CreditUp
<1>18. \A p \in Processes : p # q => CreditOK(p)'
  BY <1>1, <1>8, <1>17, SameTotal, CreditKept
<1>19. QED
  BY <1>17, <1>18 DEF CreditInv

LEMMA ReturnCredits ==
  ASSUME IInv, Next, NEW l \in Lanes, Return(l)
  PROVE  CreditInv'
<1> USE DEF IInv
<1>1. UNCHANGED <<released, requests, replies, ipc, resumes, goDowns>>
  BY DEF Return, driverVars, messageVars, installVars, elemVars
<1>2. PICK q \in Processes : q = ProcessOf[l]
  BY LayoutFacts
<1>3. l \in LanesOf(q) /\ lane[l].pc = "debit" /\ lane[l].handler \in {"goDown", "process"} /\ Debit(q)
  BY <1>2, LaneFacts DEF LanesOf, Return
<1>4. lane'[l] = Idle /\ \A m \in Lanes : m # l => lane'[m] = lane[m]
  BY LaneEndFacts DEF TypeOK
<1>5. ASSUME NEW p \in Processes
      PROVE  /\ Sending(p)' = Sending(p) /\ Owed(p)' = Owed(p) /\ OpenCredit(p)' = OpenCredit(p)
             /\ SelfWaking(p)' = SelfWaking(p) /\ Mail(p)' = Mail(p) /\ Going(p)' = Going(p)
             /\ p # q => Handling(p)' = Handling(p)
  <2>1. /\ Sending(p)' = Sending(p) /\ OpenCredit(p)' = OpenCredit(p)
        /\ Mail(p)' = Mail(p) /\ Going(p)' = Going(p)
    BY <1>1, SetsKept
  <2>2. SelfWaking(p)' = SelfWaking(p) /\ Owed(p)' = Owed(p) /\ (p # q => Handling(p)' = Handling(p))
    BY <1>1, <1>2, <1>3, <1>4, LaneSetsKept DEF Idle
  <2>3. QED
    BY <2>1, <2>2
<1>6. Handling(q)' = Handling(q) \ {l} /\ l \in Handling(q)
  BY <1>3, <1>4, LayoutKept DEF Handling, LanesOf, Idle
<1>7. Cardinality(Handling(q)') = Cardinality(Handling(q)) - 1
  BY <1>6, TotalFacts, Drops
<1>8. Total(q)' = Total(q) - 1
  BY <1>5, <1>7, TotalFacts DEF Total
<1>9. Total(q) > 0
  BY <1>6, SomeTotal
<1>10. /\ CreditOK(q)'
       /\ \A p \in Processes : p # q =>
            credits'[p] = credits[p] /\ state'[p] = state[p] /\ reports'[p] = reports[p]
  BY <1>3, <1>8, <1>9, CreditDown
<1>11. \A p \in Processes : p # q => CreditOK(p)'
  BY <1>5, <1>10, SameTotal, CreditKept
<1>12. QED
  BY <1>10, <1>11 DEF CreditInv

\* The counter is armed before there is anything to count, with the open credit.
LEMMA ArmCredits ==
  ASSUME IInv, Next, NEW q \in Processes, Arm(q)
  PROVE  CreditInv'
<1> USE DEF IInv
<1>1. UNCHANGED <<reports, released, requests, replies, ipc, resumes, goDowns, lane>>
  BY DEF Arm, driverVars, messageVars, installVars, elemVars
<1>2. \A p \in Processes : Total(p)' = Total(p)
  BY <1>1, SetsKept, SameTotal
<1>3. state[q] = 0 /\ ~ walking
  BY DEF Arm, SeedInv
<1>4. released = {}
  BY <1>3, WalkAssumption DEF SeedInv
<1>5. Owed(q) = {} /\ Sending(q) = {}
  <2>1. ASSUME NEW k \in Keys
        PROVE  requests[q][k] = 0 /\ replies[q][k] = 0 /\ ipc[q][k] = "none"
    <3>1. /\ RequestOK(q, k) /\ k \notin latch[q]
          /\ requests[q][k] \in Nat /\ replies[q][k] \in Nat
      BY <1>3 DEF RequestInv, SeedInv, TypeOK
    <3>2. requests[q][k] + replies[q][k] # 1 /\ requests[q][k] + replies[q][k] <= 1 /\ ipc[q][k] = "none"
      BY <3>1 DEF RequestOK
    <3>3. QED
      BY <3>1, <3>2
  <2>2. \A l \in LanesOf(q) : lane[l].pc # "send"
    BY <1>3 DEF SeedInv, LanesOf, Idle
  <2>3. QED
    BY <2>1, <2>2 DEF Owed, Outstanding, Sending
<1>6. Mail(q) = {} /\ SelfWaking(q) = {} /\ Handling(q) = {}
  BY <1>3 DEF SeedInv, Mail, SelfWaking, Handling, LanesOf, Idle
<1>7. Going(q) = {}
  BY <1>3 DEF SeedInv, Going, ElementsOf, QueueInv, QueueOK
<1>8. Total(q) = 1
  BY <1>4, <1>5, <1>6, <1>7, FS_EmptySet DEF Total, OpenCredit
<1>9. /\ credits'[q] = 1 /\ state'[q] = 1
      /\ \A p \in Processes : p # q => credits'[p] = credits[p] /\ state'[p] = state[p]
  BY DEF Arm, TypeOK
<1>10. CreditOK(q)'
  BY <1>1, <1>2, <1>3, <1>8, <1>9 DEF CreditInv, CreditOK
<1>11. \A p \in Processes : p # q => CreditOK(p)'
  BY <1>1, <1>2, <1>9, CreditKept
<1>12. QED
  BY <1>10, <1>11 DEF CreditInv

\* The open credit goes once every element is seeded.
LEMMA ReleaseCredits ==
  ASSUME IInv, Next, NEW q \in Processes, Release(q)
  PROVE  CreditInv'
<1> USE DEF IInv
<1>1. UNCHANGED <<requests, replies, ipc, resumes, goDowns, lane>>
  BY DEF Release, messageVars, installVars, elemVars
<1>2. q \notin released /\ released' = released \cup {q} /\ Debit(q)
  BY DEF Release
<1>3. OpenCredit(q) = 1 /\ OpenCredit(q)' = 0
  BY <1>2 DEF OpenCredit
<1>4. \A p \in Processes : p # q => OpenCredit(p)' = OpenCredit(p)
  BY <1>2 DEF OpenCredit
<1>5. \A p \in Processes :
        /\ Sending(p)' = Sending(p) /\ Owed(p)' = Owed(p) /\ Mail(p)' = Mail(p) /\ Going(p)' = Going(p)
        /\ SelfWaking(p)' = SelfWaking(p) /\ Handling(p)' = Handling(p)
  BY <1>1, SetsKept
<1>6. Total(q)' = Total(q) - 1 /\ Total(q) > 0
  BY <1>3, <1>5, TotalFacts DEF Total
<1>7. /\ CreditOK(q)'
      /\ \A p \in Processes : p # q =>
           credits'[p] = credits[p] /\ state'[p] = state[p] /\ reports'[p] = reports[p]
  BY <1>2, <1>6, CreditDown
<1>8. \A p \in Processes : p # q => CreditOK(p)'
  BY <1>4, <1>5, <1>7, SameTotal, CreditKept
<1>9. QED
  BY <1>7, <1>8 DEF CreditInv

LEMMA CreditStepInv ==
  ASSUME IInv, Next
  PROVE  CreditInv'
<1>1. CASE Broadcast \/ WalkDone \/ Over
  <2>1. UNCHANGED <<credits, state, reports, released, requests, replies, ipc, resumes, goDowns, lane>>
    BY <1>1 DEF Broadcast, WalkDone, Over, vars, creditVars, driverVars, messageVars, installVars, elemVars
  <2>2. \A p \in Processes : CreditOK(p)'
    BY <2>1, SetsKept, SameTotal, CreditKept DEF IInv
  <2>3. QED
    BY <2>2 DEF CreditInv
<1>2. QED
  BY <1>1, QuietLanes, QuietRequests, StartCredits, AskCredits, WakeCredits, InstallCredits,
     ResumeCredits, ReturnCredits, ArmCredits, ReleaseCredits
  DEF Next, LaneStep, ReplyStep, DriverStep

-----------------------------------------------------------------------------
(* No pair is forgotten.                                                   *)

\* An element the step does not touch.
LEMMA WorkFrame ==
  ASSUME Next, NEW e \in Elements, WorkOK(e),
         stack'[e] = stack[e], held'[e] = held[e], fresh'[e] = fresh[e],
         visited'[e] = visited[e], Front(e)' = Front(e), Head(queue[e])' = Head(queue[e]),
         e \in seeded' => e \in seeded,
         Works(LaneOf[e], e)' <=> Works(LaneOf[e], e),
         GoesDown(e)' <=> GoesDown(e),
         \A k \in Keys : Registered(e, k) => Registered(e, k)',
         held[e] \cup fresh[e] \subseteq Pairs
  PROVE  WorkOK(e)'
<1>1. Pending(e)' = Pending(e)
  BY DEF Pending
<1>2. \A pr \in held[e] \cup fresh[e] : pr[1] \in Keys
  BY DEF Pairs
<1>3. QED
  BY <1>1, <1>2, LayoutKept DEF WorkOK

\* A lane that goes on with its handler works for the same element.
LEMMA WorksKept ==
  ASSUME Next, NEW l \in Lanes, KeepsLane(l), TypeOK, NEW e \in Elements
  PROVE  /\ Works(LaneOf[e], e)' <=> Works(LaneOf[e], e)
         /\ GoesDown(e)' <=> GoesDown(e)
<1>1. LaneOf' = LaneOf /\ LaneOf[e] \in Lanes
  BY LayoutKept, LayoutFacts
<1>2. \A m \in Lanes : Works(m, e)' <=> Works(m, e)
  BY DEF KeepsLane, Works, Asking
<1>3. Works(LaneOf[e], e)' <=> Works(LaneOf[e], e)
  BY <1>1, <1>2 DEF Works
<1>4. lane'[LaneOf[e]].handler = lane[LaneOf[e]].handler
  BY <1>1 DEF KeepsLane
<1>5. QED
  BY <1>1, <1>3, <1>4 DEF GoesDown

\* What an element is registered for at nodes and in messages stays.
LEMMA RegisteredKept ==
  ASSUME Next, NEW e \in Elements, queue'[e] = queue[e], NEW k \in Keys, Registered(e, k),
         UNCHANGED toWake, resumes \subseteq resumes', parked[Home(e)][k] \subseteq parked'[Home(e)][k],
         \/ lane'[LaneOf[e]] = lane[LaneOf[e]]
         \/ ~ Asks(LaneOf[e], k)
         \/ ~ Works(LaneOf[e], e)
  PROVE  Registered(e, k)'
<1>1. LaneOf' = LaneOf /\ Home(e)' = Home(e)
  BY LayoutKept
<1>2. CASE \E m \in resumes : m.key = k /\ e \in m.elems
  BY <1>2 DEF Registered
<1>3. CASE e \in parked[Home(e)][k] \cup toWake[Home(e)][k]
  BY <1>1, <1>3 DEF Registered
<1>4. CASE Queued(e, k)
  BY <1>4 DEF Registered, Queued
<1>5. CASE Asks(LaneOf[e], k) /\ Works(LaneOf[e], e)
  BY <1>1, <1>5 DEF Registered, Asks, Works
<1>6. QED
  BY <1>2, <1>3, <1>4, <1>5 DEF Registered

LEMMA WorkReplies ==
  ASSUME IInv, Next, NEW q \in Processes, NEW j \in Keys, ReplyStep(q, j)
  PROVE  WorkInv'
<1> USE DEF IInv
<1>1. UNCHANGED <<lane, stack, held, fresh, queue, visited, seeded>>
  BY ReplyFrame DEF elemVars, driverVars
<1>2. ASSUME NEW e \in Elements, NEW k \in Keys, Registered(e, k)
      PROVE  Registered(e, k)'
  <2>1. LaneOf' = LaneOf /\ Home(e)' = Home(e) /\ Home(e) \in Processes
    BY LayoutKept, LayoutFacts
  <2>2. CASE UNCHANGED <<parked, toWake, resumes>>
    BY <1>1, <1>2, <2>2, RegisteredKept
  <2>3. CASE Drain(q, j)
    <3>1. UNCHANGED resumes /\ ipc[q][j] = "drain"
      BY <2>3 DEF Drain, messageVars
    <3>2. toWake[q][j] = {}
      BY <3>1 DEF ParkedInv, ParkedOK
    <3>3. \A p \in Processes : parked[p][k] \cup toWake[p][k] \subseteq parked'[p][k] \cup toWake'[p][k]
      <4>1. /\ parked \in [Processes -> [Keys -> SUBSET Elements]]
            /\ toWake \in [Processes -> [Keys -> SUBSET Elements]]
        BY DEF TypeOK
      <4>2. /\ toWake' = [toWake EXCEPT ![q][j] = parked[q][j]]
            /\ parked' = [parked EXCEPT ![q][j] = {}]
        BY <2>3 DEF Drain
      <4>3. QED
        BY <3>2, <4>1, <4>2
    <3>4. QED
      BY <1>1, <1>2, <2>1, <3>1, <3>3 DEF Registered, Queued, Asks, Works
  <2>4. CASE WakeLane(q, j)
    <3>1. PICK f \in toWake[q][j] : SendResume(q, j, LaneOf[f])
      BY <2>4 DEF WakeLane
    <3>2. UNCHANGED parked /\ toWake' = [toWake EXCEPT ![q][j] = toWake[q][j] \ WaitersOn(q, j, LaneOf[f])]
      BY <2>4, <3>1 DEF WakeLane, SendResume, cacheVars
    <3>3. PICK m \in resumes' : m.key = j /\ m.elems = WaitersOn(q, j, LaneOf[f])
      <4>1. PICK m : m = [to |-> LaneOf[f], key |-> j, elems |-> WaitersOn(q, j, LaneOf[f]), by |-> "install"]
        OBVIOUS
      <4>2. m \in resumes' /\ m.key = j /\ m.elems = WaitersOn(q, j, LaneOf[f])
        BY <3>1, <4>1 DEF SendResume
      <4>3. QED
        BY <4>2
    <3>4. resumes \subseteq resumes'
      BY <3>1 DEF SendResume
    <3>5. \A p \in Processes : e \in toWake[p][k] =>
            e \in toWake'[p][k] \/ (k = j /\ e \in WaitersOn(q, j, LaneOf[f]))
      <4>1. toWake \in [Processes -> [Keys -> SUBSET Elements]]
        BY DEF TypeOK
      <4>2. QED
        BY <3>2, <4>1
    <3>6. QED
      BY <1>1, <1>2, <2>1, <3>2, <3>3, <3>4, <3>5 DEF Registered, Queued, Asks, Works
  <2>5. QED
    BY <2>2, <2>3, <2>4
    DEF ReplyStep, Serve, Install, LaneCredit, ReturnRequest, cacheVars, installVars, messageVars
<1>3. ASSUME NEW e \in Elements
      PROVE  WorkOK(e)'
  <2>1. Front(e)' = Front(e) /\ WorkOK(e) /\ held[e] \cup fresh[e] \subseteq Pairs
    BY <1>1 DEF Front, WorkInv, TypeOK
  <2>2. (Works(LaneOf[e], e)' <=> Works(LaneOf[e], e)) /\ (GoesDown(e)' <=> GoesDown(e))
    BY <1>1, LayoutKept DEF Works, GoesDown
  <2>3. QED
    BY <1>1, <1>2, <2>1, <2>2, WorkFrame
<1>4. QED
  BY <1>3 DEF WorkInv

LEMMA WorkDriver ==
  ASSUME IInv, Next, DriverStep \/ Over
  PROVE  WorkInv'
<1> USE DEF IInv
<1>1. UNCHANGED <<lane, stack, held, fresh, queue, visited, parked, toWake, resumes>>
  BY DriverFrame DEF elemVars, cacheVars, installVars, messageVars
<1>2. UNCHANGED seeded
  BY DEF DriverStep, Over, vars, driverVars, Arm, Release, Broadcast, WalkDone
<1>3. ASSUME NEW e \in Elements
      PROVE  WorkOK(e)'
  <2>1. Front(e)' = Front(e) /\ WorkOK(e) /\ held[e] \cup fresh[e] \subseteq Pairs
    BY <1>1 DEF Front, WorkInv, TypeOK
  <2>2. (Works(LaneOf[e], e)' <=> Works(LaneOf[e], e)) /\ (GoesDown(e)' <=> GoesDown(e))
    BY <1>1, LayoutKept DEF Works, GoesDown
  <2>3. \A k \in Keys : Registered(e, k) => Registered(e, k)'
    BY <1>1, RegisteredKept
  <2>4. QED
    BY <1>1, <1>2, <2>1, <2>2, <2>3, WorkFrame
<1>4. QED
  BY <1>3 DEF WorkInv

\* The handlers that begin.
LEMMA WorkStarts ==
  ASSUME IInv, Next, NEW e \in Elements, ElementStep(e)
  PROVE  WorkInv'
<1> USE DEF IInv
<1>1. UNCHANGED <<held, fresh, queue, visited, seeded, parked, toWake, resumes>>
  BY ElementFrame DEF driverVars, cacheVars, installVars, messageVars
<1>2. /\ LaneOf[e] \in Lanes /\ lane[LaneOf[e]] = Idle
      /\ lane'[LaneOf[e]].pc = "travel" /\ lane'[LaneOf[e]].elem = e
      /\ lane'[LaneOf[e]].handler = IF Start(e) THEN "start" ELSE "goDown"
      /\ \A m \in Lanes : m # LaneOf[e] => lane'[m] = lane[m]
  BY StartPcs
<1>3. LaneOf' = LaneOf /\ Seeds' = Seeds /\ Kids' = Kids /\ LaneOf \in [Elements -> Lanes]
  BY LayoutKept, LayoutFacts
<1>4. ASSUME NEW f \in Elements, NEW k \in Keys, Registered(f, k)
      PROVE  Registered(f, k)'
  <2>1. lane'[LaneOf[f]] = lane[LaneOf[f]] \/ ~ Asks(LaneOf[f], k)
    BY <1>2, <1>3 DEF Asks, Asking, Idle
  <2>2. QED
    BY <1>1, <1>4, <2>1, RegisteredKept
<1>5. ASSUME NEW f \in Elements, f # e
      PROVE  WorkOK(f)'
  <2>1. Front(f)' = Front(f) /\ WorkOK(f) /\ held[f] \cup fresh[f] \subseteq Pairs
    BY <1>1 DEF Front, WorkInv, TypeOK
  <2>2. stack'[f] = stack[f]
    BY <1>5 DEF ElementStep, Start, GoDown, TypeOK
  <2>3. (Works(LaneOf[f], f)' <=> Works(LaneOf[f], f)) /\ (GoesDown(f)' <=> GoesDown(f))
    BY <1>2, <1>3, <1>5 DEF Works, GoesDown, Idle
  <2>4. QED
    BY <1>1, <1>4, <2>1, <2>2, <2>3, WorkFrame
<1>6. WorkOK(e)'
  <2>1. WorkOK(e) /\ ~ Works(LaneOf[e], e)
    BY <1>2 DEF WorkInv, Works, Idle
  <2>2. stack[e] = {} /\ fresh[e] = {}
    BY <2>1 DEF WorkOK
  <2>3. Works(LaneOf[e], e)'
    BY <1>2, <1>3 DEF Works
  <2>4. Pending(e) \subseteq Pending(e)'
    BY <1>1, <2>2 DEF Pending
  <2>5. \A pr \in held'[e] \cup fresh'[e] : Registered(e, pr[1])'
    BY <1>1, <1>4, <2>1 DEF WorkOK, TypeOK, Pairs
  <2>6. CASE Start(e)
    <3>1. stack'[e] = Seeds[e]
      BY <2>6 DEF Start, TypeOK
    <3>2. ~ GoesDown(e)'
      BY <1>2, <1>3, <2>6 DEF GoesDown
    <3>3. Seeds'[e] \subseteq visited'[e] \cup Pending(e)'
      BY <1>3, <3>1 DEF Pending
    <3>4. QED
      BY <1>1, <1>3, <2>1, <2>3, <2>4, <2>5, <3>2, <3>3 DEF WorkOK
  <2>7. CASE ~ Start(e)
    <3>1. stack'[e] = Front(e)
      BY <2>7, LaneStarts DEF ElementStep, TypeOK
    <3>2. Front(e)' \subseteq stack'[e]
      BY <1>1, <3>1 DEF Front
    <3>3. GoesDown(e)'
      BY <1>2, <1>3, <2>3, <2>7 DEF GoesDown
    <3>4. QED
      BY <1>1, <1>3, <2>1, <2>2, <2>3, <2>4, <2>5, <3>2, <3>3 DEF WorkOK
  <2>8. QED
    BY <2>6, <2>7
<1>7. QED
  BY <1>5, <1>6 DEF WorkInv

\* At a node it does not have, an element is asking for it, then parked or sent for.
LEMMA WorkAsks ==
  ASSUME IInv, Next, NEW l \in Lanes, AskingStep(l)
  PROVE  WorkInv'
<1> USE DEF IInv
<1>1. UNCHANGED <<stack, held, fresh, queue, visited, seeded, toWake>>
  BY DEF AskingStep, Latch, AskCredit, AskSend, Park, WakeCredit, WakeSelf, elemVars, driverVars, installVars
<1>2. KeepsLane(l) /\ lane[l].pc \in Asking
  BY KeepsFacts, AskingFacts DEF AskingStep, Asking
<1>3. PICK e \in Elements : e = lane[l].elem /\ LaneOf[e] = l /\ Works(l, e)
  BY <1>2, LaneFacts DEF LaneInv, Works, Asking
<1>4. PICK i \in Keys : i = lane[l].key
  BY <1>2, LaneFacts
<1>5. resumes \subseteq resumes'
  BY DEF AskingStep, Latch, AskCredit, AskSend, Park, WakeCredit, WakeSelf, messageVars
<1>6. parked' = parked \/ parked' = [parked EXCEPT ![ProcessOf[l]][i] = parked[ProcessOf[l]][i] \cup {e}]
  BY <1>3, <1>4 DEF AskingStep, Latch, AskCredit, AskSend, Park, WakeCredit, WakeSelf, cacheVars
<1>7. /\ parked \in [Processes -> [Keys -> SUBSET Elements]] /\ ProcessOf[l] \in Processes
      /\ LaneOf' = LaneOf /\ ProcessOf' = ProcessOf
  BY LayoutFacts, LayoutKept DEF TypeOK
<1>8. \A p \in Processes, k \in Keys : parked[p][k] \subseteq parked'[p][k]
  BY <1>6, <1>7
<1>9. Registered(e, i)'
  <2>1. CASE lane'[l].pc # "travel"
    <3>1. lane'[l].key = i /\ lane'[l].pc \in Asking /\ Works(l, e)'
      BY <1>2, <1>3, <1>4, <2>1, AskingFacts, WorksKept, LayoutKept DEF KeepsLane, Asking, Works
    <3>2. QED
      BY <1>3, <1>7, <3>1 DEF Registered, Asks, Works
  <2>2. CASE lane'[l].pc = "travel" /\ Park(l)
    <3>1. i \notin closed[ProcessOf[l]]
      BY <1>4, <2>2, AskingFacts
    <3>2. parked' = [parked EXCEPT ![ProcessOf[l]][i] = parked[ProcessOf[l]][i] \cup {e}]
      BY <1>3, <1>4, <2>2, <3>1 DEF Park
    <3>3. e \in parked'[ProcessOf[l]][i]
      BY <1>7, <3>2
    <3>4. QED
      BY <1>3, <1>7, <3>3 DEF Registered, Home
  <2>3. CASE WakeSelf(l)
    <3>1. PICK m : m = SelfMessage(l, i)
      OBVIOUS
    <3>2. m \in resumes' /\ m.key = i /\ e \in m.elems
      BY <1>3, <1>4, <2>3, <3>1 DEF WakeSelf, SelfMessage
    <3>3. QED
      BY <3>2 DEF Registered
  <2>4. QED
    BY <2>1, <2>2, <2>3, AskingFacts DEF AskingStep
<1>10. ASSUME NEW f \in Elements, NEW k \in Keys, Registered(f, k)
       PROVE  Registered(f, k)'
  <2>1. CASE f = e /\ k = i
    BY <1>9, <2>1
  <2>2. CASE f # e \/ k # i
    <3>1. LaneOf[f] \in Lanes
      BY LayoutFacts
    <3>2. \/ lane'[LaneOf[f]] = lane[LaneOf[f]]
          \/ ~ Asks(LaneOf[f], k)
          \/ ~ Works(LaneOf[f], f)
      BY <1>2, <1>3, <1>4, <2>2, <3>1 DEF KeepsLane, Asks, Works
    <3>3. parked[Home(f)][k] \subseteq parked'[Home(f)][k]
      BY <1>8, LayoutFacts
    <3>4. QED
      BY <1>1, <1>5, <1>10, <3>2, <3>3, RegisteredKept
  <2>3. QED
    BY <2>1, <2>2
<1>11. ASSUME NEW f \in Elements
       PROVE  WorkOK(f)'
  <2>1. Front(f)' = Front(f) /\ WorkOK(f) /\ held[f] \cup fresh[f] \subseteq Pairs
    BY <1>1 DEF Front, WorkInv, TypeOK
  <2>2. QED
    BY <1>1, <1>2, <1>10, <2>1, WorksKept, WorkFrame
<1>12. QED
  BY <1>11 DEF WorkInv

\* The loop of doTrav: a pair goes from the stack to the visited ones or to fresh.
LEMMA WorkVisit ==
  ASSUME IInv, Next, NEW l \in Lanes, Visit(l)
  PROVE  WorkInv'
<1> USE DEF IInv
<1>1. UNCHANGED <<held, queue, seeded, parked, toWake, resumes>>
  BY DEF Visit, driverVars, cacheVars, installVars, messageVars
<1>2. PICK e \in Elements : e = lane[l].elem /\ LaneOf[e] = l /\ lane[l].pc = "travel" /\ Works(l, e)
  BY VisitFacts, LaneFacts DEF LaneInv, Works
<1>3. PICK pr \in stack[e] :
        /\ pr \in Pairs /\ pr[1] \in Keys
        /\ \/ Open(l, e, pr) /\ lane' = lane
           \/ /\ Miss(l, e, pr)
              /\ lane'[l] = [handler |-> lane[l].handler, elem |-> e, pc |-> "latch", key |-> pr[1]]
  BY <1>2, VisitFacts
<1>4. KeepsLane(l) /\ LaneOf' = LaneOf /\ Kids' = Kids /\ Seeds' = Seeds
  BY KeepsFacts, LayoutKept
<1>5. \A f \in Elements : (Works(LaneOf[f], f)' <=> Works(LaneOf[f], f)) /\ (GoesDown(f)' <=> GoesDown(f))
  BY <1>4, WorksKept
<1>6. ASSUME NEW f \in Elements, NEW k \in Keys, Registered(f, k)
      PROVE  Registered(f, k)'
  <2>1. lane'[LaneOf[f]] = lane[LaneOf[f]] \/ ~ Asks(LaneOf[f], k)
    BY <1>2, <1>4, LayoutFacts DEF KeepsLane, Asks, Asking
  <2>2. QED
    BY <1>1, <1>6, <2>1, RegisteredKept
<1>7. ASSUME NEW f \in Elements, f # e
      PROVE  WorkOK(f)'
  <2>1. Front(f)' = Front(f) /\ WorkOK(f) /\ held[f] \cup fresh[f] \subseteq Pairs
    BY <1>1 DEF Front, WorkInv, TypeOK
  <2>2. stack'[f] = stack[f] /\ fresh'[f] = fresh[f] /\ visited'[f] = visited[f]
    BY <1>3, <1>7 DEF Open, Miss, TypeOK
  <2>3. QED
    BY <1>1, <1>5, <1>6, <2>1, <2>2, WorkFrame
<1>8. WorkOK(e)'
  <2>1. WorkOK(e) /\ Works(LaneOf[e], e)'
    BY <1>2, <1>5 DEF WorkInv
  <2>2. \A x \in held[e] \cup fresh[e] : Registered(e, x[1])'
    BY <1>6, <2>1 DEF WorkOK, TypeOK, Pairs
  <2>3. Front(e)' = Front(e)
    BY <1>1 DEF Front
  <2>4. CASE Open(l, e, pr)
    <3>1. /\ stack'[e] = (stack[e] \ {pr}) \cup {<<k, pr[2]>> : k \in Kids[pr[1]]}
          /\ visited'[e] = visited[e] \cup {pr} /\ fresh'[e] = fresh[e]
      BY <2>4 DEF Open, TypeOK
    <3>2. visited[e] \cup Pending(e) \subseteq visited'[e] \cup Pending(e)'
      BY <1>1, <3>1 DEF Pending
    <3>3. \A k \in Kids[pr[1]] : <<k, pr[2]>> \in Pending(e)'
      BY <3>1 DEF Pending
    <3>4. Front(e)' \subseteq visited'[e] \cup stack'[e] \/ ~ GoesDown(e)
      BY <2>1, <2>3, <3>1 DEF WorkOK
    <3>5. QED
      BY <1>1, <1>4, <1>5, <2>1, <2>2, <3>1, <3>2, <3>3, <3>4 DEF WorkOK
  <2>5. CASE /\ Miss(l, e, pr)
             /\ lane'[l] = [handler |-> lane[l].handler, elem |-> e, pc |-> "latch", key |-> pr[1]]
    <3>1. /\ stack'[e] = stack[e] \ {pr} /\ fresh'[e] = fresh[e] \cup {pr} /\ visited'[e] = visited[e]
          /\ pr[1] \notin installed[Home(e)]
      BY <2>5 DEF Miss, TypeOK
    <3>2. visited[e] \cup Pending(e) \subseteq visited'[e] \cup Pending(e)'
      BY <1>1, <3>1 DEF Pending
    <3>3. Registered(e, pr[1])'
      BY <1>2, <1>4, <2>1, <2>5 DEF Registered, Asks, Asking, Works
    <3>4. GoesDown(e) => pr[1] # Head(queue[e]) /\ pr \notin Front(e)
      <4>1. GoesDown(e) => queue[e] # << >> /\ queue[e] \in Seq(Keys)
        BY DEF QueueInv, QueueOK, TypeOK
      <4>2. GoesDown(e) => Head(queue[e]) \in installed[Home(e)]
        BY <4>1, TailFacts DEF QueueInv, QueueOK
      <4>3. QED
        BY <3>1, <4>2 DEF Front
    <3>5. GoesDown(e) => Front(e)' \subseteq visited'[e] \cup stack'[e]
      BY <2>1, <2>3, <3>1, <3>4 DEF WorkOK
    <3>6. QED
      BY <1>1, <1>4, <1>5, <2>1, <2>2, <3>1, <3>2, <3>3, <3>4, <3>5 DEF WorkOK
  <2>6. QED
    BY <1>3, <2>4, <2>5
<1>9. QED
  BY <1>7, <1>8 DEF WorkInv

\* startDual ends: what it met is recorded.
LEMMA WorkSeeded ==
  ASSUME IInv, Next, NEW l \in Lanes, Seeded(l)
  PROVE  WorkInv'
<1> USE DEF IInv
<1>1. UNCHANGED <<stack, queue, visited, parked, toWake, resumes>>
  BY DEF Seeded, cacheVars, installVars, messageVars
<1>2. PICK e \in Elements : e = lane[l].elem /\ LaneOf[e] = l /\ Works(l, e) /\ ~ GoesDown(e)
  BY LaneFacts, LaneEndFacts DEF LaneInv, Works, GoesDown
<1>3. /\ stack[e] = {} /\ seeded' \subseteq seeded \cup {e}
      /\ held' = [held EXCEPT ![e] = held[e] \cup fresh[e]]
      /\ fresh' = [fresh EXCEPT ![e] = {}]
  BY <1>2 DEF Seeded, HeldAfter
<1>4. lane'[l] = Idle /\ (\A m \in Lanes : m # l => lane'[m] = lane[m]) /\ lane[l].pc = "travel"
  BY LaneEndFacts DEF TypeOK
<1>5. LaneOf' = LaneOf /\ Kids' = Kids /\ Seeds' = Seeds /\ LaneOf \in [Elements -> Lanes]
  BY LayoutKept, LayoutFacts
<1>6. ASSUME NEW f \in Elements, NEW k \in Keys, Registered(f, k)
      PROVE  Registered(f, k)'
  <2>1. lane'[LaneOf[f]] = lane[LaneOf[f]] \/ ~ Asks(LaneOf[f], k)
    BY <1>4, <1>5 DEF Asks, Asking
  <2>2. QED
    BY <1>1, <1>6, <2>1, RegisteredKept
<1>7. ASSUME NEW f \in Elements, f # e
      PROVE  WorkOK(f)'
  <2>1. held'[f] = held[f] /\ fresh'[f] = fresh[f]
    BY <1>3, <1>7 DEF TypeOK
  <2>2. Front(f)' = Front(f) /\ WorkOK(f) /\ held[f] \cup fresh[f] \subseteq Pairs
    BY <1>1, <2>1 DEF Front, WorkInv, TypeOK
  <2>3. (Works(LaneOf[f], f)' <=> Works(LaneOf[f], f)) /\ (GoesDown(f)' <=> GoesDown(f))
    BY <1>2, <1>4, <1>5, <1>7 DEF Works, GoesDown, Idle
  <2>4. f \in seeded' => f \in seeded
    BY <1>3, <1>7
  <2>5. QED
    BY <1>1, <1>6, <2>1, <2>2, <2>3, <2>4, WorkFrame
<1>8. WorkOK(e)'
  <2>1. held'[e] = held[e] \cup fresh[e] /\ fresh'[e] = {} /\ stack'[e] = {}
    BY <1>1, <1>3 DEF TypeOK
  <2>2. Pending(e)' = Pending(e)
    BY <1>3, <2>1 DEF Pending
  <2>3. ~ Works(LaneOf[e], e)' /\ ~ GoesDown(e)'
    BY <1>2, <1>4, <1>5 DEF Works, GoesDown, Idle
  <2>4. WorkOK(e)
    BY DEF WorkInv
  <2>5. \A x \in held'[e] \cup fresh'[e] : Registered(e, x[1])'
    BY <1>6, <2>1, <2>4 DEF WorkOK, TypeOK, Pairs
  <2>6. QED
    BY <1>1, <1>2, <1>5, <2>1, <2>2, <2>3, <2>4, <2>5 DEF WorkOK
<1>9. QED
  BY <1>7, <1>8 DEF WorkInv

\* doTrav has worked off the front of the queue: what was recorded for that node was
\* visited, and what it met on the way is not about that node.
LEMMA WorkDescended ==
  ASSUME IInv, Next, NEW l \in Lanes, Descended(l)
  PROVE  WorkInv'
<1> USE DEF IInv
<1>1. UNCHANGED <<visited, parked, toWake, resumes, seeded>>
  BY DEF Descended, cacheVars, installVars, messageVars, driverVars
<1>2. PICK e \in Elements : e = lane[l].elem /\ LaneOf[e] = l /\ Works(l, e) /\ GoesDown(e)
  BY LaneFacts, LaneEndFacts DEF LaneInv, Works, GoesDown
<1>3. /\ stack[e] = {}
      /\ held' = [held EXCEPT ![e] = (held[e] \ Front(e)) \cup fresh[e]]
      /\ fresh' = [fresh EXCEPT ![e] = {}]
      /\ queue' = [queue EXCEPT ![e] = Tail(queue[e])]
      /\ \/ Len(queue[e]) = 1 /\ stack' = stack
         \/ /\ Len(queue[e]) # 1
            /\ stack' = [stack EXCEPT ![e] = {pr \in (held[e] \ Front(e)) \cup fresh[e] : pr[1] = queue[e][2]}]
  BY <1>2 DEF Descended, HeldAfter
<1>4. /\ queue[e] \in Seq(Keys) /\ queue[e] # << >>
      /\ Len(queue[e]) \in Nat /\ Len(queue[e]) > 0 /\ Head(queue[e]) = queue[e][1]
      /\ Tail(queue[e]) = << >> <=> Len(queue[e]) = 1
  <2>1. queue[e] \in Seq(Keys) /\ queue[e] # << >>
    BY <1>2 DEF TypeOK, QueueInv, QueueOK
  <2>2. QED
    BY <2>1, TailFacts
<1>5. /\ \A m \in Lanes : m # l => lane'[m] = lane[m]
      /\ lane[l].pc = "travel" /\ lane[l].handler = "goDown"
      /\ \/ lane' = lane /\ Len(queue[e]) # 1
         \/ Len(queue[e]) = 1 /\ lane'[l].pc = "debit"
  <2>1. \/ lane' = lane /\ Len(queue[e]) # 1
        \/ /\ Len(queue[e]) = 1
           /\ lane' = [lane EXCEPT ![l] = [handler |-> "goDown", pc |-> "debit", elem |-> e]]
    BY <1>2, LaneEndFacts
  <2>2. CASE lane' = [lane EXCEPT ![l] = [handler |-> "goDown", pc |-> "debit", elem |-> e]]
    BY <2>1, <2>2, LaneEndFacts DEF TypeOK
  <2>3. QED
    BY <2>1, <2>2, LaneEndFacts
<1>6. LaneOf' = LaneOf /\ Kids' = Kids /\ Seeds' = Seeds /\ LaneOf \in [Elements -> Lanes] /\ Home(e)' = Home(e)
  BY LayoutKept, LayoutFacts
<1>7. ASSUME NEW f \in Elements, f # e
      PROVE  WorkOK(f)'
  <2>1. held'[f] = held[f] /\ fresh'[f] = fresh[f] /\ queue'[f] = queue[f] /\ stack'[f] = stack[f]
    BY <1>3, <1>7 DEF TypeOK
  <2>2. Front(f)' = Front(f) /\ WorkOK(f) /\ held[f] \cup fresh[f] \subseteq Pairs
    BY <1>1, <2>1 DEF Front, WorkInv, TypeOK
  <2>3. (Works(LaneOf[f], f)' <=> Works(LaneOf[f], f)) /\ (GoesDown(f)' <=> GoesDown(f))
    <3>1. CASE LaneOf[f] # l
      BY <1>5, <1>6, <3>1 DEF Works, GoesDown
    <3>2. CASE LaneOf[f] = l
      <4>1. ~ Works(l, f) /\ ~ GoesDown(f)
        BY <1>2, <1>7, <3>2 DEF Works, GoesDown
      <4>2. ~ Works(l, f)'
        BY <1>2, <1>5, <1>7 DEF Works
      <4>3. QED
        BY <1>6, <3>2, <4>1, <4>2 DEF GoesDown, Works
    <3>3. QED
      BY <3>1, <3>2
  <2>4. ASSUME NEW k \in Keys, Registered(f, k)
        PROVE  Registered(f, k)'
    <3>1. lane'[LaneOf[f]] = lane[LaneOf[f]] \/ ~ Asks(LaneOf[f], k)
      BY <1>5, <1>6 DEF Asks, Asking
    <3>2. QED
      BY <1>1, <2>1, <2>4, <3>1, RegisteredKept
  <2>5. QED
    BY <1>1, <2>1, <2>2, <2>3, <2>4, WorkFrame
<1>8. WorkOK(e)'
  <2>1. /\ held'[e] = (held[e] \ Front(e)) \cup fresh[e] /\ fresh'[e] = {} /\ queue'[e] = Tail(queue[e])
        /\ \/ Len(queue[e]) = 1 /\ stack'[e] = {}
           \/ Len(queue[e]) # 1 /\ stack'[e] = {pr \in held'[e] : pr[1] = queue[e][2]}
    <3>1. /\ held \in [Elements -> SUBSET Pairs] /\ stack \in [Elements -> SUBSET Pairs]
          /\ fresh \in [Elements -> SUBSET Pairs] /\ queue \in [Elements -> Seq(Keys)]
      BY DEF TypeOK
    <3>2. /\ held'[e] = (held[e] \ Front(e)) \cup fresh[e] /\ fresh'[e] = {} /\ queue'[e] = Tail(queue[e])
      BY <1>3, <3>1
    <3>3. CASE Len(queue[e]) = 1 /\ stack' = stack
      BY <1>3, <3>2, <3>3
    <3>4. CASE Len(queue[e]) # 1 /\ stack' = [stack EXCEPT ![e] = {pr \in (held[e] \ Front(e)) \cup fresh[e] : pr[1] = queue[e][2]}]
      BY <3>1, <3>2, <3>4
    <3>5. QED
      BY <1>3, <3>2, <3>3, <3>4
  <2>2. WorkOK(e) /\ Front(e) \subseteq visited[e]
    BY <1>2, <1>3 DEF WorkInv, WorkOK
  <2>3. visited[e] \cup Pending(e) \subseteq visited'[e] \cup Pending(e)'
    BY <1>1, <1>3, <2>1, <2>2 DEF Pending
  <2>4. ASSUME NEW x \in held'[e] \cup fresh'[e]
        PROVE  Registered(e, x[1])'
    <3>1. x \in held[e] \cup fresh[e] /\ x[1] # Head(queue[e]) /\ x[1] \in Keys
      <4>1. x \in held[e] \cup fresh[e] /\ x[1] # Head(queue[e])
        BY <1>2, <2>1, <2>2, <2>4 DEF Front, WorkOK
      <4>2. QED
        BY <4>1 DEF TypeOK, Pairs
    <3>2. Registered(e, x[1]) /\ ~ Asks(LaneOf[e], x[1])
      BY <1>2, <1>5, <2>2, <3>1 DEF WorkOK, Asks, Asking
    <3>3. CASE Queued(e, x[1])
      <4>1. PICK i \in 1 .. Len(queue[e]) : queue[e][i] = x[1]
        BY <3>3 DEF Queued
      <4>2. i # 1
        BY <1>4, <3>1, <4>1
      <4>3. i - 1 \in 1 .. Len(queue'[e]) /\ queue'[e][i - 1] = x[1]
        BY <1>4, <2>1, <4>1, <4>2, TailFacts
      <4>4. Queued(e, x[1])'
        BY <4>3 DEF Queued
      <4>5. QED
        BY <4>4 DEF Registered
    <3>4. CASE ~ Queued(e, x[1])
      BY <1>1, <1>6, <3>2, <3>4 DEF Registered
    <3>5. QED
      BY <3>3, <3>4
  <2>5. ~ Works(LaneOf[e], e)' => stack'[e] = {} /\ fresh'[e] = {}
    BY <1>2, <1>5, <1>6, <2>1 DEF Works
  <2>6. GoesDown(e)' => Front(e)' \subseteq stack'[e]
    <3>1. ASSUME GoesDown(e)'
          PROVE  Front(e)' \subseteq stack'[e]
      <4>1. Len(queue[e]) # 1
        BY <1>2, <1>5, <1>6, <3>1 DEF GoesDown, Works
      <4>2. Tail(queue[e]) # << >> /\ Tail(queue[e]) \in Seq(Keys)
        BY <1>4, <4>1, TailFacts
      <4>3. Head(Tail(queue[e])) = Tail(queue[e])[1] /\ 1 \in 1 .. Len(Tail(queue[e]))
        <5>1. Head(Tail(queue[e])) = Tail(queue[e])[1] /\ Len(Tail(queue[e])) \in Nat /\ Len(Tail(queue[e])) > 0
          BY <4>2, TailFacts
        <5>2. QED
          BY <5>1
      <4>4. Tail(queue[e])[1] = queue[e][1 + 1]
        BY <1>4, <4>3, TailFacts
      <4>5. Head(queue'[e]) = queue[e][2]
        BY <2>1, <4>3, <4>4
      <4>6. QED
        BY <2>1, <4>1, <4>5 DEF Front
    <3>2. QED
      BY <3>1
  <2>7. Works(LaneOf[e], e)' => GoesDown(e)'
    BY <1>2, <1>5, <1>6 DEF Works, GoesDown
  <2>8. QED
    BY <1>1, <1>6, <2>1, <2>2, <2>3, <2>4, <2>5, <2>6, <2>7 DEF WorkOK
<1>9. QED
  BY <1>7, <1>8 DEF WorkInv

\* The node of a message goes to the queues of its elements.
LEMMA WorkResume ==
  ASSUME IInv, Next, NEW l \in Lanes, Resume(l)
  PROVE  WorkInv'
<1> USE DEF IInv
<1>1. UNCHANGED <<stack, held, fresh, visited, parked, toWake, seeded>>
  BY DEF Resume, cacheVars, installVars, driverVars
<1>2. PICK m \in resumes : Process(l, m)
  BY DEF Resume
<1>3. /\ m.to = l /\ resumes' = resumes \ {m} /\ m.elems \subseteq Elements /\ m.key \in Keys
      /\ queue' = [e \in Elements |-> IF e \in m.elems THEN Append(queue[e], m.key) ELSE queue[e]]
  BY <1>2 DEF Process, TypeOK
<1>4. /\ lane[l] = Idle /\ lane'[l] = [handler |-> "process", pc |-> "debit"]
      /\ \A n \in Lanes : n # l => lane'[n] = lane[n]
  BY LaneEndFacts DEF TypeOK
<1>5. LaneOf' = LaneOf /\ Kids' = Kids /\ Seeds' = Seeds /\ LaneOf \in [Elements -> Lanes]
      /\ \A e : Home(e)' = Home(e)
  BY LayoutKept, LayoutFacts
<1>6. ASSUME NEW e \in Elements, NEW k \in Keys, Registered(e, k)
      PROVE  Registered(e, k)'
  <2>1. queue[e] \in Seq(Keys)
    BY DEF TypeOK
  <2>2. CASE Queued(e, k)
    <3>1. PICK i \in 1 .. Len(queue[e]) : queue[e][i] = k
      BY <2>2 DEF Queued
    <3>2. i \in 1 .. Len(queue'[e]) /\ queue'[e][i] = k
      <4>1. CASE e \in m.elems
        <5>1. queue'[e] = Append(queue[e], m.key)
          BY <1>3, <4>1
        <5>2. QED
          BY <1>3, <2>1, <3>1, <5>1, AppendFacts
      <4>2. CASE e \notin m.elems
        BY <1>3, <3>1, <4>2
      <4>3. QED
        BY <4>1, <4>2
    <3>3. Queued(e, k)'
      BY <3>2 DEF Queued
    <3>4. QED
      BY <3>3 DEF Registered
  <2>3. CASE m.key = k /\ e \in m.elems
    <3>1. queue'[e] = Append(queue[e], k)
      BY <1>3, <2>3
    <3>2. queue'[e][Len(queue[e]) + 1] = k /\ Len(queue[e]) + 1 \in 1 .. Len(queue'[e])
      <4>1. /\ Append(queue[e], k)[Len(queue[e]) + 1] = k
            /\ Len(Append(queue[e], k)) = Len(queue[e]) + 1 /\ Len(queue[e]) \in Nat
        BY <2>1, AppendFacts
      <4>2. QED
        BY <3>1, <4>1
    <3>3. Queued(e, k)'
      BY <3>2 DEF Queued
    <3>4. QED
      BY <3>3 DEF Registered
  <2>4. CASE \E n \in resumes : n # m /\ n.key = k /\ e \in n.elems
    BY <1>3, <2>4 DEF Registered
  <2>5. CASE e \in parked[Home(e)][k] \cup toWake[Home(e)][k]
    BY <1>1, <1>5, <2>5 DEF Registered
  <2>6. CASE Asks(LaneOf[e], k) /\ Works(LaneOf[e], e)
    <3>1. LaneOf[e] # l
      BY <1>4, <2>6 DEF Asks, Asking, Idle
    <3>2. QED
      BY <1>4, <1>5, <2>6, <3>1 DEF Registered, Asks, Works
  <2>7. QED
    BY <1>6, <2>2, <2>3, <2>4, <2>5, <2>6 DEF Registered
<1>7. \A e \in Elements : (Works(LaneOf[e], e)' <=> Works(LaneOf[e], e)) /\ (GoesDown(e)' <=> GoesDown(e))
  BY <1>4, <1>5 DEF Works, GoesDown, Idle
<1>8. ASSUME NEW e \in Elements, e \notin m.elems
      PROVE  WorkOK(e)'
  <2>1. queue'[e] = queue[e]
    BY <1>3, <1>8
  <2>2. Front(e)' = Front(e) /\ WorkOK(e) /\ held[e] \cup fresh[e] \subseteq Pairs
    BY <1>1, <2>1 DEF Front, WorkInv, TypeOK
  <2>3. QED
    BY <1>1, <1>6, <1>7, <2>1, <2>2, WorkFrame
<1>9. ASSUME NEW e \in Elements, e \in m.elems
      PROVE  WorkOK(e)'
  <2>1. LaneOf[e] = l
    BY <1>3, <1>9 DEF MailInv, MailOK
  <2>2. ~ Works(LaneOf[e], e) /\ ~ GoesDown(e)
    BY <1>4, <2>1 DEF Works, GoesDown, Idle
  <2>3. WorkOK(e) /\ Pending(e)' = Pending(e)
    BY <1>1 DEF WorkInv, Pending
  <2>4. \A x \in held'[e] \cup fresh'[e] : Registered(e, x[1])'
    BY <1>1, <1>6, <2>3 DEF WorkOK, TypeOK, Pairs
  <2>5. QED
    BY <1>1, <1>5, <1>7, <2>2, <2>3, <2>4 DEF WorkOK
<1>10. QED
  BY <1>8, <1>9 DEF WorkInv

LEMMA WorkReturn ==
  ASSUME IInv, Next, NEW l \in Lanes, Return(l)
  PROVE  WorkInv'
<1> USE DEF IInv
<1>1. UNCHANGED <<stack, held, fresh, queue, visited, seeded, parked, toWake, resumes>>
  BY DEF Return, elemVars, driverVars, cacheVars, installVars, messageVars
<1>2. /\ lane[l].pc = "debit" /\ lane'[l] = Idle
      /\ \A m \in Lanes : m # l => lane'[m] = lane[m]
  BY LaneEndFacts DEF TypeOK
<1>3. LaneOf' = LaneOf /\ LaneOf \in [Elements -> Lanes]
  BY LayoutKept, LayoutFacts
<1>4. ASSUME NEW e \in Elements
      PROVE  WorkOK(e)'
  <2>1. Front(e)' = Front(e) /\ WorkOK(e) /\ held[e] \cup fresh[e] \subseteq Pairs
    BY <1>1 DEF Front, WorkInv, TypeOK
  <2>2. (Works(LaneOf[e], e)' <=> Works(LaneOf[e], e)) /\ (GoesDown(e)' <=> GoesDown(e))
    BY <1>2, <1>3 DEF Works, GoesDown, Idle
  <2>3. \A k \in Keys : lane'[LaneOf[e]] = lane[LaneOf[e]] \/ ~ Asks(LaneOf[e], k)
    BY <1>2, <1>3 DEF Asks, Asking
  <2>4. \A k \in Keys : Registered(e, k) => Registered(e, k)'
    BY <1>1, <2>3, RegisteredKept
  <2>5. QED
    BY <1>1, <2>1, <2>2, <2>4, WorkFrame
<1>5. QED
  BY <1>4 DEF WorkInv

LEMMA WorkStepInv ==
  ASSUME IInv, Next
  PROVE  WorkInv'
BY WorkDriver, WorkReplies, WorkStarts, WorkAsks, WorkVisit, WorkSeeded, WorkDescended, WorkResume,
   WorkReturn
DEF Next, LaneStep, AskingStep

-----------------------------------------------------------------------------
(* The theorems.                                                           *)

LEMMA InitIInv ==
  ASSUME Init
  PROVE  IInv
<1>1. TypeOK
  <2>1. Idle \in Handlers
    BY DEF Handlers
  <2>2. \A e \in Elements : << >> \in Seq(Keys)
    OBVIOUS
  <2>3. /\ layout \in Layouts
        /\ credits \in [Processes -> Nat]
        /\ state \in [Processes -> 0 .. 2]
        /\ reports \in [Processes -> Nat]
        /\ installed \in [Processes -> SUBSET Keys]
        /\ closed \in [Processes -> SUBSET Keys]
        /\ latch \in [Processes -> SUBSET Keys]
        /\ parked \in [Processes -> [Keys -> SUBSET Elements]]
        /\ ipc \in [Processes -> [Keys -> {"none", "drain", "wake", "send", "done"}]]
        /\ toWake \in [Processes -> [Keys -> SUBSET Elements]]
        /\ lane \in [Lanes -> Handlers]
    BY <2>1 DEF Init
  <2>4. /\ stack \in [Elements -> SUBSET Pairs]
        /\ held \in [Elements -> SUBSET Pairs]
        /\ fresh \in [Elements -> SUBSET Pairs]
        /\ queue \in [Elements -> Seq(Keys)]
        /\ goDowns \in [Elements -> Nat]
        /\ visited \in [Elements -> SUBSET Pairs]
    BY <2>2 DEF Init
  <2>5. /\ requests \in [Processes -> [Keys -> Nat]]
        /\ replies \in [Processes -> [Keys -> Nat]]
        /\ resumes \subseteq [to : Lanes, key : Keys, elems : SUBSET Elements, by : {"self", "install"}]
        /\ walking \in BOOLEAN /\ seeded \subseteq Elements
        /\ released \subseteq Processes /\ finished \in BOOLEAN
    BY DEF Init
  <2>6. QED
    BY <2>3, <2>4, <2>5 DEF TypeOK
<1>2. \A l \in Lanes : /\ lane[l] = Idle /\ lane[l].handler = "none" /\ lane[l].pc = "idle"
  BY DEF Init, Idle
<1>3. /\ LaneOf \in [Elements -> Lanes] /\ ProcessOf \in [Lanes -> Processes]
      /\ Shipped \in [Keys -> SUBSET Keys]
      /\ \A e \in Elements : Home(e) \in Processes
  BY <1>1, LayoutFacts
<1>4. LaneInv /\ SeedInv
  BY <1>2 DEF LaneInv, SeedInv, Init
<1>5. QueueInv
  <2>1. \A e \in Elements : queue[e] = << >> /\ goDowns[e] = 0 /\ ~ GoesDown(e)
    BY <1>2, <1>3 DEF Init, GoesDown
  <2>2. Len(<< >>) = 0
    OBVIOUS
  <2>3. QED
    BY <2>1, <2>2 DEF QueueInv, QueueOK
<1>6. RequestInv
  BY <1>2 DEF Init, RequestInv, RequestOK, Requesting, LanesOf
<1>7. InstallInv
  <2>1. ASSUME NEW p \in Processes
        PROVE  /\ closed[p] = {} /\ installed[p] = {} /\ latch[p] = {}
               /\ \A k \in Keys : ipc[p][k] = "none"
               /\ \A l \in LanesOf(p), k \in Keys : ~ Asks(l, k)
               /\ \A k \in Keys : Unmet(p, k)
    BY <1>2 DEF Init, LanesOf, Asks, Asking, Unmet, Pending, ElementsOf
  <2>2. ASSUME NEW p \in Processes, NEW k \in Keys
        PROVE  KeyOK(p, k)
    BY <2>1 DEF KeyOK
  <2>3. ASSUME NEW p \in Processes, NEW j \in Keys, NEW k \in Shipped[j] \ {j}
        PROVE  ShipOK(p, j, k)
    BY <1>3, <2>1 DEF ShipOK
  <2>4. QED
    BY <2>1, <2>2, <2>3 DEF InstallInv
<1>8. ParkedInv /\ MailInv
  BY <1>2, FS_EmptySet DEF Init, ParkedInv, ParkedOK, MailInv
<1>9. CreditInv
  BY DEF Init, CreditInv, CreditOK
<1>10. WorkInv
  BY <1>2, <1>3 DEF Init, WorkInv, WorkOK, Works, GoesDown
<1>11. QED
  BY <1>1, <1>4, <1>5, <1>6, <1>7, <1>8, <1>9, <1>10 DEF IInv

LEMMA StepIInv ==
  ASSUME IInv, [Next]_vars
  PROVE  IInv'
<1>1. CASE Next
  BY <1>1, TypeStep, LaneStepInv, SeedStepInv, QueueStepInv, RequestStepInv, InstallStepInv, ParkedStepInv,
     MailStepInv, CreditStepInv, WorkStepInv DEF IInv
<1>2. CASE UNCHANGED vars
  <2>1. UNCHANGED <<layout, credits, state, reports, installed, closed, latch, parked, ipc, toWake, lane,
                    stack, held, fresh, queue, goDowns, visited, requests, replies, resumes,
                    walking, seeded, released, finished>>
    BY <1>2 DEF vars, creditVars, cacheVars, installVars, elemVars, messageVars, driverVars
  <2>2. /\ LaneOf' = LaneOf /\ ProcessOf' = ProcessOf /\ Kids' = Kids /\ Shipped' = Shipped /\ Seeds' = Seeds
        /\ (\A e : Home(e)' = Home(e)) /\ (\A p : LanesOf(p)' = LanesOf(p) /\ ElementsOf(p)' = ElementsOf(p))
    BY <2>1 DEF LaneOf, ProcessOf, Kids, Shipped, Seeds, Home, LanesOf, ElementsOf
  <2>3. TypeOK' /\ LaneInv' /\ SeedInv' /\ QueueInv'
    BY <2>1, <2>2 DEF IInv, TypeOK, LaneInv, SeedInv, QueueInv, QueueOK, GoesDown, Works
  <2>4. RequestInv' /\ ParkedInv'
    BY <2>1, <2>2 DEF IInv, RequestInv, RequestOK, Requesting, ParkedInv, ParkedOK
  <2>5. MailInv'
    BY <2>1, <2>2 DEF IInv, MailInv, MailOK, SelfMessage, Asks
  <2>6. InstallInv'
    BY <2>1, <2>2 DEF IInv, InstallInv, KeyOK, AskOK, Asks, ShipOK, Unmet, Pending
  <2>7. ASSUME NEW p \in Processes
        PROVE  CreditOK(p)'
    <3>1. /\ Owed(p)' = Owed(p) /\ Sending(p)' = Sending(p) /\ Mail(p)' = Mail(p)
          /\ SelfWaking(p)' = SelfWaking(p) /\ Going(p)' = Going(p) /\ Handling(p)' = Handling(p)
          /\ OpenCredit(p)' = OpenCredit(p)
      BY <2>1, <2>2 DEF OpenCredit, Owed, Outstanding, Sending, Mail, SelfWaking, Going, Handling
    <3>2. QED
      BY <2>1, <3>1, SameTotal, CreditKept DEF IInv
  <2>8. CreditInv'
    BY <2>7 DEF CreditInv
  <2>9. WorkInv'
    BY <2>1, <2>2 DEF IInv, WorkInv, WorkOK, Works, GoesDown, Front, Pending, Registered, Queued, Asks
  <2>10. QED
    BY <2>3, <2>6, <2>8, <2>9, <2>4, <2>5 DEF IInv
<1>3. QED
  BY <1>1, <1>2

\* The types and the nine parts hold together in every reachable state.
THEOREM Invariant == Spec => []IInv
<1>1. Init => IInv
  BY InitIInv
<1>2. IInv /\ [Next]_vars => IInv'
  BY StepIInv
<1>3. QED
  BY <1>1, <1>2, PTL DEF Spec

\* Every variable keeps its type; in particular no counter goes below zero.
THEOREM TypeCorrect == Spec => []TypeOK
<1>1. IInv => TypeOK
  BY DEF IInv
<1>2. QED
  BY <1>1, Invariant, PTL

\* handleRemoteNode's mask lets one lane per process ask for a node, and no reply is
\* under way for a node that is in the cache, so installSubtree finds its slot empty.
THEOREM OneRequest == Spec => []OneRequestPerNode
<1>1. ASSUME IInv
      PROVE  OneRequestPerNode
  <2>1. ASSUME NEW p \in Processes, NEW k \in Keys
        PROVE  /\ requests[p][k] + replies[p][k] <= 1
               /\ requests[p][k] + replies[p][k] > 0 => k \notin installed[p]
    <3>1. /\ RequestOK(p, k) /\ KeyOK(p, k)
          /\ requests[p][k] \in Nat /\ replies[p][k] \in Nat
      BY <1>1 DEF IInv, RequestInv, InstallInv, TypeOK
    <3>2. CASE requests[p][k] + replies[p][k] > 0
      <4>1. requests[p][k] + replies[p][k] = 1
        BY <3>1, <3>2 DEF RequestOK
      <4>2. k \in latch[p] /\ ipc[p][k] = "none"
        BY <3>1, <4>1 DEF RequestOK
      <4>3. QED
        BY <3>1, <4>1, <4>2 DEF KeyOK
    <3>3. CASE ~ (requests[p][k] + replies[p][k] > 0)
      BY <3>1, <3>3 DEF RequestOK
    <3>4. QED
      BY <3>2, <3>3
  <2>2. QED
    BY <2>1 DEF OneRequestPerNode
<1>2. QED
  BY <1>1, Invariant, PTL

\* walkCreditInc and walkCreditDec balance: the counter of an armed process is what it
\* has outstanding.
THEOREM CreditsExact == Spec => []CreditsCount
<1>1. ASSUME IInv
      PROVE  CreditsCount
  BY <1>1 DEF IInv, CreditInv, CreditOK, CreditsCount, Armed, Total, OpenCredit, Owed, Sending, Mail,
              SelfWaking, Going, Handling
<1>2. QED
  BY <1>1, Invariant, PTL

LEMMA TotalNone ==
  ASSUME TypeOK, MailInv, NEW p \in Processes, Total(p) = 0
  PROVE  /\ OpenCredit(p) = 0 /\ Cardinality(Owed(p)) = 0 /\ Cardinality(Sending(p)) = 0
         /\ Cardinality(Mail(p)) = 0 /\ Cardinality(SelfWaking(p)) = 0
         /\ Cardinality(Going(p)) = 0 /\ Cardinality(Handling(p)) = 0
<1>1. PICK a \in Nat, b \in Nat, c \in Nat, d \in Nat, e \in Nat, f \in Nat, g \in Nat :
        /\ a = OpenCredit(p) /\ b = Cardinality(Owed(p)) /\ c = Cardinality(Sending(p))
        /\ d = Cardinality(Mail(p)) /\ e = Cardinality(SelfWaking(p))
        /\ f = Cardinality(Going(p)) /\ g = Cardinality(Handling(p))
  BY TotalFacts
<1>2. a + b + c + d + e + f + g = 0
  BY <1>1 DEF Total
<1>3. a = 0 /\ b = 0 /\ c = 0 /\ d = 0 /\ e = 0 /\ f = 0 /\ g = 0
  BY <1>2
<1>4. QED
  BY <1>1, <1>3

\* A process with nothing outstanding has no work of the walk left.
LEMMA OutOfWork ==
  ASSUME IInv, NEW p \in Processes, Total(p) = 0
  PROVE  /\ ~ Busy(p)
         /\ seeded = Elements
         /\ \A e \in ElementsOf(p) : Pending(e) = {}
<1> USE DEF IInv
<1>1. /\ OpenCredit(p) = 0 /\ Owed(p) = {} /\ Sending(p) = {} /\ Mail(p) = {}
      /\ SelfWaking(p) = {} /\ Going(p) = {} /\ Handling(p) = {}
  <2>1. \A S : IsFiniteSet(S) /\ S # {} => Cardinality(S) > 0
    BY FS_EmptySet, FS_CardinalityType
  <2>2. /\ OpenCredit(p) = 0 /\ Cardinality(Owed(p)) = 0 /\ Cardinality(Sending(p)) = 0
        /\ Cardinality(Mail(p)) = 0 /\ Cardinality(SelfWaking(p)) = 0
        /\ Cardinality(Going(p)) = 0 /\ Cardinality(Handling(p)) = 0
    BY TotalNone

  <2>3. \A S : IsFiniteSet(S) /\ Cardinality(S) = 0 => S = {}
    BY <2>1
  <2>4. QED
    BY <2>2, <2>3, TotalFacts
<1>2. p \in released /\ seeded = Elements
  BY <1>1 DEF OpenCredit, SeedInv
<1>3. \A l \in LanesOf(p) : lane[l] = Idle /\ l \in Lanes
  <2>1. ASSUME NEW l \in LanesOf(p)
        PROVE  lane[l] = Idle /\ l \in Lanes
    <3>1. l \in Lanes /\ lane[l].handler \notin {"goDown", "process"}
      BY <1>1 DEF Handling, LanesOf
    <3>2. lane[l].handler # "start"
      BY <1>2, <3>1, LaneFacts DEF SeedInv
    <3>3. QED
      BY <3>1, <3>2, LaneFacts
  <2>2. QED
    BY <2>1
<1>4. \A k \in Keys : requests[p][k] = 0 /\ replies[p][k] = 0 /\ ipc[p][k] \in {"none", "done"}
  <2>1. ASSUME NEW k \in Keys
        PROVE  requests[p][k] = 0 /\ replies[p][k] = 0 /\ ipc[p][k] \in {"none", "done"}
    <3>1. /\ requests[p][k] \in Nat /\ replies[p][k] \in Nat
          /\ ipc[p][k] \in {"none", "drain", "wake", "send", "done"}
      BY DEF TypeOK
    <3>2. ~ Outstanding(p, k)
      BY <1>1 DEF Owed
    <3>3. QED
      BY <3>1, <3>2 DEF Outstanding
  <2>2. QED
    BY <2>1
<1>5. \A k \in Keys : parked[p][k] = {} /\ toWake[p][k] = {}
  <2>1. ASSUME NEW k \in Keys
        PROVE  parked[p][k] = {} /\ toWake[p][k] = {}
    <3>1. ParkedOK(p, k) /\ KeyOK(p, k) /\ RequestOK(p, k)
      BY DEF ParkedInv, InstallInv, RequestInv
    <3>2. toWake[p][k] = {}
      BY <1>4, <3>1 DEF ParkedOK
    <3>3. \A l \in LanesOf(p) : ~ Requesting(l, k)
      BY <1>3 DEF Requesting, Idle
    <3>4. requests[p][k] + replies[p][k] # 1
      BY <1>4
    <3>5. k \in latch[p] => ipc[p][k] = "done"
      BY <1>4, <3>1, <3>3, <3>4 DEF RequestOK
    <3>6. QED
      BY <3>1, <3>2, <3>5 DEF ParkedOK, KeyOK
  <2>2. QED
    BY <2>1
<1>6. ASSUME NEW e \in ElementsOf(p)
      PROVE  Pending(e) = {} /\ queue[e] = << >> /\ ~ (goDowns[e] > 0)
  <2>1. e \in Elements /\ Home(e) = p /\ LaneOf[e] \in LanesOf(p)
    BY LayoutFacts DEF ElementsOf, LanesOf, Home
  <2>2. lane[LaneOf[e]] = Idle
    BY <1>3, <2>1
  <2>3. ~ Works(LaneOf[e], e) /\ ~ GoesDown(e)
    BY <2>2 DEF Works, GoesDown, Idle
  <2>4. ~ (goDowns[e] > 0)
    BY <1>1 DEF Going
  <2>5. queue[e] = << >>
    BY <2>1, <2>3, <2>4 DEF QueueInv, QueueOK
  <2>6. WorkOK(e) /\ stack[e] = {} /\ fresh[e] = {}
    BY <2>1, <2>3 DEF WorkInv, WorkOK
  <2>7. ASSUME NEW k \in Keys
        PROVE  ~ Registered(e, k)
    <3>1. ~ Queued(e, k)
      BY <2>5 DEF Queued
    <3>2. ~ \E m \in resumes : m.key = k /\ e \in m.elems
      <4>1. ASSUME NEW m \in resumes, e \in m.elems
            PROVE  FALSE
        <5>1. m.to = LaneOf[e]
          BY <4>1 DEF MailInv, MailOK
        <5>2. QED
          BY <1>1, <2>1, <5>1 DEF Mail
      <4>2. QED
        BY <4>1
    <3>3. QED
      BY <1>5, <2>1, <2>3, <3>1, <3>2 DEF Registered
  <2>8. held[e] = {}
    BY <2>1, <2>6, <2>7 DEF WorkOK, TypeOK, Pairs
  <2>9. QED
    BY <2>4, <2>5, <2>6, <2>8 DEF Pending
<1>7. ~ Busy(p)
  BY <1>1, <1>2, <1>3, <1>4, <1>5, <1>6 DEF Busy, Pending, Mail, ElementsOf, Idle
<1>8. QED
  BY <1>2, <1>6, <1>7

\* The done callback runs when the walk has worked on everything it leads to.
THEOREM WalkIsComplete == Spec => []WalkComplete
<1>1. ASSUME IInv
      PROVE  WalkComplete
  <2>1. ASSUME finished, NEW e \in Elements
        PROVE  /\ Seeds[e] \subseteq visited[e]
               /\ \A pr \in visited[e] : \A k \in Kids[pr[1]] : <<k, pr[2]>> \in visited[e]
    <3>1. Home(e) \in Processes /\ e \in ElementsOf(Home(e))
      BY <1>1, LayoutFacts DEF IInv, ElementsOf
    <3>2. state[Home(e)] = 2
      BY <1>1, <2>1, <3>1 DEF IInv, SeedInv, CreditInv, CreditOK
    <3>3. Total(Home(e)) = 0
      BY <1>1, <3>1, <3>2 DEF IInv, CreditInv, CreditOK
    <3>4. Pending(e) = {} /\ e \in seeded
      BY <1>1, <3>1, <3>3, OutOfWork
    <3>5. WorkOK(e)
      BY <1>1 DEF IInv, WorkInv
    <3>6. QED
      BY <3>4, <3>5 DEF WorkOK
  <2>2. QED
    BY <2>1 DEF WalkComplete
<1>2. QED
  BY <1>1, Invariant, PTL

-----------------------------------------------------------------------------
(* The counters implement WalkTermination.                                 *)

\* What the work of a process depends on.
LEMMA BusyFrame ==
  ASSUME Next, NEW p \in Processes,
         \A e \in ElementsOf(p) :
           /\ e \in seeded' <=> e \in seeded
           /\ stack'[e] = stack[e] /\ held'[e] = held[e] /\ fresh'[e] = fresh[e]
           /\ queue'[e] = queue[e] /\ goDowns'[e] = goDowns[e],
         \A l \in LanesOf(p) : lane'[l].pc \in {"idle", "debit"} <=> lane[l].pc \in {"idle", "debit"},
         \A k \in Keys :
           /\ requests'[p][k] = requests[p][k] /\ replies'[p][k] = replies[p][k]
           /\ ipc'[p][k] \in {"drain", "send"} <=> ipc[p][k] \in {"drain", "send"}
           /\ parked'[p][k] = parked[p][k] /\ toWake'[p][k] = toWake[p][k],
         Mail(p)' = Mail(p)
  PROVE  Busy(p)' <=> Busy(p)
<1>1. ElementsOf(p)' = ElementsOf(p) /\ LanesOf(p)' = LanesOf(p)
  BY LayoutKept
<1>2. (\E m \in resumes : m.to \in LanesOf(p)) <=> Mail(p) # {}
  BY DEF Mail
<1>3. (\E m \in resumes' : m.to \in LanesOf(p)') <=> Mail(p)' # {}
  BY DEF Mail
<1>4. QED
  BY <1>1, <1>2, <1>3 DEF Busy

\* A step that returns credits, or one of the driver, changes no work.
LEMMA BusyDebits ==
  ASSUME IInv, Next, NEW p \in Processes,
         \/ DriverStep \/ Over
         \/ \E l \in Lanes : Return(l)
         \/ \E q \in Processes, k \in Keys : ReturnRequest(q, k)
  PROVE  Busy(p)' <=> Busy(p)
<1> USE DEF IInv
<1>1. UNCHANGED <<stack, held, fresh, queue, goDowns, seeded, requests, replies, parked, toWake, resumes>>
  BY DEF DriverStep, Over, vars, Arm, Release, Broadcast, WalkDone, Return, ReturnRequest,
         elemVars, messageVars, cacheVars, installVars, driverVars
<1>2. Mail(p)' = Mail(p)
  BY <1>1, SetsKept
<1>3. \A l \in LanesOf(p) : lane'[l].pc \in {"idle", "debit"} <=> lane[l].pc \in {"idle", "debit"}
  <2>1. CASE UNCHANGED lane
    BY <2>1
  <2>2. ASSUME NEW l \in Lanes, Return(l)
        PROVE  \A m \in Lanes : lane'[m].pc \in {"idle", "debit"} <=> lane[m].pc \in {"idle", "debit"}
    <3>1. lane[l].pc = "debit" /\ lane'[l] = Idle /\ \A m \in Lanes : m # l => lane'[m] = lane[m]
      BY <2>2, LaneEndFacts DEF TypeOK
    <3>2. lane'[l].pc = "idle"
      BY <3>1 DEF Idle
    <3>3. QED
      BY <3>1, <3>2
  <2>3. QED
    BY <2>1, <2>2 DEF LanesOf, DriverStep, Over, vars, Arm, Release, Broadcast, WalkDone, ReturnRequest
<1>4. \A k \in Keys : ipc'[p][k] \in {"drain", "send"} <=> ipc[p][k] \in {"drain", "send"}
  <2>1. CASE UNCHANGED ipc
    BY <2>1
  <2>2. ASSUME NEW q \in Processes, NEW k \in Keys, ReturnRequest(q, k)
        PROVE  \A j \in Keys : ipc'[p][j] \in {"drain", "send"} <=> ipc[p][j] \in {"drain", "send"}
    <3>1. ipc[q][k] = "wake" /\ ipc' = [ipc EXCEPT ![q][k] = "done"]
      BY <2>2 DEF ReturnRequest
    <3>2. ipc \in [Processes -> [Keys -> {"none", "drain", "wake", "send", "done"}]]
      BY DEF TypeOK
    <3>3. QED
      BY <3>1, <3>2
  <2>3. QED
    BY <2>1, <2>2 DEF DriverStep, Over, vars, Arm, Release, Broadcast, WalkDone, Return, installVars
<1>5. QED
  BY <1>1, <1>2, <1>3, <1>4, BusyFrame

\* Nobody gets work of the walk from a process that has none: what a handler does, it
\* does for its own process.
LEMMA BusyStarts ==
  ASSUME IInv, Next, NEW e \in Elements, ElementStep(e), NEW p \in Processes
  PROVE  Busy(p)' => Busy(p)
<1> USE DEF IInv
<1>1. CASE p = Home(e)
  <2>1. e \in ElementsOf(p) /\ goDowns[e] \in Nat
    BY <1>1 DEF ElementsOf, TypeOK
  <2>2. e \notin seeded \/ goDowns[e] > 0
    BY DEF ElementStep, Start, GoDown
  <2>3. QED
    BY <2>1, <2>2 DEF Busy
<1>2. CASE p # Home(e)
  <2>1. UNCHANGED <<held, fresh, queue, seeded, requests, replies, ipc, parked, toWake, resumes>>
    BY ElementFrame DEF messageVars, cacheVars, installVars, driverVars
  <2>2. \A f \in ElementsOf(p) : stack'[f] = stack[f] /\ goDowns'[f] = goDowns[f]
    BY <1>2 DEF ElementsOf, ElementStep, Start, GoDown, TypeOK, elemVars
  <2>3. \A l \in LanesOf(p) : lane'[l] = lane[l]
    BY <1>2, StartPcs DEF LanesOf, Home
  <2>4. Mail(p)' = Mail(p)
    BY <2>1, SetsKept
  <2>5. QED
    BY <2>1, <2>2, <2>3, <2>4, BusyFrame
<1>3. QED
  BY <1>1, <1>2

LEMMA BusyLanes ==
  ASSUME IInv, Next, NEW l \in Lanes, NEW p \in Processes,
         Visit(l) \/ AskingStep(l) \/ Seeded(l) \/ Descended(l)
  PROVE  Busy(p)' => Busy(p)
<1> USE DEF IInv
<1>1. lane[l].pc \notin {"idle", "debit"} /\ lane[l].handler \in {"start", "goDown"}
  BY KeepsFacts, LaneEndFacts DEF KeepsLane, Asking
<1>2. CASE p = ProcessOf[l]
  BY <1>1, <1>2 DEF Busy, LanesOf
<1>3. CASE p # ProcessOf[l]
  <2>1. PICK e \in Elements : e = lane[l].elem /\ LaneOf[e] = l /\ Home(e) = ProcessOf[l]
    BY <1>1, LaneFacts DEF LaneInv, Home
  <2>2. \A m \in Lanes : m # l => lane'[m] = lane[m]
    BY KeepsFacts, EndPcs DEF KeepsLane
  <2>3. \A m \in LanesOf(p) : lane'[m] = lane[m]
    BY <1>3, <2>2 DEF LanesOf
  <2>4. \A f \in Elements : f # e =>
          /\ f \in seeded' <=> f \in seeded
          /\ stack'[f] = stack[f] /\ held'[f] = held[f] /\ fresh'[f] = fresh[f]
          /\ queue'[f] = queue[f] /\ goDowns'[f] = goDowns[f]
    <3>1. CASE AskingStep(l)
      BY <3>1 DEF AskingStep, Latch, AskCredit, AskSend, Park, WakeCredit, WakeSelf, elemVars, driverVars
    <3>2. CASE Visit(l)
      <4>1. PICK pr \in stack[e] : Open(l, e, pr) \/ Miss(l, e, pr)
        BY <2>1, <3>2 DEF Visit
      <4>2. UNCHANGED <<held, queue, goDowns, seeded>>
        BY <3>2 DEF Visit, driverVars
      <4>3. QED
        BY <4>1, <4>2 DEF Open, Miss, TypeOK
    <3>3. CASE Seeded(l)
      BY <2>1, <3>3 DEF Seeded, TypeOK
    <3>4. CASE Descended(l)
      <4>1. UNCHANGED <<seeded, goDowns>>
        BY <3>4 DEF Descended, driverVars
      <4>2. /\ \E x : held' = [held EXCEPT ![e] = x]
            /\ \E x : fresh' = [fresh EXCEPT ![e] = x]
            /\ \E x : queue' = [queue EXCEPT ![e] = x]
            /\ stack' = stack \/ \E x : stack' = [stack EXCEPT ![e] = x]
        BY <2>1, <3>4 DEF Descended
      <4>3. QED
        BY <4>1, <4>2 DEF TypeOK
    <3>5. QED
      BY <3>1, <3>2, <3>3, <3>4
  <2>5. \A f \in ElementsOf(p) : f # e
    BY <1>3, <2>1 DEF ElementsOf
  <2>6. UNCHANGED <<ipc, replies, toWake>> /\ \A k \in Keys : requests'[p][k] = requests[p][k] /\ parked'[p][k] = parked[p][k]
    <3>1. UNCHANGED <<ipc, replies, toWake>>
      BY DEF Visit, AskingStep, Latch, AskCredit, AskSend, Park, WakeCredit, WakeSelf, Seeded, Descended,
             installVars, messageVars
    <3>2. requests' = requests \/ \E x, k : requests' = [requests EXCEPT ![ProcessOf[l]][k] = x]
      <4>1. CASE AskSend(l)
        BY <4>1 DEF AskSend
      <4>2. CASE ~ AskSend(l)
        BY <4>2 DEF Visit, AskingStep, Latch, AskCredit, Park, WakeCredit, WakeSelf, Seeded, Descended, messageVars
      <4>3. QED
        BY <4>1, <4>2
    <3>3. parked' = parked \/ \E x, k : parked' = [parked EXCEPT ![ProcessOf[l]][k] = x]
      <4>1. CASE Park(l)
        BY <4>1 DEF Park
      <4>2. CASE ~ Park(l)
        BY <4>2 DEF Visit, AskingStep, Latch, AskCredit, AskSend, WakeCredit, WakeSelf, Seeded, Descended, cacheVars
      <4>3. QED
        BY <4>1, <4>2
    <3>4. requests \in [Processes -> [Keys -> Nat]] /\ parked \in [Processes -> [Keys -> SUBSET Elements]]
      BY DEF TypeOK
    <3>5. QED
      BY <1>3, <3>1, <3>2, <3>3, <3>4
  <2>7. Mail(p)' = Mail(p)
    <3>1. CASE WakeSelf(l)
      <4>1. \E m : m.to = l /\ resumes' = resumes \cup {m}
        <5>1. PICK m : m = [to |-> l, key |-> lane[l].key, elems |-> {lane[l].elem}, by |-> "self"]
          OBVIOUS
        <5>2. m.to = l /\ resumes' = resumes \cup {m}
          BY <3>1, <5>1 DEF WakeSelf
        <5>3. QED
          BY <5>2
      <4>2. QED
        BY <1>3, <4>1, LayoutKept DEF Mail, LanesOf
    <3>2. CASE ~ WakeSelf(l)
      <4>1. UNCHANGED resumes
        BY <3>2 DEF Visit, AskingStep, Latch, AskCredit, AskSend, Park, WakeCredit, Seeded, Descended, messageVars
      <4>2. QED
        BY <4>1, SetsKept
    <3>3. QED
      BY <3>1, <3>2
  <2>8. \A f \in ElementsOf(p) :
          /\ f \in seeded' <=> f \in seeded
          /\ stack'[f] = stack[f] /\ held'[f] = held[f] /\ fresh'[f] = fresh[f]
          /\ queue'[f] = queue[f] /\ goDowns'[f] = goDowns[f]
    BY <2>4, <2>5 DEF ElementsOf
  <2>9. QED
    BY <2>3, <2>6, <2>7, <2>8, BusyFrame
<1>4. QED
  BY <1>2, <1>3

LEMMA BusyResume ==
  ASSUME IInv, Next, NEW l \in Lanes, Resume(l), NEW p \in Processes
  PROVE  Busy(p)' => Busy(p)
<1> USE DEF IInv
<1>1. PICK m \in resumes : Process(l, m)
  BY DEF Resume
<1>2. /\ m.to = l /\ resumes' = resumes \ {m}
      /\ queue' = [e \in Elements |-> IF e \in m.elems THEN Append(queue[e], m.key) ELSE queue[e]]
      /\ goDowns' = [e \in Elements |-> IF e \in IdleOf(m) THEN goDowns[e] + 1 ELSE goDowns[e]]
  BY <1>1 DEF Process
<1>3. CASE p = ProcessOf[l]
  BY <1>2, <1>3 DEF Busy, LanesOf
<1>4. CASE p # ProcessOf[l]
  <2>1. UNCHANGED <<stack, held, fresh, seeded, requests, replies, ipc, parked, toWake>>
    BY DEF Resume, driverVars, cacheVars, installVars
  <2>2. \A e \in ElementsOf(p) : e \in Elements /\ e \notin m.elems
    BY <1>2, <1>4 DEF MailInv, MailOK, ElementsOf, Home
  <2>3. \A e \in ElementsOf(p) : queue'[e] = queue[e] /\ goDowns'[e] = goDowns[e]
    BY <1>2, <2>2 DEF IdleOf
  <2>4. \A n \in LanesOf(p) : lane'[n] = lane[n]
    BY <1>4, EndPcs DEF LanesOf
  <2>5. Mail(p)' = Mail(p)
    BY <1>2, <1>4, LayoutKept DEF Mail, LanesOf
  <2>6. QED
    BY <2>1, <2>3, <2>4, <2>5, BusyFrame
<1>5. QED
  BY <1>3, <1>4

LEMMA BusyReplies ==
  ASSUME IInv, Next, NEW q \in Processes, NEW k \in Keys, ReplyStep(q, k), ~ ReturnRequest(q, k),
         NEW p \in Processes
  PROVE  Busy(p)' => Busy(p)
<1> USE DEF IInv
<1>1. CASE p = q
  <2>1. requests[p][k] \in Nat /\ replies[p][k] \in Nat
    BY DEF TypeOK
  <2>2. \/ requests[p][k] + replies[p][k] > 0
        \/ ipc[p][k] \in {"drain", "send"}
        \/ toWake[p][k] # {}
    BY <1>1, <2>1 DEF ReplyStep, Serve, Install, Drain, LaneCredit, WakeLane
  <2>3. QED
    BY <2>2 DEF Busy
<1>2. CASE p # q
  <2>1. UNCHANGED <<lane, stack, held, fresh, queue, goDowns, seeded>>
    BY ReplyFrame DEF elemVars, driverVars
  <2>2. /\ requests' = requests \/ \E x : requests' = [requests EXCEPT ![q][k] = x]
        /\ replies' = replies \/ \E x : replies' = [replies EXCEPT ![q][k] = x]
        /\ ipc' = ipc \/ \E x : ipc' = [ipc EXCEPT ![q][k] = x]
    BY DEF ReplyStep, Serve, Install, Drain, LaneCredit, WakeLane, messageVars, installVars
  <2>3. /\ parked' = parked \/ \E x : parked' = [parked EXCEPT ![q][k] = x]
        /\ toWake' = toWake \/ \E x : toWake' = [toWake EXCEPT ![q][k] = x]
    BY DEF ReplyStep, Serve, Install, Drain, LaneCredit, WakeLane, SendResume, cacheVars, installVars
  <2>4. /\ requests \in [Processes -> [Keys -> Nat]] /\ replies \in [Processes -> [Keys -> Nat]]
        /\ ipc \in [Processes -> [Keys -> {"none", "drain", "wake", "send", "done"}]]
        /\ parked \in [Processes -> [Keys -> SUBSET Elements]]
        /\ toWake \in [Processes -> [Keys -> SUBSET Elements]]
    BY DEF TypeOK
  <2>5. \A j \in Keys :
          /\ requests'[p][j] = requests[p][j] /\ replies'[p][j] = replies[p][j] /\ ipc'[p][j] = ipc[p][j]
          /\ parked'[p][j] = parked[p][j] /\ toWake'[p][j] = toWake[p][j]
    BY <1>2, <2>2, <2>3, <2>4
  <2>6. Mail(p)' = Mail(p)
    <3>1. CASE WakeLane(q, k)
      <4>1. PICK e \in toWake[q][k] : SendResume(q, k, LaneOf[e])
        BY <3>1 DEF WakeLane
      <4>2. PICK m : m = [to |-> LaneOf[e], key |-> k, elems |-> WaitersOn(q, k, LaneOf[e]), by |-> "install"]
        OBVIOUS
      <4>3. m.to = LaneOf[e] /\ resumes' = resumes \cup {m}
        BY <4>1, <4>2 DEF SendResume
      <4>4. ProcessOf[m.to] = q
        BY <4>3 DEF ParkedInv, ParkedOK, ElementsOf, Home
      <4>5. QED
        BY <1>2, <4>3, <4>4, LayoutKept DEF Mail, LanesOf
    <3>2. CASE ~ WakeLane(q, k)
      <4>1. UNCHANGED resumes
        BY <3>2 DEF ReplyStep, Serve, Install, Drain, LaneCredit, messageVars
      <4>2. QED
        BY <4>1, SetsKept
    <3>3. QED
      BY <3>1, <3>2
  <2>7. QED
    BY <2>1, <2>5, <2>6, BusyFrame
<1>3. QED
  BY <1>1, <1>2

LEMMA BusyFalls ==
  ASSUME IInv, Next, NEW p \in Processes
  PROVE  Busy(p)' => Busy(p)
BY BusyDebits, BusyStarts, BusyLanes, BusyResume, BusyReplies
DEF Next, LaneStep, AskingStep, ReplyStep

LEMMA StillOutOfWork == (\A p \in Processes : IInv /\ Total(p) = 0 => ~ Busy(p))'
<1>1. \A p \in Processes : IInv /\ Total(p) = 0 => ~ Busy(p)
  BY OutOfWork
<1>2. QED
  BY <1>1, PTL

\* The counter that fires is that of a process that has run out of work.
LEMMA DebitReports ==
  ASSUME IInv, IInv', Next, NEW p \in Processes, Debit(p)
  PROVE  \/ UNCHANGED reports
         \/ /\ ~ Busy(p)' /\ reports[p] = 0 /\ reports'[p] = 1
            /\ \A q \in Processes : q # p => reports'[q] = reports[q]
<1>1. CASE ~ UNCHANGED reports
  <2>1. /\ Armed(p)
        /\ state' = [state EXCEPT ![p] = 2] /\ reports' = [reports EXCEPT ![p] = reports[p] + 1]
    BY <1>1 DEF Debit, creditVars
  <2>2. /\ state[p] = 1 /\ state'[p] = 2 /\ reports[p] = 0 /\ reports'[p] = 1
        /\ \A q \in Processes : q # p => reports'[q] = reports[q]
    <3>1. state[p] = 1 /\ reports[p] = 0
      BY <2>1 DEF IInv, CreditInv, CreditOK, Armed
    <3>2. QED
      BY <2>1, <3>1 DEF IInv, TypeOK
  <2>3. (Total(p) = 0)'
    BY <2>2 DEF IInv, CreditInv, CreditOK
  <2>4. ~ Busy(p)'
    BY <2>3, StillOutOfWork
  <2>5. QED
    BY <2>2, <2>4
<1>2. QED
  BY <1>1

Active == {p \in Processes : Busy(p)}
Reported == {p \in Processes : reports[p] > 0}

\* A step of the walk is one of the contract.
LEMMA TerminationStep ==
  ASSUME IInv, IInv', Next
  PROVE  \/ Active' \subseteq Active /\ UNCHANGED <<Reported, finished>>
         \/ Reported = Processes /\ finished' = TRUE /\ UNCHANGED <<Active, Reported>>
         \/ \E p \in Processes :
              p \notin Active \cup Reported /\ Reported' = Reported \cup {p} /\ UNCHANGED <<Active, finished>>
<1>1. Active' \subseteq Active
  BY BusyFalls DEF Active
<1>2. CASE UNCHANGED <<reports, finished>>
  BY <1>1, <1>2 DEF Reported
<1>3. CASE WalkDone
  <2>1. Reported = Processes /\ finished' = TRUE /\ UNCHANGED reports
    BY <1>3 DEF WalkDone, Reported, creditVars
  <2>2. Active' = Active
    BY <1>3, BusyDebits DEF Active, DriverStep
  <2>3. QED
    BY <2>1, <2>2 DEF Reported
<1>4. ASSUME NEW p \in Processes, Debit(p), UNCHANGED finished, ~ UNCHANGED reports,
             \A q \in Processes : Busy(q)' <=> Busy(q)
      PROVE  \E q \in Processes :
               q \notin Active \cup Reported /\ Reported' = Reported \cup {q} /\ UNCHANGED <<Active, finished>>
  <2>1. /\ ~ Busy(p)' /\ reports[p] = 0 /\ reports'[p] = 1
        /\ \A q \in Processes : q # p => reports'[q] = reports[q]
    BY <1>4, DebitReports
  <2>2. Active' = Active /\ p \notin Active
    BY <1>4, <2>1 DEF Active
  <2>3. p \notin Reported /\ Reported' = Reported \cup {p}
    BY <2>1 DEF Reported
  <2>4. QED
    BY <1>4, <2>2, <2>3
<1>5. ASSUME ~ UNCHANGED reports
      PROVE  /\ UNCHANGED finished
             /\ \E p \in Processes : Debit(p)
             /\ \A q \in Processes : Busy(q)' <=> Busy(q)
  <2>1. \/ \E p \in Processes : Release(p)
        \/ \E l \in Lanes : Return(l)
        \/ \E q \in Processes, k \in Keys : ReturnRequest(q, k)
    BY <1>5 DEF Next, ElementStep, LaneStep, ReplyStep, DriverStep, Over, vars, creditVars, Arm, Broadcast,
                WalkDone, Start, GoDown, Visit, Latch, AskCredit, AskSend, Park, WakeCredit, WakeSelf,
                Seeded, Descended, Resume, Serve, Install, Drain, LaneCredit, WakeLane
  <2>2. UNCHANGED finished /\ \E p \in Processes : Debit(p)
    BY <2>1, LayoutFacts DEF IInv, Release, Return, ReturnRequest, driverVars
  <2>3. \A q \in Processes : Busy(q)' <=> Busy(q)
    BY <2>1, BusyDebits DEF DriverStep
  <2>4. QED
    BY <2>2, <2>3
<1>6. CASE ~ UNCHANGED finished /\ ~ WalkDone
  BY <1>6 DEF Next, ElementStep, LaneStep, ReplyStep, DriverStep, Over, vars, driverVars, Arm, Broadcast,
              Release, Start, GoDown, Visit, Latch, AskCredit, AskSend, Park, WakeCredit, WakeSelf,
              Seeded, Descended, Resume, Return, Serve, Install, Drain, LaneCredit, WakeLane, ReturnRequest
<1>7. QED
  BY <1>2, <1>3, <1>4, <1>5, <1>6

\* The counters of CacheWalk do what WalkTermination promises: a process reports once,
\* only when it has run out of work for good, and the driver goes on when all have.
THEOREM Refines == Spec => ImplementsTermination
<1>1. Init => Termination!TerminationInit
  <2>1. Init => \A p \in Processes : ~ (reports[p] > 0)
    BY DEF Init
  <2>2. QED
    BY <2>1 DEF Init, Termination!TerminationInit
<1>2. IInv /\ IInv' /\ [Next]_vars => [Termination!TerminationNext]_(Termination!terminationVars)
  <2>1. CASE IInv /\ IInv' /\ Next
    BY <2>1, TerminationStep
    DEF Active, Reported, Termination!TerminationNext, Termination!Quiesce, Termination!Finish, Termination!Report
  <2>2. CASE UNCHANGED vars
    <3>1. UNCHANGED Active
      BY <2>2 DEF Active, Busy, vars, creditVars, cacheVars, installVars, elemVars, messageVars, driverVars,
                  ElementsOf, LanesOf, Home, LaneOf, ProcessOf
    <3>2. UNCHANGED Reported /\ UNCHANGED finished
      BY <2>2 DEF Reported, vars, creditVars, driverVars
    <3>3. QED
      BY <3>1, <3>2 DEF Active, Reported, Termination!terminationVars
  <2>3. QED
    BY <2>1, <2>2
<1>3. QED
  BY <1>1, <1>2, Invariant, PTL DEF Spec, ImplementsTermination, Termination!TerminationSpec
=============================================================================
