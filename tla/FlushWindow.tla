---------------------------- MODULE FlushWindow ----------------------------
(***************************************************************************)
(* The exchange of particles from the Readers to the tree pieces, with the *)
(* window that bounds what a Reader has in flight (src/Reader.h: flush,    *)
(* pumpFlush, flushAck; src/TreePiece.h: receive, receiveLocal, buildTree; *)
(* src/Driver.h: decompose).                                               *)
(*                                                                         *)
(* A Reader's particles fall into chunks, one per tree piece.  A chunk for *)
(* a piece of the same PE is handed over; the others are planned, and      *)
(* constructed into messages as long as the window allows; an ack lets     *)
(* more go.  The driver takes quiescence for the end of the exchange.      *)
(* Plans are recorded only for decompositions that sort in place; with any *)
(* other, and without a window, every message goes at once and unacked.    *)
(***************************************************************************)
EXTENDS Integers, Sequences, FiniteSets

CONSTANTS
  Readers,
  Pieces,       \* tree pieces
  Plans,        \* per reader: its chunks, sequences of [dest, count]
  LocalTo,      \* per reader: the pieces on its PE
  Windows,      \* values of PARATREET_FLUSH_WINDOW
  Exchanges     \* how often the driver decomposes

FlushAssumption ==
  /\ \A r \in Readers :
       /\ Plans[r] \in Seq([dest : Pieces, count : Nat \ {0}])
       /\ LocalTo[r] \subseteq Pieces
  /\ Windows \subseteq Nat
  /\ Exchanges \in Nat

VARIABLES
  window,             \* flushWindow()
  in_place,           \* the decomposition sorts in place: Sfc or Oct
  particles,          \* per reader: chunks whose particles it still holds
  flush_plan,         \* per reader: the chunks to send, in order
  flush_next,         \* per reader: chunks posted
  flush_outstanding,  \* per reader: particles not acknowledged
  asked,              \* readers the flush broadcast has not reached
  messages,           \* ParticleMsgs under way
  acks,               \* flushAcks under way
  incoming,           \* per piece: incoming_particles
  exchange,           \* exchanges begun
  flushing            \* the driver waits for quiescence

readerVars == <<particles, flush_plan, flush_next, flush_outstanding>>
netVars == <<messages, acks>>
driverVars == <<exchange, flushing>>
vars == <<window, in_place, readerVars, asked, netVars, incoming, driverVars>>

ChunksOf(r) == DOMAIN Plans[r]

\* Identity and content of a chunk: freed memory holds anything.
Content(r, i) == IF i \in particles[r] THEN <<r, i>> ELSE "freed"

Init ==
  /\ window \in Windows
  /\ in_place \in BOOLEAN
  /\ particles = [r \in Readers |-> {}]
  /\ flush_plan = [r \in Readers |-> << >>]
  /\ flush_next = [r \in Readers |-> 0]
  /\ flush_outstanding = [r \in Readers |-> 0]
  /\ asked = {}
  /\ messages = {}
  /\ acks = {}
  /\ incoming = [t \in Pieces |-> {}]
  /\ exchange = 0
  /\ flushing = FALSE

\* decompose: the readers hold their particles, and are told to flush.
StartFlush ==
  /\ ~ flushing
  /\ exchange < Exchanges
  /\ exchange' = exchange + 1
  /\ flushing' = TRUE
  /\ particles' = [r \in Readers |-> ChunksOf(r)]
  /\ incoming' = [t \in Pieces |-> {}]
  /\ asked' = Readers
  /\ UNCHANGED <<window, in_place, flush_plan, flush_next, flush_outstanding, netVars>>

Message(r, i, sender) ==
  [from |-> r, chunk |-> i, dest |-> Plans[r][i].dest, sender |-> sender,
   content |-> Content(r, i)]

Remote(r) == {i \in ChunksOf(r) : Plans[r][i].dest \notin LocalTo[r]}

\* What receiveLocal gives piece t of r's particles.
HandedOver(r, t) ==
  {Content(r, i) : i \in {j \in ChunksOf(r) \ Remote(r) : Plans[r][j].dest = t}}

\* The plan has the chunks for other PEs in the order of the particles.
Turn(r, i) == Cardinality({j \in Remote(r) : j <= i})
PlanOf(r) == [n \in 1 .. Cardinality(Remote(r)) |-> CHOOSE i \in Remote(r) : Turn(r, i) = n]

\* How many particles chunks S of r have.
Count(r, S) ==
  LET upTo[n \in 0 .. Len(Plans[r])] ==
        IF n = 0 THEN 0 ELSE upTo[n - 1] + (IF n \in S THEN Plans[r][n].count ELSE 0)
  IN  upTo[Len(Plans[r])]

-----------------------------------------------------------------------------
(* pumpFlush.                                                              *)

\* Particles of the planned chunks numbered from + 1 .. to.
Posted(r, plan, from, to) == Count(r, {plan[j] : j \in from + 1 .. to})

\* Variant: the chunk that would go over the window stays behind.
OpensBelow(r, plan, outstanding, from, j) ==
  outstanding + Posted(r, plan, from, j) + Plans[r][plan[j + 1]].count <= window

\* The window is open when chunk j + 1 is tried, after from + 1 .. j went.
Opens(r, plan, outstanding, from, j) ==
  outstanding + Posted(r, plan, from, j) < window

\* Where the loop that starts at from stops.
PumpedTo(r, plan, outstanding, from) ==
  CHOOSE n \in from .. Len(plan) :
    /\ \A j \in from .. n - 1 : Opens(r, plan, outstanding, from, j)
    /\ n = Len(plan) \/ ~ Opens(r, plan, outstanding, from, n)

\* The particles go when the last message is constructed.
Released(plan, n) == n = Len(plan) /\ plan # << >>

\* The loop posts what it can, with outstanding particles in the air.
Pump(r, plan, outstanding, from) ==
  LET n == PumpedTo(r, plan, outstanding, from) IN
  /\ messages' = messages \cup {Message(r, plan[j], TRUE) : j \in from + 1 .. n}
  /\ flush_next' = [flush_next EXCEPT ![r] = n]
  /\ flush_outstanding' = [flush_outstanding EXCEPT ![r] = outstanding + Posted(r, plan, from, n)]
  /\ IF Released(plan, n)
       THEN /\ flush_plan' = [flush_plan EXCEPT ![r] = << >>]
            /\ particles' = [particles EXCEPT ![r] = {}]
       ELSE /\ flush_plan' = [flush_plan EXCEPT ![r] = plan]
            /\ UNCHANGED particles

-----------------------------------------------------------------------------
(* The entry methods.                                                      *)

\* The chunks that are sent now, without an ack.
FlushAtOnce(r) ==
  /\ messages' = messages \cup {Message(r, i, FALSE) : i \in Remote(r)}
  /\ particles' = [particles EXCEPT ![r] = {}]
  /\ IF window = 0
       THEN UNCHANGED <<flush_plan, flush_next, flush_outstanding>>
       ELSE /\ flush_plan' = [flush_plan EXCEPT ![r] = << >>]
            /\ flush_next' = [flush_next EXCEPT ![r] = 0]
            /\ flush_outstanding' = [flush_outstanding EXCEPT ![r] = 0]

\* flush.  Nothing to send: released immediately.
Flush(r) ==
  /\ r \in asked
  /\ asked' = asked \ {r}
  /\ incoming' = [t \in Pieces |-> incoming[t] \cup HandedOver(r, t)]
  /\ IF window > 0 /\ in_place /\ Remote(r) # {}
       THEN Pump(r, PlanOf(r), 0, 0)
       ELSE FlushAtOnce(r)
  /\ UNCHANGED <<window, in_place, acks, driverVars>>

\* sender >= 0.
AckWanted(m) == m.sender

\* receive: the particles are copied, then the sender is told.
Receive(m) ==
  /\ m \in messages
  /\ messages' = messages \ {m}
  /\ incoming' = [incoming EXCEPT ![m.dest] = @ \cup {m.content}]
  /\ acks' = IF AckWanted(m) THEN acks \cup {[to |-> m.from, chunk |-> m.chunk]} ELSE acks
  /\ UNCHANGED <<window, in_place, readerVars, asked, driverVars>>

\* flushAck.
FlushAck(a) ==
  /\ a \in acks
  /\ acks' = acks \ {a}
  /\ LET left == flush_outstanding[a.to] - Plans[a.to][a.chunk].count IN
     IF flush_plan[a.to] = << >>
       THEN /\ flush_outstanding' = [flush_outstanding EXCEPT ![a.to] = left]
            /\ UNCHANGED <<particles, flush_plan, flush_next, messages>>
       ELSE Pump(a.to, flush_plan[a.to], left, flush_next[a.to])
  /\ UNCHANGED <<window, in_place, asked, incoming, driverVars>>

\* Quiescence: no message of any kind is under way.
Quiescent == asked = {} /\ messages = {} /\ acks = {}

\* CkStartQD's callback resumes the driver.
EndFlush ==
  /\ flushing
  /\ Quiescent
  /\ flushing' = FALSE
  /\ UNCHANGED <<window, in_place, readerVars, asked, netVars, incoming, exchange>>

Next ==
  \/ StartFlush \/ EndFlush
  \/ \E r \in Readers : Flush(r)
  \/ \E m \in messages : Receive(m)
  \/ \E a \in acks : FlushAck(a)

Spec == Init /\ [][Next]_vars

-----------------------------------------------------------------------------
(* Properties.                                                             *)

ChunkIds == {<<r, i>> : r \in Readers, i \in UNION {ChunksOf(r) : r \in Readers}}

TypeOK ==
  /\ window \in Windows /\ in_place \in BOOLEAN
  /\ \A r \in Readers :
       /\ particles[r] \subseteq ChunksOf(r)
       /\ flush_plan[r] \in Seq(ChunksOf(r))
       /\ flush_next[r] \in 0 .. Cardinality(ChunksOf(r))
       /\ flush_outstanding[r] \in Nat
  /\ asked \subseteq Readers
  /\ \A m \in messages : m.content \in ChunkIds
  /\ \A a \in acks : a.to \in Readers
  /\ \A t \in Pieces : incoming[t] \subseteq ChunkIds
  /\ exchange \in 0 .. Exchanges /\ flushing \in BOOLEAN

\* Particles of reader r that are in a windowed message or an ack.
InFlight(r) ==
  Count(r, {m.chunk : m \in {n \in messages : n.from = r /\ n.sender}}
             \cup {a.chunk : a \in {b \in acks : b.to = r}})

\* The counter is what is in flight, and one chunk at most goes past the
\* window: a branch never has more copies of its particles than that.
WindowHolds ==
  \A r \in Readers :
    /\ flush_outstanding[r] = InFlight(r)
    /\ flush_outstanding[r] > 0 =>
         \E i \in ChunksOf(r) : flush_outstanding[r] - Plans[r][i].count < window

\* While a chunk is unposted something is under way, so that quiescence cannot
\* be detected in the middle of a flush.
NeverQuietMidFlush ==
  \A r \in Readers : flush_next[r] < Len(flush_plan[r]) => ~ Quiescent

\* After the exchange every piece has exactly the particles that are its own,
\* and the readers hold nothing.
AllDelivered ==
  ~ flushing /\ exchange > 0 =>
    /\ \A t \in Pieces :
         incoming[t] = {c \in ChunkIds : c[2] \in ChunksOf(c[1]) /\ Plans[c[1]][c[2]].dest = t}
    /\ \A r \in Readers : particles[r] = {}
=============================================================================
