------------------------------- MODULE Balance -------------------------------
(***************************************************************************)
(* The load balancers of an iteration (src/loadbalancers): PrefixLB and    *)
(* OrbLB, which place all partitions in one call, and DistributedPrefixLB, *)
(* whose PEs agree by messages.                                            *)
(*                                                                         *)
(* PrefixLB cuts the partitions in the order of their PEs into shares of   *)
(* equal size.  OrbLB bisects the PEs and the partitions together.  In the *)
(* distributed one each PE needs the sum of the loads before it: at stage  *)
(* s it passes what it has to the PE 2^s after it and takes what the PE    *)
(* 2^s before it passes.                                                   *)
(*                                                                         *)
(* Loads, sizes and coordinates are integers; what is not a partition is   *)
(* the background of its PE.  Only partitions carry a tag (Partition.h     *)
(* perturb), so that the turns for tree pieces never come.  Messages from  *)
(* one PE to another keep their order; there is none between the sum of    *)
(* the loads, a broadcast, and what another PE passes on its arrival.      *)
(***************************************************************************)
EXTENDS Integers, SequencesExt, FiniteSetsExt

CONSTANTS
  \* [balancer: "prefix", "orb" or "distributed", n_pes, steps: times it is called,
  \*  objs: [kind: "pt" or "other", pe, load, size, at] in the order of chare_idx]
  Settings,
  MaxOverrun     \* bound: stages past the end of the buffers, of all PEs in a call

VARIABLES
  setting,
  home,            \* the PE of each object
  placed,          \* how often this step has assigned each object
  steps_done,
  centroids,       \* OrbLB: the partitions, reordered as they are bisected
  calls,           \* OrbLB: calls of the recursion: [pes, cent]
  pe,              \* DistributedPrefixLB: the state of each PE
  chan             \* messages from one PE to another

vars == <<setting, home, placed, steps_done, centroids, calls, pe, chan>>

PeCount == setting.n_pes
PEs == 0 .. PeCount - 1
Obj(o) == setting.objs[o]
Ids(kind) == {o \in DOMAIN setting.objs : Obj(o).kind = kind}
Ordered(ids) == SetToSortSeq(ids, LAMBDA a, b : a < b)
AtPe(p, kind) == {o \in Ids(kind) : home[o] = p}

Capped(p) == IF p < PeCount THEN p ELSE PeCount - 1
CallDue(balancer) == setting.balancer = balancer /\ steps_done < setting.steps

LoadOf(ids) == MapThenSumSet(LAMBDA o : Obj(o).load, ids)
Background(p) == LoadOf(AtPe(p, "other"))

MyLoad(p) == LoadOf(AtPe(p, "pt")) + Background(p)

-----------------------------------------------------------------------------
(* PrefixLB.                                                               *)

\* By PE, then by index.
PrefixOrder ==
  SetToSortSeq(Ids("pt"), LAMBDA a, b : home[a] < home[b] \/ (home[a] = home[b] /\ a < b))

SizeUpTo(order, i) == MapThenSumSet(LAMBDA j : Obj(order[j]).size, 1 .. i)

\* An object counts whole before it is placed.
PrefixTarget(order, i) ==
  Capped(SizeUpTo(order, i) \div (SizeUpTo(order, Len(order)) \div PeCount))

PrefixWork ==
  /\ CallDue("prefix")
  /\ LET order == PrefixOrder
     IN home' = [o \in DOMAIN home |->
                   IF Obj(o).kind = "pt"
                     THEN PrefixTarget(order, CHOOSE i \in DOMAIN order : order[i] = o)
                     ELSE home[o]]
  /\ placed' = [o \in DOMAIN placed |-> 1]
  /\ steps_done' = steps_done + 1
  /\ UNCHANGED <<setting, centroids, calls, pe, chan>>

-----------------------------------------------------------------------------
(* OrbLB.  Indices of centroids count from 0.  A partition bears its share *)
(* of the background of its PE.                                            *)

OrbStart ==
  /\ CallDue("orb") /\ calls = <<>>
  /\ centroids' = Ordered(Ids("pt"))
  /\ calls' = <<[pes |-> <<0, PeCount>>, cent |-> <<0, Cardinality(Ids("pt"))>>]>>
  /\ placed' = [o \in DOMAIN placed |-> IF Obj(o).kind = "pt" THEN 0 ELSE 1]
  /\ UNCHANGED <<setting, home, steps_done, pe, chan>>

\* The largest coordinate counts from 0, whatever the sign of the others.
Extent(range, d) ==
  Max({Obj(o).at[d] : o \in range} \cup {0}) - Min({Obj(o).at[d] : o \in range})
LongestDim(range) ==
  IF range = {} THEN 1
  ELSE CHOOSE d \in DOMAIN Obj(1).at :
         /\ \A e \in DOMAIN Obj(1).at : Extent(range, e) <= Extent(range, d)
         /\ \A e \in 1 .. d - 1 : Extent(range, e) < Extent(range, d)

\* The centroids from s up to e sorted along their longest dimension.
SortedFrom(s, e) ==
  LET part == SubSeq(centroids, s + 1, e)
      d == LongestDim(ToSet(part))
  IN SubSeq(centroids, 1, s)
       \o SetToSortSeq(ToSet(part), LAMBDA a, b : Obj(a).at[d] < Obj(b).at[d])
       \o SubSeq(centroids, e + 1, Len(centroids))

OrbLoad(o) ==
  LET p == Obj(o).pe IN Obj(o).load + Background(p) \div Cardinality(AtPe(p, "pt"))
LoadFrom(cs, s, e) == MapThenSumSet(LAMBDA i : OrbLoad(cs[i + 1]), s .. e - 1)

\* The object that takes the sum past the half, or 0 if none does.
HalfLoadIdx(cs, s, e) ==
  LET past == {i \in s .. e - 1 : 2 * LoadFrom(cs, s, i + 1) > LoadFrom(cs, s, e)}
  IN IF past = {} THEN 0 ELSE Min(past)

\* A call for one PE.
OrbAssign ==
  /\ calls # <<>>
  /\ LET c == Head(calls)
         mine == {centroids[i + 1] : i \in c.cent[1] .. c.cent[2] - 1}
     IN /\ c.pes[2] - c.pes[1] = 1
        /\ home' = [o \in DOMAIN home |-> IF o \in mine THEN c.pes[1] ELSE home[o]]
        /\ placed' = [o \in DOMAIN placed |-> IF o \in mine THEN placed[o] + 1 ELSE placed[o]]
  /\ calls' = Tail(calls)
  /\ steps_done' = IF Len(calls) = 1 THEN steps_done + 1 ELSE steps_done
  /\ UNCHANGED <<setting, centroids, pe, chan>>

\* The left call runs to its end before the right one.
OrbSplit ==
  /\ calls # <<>>
  /\ LET c == Head(calls)
         cs == SortedFrom(c.cent[1], c.cent[2])
         half == HalfLoadIdx(cs, c.cent[1], c.cent[2])
         mid == (c.pes[1] + c.pes[2]) \div 2
     IN /\ c.pes[2] - c.pes[1] > 1
        /\ centroids' = cs
        /\ calls' = <<[pes |-> <<c.pes[1], mid>>, cent |-> <<c.cent[1], half>>],
                      [pes |-> <<mid, c.pes[2]>>, cent |-> <<half, c.cent[2]>>]>> \o Tail(calls)
  /\ UNCHANGED <<setting, home, placed, steps_done, pe, chan>>

-----------------------------------------------------------------------------
(* DistributedPrefixLB.                                                    *)

TotalIter == CHOOSE n \in 0 .. PeCount : 2^n >= PeCount /\ (n = 0 \/ 2^(n - 1) < PeCount)

\* Messages that p sends, a sequence for each PE.
SendAll(c, p, out) == [c EXCEPT ![p] = [q \in PEs |-> @[q] \o out[q]]]
Nothing == [q \in PEs |-> <<>>]
Count(ms, q) == Cardinality({m \in ms : m.to = q})

\* Variant: what was expected before counts again.
InitVariablesKeeps(p, r) ==
  [r EXCEPT !.global_load = 0, !.prefix_stage = 0, !.prefix_sum = MyLoad(p), !.prefix_done = FALSE, !.value_buf = <<>>,
            !.send_tracker = {}, !.recv_prefix_move_pes = 0, !.moves = {}]

\* initVariables and prefixInit.
InitVariables(p, r) ==
  [r EXCEPT !.global_load = 0, !.prefix_stage = 0, !.prefix_sum = MyLoad(p), !.prefix_done = FALSE, !.value_buf = <<>>,
            !.send_tracker = {}, !.recv_prefix_move_pes = 0, !.moves = {}, !.incoming = 0]

\* Nothing of a call is left under way.
Quiescent == \A p, q \in PEs : ~pe[p].report /\ pe[p].steps = 0 /\ chan[p][q] = <<>>

\* The load of a PE goes into a reduction, whose result comes back to all.  The driver
\* waits for quiescence after a call; in one no value comes before every PE is in it.
Strategy(p) ==
  /\ CallDue("distributed") /\ Quiescent
  /\ pe[p].strategies = steps_done
  /\ LET called == [pe EXCEPT ![p] = [InitVariables(p, @) EXCEPT !.strategies = @ + 1, !.working = TRUE]]
     IN pe' = IF \A q \in PEs \ {p} : pe[q].strategies > steps_done
                THEN [q \in PEs |-> [called[q] EXCEPT !.report = TRUE]]
                ELSE called
  /\ UNCHANGED <<setting, home, placed, steps_done, centroids, calls, chan>>

\* makePrefixMoves at a PE whose state is r: an object goes where the middle of its load
\* falls; the background is split among the objects.  By a global_load of 0 the quotient
\* is infinite, or not a number for a middle of 0, and has no conversion to int; where
\* the conversion saturates the two come to the largest int and to 0.
PrefixMoves(p, r) ==
  LET mine == Ordered(AtPe(p, "pt"))
      n == Len(mine)
      before(i) == MapThenSumSet(LAMBDA j : n * Obj(mine[j]).load + Background(p), 1 .. i - 1)
      middle(i) ==
        2 * n * (r.prefix_sum - MyLoad(p)) + 2 * before(i) + n * Obj(mine[i]).load + Background(p)
      target(i) ==
        IF r.global_load > 0 THEN Capped((middle(i) * PeCount) \div (2 * n * r.global_load))
        ELSE IF middle(i) > 0 THEN PeCount - 1 ELSE 0
  IN {[obj |-> mine[i], to |-> target(i)] : i \in DOMAIN mine}

\* p has objects to move and does not know the sum of the loads.
Blind(p, r) == r.global_load = 0 /\ AtPe(p, "pt") # {}

\* donePrefix.  Where the conversion does not saturate, a blind PE counts its move
\* outside of prefix_migrate_out_ct and its process does not go on.
DonePrefix(p, r) ==
  LET ms == {m \in PrefixMoves(p, r) : m.to # p}
  IN \/ /\ pe' = [pe EXCEPT ![p] = [r EXCEPT !.prefix_done = TRUE, !.moves = ms,
                                            !.blind = @ \/ Blind(p, r)]]
        /\ chan' = SendAll(chan, p, [q \in PEs |-> <<[type |-> "acknowledge", n |-> Count(ms, q)]>>])
     \/ /\ Blind(p, r)
        /\ pe' = [pe EXCEPT ![p] = [r EXCEPT !.prefix_done = TRUE, !.blind = TRUE, !.faulted = TRUE]]
        /\ UNCHANGED chan

\* Variant: a stage takes the value that has come, whatever its number.
AnyValue(r) == IF r.value_buf = <<>> THEN -1 ELSE r.value_buf[Min(DOMAIN r.value_buf)]

\* The value of this stage, or -1.
ValueOf(r) == IF r.prefix_stage \in DOMAIN r.value_buf THEN r.value_buf[r.prefix_stage] ELSE -1

\* The stages past the end of the buffers that the PEs have gone through in this call.
Overrun == MapThenSumSet(LAMBDA q : Max({pe[q].prefix_stage - TotalIter, 0}), PEs)

\* prefixStep at p, whose state is r.  A call after the last stage reads past the end of
\* the buffers: what it finds may let it go on and call itself.
PrefixStep(p, r) ==
  LET s == r.prefix_stage
      first == p - 2^s < 0
      on == ValueOf(r) # -1 \/ first
      passed == [r EXCEPT !.send_tracker = @ \cup {s}]
  IN \/ /\ s >= TotalIter /\ ~r.prefix_done
        /\ DonePrefix(p, r)
     \/ /\ s >= TotalIter /\ r.prefix_done
        /\ \/ pe' = [pe EXCEPT ![p] = r]
           \/ /\ Overrun < MaxOverrun
              /\ pe' = [pe EXCEPT ![p] = [r EXCEPT !.prefix_stage = @ + 1, !.steps = @ + 1]]
        /\ UNCHANGED chan
     \/ /\ s < TotalIter
        /\ chan' = IF p + 2^s < PeCount /\ s \notin r.send_tracker
                     THEN [chan EXCEPT ![p][p + 2^s] =
                             Append(@, [type |-> "prefixPassValue", stage |-> s, val |-> r.prefix_sum])]
                     ELSE chan
        /\ pe' = [pe EXCEPT ![p] =
                    IF on THEN [passed EXCEPT !.prefix_sum = @ + IF ValueOf(r) # -1 THEN ValueOf(r) ELSE 0,
                                              !.prefix_stage = @ + 1, !.steps = @ + 1]
                    ELSE passed]

\* reportPrefixInitDone with the sum over all PEs, and a prefixStep of the PE to itself.
Report(p) ==
  /\ pe[p].report
  /\ PrefixStep(p, [pe[p] EXCEPT !.report = FALSE, !.global_load = LoadOf(DOMAIN setting.objs)])
  /\ UNCHANGED <<setting, home, placed, steps_done, centroids, calls>>
SelfStep(p) ==
  /\ pe[p].steps > 0
  /\ PrefixStep(p, [pe[p] EXCEPT !.steps = @ - 1])
  /\ UNCHANGED <<setting, home, placed, steps_done, centroids, calls>>

\* acknowledgeIncomingPrefixMigrations: with the last one the decision is made (cleanUp).
Acknowledged(r, n) ==
  LET heard == [r EXCEPT !.incoming = @ + n, !.recv_prefix_move_pes = @ + 1]
  IN IF heard.recv_prefix_move_pes = PeCount
       THEN [heard EXCEPT !.working = FALSE, !.migrates_expected = heard.incoming,
                          !.value_buf = <<>>, !.send_tracker = {}]
       ELSE heard

\* The entry methods that a message calls, which do not ask whether the sum has come.
Receive(p, q) ==
  /\ chan[p][q] # <<>>
  /\ LET m == Head(chan[p][q])
         r == pe[q]
     IN \/ /\ m.type = "prefixPassValue"
           /\ pe' = [pe EXCEPT ![q] =
                       IF m.stage \in DOMAIN r.value_buf THEN r
                       ELSE [r EXCEPT !.value_buf = @ @@ (m.stage :> m.val), !.steps = @ + 1]]
        \/ /\ m.type = "acknowledge"
           /\ pe' = [pe EXCEPT ![q] = Acknowledged(r, m.n)]
  /\ chan' = [chan EXCEPT ![p][q] = Tail(@)]
  /\ UNCHANGED <<setting, home, placed, steps_done, centroids, calls>>

\* The objects that leave for a PE.
Arriving(q) == {m \in UNION {pe[p].moves : p \in PEs} : m.to = q}
AllDecided == \A p \in PEs : pe[p].strategies > steps_done /\ ~pe[p].working

\* The step ends when each PE has the objects it expects.
Resume ==
  /\ CallDue("distributed") /\ AllDecided
  /\ \A q \in PEs : pe[q].migrates_expected = Cardinality(Arriving(q))
  /\ home' = [o \in DOMAIN home |->
                IF \E p \in PEs : \E m \in pe[p].moves : m.obj = o
                  THEN (CHOOSE m \in UNION {pe[p].moves : p \in PEs} : m.obj = o).to
                  ELSE home[o]]
  /\ pe' = [p \in PEs |-> [pe[p] EXCEPT !.moves = {}]]
  /\ steps_done' = steps_done + 1
  /\ UNCHANGED <<setting, placed, centroids, calls, chan>>

-----------------------------------------------------------------------------
IdlePe ==
  [working |-> FALSE, strategies |-> 0, report |-> FALSE, global_load |-> 0, prefix_stage |-> 0, prefix_sum |-> 0,
   prefix_done |-> FALSE, value_buf |-> <<>>, send_tracker |-> {}, steps |-> 0, moves |-> {},
   recv_prefix_move_pes |-> 0, incoming |-> 0, migrates_expected |-> 0, blind |-> FALSE, faulted |-> FALSE]

Start(s) ==
  /\ setting = s
  /\ home = [o \in DOMAIN setting.objs |-> Obj(o).pe]
  /\ placed = [o \in DOMAIN setting.objs |-> 1]
  /\ steps_done = 0 /\ centroids = <<>> /\ calls = <<>>
  /\ pe = [p \in PEs |-> IdlePe]
  /\ chan = [p \in PEs |-> Nothing]

Init == \E s \in Settings : Start(s)

\* A process that faults ends the run of all.
Faulted == \E p \in PEs : pe[p].faulted

Next ==
  \/ PrefixWork
  \/ OrbStart
  \/ OrbAssign
  \/ OrbSplit
  \/ /\ ~Faulted
     /\ \/ \E p \in PEs : Strategy(p) \/ Report(p) \/ SelfStep(p)
        \/ \E p \in PEs, q \in PEs : Receive(p, q)
        \/ Resume

Spec == Init /\ [][Next]_vars /\ WF_vars(Next)

-----------------------------------------------------------------------------
(* Properties.                                                             *)

\* A bisection assigns each partition to one PE: what one call places no later call
\* places again (OrbLB.h on the recursion: "orb the centroids[start_cent to (end_cent - 1)]
\* for PE[start_pe to (end_pe -1) ]").
PlacedOnce == calls = <<>> => \A o \in DOMAIN placed : placed[o] = 1

\* The order of the partitions as they come to a balancer.
Before(a, b) == Obj(a).pe < Obj(b).pe \/ (Obj(a).pe = Obj(b).pe /\ a < b)
Largest(f(_)) == Max({f(o) : o \in Ids("pt")})

\* A PE moved its partitions before the sum of the loads was there, in some call.
SomeBlind == \E p \in PEs : pe[p].blind

\* A prefix balancer keeps the partitions in order over the PEs and gives no PE more
\* than its share and one partition.  In the distributed one each PE comes to know the
\* loads of all PEs before it, in whatever order the values and the sum of all loads
\* come; the shares are fair unless a PE with partitions had all its values before that
\* sum (makePrefixMoves then divides by 0), which PE 0, to which nobody passes a value,
\* never has.  A bisection of few PEs places each partition once.
FairShares ==
  /\ PeCount <= 6 => PlacedOnce
  /\ \A p \in PEs : pe[p].prefix_done /\ pe[p].working =>
       pe[p].prefix_sum = MapThenSumSet(MyLoad, 0 .. p)
  /\ setting.balancer = "prefix" /\ steps_done > 0 =>
       LET size(o) == Obj(o).size
           share == MapThenSumSet(size, Ids("pt")) \div PeCount
       IN /\ \A a, b \in Ids("pt") : Before(a, b) => home[a] <= home[b]
          /\ \A p \in 0 .. PeCount - 2 : MapThenSumSet(size, AtPe(p, "pt")) < share + Largest(size)
  /\ ~pe[0].blind
  /\ setting.balancer = "distributed" /\ steps_done = 1 /\ ~SomeBlind =>
       LET load(o) == Obj(o).load
       IN /\ \A a, b \in Ids("pt") : Before(a, b) => home[a] <= home[b]
          /\ \A p \in PEs : PeCount * LoadOf(AtPe(p, "pt"))
               <= MapThenSumSet(load, DOMAIN setting.objs) + PeCount * Largest(load)

\* When all PEs have decided, each expects as many objects as the others send it, in
\* every step anew and also when some decided before the sum of the loads came.
MovesAgree ==
  AllDecided /\ CallDue("distributed") =>
    \A q \in PEs : pe[q].migrates_expected = Cardinality(Arriving(q))

=============================================================================
