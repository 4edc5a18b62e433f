------------------------------- MODULE Catalog -------------------------------
(***************************************************************************)
(* The halo catalogue (runFoFCatalog): a group-by over the labels of the   *)
(* merge.  Each PE sums its particles into one partial per label and sends *)
(* it to the label's owner, which merges the partials, keeps the groups of *)
(* at least min_size particles as rows and tells the contributors; a       *)
(* hosted run then reports -1 for the particles of the others.             *)
(*                                                                         *)
(* A broadcast of the driver and a message from one PE to another are not  *)
(* ordered.                                                                *)
(***************************************************************************)
EXTENDS Integers, FiniteSets, FiniteSetsExt, Functions

CONSTANTS
  PEs,
  Labels,     \* the minimum-order labels of the groups
  Members,    \* Members[q][l]: the particles of group l on PE q, 0 for none
  OwnerOf,    \* OwnerOf[q][l]: the PE to which q sends its partial of l; the PEs with
              \* particles of l agree on it
  MinSize,
  Calls       \* how many times the driver asks for a catalogue

VARIABLES
  call,
  stage,      \* the step of the driver
  waiting,    \* the PEs that have not contributed to the step
  mail,       \* catalogReceive and catalogKept messages on their way
  cat_owner,  \* the groups that a PE owns, summed so far, and their contributors
  cat_kept,   \* the labels that a PE knows to be kept
  rows        \* catalogGroups of each PE

vars == <<call, stage, waiting, mail, cat_owner, cat_kept, rows>>

NoGroups == [l \in {} |-> [n |-> 0, from |-> {}]]

Init ==
  /\ call = 1 /\ stage = "accumulate" /\ waiting = PEs
  /\ mail = {}
  /\ cat_owner = [q \in PEs |-> NoGroups]
  /\ cat_kept = [q \in PEs |-> {}]
  /\ rows = [q \in PEs |-> {}]

Contributes(q, s) == stage = s /\ q \in waiting /\ waiting' = waiting \ {q}

\* catalogAccumulate: clear what the last call left, then send.
CatalogAccumulate(q) ==
  /\ Contributes(q, "accumulate")
  /\ cat_owner' = [cat_owner EXCEPT ![q] = NoGroups]
  /\ cat_kept' = [cat_kept EXCEPT ![q] = {}]
  /\ rows' = [rows EXCEPT ![q] = {}]
  /\ LET Sums(o) == {[label |-> l, n |-> Members[q][l]] :
                       l \in {k \in Labels : Members[q][k] > 0 /\ OwnerOf[q][k] = o}}
     IN  mail' = mail \cup {[kind |-> "receive", to |-> o, from |-> q, what |-> Sums(o)] :
                              o \in {p \in PEs : Sums(p) # {}}}
  /\ UNCHANGED <<call, stage>>

\* catalogReceive: the first partial of a label is stored, the others are added.
Added(groups, m) ==
  LET Known(l) == IF l \in DOMAIN groups THEN groups[l] ELSE [n |-> 0, from |-> {}]
      Sent(l)  == SumSet({x.n : x \in {y \in m.what : y.label = l}})
      new      == {x.label : x \in m.what}
  IN  [l \in DOMAIN groups \cup new |->
         IF l \in new THEN [n |-> Known(l).n + Sent(l), from |-> Known(l).from \cup {m.from}]
         ELSE groups[l]]

CatalogReceive(q) ==
  /\ \E m \in mail :
       /\ m.kind = "receive" /\ m.to = q
       /\ mail' = mail \ {m}
       /\ cat_owner' = [cat_owner EXCEPT ![q] = Added(@, m)]
  /\ UNCHANGED <<call, stage, waiting, cat_kept, rows>>

\* catalogFinish: rows for the groups that are large enough, replies to their
\* contributors.
CatalogFinish(q) ==
  /\ Contributes(q, "finish")
  /\ LET groups == cat_owner[q]
         large  == {l \in DOMAIN groups : groups[l].n >= MinSize}
         For(p) == {l \in large : p \in groups[l].from}
     IN  /\ rows' = [rows EXCEPT ![q] = @ \cup {[id |-> l, n |-> groups[l].n] : l \in large}]
         /\ mail' = mail \cup {[kind |-> "kept", to |-> p, from |-> q, what |-> For(p)] :
                                 p \in {r \in PEs : For(r) # {}}}
  /\ cat_owner' = [cat_owner EXCEPT ![q] = NoGroups]
  /\ UNCHANGED <<call, stage, cat_kept>>

CatalogKept(q) ==
  /\ \E m \in mail :
       /\ m.kind = "kept" /\ m.to = q
       /\ mail' = mail \ {m}
       /\ cat_kept' = [cat_kept EXCEPT ![q] = @ \cup m.what]
  /\ UNCHANGED <<call, stage, waiting, cat_owner, rows>>

\* The driver waits for a step's reduction and then for quiescence.
GoOn ==
  /\ waiting = {} /\ mail = {} /\ stage # "done"
  /\ stage' = IF stage = "accumulate" THEN "finish" ELSE "done"
  /\ waiting' = IF stage' = "finish" THEN PEs ELSE {}
  /\ UNCHANGED <<call, mail, cat_owner, cat_kept, rows>>

\* The next iteration asks again.
CallAgain ==
  /\ stage = "done" /\ call < Calls
  /\ call' = call + 1 /\ stage' = "accumulate" /\ waiting' = PEs
  /\ UNCHANGED <<mail, cat_owner, cat_kept, rows>>

Next ==
  \/ \E q \in PEs :
       CatalogAccumulate(q) \/ CatalogReceive(q) \/ CatalogFinish(q) \/ CatalogKept(q)
  \/ GoOn \/ CallAgain

Spec == Init /\ [][Next]_vars

-----------------------------------------------------------------------------
\* returnHostLabels: what a hosted run hears of q's particles of group l.
HostLabel(q, l) == IF MinSize > 1 /\ l \notin cat_kept[q] THEN -1 ELSE l

\* A finished catalogue has one row for each group of at least min_size particles,
\* with all of them, and no other; and the label of a particle is returned just
\* if its group has a row.  ("The halo catalog by its own route (a group-by over
\* labels), so its group count must equal the histogram's surviving count".)
SizeOf(l) == MapThenSumSet(LAMBDA q : Members[q][l], PEs)
Large == {l \in Labels : SizeOf(l) >= MinSize}

CatalogExact ==
  stage = "done" =>
    /\ UNION {rows[q] : q \in PEs} = {[id |-> l, n |-> SizeOf(l)] : l \in Large}
    /\ \A q \in PEs, l \in Labels :
         Members[q][l] > 0 => (HostLabel(q, l) = l <=> l \in Large)
=============================================================================
