------------------------------ MODULE HostedRun ------------------------------
(***************************************************************************)
(* Friends-of-Friends as a plug-in of another program (fof/FoFPlugin.C,    *)
(* src/Driver.h: runHosted): the host stages particles on any PE, every    *)
(* call decomposes what is staged, labels it and sends each label back to  *)
(* the PE and the place where the host staged the particle.                *)
(*                                                                         *)
(* The chain that makes the labels and the catalogue are other modules':   *)
(* a particle gets the least identity of its group, and a PE is told which *)
(* of its labels are kept.                                                 *)
(***************************************************************************)
EXTENDS Integers, Sequences, FiniteSets, Bags

CONSTANTS
  HostPEs,
  Hosts   \* what a host does: its calls, each with the identities staged on every PE,
          \* the groups, min_group_size, catalog, and whether it clears afterwards

\* A host calls at least once; the groups of a call part what is staged for it.
StagedFor(k) == UNION {{k.ids[q][i] : i \in DOMAIN k.ids[q]} : q \in HostPEs}
IsCall(k) ==
  /\ k.ids \in [HostPEs -> Seq(Nat)]
  /\ k.min_group_size \in Nat /\ k.catalog \in BOOLEAN /\ k.clears \in BOOLEAN
  /\ \A id \in StagedFor(k) :
       id \in k.groups[id] /\ k.groups[id] \subseteq Nat /\ IsFiniteSet(k.groups[id])
  /\ \A id, other \in StagedFor(k) :
       k.groups[id] \cap k.groups[other] # {} => k.groups[id] = k.groups[other]
HostAssumption ==
  \A h \in Hosts : Len(h) \in Nat \ {0} /\ \A c \in 1 .. Len(h) : IsCall(h[c])

VARIABLES
  host,
  call,       \* the call of the host
  ready,      \* FoFPluginMain::ready
  asked,      \* the host's whenReady: "no", "waiting" or "sent"
  step,       \* where the call is
  left,       \* PEs that have not had their part of the step
  staged,     \* particles of every Reader
  owned,      \* particles of every PE's tree pieces
  hostLabels,
  cat_min_size, cat_kept,
  answers     \* receiveHostLabels messages on their way

hostVars == <<host, call, ready, asked, step, left, staged, owned, hostLabels, cat_min_size, cat_kept, answers>>

Now == host[call]
Nowhere == [q \in HostPEs |-> {}]

StartHost(h) ==
  /\ host = h /\ call = 1
  /\ ready = FALSE /\ asked = "no"
  /\ step = "stage" /\ left = HostPEs
  /\ staged = Nowhere /\ owned = Nowhere
  /\ hostLabels = [q \in HostPEs |-> <<>>]
  /\ cat_min_size = [q \in HostPEs |-> 0] /\ cat_kept = Nowhere
  /\ answers = EmptyBag

Init == \E h \in Hosts : StartHost(h)

\* Variant: one who comes early is not remembered.
Forgotten == asked' = IF ready THEN "sent" ELSE "no more"

Remembered == asked' = IF ready THEN "sent" ELSE "waiting"

WhenReady ==
  /\ asked = "no" /\ Remembered
  /\ UNCHANGED <<host, call, ready, step, left, staged, owned, hostLabels, cat_min_size, cat_kept, answers>>

\* FoFPluginMain::run, when start-up is complete.
Ready ==
  /\ ~ready /\ ready' = TRUE
  /\ asked' = IF asked = "waiting" THEN "sent" ELSE asked
  /\ UNCHANGED <<host, call, step, left, staged, owned, hostLabels, cat_min_size, cat_kept, answers>>

\* The driver goes on when all have had their part.
Turn(q, s, next) ==
  /\ step = s /\ q \in left
  /\ step' = IF left = {q} THEN next ELSE s
  /\ left' = IF left = {q} THEN HostPEs ELSE left \ {q}

FirstPlace(q) == Len(hostLabels[q])

\* stageInto: a particle is told where its label is to go.
Stage(q) ==
  /\ asked = "sent"
  /\ Turn(q, "stage", "decompose")
  /\ LET ids == Now.ids[q] IN
     /\ staged' = [staged EXCEPT ![q] = @ \cup
                     {[id |-> ids[i], pe |-> q, place |-> FirstPlace(q) + i] : i \in DOMAIN ids}]
     /\ hostLabels' = [hostLabels EXCEPT ![q] = @ \o [i \in DOMAIN ids |-> -1]]
  /\ UNCHANGED <<host, call, ready, asked, owned, cat_min_size, cat_kept, answers>>

\* decomposeStaged: the readers are emptied into the tree pieces, wherever they are.
AllStaged == UNION {staged[q] : q \in HostPEs}

DecomposeStaged ==
  /\ step = "decompose"
  /\ IF AllStaged = {}
       THEN step' = "aborted" /\ UNCHANGED <<staged, owned>>
       ELSE /\ step' = "label"
            /\ \E to \in [AllStaged -> HostPEs] :
                 owned' = [q \in HostPEs |-> {p \in AllStaged : to[p] = q}]
            /\ staged' = Nowhere
  /\ UNCHANGED <<host, call, ready, asked, left, hostLabels, cat_min_size, cat_kept, answers>>

Label(id) == CHOOSE l \in Now.groups[id] : \A m \in Now.groups[id] : l <= m
Size(id) == Cardinality(Now.groups[id])

\* Variant: the filter of the call before stays.
KeptFilter(q) == cat_min_size[q]

NoFilter(q) == 0

\* The reset of phase 1 that begins the chain, on every PE.
Reset(q) ==
  /\ Turn(q, "label", IF Now.catalog \/ Now.min_group_size > 1 THEN "catalog" ELSE "return")
  /\ cat_min_size' = [cat_min_size EXCEPT ![q] = NoFilter(q)]
  /\ cat_kept' = [cat_kept EXCEPT ![q] = {}]
  /\ UNCHANGED <<host, call, ready, asked, staged, owned, hostLabels, answers>>

\* runFoFCatalog (module Catalog): a PE hears which of its labels are kept.
CatalogStep(q) ==
  /\ Turn(q, "catalog", "return")
  /\ cat_min_size' = [cat_min_size EXCEPT ![q] = Now.min_group_size]
  /\ cat_kept' = [cat_kept EXCEPT ![q] =
                    {Label(p.id) : p \in {x \in owned[q] : Size(x.id) >= Now.min_group_size}}]
  /\ UNCHANGED <<host, call, ready, asked, staged, owned, hostLabels, answers>>

LabelOn(q, id) == IF cat_min_size[q] > 1 /\ Label(id) \notin cat_kept[q] THEN -1 ELSE Label(id)

ReturnHostLabels(q) ==
  /\ Turn(q, "return", "quiet")
  /\ LET out(r) == {[place |-> p.place, label |-> LabelOn(q, p.id)] : p \in {x \in owned[q] : x.pe = r}}
     IN  answers' = answers (+) SetToBag({[to |-> r, labels |-> out(r)] : r \in {s \in HostPEs : out(s) # {}}})
  /\ UNCHANGED <<host, call, ready, asked, staged, owned, hostLabels, cat_min_size, cat_kept>>

ReceiveHostLabels ==
  /\ \E m \in DOMAIN answers :
       /\ answers' = answers (-) SetToBag({m})
       /\ hostLabels' = [hostLabels EXCEPT ![m.to] =
            [i \in DOMAIN @ |-> IF \E x \in m.labels : x.place = i
                                  THEN (CHOOSE x \in m.labels : x.place = i).label ELSE @[i]]]
  /\ UNCHANGED <<host, call, ready, asked, step, left, staged, owned, cat_min_size, cat_kept>>

Quiet ==
  /\ step = "quiet" /\ answers = EmptyBag
  /\ step' = "release"
  /\ UNCHANGED <<host, call, ready, asked, left, staged, owned, hostLabels, cat_min_size, cat_kept, answers>>

\* releaseScratch; the tree pieces are destroyed, and the host's callback is sent.
ReleaseScratch(q) ==
  /\ Turn(q, "release", "called")
  /\ cat_kept' = [cat_kept EXCEPT ![q] = {}]
  /\ owned' = [owned EXCEPT ![q] = {}]
  /\ UNCHANGED <<host, call, ready, asked, staged, hostLabels, cat_min_size, answers>>

\* The host has read its labels and clears them or not before it stages anew.
CallAgain ==
  /\ step = "called" /\ call < Len(host)
  /\ call' = call + 1 /\ step' = "stage"
  /\ hostLabels' = IF Now.clears THEN [q \in HostPEs |-> <<>>] ELSE hostLabels
  /\ UNCHANGED <<host, ready, asked, left, staged, owned, cat_min_size, cat_kept, answers>>

Next ==
  \/ WhenReady \/ Ready \/ DecomposeStaged \/ ReceiveHostLabels \/ Quiet \/ CallAgain
  \/ \E q \in HostPEs :
       Stage(q) \/ Reset(q) \/ CatalogStep(q) \/ ReturnHostLabels(q) \/ ReleaseScratch(q)

-----------------------------------------------------------------------------
\* What a PE is to be told of a particle of call c of host h: the least identity of its
\* group as it was in that call, or -1 if the call wanted larger groups.
LabelIn(h, c, id) ==
  LET g == h[c].groups[id]
  IN  IF Cardinality(g) < h[c].min_group_size THEN -1 ELSE CHOOSE l \in g : \A m \in g : l <= m

\* What PE q has after each call: the labels of all it has staged since the host
\* cleared, in the order of the staging.
Held(h, q) ==
  LET held[c \in 0 .. Len(h)] ==
        IF c = 0 THEN <<>>
        ELSE (IF c > 1 /\ h[c - 1].clears THEN <<>> ELSE held[c - 1])
               \o [i \in DOMAIN h[c].ids[q] |-> LabelIn(h, c, h[c].ids[q][i])]
  IN  held

\* After a call every PE has its labels, and nothing is left staged.
LabelsReturned ==
  step = "called" =>
    /\ \A q \in HostPEs : hostLabels[q] = Held(host, q)[call]
    /\ AllStaged = {} /\ \A q \in HostPEs : owned[q] = {}

\* Every call comes back, unless nothing was staged; the host that waits for the
\* start-up hears of it.
CallsReturn == (call = Len(host) /\ step = "called") \/ step = "aborted"
=============================================================================
