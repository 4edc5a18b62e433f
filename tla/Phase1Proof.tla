---------------------------- MODULE Phase1Proof ----------------------------
\* What phase 1 keeps for every number of PEs, every set of pieces and every
\* links: no tip changes while a walk reads tips, the registry names what each PE
\* holds and every piece has one holder when the pool has been built, a merge
\* sees every edge of its stage, and in the end every particle carries the label of
\* its group.
\*
\* No barrier separates the steps of the chain; the deposit counters do.  The
\* argument says what they mean: the process is in one of five phases, every PE
\* is either working in that phase or at rest (waiting, with no message), and the
\* counter of the phase is the number of PEs at rest.  So the PE that makes the
\* last deposit is the only one that is not at rest, and nothing of the phase is
\* left when it sends the next message to all.
EXTENDS Phase1, MinUnionProof, SequenceTheorems

PCs == {"start", "claim", "freeze", "wait", "drain", "walk", "submit", "deposit", "done"}
Messages == {"slice", "phaseB", "mid", "relabel"}

ChainTypes ==
  /\ pc \in [PEs -> PCs]
  /\ inbox \in [PEs -> SUBSET Messages]
  /\ done \in [Deposits -> Nat]
  /\ stage \in 0 .. 2

AtRest(q) == pc[q] = "wait" /\ inbox[q] = {}
Waits(q, m) == pc[q] = "wait" /\ inbox[q] = {m}
At(q, S) == pc[q] \in S /\ inbox[q] = {}

Resting == {q \in PEs : AtRest(q)}
Rested == Cardinality(Resting)

Counts(a, s, b1, m, b) ==
  /\ done["a"] = a /\ done["slice"] = s /\ done["b1"] = b1
  /\ done["mid"] = m /\ done["b"] = b

\* The five phases of the chain.
Claiming == {"start", "claim", "freeze"}
Draining == {"drain", "walk", "submit", "deposit"}

InA ==
  /\ \A q \in PEs : At(q, Claiming) \/ AtRest(q)
  /\ Rested < NPEs
  /\ stage = 0 /\ Counts(Rested, 0, 0, 0, 0)

InSlices ==
  /\ \A q \in PEs : Waits(q, "slice") \/ AtRest(q)
  /\ Rested < NPEs
  /\ stage = 0 /\ Counts(NPEs, Rested, 0, 0, 0)

InB ==
  /\ \A q \in PEs : Waits(q, "phaseB") \/ At(q, Draining) \/ AtRest(q)
  /\ Rested < NPEs
  /\ \/ stage = 0 /\ Counts(NPEs, NPEs, 0, 0, Rested)
     \/ stage = 1 /\ Counts(NPEs, NPEs, Rested, 0, 0)
     \/ stage = 2 /\ Counts(NPEs, NPEs, NPEs, NPEs, Rested)

InMiddle ==
  /\ \A q \in PEs : Waits(q, "mid") \/ AtRest(q)
  /\ Rested < NPEs
  /\ stage = 1 /\ Counts(NPEs, NPEs, NPEs, Rested, 0)

Relabelling ==
  /\ \A q \in PEs : Waits(q, "relabel") \/ At(q, {"done"})
  /\ \/ stage = 0 /\ Counts(NPEs, NPEs, 0, 0, NPEs)
     \/ stage = 2 /\ Counts(NPEs, NPEs, NPEs, NPEs, NPEs)

PhaseInv == ChainTypes /\ (InA \/ InSlices \/ InB \/ InMiddle \/ Relabelling)

-----------------------------------------------------------------------------
\* The number of PEs, and of those at rest.

\* There is a PE, and the resting PEs are a finite number of them.
LEMMA RestedType ==
  /\ NPEs \in Nat /\ NPEs > 0
  /\ IsFiniteSet(Resting) /\ Rested \in Nat /\ Rested <= NPEs
<1>1. IsFiniteSet(PEs) /\ PEs # {}
  BY PEsAssumption
<1>2. NPEs \in Nat /\ NPEs > 0
  BY <1>1, FS_CardinalityType, FS_EmptySet DEF NPEs
<1>3. Resting \in SUBSET PEs
  BY DEF Resting
<1>4. IsFiniteSet(Resting) /\ Rested <= NPEs
  BY <1>1, <1>3, FS_Subset DEF Rested, NPEs
<1>5. QED
  BY <1>2, <1>4, FS_CardinalityType DEF Rested

\* A PE that was not at rest and still is not leaves the others as they were.
LEMMA Stays ==
  ASSUME NEW q \in PEs, ~ AtRest(q), ~ AtRest(q)',
         \A r \in PEs \ {q} : pc'[r] = pc[r] /\ inbox'[r] = inbox[r]
  PROVE  Rested' = Rested
<1>1. Resting' = Resting
  BY DEF Resting, AtRest
<1>2. QED
  BY <1>1 DEF Rested

\* A PE comes to rest.
LEMMA ComesToRest ==
  ASSUME NEW q \in PEs, ~ AtRest(q), AtRest(q)',
         \A r \in PEs \ {q} : pc'[r] = pc[r] /\ inbox'[r] = inbox[r]
  PROVE  Rested' = Rested + 1
<1>1. Resting' = Resting \cup {q}
  BY DEF Resting, AtRest
<1>2. q \notin Resting
  BY DEF Resting
<1>3. IsFiniteSet(Resting)
  BY RestedType
<1>4. QED
  BY <1>1, <1>2, <1>3, FS_AddElement DEF Rested

\* The PE that makes the last deposit is the only one that is not at rest.
LEMMA OnlyLast ==
  ASSUME NEW q \in PEs, ~ AtRest(q), Rested + 1 = NPEs
  PROVE  \A r \in PEs \ {q} : AtRest(r)
<1>1. IsFiniteSet(Resting) /\ q \notin Resting
  BY RestedType DEF Resting
<1>2. Cardinality(Resting \cup {q}) = NPEs
  BY <1>1, FS_AddElement DEF Rested
<1>3. Resting \cup {q} \in SUBSET PEs
  BY DEF Resting
<1>4. Resting \cup {q} = PEs
  BY <1>2, <1>3, FS_Subset, PEsAssumption DEF NPEs
<1>5. QED
  BY <1>4 DEF Resting

\* What a handler that ends in a deposit leaves behind: when the deposit is the
\* last, all wait for the next message; when not, one more PE is at rest.
LEMMA Deposited ==
  ASSUME ChainTypes, NEW q \in PEs, ~ AtRest(q), Rested < NPEs,
         NEW m, NEW next, inbox[q] \subseteq {m},
         \A r \in PEs : pc'[r] = IF r = q THEN "wait" ELSE pc[r],
         Reply(q, m, Rested + 1 = NPEs, next)
  PROVE  /\ Rested + 1 = NPEs => Rested' = 0 /\ \A r \in PEs : Waits(r, next)'
         /\ Rested + 1 # NPEs => /\ Rested' = Rested + 1 /\ Rested' < NPEs
                                 /\ AtRest(q)'
                                 /\ \A r \in PEs \ {q} : pc'[r] = pc[r] /\ inbox'[r] = inbox[r]
<1>1. CASE Rested + 1 = NPEs
  <2>1. \A r \in PEs \ {q} : AtRest(r)
    BY <1>1, OnlyLast
  <2>2. \A r \in PEs : Waits(r, next)'
    BY <1>1, <2>1 DEF Waits, AtRest, Reply
  <2>3. Resting' = {}
    BY <2>2 DEF Resting, AtRest, Waits
  <2>4. QED
    BY <1>1, <2>2, <2>3, FS_EmptySet DEF Rested
<1>2. CASE Rested + 1 # NPEs
  <2>1. \A r \in PEs \ {q} : pc'[r] = pc[r] /\ inbox'[r] = inbox[r]
    BY <1>2 DEF Reply, ChainTypes
  <2>2. AtRest(q)'
    BY <1>2 DEF AtRest, Reply
  <2>3. Rested' = Rested + 1
    BY <2>1, <2>2, ComesToRest
  <2>4. QED
    BY <1>2, <2>1, <2>2, <2>3, RestedType
<1>3. QED
  BY <1>1, <1>2

-----------------------------------------------------------------------------
\* The phases, one action at a time.

\* A step of phase A that is not the freeze.
LEMMA ClaimingStep ==
  ASSUME PhaseInv, NEW q \in PEs, pc[q] \in Claiming, NEW s \in Claiming,
         pc' = [pc EXCEPT ![q] = s] \/ pc' = pc,
         UNCHANGED <<inbox, done, stage>>
  PROVE  PhaseInv'
<1>1. InA /\ ChainTypes
  BY DEF PhaseInv, InA, InSlices, InB, InMiddle, Relabelling, At, AtRest, Waits, Claiming, Draining
<1>2. At(q, Claiming) /\ ~ AtRest(q)
  BY <1>1 DEF InA, At, AtRest, Claiming
<1>3. ChainTypes'
  BY <1>1 DEF ChainTypes, Claiming, PCs
<1>4. /\ At(q, Claiming)' /\ ~ AtRest(q)'
      /\ \A r \in PEs \ {q} : pc'[r] = pc[r] /\ inbox'[r] = inbox[r]
  BY <1>1, <1>2 DEF ChainTypes, At, AtRest, Claiming
<1>5. Rested' = Rested
  BY <1>2, <1>4, Stays
<1>6. InA'
  BY <1>1, <1>4, <1>5 DEF InA, At, AtRest, Counts
<1>7. QED
  BY <1>3, <1>6 DEF PhaseInv

\* The freeze and its deposit.
LEMMA FreezeStep ==
  ASSUME PhaseInv, NEW q \in PEs, Freeze(q)
  PROVE  PhaseInv'
<1>1. InA /\ ChainTypes
  BY DEF PhaseInv, InA, InSlices, InB, InMiddle, Relabelling, At, AtRest, Waits, Claiming, Draining, Freeze
<1>2. ~ AtRest(q) /\ inbox[q] = {}
  BY <1>1 DEF InA, At, AtRest, Freeze
<1>3. done["a"] = Rested /\ Rested < NPEs /\ stage = 0 /\ Counts(Rested, 0, 0, 0, 0)
  BY <1>1 DEF InA, Counts
<1>4. \A r \in PEs : pc'[r] = IF r = q THEN "wait" ELSE pc[r]
  BY <1>1 DEF Freeze, Goto, ChainTypes
<1>5. Reply(q, Nothing, Rested + 1 = NPEs, "slice")
  BY <1>3 DEF Freeze, LastDeposit
<1>6. /\ Rested + 1 = NPEs => Rested' = 0 /\ \A r \in PEs : Waits(r, "slice")'
      /\ Rested + 1 # NPEs => /\ Rested' = Rested + 1 /\ Rested' < NPEs
                              /\ AtRest(q)'
                              /\ \A r \in PEs \ {q} : pc'[r] = pc[r] /\ inbox'[r] = inbox[r]
  BY <1>1, <1>2, <1>3, <1>4, <1>5, Deposited
<1>7. stage' = 0 /\ done' = [done EXCEPT !["a"] = Rested + 1]
  BY <1>1, <1>3 DEF Freeze, Deposit, pool
<1>8. ChainTypes'
  BY <1>1, RestedType DEF Freeze, Goto, Deposit, Reply, pool, ChainTypes, PCs, Messages, Deposits
<1>9. InA' \/ InSlices'
  <2>1. CASE Rested + 1 = NPEs
    BY <2>1, <1>1, <1>3, <1>6, <1>7 DEF InSlices, Counts, ChainTypes, Deposits
  <2>2. CASE Rested + 1 # NPEs
    BY <2>2, <1>1, <1>3, <1>6, <1>7 DEF InA, Counts, At, AtRest, ChainTypes, Deposits
  <2>3. QED
    BY <2>1, <2>2
<1>10. QED
  BY <1>8, <1>9 DEF PhaseInv

\* A slice of the pool and its deposit.
LEMMA SliceStep ==
  ASSUME PhaseInv, NEW q \in PEs, BuildPoolSlice(q)
  PROVE  PhaseInv'
<1>1. InSlices /\ ChainTypes
  BY DEF PhaseInv, InA, InSlices, InB, InMiddle, Relabelling, At, AtRest, Waits, Claiming, Draining,
         BuildPoolSlice, Takes
<1>2. ~ AtRest(q) /\ inbox[q] = {"slice"} /\ pc[q] = "wait"
  BY <1>1 DEF InSlices, Waits, AtRest, BuildPoolSlice, Takes
<1>3. Rested < NPEs /\ stage = 0 /\ Counts(NPEs, Rested, 0, 0, 0)
  BY <1>1 DEF InSlices, Counts
<1>4. \A r \in PEs : pc'[r] = IF r = q THEN "wait" ELSE pc[r]
  BY <1>2 DEF BuildPoolSlice
<1>5. Reply(q, "slice", Rested + 1 = NPEs, "phaseB")
  BY <1>3 DEF BuildPoolSlice, LastDeposit, Counts
<1>6. /\ Rested + 1 = NPEs => Rested' = 0 /\ \A r \in PEs : Waits(r, "phaseB")'
      /\ Rested + 1 # NPEs => /\ Rested' = Rested + 1 /\ Rested' < NPEs
                              /\ AtRest(q)'
                              /\ \A r \in PEs \ {q} : pc'[r] = pc[r] /\ inbox'[r] = inbox[r]
  BY <1>1, <1>2, <1>3, <1>4, <1>5, Deposited
<1>7. done' = [done EXCEPT !["slice"] = Rested + 1]
  BY <1>3 DEF BuildPoolSlice, Deposit, Counts
<1>8. stage' = 0 \/ (stage' = 1 /\ Rested + 1 = NPEs)
  BY <1>3 DEF BuildPoolSlice, Assemble, LastDeposit, Counts
<1>9. ChainTypes'
  <2>1. done' \in [Deposits -> Nat] /\ stage' \in 0 .. 2
    BY <1>1, <1>7, <1>8, RestedType DEF ChainTypes, Deposits
  <2>2. pc' \in [PEs -> PCs] /\ inbox' \in [PEs -> SUBSET Messages]
    BY <1>1, <1>5 DEF BuildPoolSlice, Reply, ChainTypes, Messages
  <2>3. QED
    BY <2>1, <2>2 DEF ChainTypes
<1>10. InSlices' \/ InB'
  <2>1. CASE Rested + 1 = NPEs
    BY <2>1, <1>1, <1>3, <1>6, <1>7, <1>8, RestedType DEF InB, Counts, ChainTypes, Deposits
  <2>2. CASE Rested + 1 # NPEs
    BY <2>2, <1>1, <1>3, <1>6, <1>7, <1>8 DEF InSlices, Counts, Waits, AtRest, ChainTypes, Deposits
  <2>3. QED
    BY <2>1, <2>2
<1>11. QED
  BY <1>9, <1>10 DEF PhaseInv

\* A step of phase B that is not a deposit: the PE goes on, or puts the rest off.
LEMMA DrainStep ==
  ASSUME PhaseInv, NEW q \in PEs,
         Waits(q, "phaseB") \/ pc[q] \in Draining,
         Waits(q, "phaseB")' \/ At(q, Draining)',
         \A r \in PEs \ {q} : pc'[r] = pc[r] /\ inbox'[r] = inbox[r],
         ChainTypes', UNCHANGED <<done, stage>>
  PROVE  PhaseInv'
<1>1. InB
  BY DEF PhaseInv, InA, InSlices, InB, InMiddle, Relabelling, At, AtRest, Waits, Claiming, Draining
<1>2. ~ AtRest(q) /\ ~ AtRest(q)'
  BY <1>1 DEF InB, At, AtRest, Waits, Draining
<1>3. Rested' = Rested
  BY <1>2, Stays
<1>4. \A r \in PEs : Waits(r, "phaseB")' \/ At(r, Draining)' \/ AtRest(r)'
  BY <1>1 DEF InB, At, AtRest, Waits
<1>5. InB'
  BY <1>1, <1>3, <1>4 DEF InB, Counts
<1>6. QED
  BY <1>5 DEF PhaseInv

\* The deposit at the end of a stage of phase B.
LEMMA DepositStep ==
  ASSUME PhaseInv, NEW q \in PEs, DepositB(q)
  PROVE  PhaseInv'
<1> DEFINE c == IF stage = 1 THEN "b1" ELSE "b"
<1>1. PICK next : next = IF stage = 1 THEN "mid" ELSE "relabel"
  OBVIOUS
<1>2. InB /\ ChainTypes
  BY DEF PhaseInv, InA, InSlices, InB, InMiddle, Relabelling, At, AtRest, Waits, Claiming, Draining,
         DepositB
<1>3. ~ AtRest(q) /\ inbox[q] = {}
  BY <1>2 DEF InB, At, AtRest, Waits, DepositB
<1>4. Rested < NPEs /\ done[c] = Rested
  BY <1>2 DEF InB, Counts
<1>5. \A r \in PEs : pc'[r] = IF r = q THEN "wait" ELSE pc[r]
  BY <1>2 DEF DepositB, Goto, ChainTypes
<1>6. Reply(q, Nothing, Rested + 1 = NPEs, next)
  BY <1>1, <1>4 DEF DepositB, LastDeposit
<1>7. /\ Rested + 1 = NPEs => Rested' = 0 /\ \A r \in PEs : Waits(r, next)'
      /\ Rested + 1 # NPEs => /\ Rested' = Rested + 1 /\ Rested' < NPEs
                              /\ AtRest(q)'
                              /\ \A r \in PEs \ {q} : pc'[r] = pc[r] /\ inbox'[r] = inbox[r]
  BY <1>2, <1>3, <1>4, <1>5, <1>6, Deposited
<1>8. done' = [done EXCEPT ![c] = Rested + 1] /\ stage' = stage
  BY <1>4 DEF DepositB, Deposit, pool
<1>9. ChainTypes'
  <2>1. done' \in [Deposits -> Nat] /\ stage' \in 0 .. 2
    BY <1>2, <1>8, RestedType DEF ChainTypes, Deposits
  <2>2. pc' \in [PEs -> PCs] /\ inbox' \in [PEs -> SUBSET Messages]
    BY <1>1, <1>2, <1>6 DEF DepositB, Goto, Reply, ChainTypes, PCs, Messages
  <2>3. QED
    BY <2>1, <2>2 DEF ChainTypes
<1>10. InB' \/ InMiddle' \/ Relabelling'
  <2>1. CASE Rested + 1 # NPEs
    <3>1. \A r \in PEs : Waits(r, "phaseB")' \/ At(r, Draining)' \/ AtRest(r)'
      BY <2>1, <1>2, <1>7 DEF InB, At, AtRest, Waits
    <3>2. QED
      BY <2>1, <3>1, <1>2, <1>7, <1>8 DEF InB, Counts, ChainTypes, Deposits
  <2>2. CASE Rested + 1 = NPEs /\ stage = 1
    BY <2>2, <1>1, <1>2, <1>7, <1>8, RestedType DEF InB, InMiddle, Counts, ChainTypes, Deposits
  <2>3. CASE Rested + 1 = NPEs /\ stage # 1
    BY <2>3, <1>1, <1>2, <1>7, <1>8, RestedType DEF InB, Relabelling, Counts, ChainTypes, Deposits
  <2>4. QED
    BY <2>1, <2>2, <2>3
<1>11. QED
  BY <1>9, <1>10 DEF PhaseInv

\* The relabel between the two stages, and its deposit.
LEMMA MiddleStep ==
  ASSUME PhaseInv, NEW q \in PEs, MidRelabel(q)
  PROVE  PhaseInv'
<1>1. InMiddle /\ ChainTypes
  BY DEF PhaseInv, InA, InSlices, InB, InMiddle, Relabelling, At, AtRest, Waits, Claiming, Draining,
         MidRelabel, Takes
<1>2. ~ AtRest(q) /\ inbox[q] = {"mid"} /\ pc[q] = "wait"
  BY <1>1 DEF InMiddle, Waits, AtRest, MidRelabel, Takes
<1>3. Rested < NPEs /\ stage = 1 /\ Counts(NPEs, NPEs, NPEs, Rested, 0)
  BY <1>1 DEF InMiddle, Counts
<1>4. \A r \in PEs : pc'[r] = IF r = q THEN "wait" ELSE pc[r]
  BY <1>2 DEF MidRelabel
<1>5. Reply(q, "mid", Rested + 1 = NPEs, "phaseB")
  BY <1>3 DEF MidRelabel, LastDeposit, Counts
<1>6. /\ Rested + 1 = NPEs => Rested' = 0 /\ \A r \in PEs : Waits(r, "phaseB")'
      /\ Rested + 1 # NPEs => /\ Rested' = Rested + 1 /\ Rested' < NPEs
                              /\ AtRest(q)'
                              /\ \A r \in PEs \ {q} : pc'[r] = pc[r] /\ inbox'[r] = inbox[r]
  BY <1>1, <1>2, <1>3, <1>4, <1>5, Deposited
<1>7. /\ done' = [done EXCEPT !["mid"] = Rested + 1]
      /\ stage' = IF Rested + 1 = NPEs THEN 2 ELSE 1
  BY <1>3 DEF MidRelabel, Deposit, LastDeposit, Counts
<1>8. ChainTypes'
  <2>1. done' \in [Deposits -> Nat] /\ stage' \in 0 .. 2
    BY <1>1, <1>7, RestedType DEF ChainTypes, Deposits
  <2>2. pc' \in [PEs -> PCs] /\ inbox' \in [PEs -> SUBSET Messages]
    BY <1>1, <1>5 DEF MidRelabel, Reply, ChainTypes, Messages
  <2>3. QED
    BY <2>1, <2>2 DEF ChainTypes
<1>9. InMiddle' \/ InB'
  <2>1. CASE Rested + 1 = NPEs
    BY <2>1, <1>1, <1>3, <1>6, <1>7, RestedType DEF InB, Counts, ChainTypes, Deposits
  <2>2. CASE Rested + 1 # NPEs
    BY <2>2, <1>1, <1>3, <1>6, <1>7 DEF InMiddle, Counts, Waits, AtRest, ChainTypes, Deposits
  <2>3. QED
    BY <2>1, <2>2
<1>10. QED
  BY <1>8, <1>9 DEF PhaseInv

\* The last relabel of a PE.
LEMMA RelabelStep ==
  ASSUME PhaseInv, NEW q \in PEs, RelabelChained(q)
  PROVE  PhaseInv'
<1>1. Relabelling /\ ChainTypes
  BY DEF PhaseInv, InA, InSlices, InB, InMiddle, Relabelling, At, AtRest, Waits, Claiming, Draining,
         RelabelChained, Takes
<1>2. inbox[q] = {"relabel"} /\ UNCHANGED <<done, stage>>
  BY <1>1 DEF Relabelling, Waits, At, RelabelChained, Takes, pool
<1>3. \A r \in PEs : /\ pc'[r] = IF r = q THEN "done" ELSE pc[r]
                     /\ inbox'[r] = IF r = q THEN {} ELSE inbox[r]
  BY <1>1, <1>2 DEF RelabelChained, Goto, Reply, ChainTypes
<1>4. ChainTypes'
  BY <1>1, <1>2 DEF RelabelChained, Goto, Reply, ChainTypes, PCs, Messages
<1>5. Relabelling'
  BY <1>1, <1>2, <1>3 DEF Relabelling, Counts, Waits, At
<1>6. QED
  BY <1>4, <1>5 DEF PhaseInv

-----------------------------------------------------------------------------
\* The phases hold, whoever goes first.

LEMMA PhaseInit == Init => PhaseInv
<1> SUFFICES ASSUME Init PROVE PhaseInv
  OBVIOUS
<1>1. ChainTypes
  BY DEF Init, ChainTypes, PCs, Deposits
<1>2. Resting = {}
  BY DEF Init, Resting, AtRest
<1>3. Rested = 0 /\ Rested < NPEs
  BY <1>2, FS_EmptySet, RestedType DEF Rested
<1>4. \A q \in PEs : At(q, Claiming)
  BY DEF Init, At, Claiming
<1>5. InA
  BY <1>3, <1>4 DEF Init, InA, Counts, Deposits
<1>6. QED
  BY <1>1, <1>5 DEF PhaseInv

LEMMA PhaseNext == PhaseInv /\ [Next]_vars => PhaseInv'
<1> SUFFICES ASSUME PhaseInv, [Next]_vars PROVE PhaseInv'
  OBVIOUS
<1>1. CASE UNCHANGED vars
  <2>1. UNCHANGED <<pc, inbox, done, stage>>
    BY <1>1 DEF vars
  <2>2. Rested' = Rested
    BY <2>1 DEF Rested, Resting, AtRest
  <2>3. ChainTypes'
    BY <2>1 DEF PhaseInv, ChainTypes
  <2>4. QED
    BY <2>1, <2>2, <2>3 DEF PhaseInv, InA, InSlices, InB, InMiddle, Relabelling, At, AtRest, Waits, Counts
<1>2. ASSUME NEW q \in PEs, Step(q) PROVE PhaseInv'
  <2>1. ChainTypes
    BY DEF PhaseInv
  <2>2. CASE WalkRegistered(q)
    BY <2>2, ClaimingStep DEF WalkRegistered, Goto, Claiming, pool
  <2>3. CASE StartClaims(q)
    BY <2>3, ClaimingStep DEF StartClaims, Goto, Claiming, pool
  <2>4. CASE Claim(q)
    BY <2>4, ClaimingStep DEF Claim, Claiming, pool
  <2>5. CASE CrossPass(q)
    BY <2>5, ClaimingStep DEF CrossPass, Goto, Claiming, pool
  <2>6. CASE Freeze(q)
    BY <2>6, FreezeStep
  <2>7. CASE BuildPoolSlice(q)
    BY <2>7, SliceStep
  <2>8. CASE EnterPhaseB(q)
    <3>1. inbox[q] = {"phaseB"}
      BY <2>8 DEF EnterPhaseB, Takes, PhaseInv, InA, InSlices, InB, InMiddle, Relabelling, Waits, At,
                  AtRest, Claiming, Draining
    <3>2. \A r \in PEs : /\ pc'[r] = IF r = q THEN "drain" ELSE pc[r]
                         /\ inbox'[r] = IF r = q THEN {} ELSE inbox[r]
      BY <2>1, <2>8, <3>1 DEF EnterPhaseB, Reply, Goto, ChainTypes
    <3>3. UNCHANGED <<done, stage>> /\ ChainTypes'
      BY <2>1, <2>8 DEF EnterPhaseB, Reply, Goto, ChainTypes, PCs, Messages, pool
    <3>4. QED
      BY <2>8, <3>1, <3>2, <3>3, DrainStep DEF EnterPhaseB, Takes, Waits, At, Draining
  <2>9. CASE ClaimUnit(q)
    <3>1. PICK s \in {"walk", "submit"} : pc' = [pc EXCEPT ![q] = s]
      BY <2>9 DEF ClaimUnit, TakeFrom, Goto
    <3>2. UNCHANGED <<inbox, done, stage>> /\ inbox[q] = {}
      BY <2>9 DEF ClaimUnit, pool, PhaseInv, InA, InSlices, InB, InMiddle, Relabelling, Waits, At,
                  AtRest, Claiming, Draining
    <3>3. ChainTypes'
      BY <2>1, <3>1, <3>2 DEF ChainTypes, PCs
    <3>4. QED
      BY <2>1, <2>9, <3>1, <3>2, <3>3, DrainStep DEF ClaimUnit, ChainTypes, At, Draining
  <2>10. CASE WalkUnit(q)
    <3>1. inbox[q] = {} /\ UNCHANGED <<done, stage>>
      BY <2>10 DEF WalkUnit, pool, PhaseInv, InA, InSlices, InB, InMiddle, Relabelling, Waits, At,
                  AtRest, Claiming, Draining
    <3>2. CASE Goto(q, "drain") /\ UNCHANGED inbox
      <4>1. ChainTypes'
        BY <2>1, <3>1, <3>2 DEF Goto, ChainTypes, PCs
      <4>2. QED
        BY <2>1, <2>10, <3>1, <3>2, <4>1, DrainStep DEF WalkUnit, Goto, ChainTypes, At, Draining
    <3>3. CASE Goto(q, "wait") /\ inbox' = [inbox EXCEPT ![q] = @ \cup {"phaseB"}]
      <4>1. ChainTypes'
        BY <2>1, <3>1, <3>3 DEF Goto, ChainTypes, PCs, Messages
      <4>2. Waits(q, "phaseB")' /\ \A r \in PEs \ {q} : pc'[r] = pc[r] /\ inbox'[r] = inbox[r]
        BY <2>1, <3>1, <3>3 DEF Goto, ChainTypes, Waits
      <4>3. QED
        BY <2>10, <3>1, <4>1, <4>2, DrainStep DEF WalkUnit, Draining
    <3>4. QED
      BY <2>10, <3>2, <3>3 DEF WalkUnit
  <2>11. CASE SubmitEdges(q)
    <3>1. UNCHANGED <<inbox, done, stage>> /\ inbox[q] = {} /\ pc' = [pc EXCEPT ![q] = "deposit"]
      BY <2>11 DEF SubmitEdges, Goto, pool, PhaseInv, InA, InSlices, InB, InMiddle, Relabelling, Waits,
                   At, AtRest, Claiming, Draining
    <3>2. ChainTypes'
      BY <2>1, <3>1 DEF ChainTypes, PCs
    <3>3. QED
      BY <2>1, <2>11, <3>1, <3>2, DrainStep DEF SubmitEdges, ChainTypes, At, Draining
  <2>12. CASE DepositB(q)
    BY <2>12, DepositStep
  <2>13. CASE MidRelabel(q)
    BY <2>13, MiddleStep
  <2>14. CASE RelabelChained(q)
    BY <2>14, RelabelStep
  <2>15. QED
    BY <1>2, <2>2, <2>3, <2>4, <2>5, <2>6, <2>7, <2>8, <2>9, <2>10, <2>11, <2>12, <2>13, <2>14 DEF Step
<1>3. QED
  BY <1>1, <1>2 DEF Next

\* The phases, the counters and the messages agree in every state: a counter of a
\* phase is the number of PEs at rest in it.
THEOREM CountersExact == Spec => []PhaseInv
BY PhaseInit, PhaseNext, PTL DEF Spec

\* A process whose phase 1 is a chain does the steps of the chain.
LEMMA ChainOfPhase1 == Phase1Spec => Spec
<1>1. Phase1Init => Init
  BY DEF Phase1Init
<1>2. [Phase1Next]_Phase1Vars => [Next]_vars
  BY DEF Phase1Next, OfChain, OfPiece, Phase1Vars, vars
<1>3. QED
  BY <1>1, <1>2, PTL DEF Phase1Spec, Spec

\* No tip is written while a PE walks a unit, whatever the other PEs do: those
\* that wrote tips in phase A or in the relabel between the stages have all made
\* their deposits, and the next to write needs the deposit of the one that walks.
THEOREM TipsFrozen == Phase1Spec => FrozenWhileRead
<1>1. PhaseInv /\ [Next]_vars => [(\E q \in PEs : pc[q] = "walk") => tip' = tip]_vars
  <2> SUFFICES ASSUME PhaseInv, Next, NEW w \in PEs, pc[w] = "walk" PROVE tip' = tip
    OBVIOUS
  <2>1. InB
    BY DEF PhaseInv, InA, InSlices, InMiddle, Relabelling, At, AtRest, Waits, Claiming
  <2>2. \A q \in PEs : ~ Freeze(q) /\ ~ MidRelabel(q) /\ ~ RelabelChained(q)
    <3>1. ASSUME NEW q \in PEs PROVE pc[q] # "freeze" /\ ~ Takes(q, "mid") /\ ~ Takes(q, "relabel")
      <4>1. CASE Waits(q, "phaseB")
        BY <4>1 DEF Waits, Takes
      <4>2. CASE At(q, Draining)
        BY <4>2 DEF At, Draining, Takes
      <4>3. CASE AtRest(q)
        BY <4>3 DEF AtRest, Takes
      <4>4. QED
        BY <2>1, <4>1, <4>2, <4>3 DEF InB
    <3>2. QED
      BY <3>1 DEF Freeze, MidRelabel, RelabelChained
  <2>3. QED
    BY <2>2 DEF Next, Step, labels, WalkRegistered, StartClaims, Claim, CrossPass, BuildPoolSlice,
                EnterPhaseB, ClaimUnit, WalkUnit, SubmitEdges, DepositB
<1>2. QED
  BY <1>1, ChainOfPhase1, CountersExact, PTL DEF Spec, FrozenWhileRead

-----------------------------------------------------------------------------
\* Who holds what.  On the static path the registry is what was registered.  With
\* claims, a piece of the pool has one holder once it is claimed, whoever it is; a
\* PE still at the start is not yet a holder, since it will empty its own set; and
\* a PE leaves the claims only when every piece is claimed.

PastStart(q) == pc[q] # "start"
PastClaims(q) == pc[q] \notin {"start", "claim"}

HolderTypes ==
  /\ stealA \in BOOLEAN
  /\ bucket \in [PEs -> Seq(Pieces)] /\ held \in [PEs -> Seq(Pieces)]
  /\ \A q \in PEs : IsInjective(bucket[q]) /\ IsInjective(held[q])
  /\ stealPool \subseteq Pieces /\ claimed \subseteq stealPool

KeptWhereRegistered ==
  /\ bucket = held
  /\ \A q \in PEs, p \in Pieces : p \in Range(held[q]) <=> Home[p] = q
  /\ \A q \in PEs : pc[q] # "claim"

OneHolder ==
  /\ stealPool \in {{}, Pieces}
  /\ \A q \in PEs, p \in Pieces : ~ PastStart(q) => (p \in Range(bucket[q]) <=> Home[p] = q)
  /\ \A q \in PEs : PastStart(q) => stealPool = Pieces /\ Range(held[q]) \subseteq claimed
  /\ \A q, r \in PEs : q # r /\ PastStart(q) /\ PastStart(r)
                         => Range(held[q]) \cap Range(held[r]) = {}
  /\ \A p \in claimed : \E q \in PEs : PastStart(q) /\ p \in Range(held[q])
  /\ \A q \in PEs : PastClaims(q) => claimed = Pieces /\ bucket[q] = held[q]

HolderInv == HolderTypes /\ (~ stealA => KeptWhereRegistered) /\ (stealA => OneHolder)

\* The list of a finite set has its elements.
LEMMA SetToSeqElements ==
  ASSUME NEW S, IsFiniteSet(S)
  PROVE  /\ SetToSeq(S) \in Seq(S) /\ Range(SetToSeq(S)) = S
         /\ IsInjective(SetToSeq(S))
<1> DEFINE n == Cardinality(S)
           Fits(g) == g \in [1 .. n -> S] /\ IsInjective(g)
<1>1. n \in Nat /\ \E g : Fits(g)
  BY FS_CardinalityType DEF ExistsBijection, Bijection, Injection
<1>2. SetToSeq(S) = CHOOSE g : Fits(g)
  BY DEF SetToSeq
<1>3. Fits(SetToSeq(S))
  BY <1>1, <1>2
<1>4. SetToSeq(S) \in Injection(1 .. n, S)
  BY <1>3 DEF Injection
<1>5. IsFiniteSet(1 .. n) /\ Cardinality(1 .. n) = n
  BY <1>1, FS_Interval
<1>6. SetToSeq(S) \in Surjection(1 .. n, S)
  BY <1>4, <1>5, FS_Injection
<1>7. SetToSeq(S) \in Seq(S)
  BY <1>1, <1>3
<1>8. Range(SetToSeq(S)) = S
  <2>1. DOMAIN SetToSeq(S) = 1 .. n /\ SetToSeq(S) \in [1 .. n -> S]
    BY <1>3
  <2>2. \A t \in S : \E i \in 1 .. n : SetToSeq(S)[i] = t
    BY <1>6 DEF Surjection
  <2>3. QED
    BY <2>1, <2>2 DEF Range
<1>9. QED
  BY <1>3, <1>7, <1>8

\* What is appended is added to the elements.
LEMMA AppendElements ==
  ASSUME NEW s \in Seq(Pieces), NEW p \in Pieces
  PROVE  /\ Append(s, p) \in Seq(Pieces) /\ Range(Append(s, p)) = Range(s) \cup {p}
         /\ IsInjective(s) /\ p \notin Range(s) => IsInjective(Append(s, p))
<1>1. Append(s, p) \in Seq(Pieces) /\ DOMAIN Append(s, p) = 1 .. Len(s) + 1
      /\ \A i \in 1 .. Len(s) + 1 : Append(s, p)[i] = IF i \in 1 .. Len(s) THEN s[i] ELSE p
  OBVIOUS
<1>2. Len(s) \in Nat /\ DOMAIN s = 1 .. Len(s)
  OBVIOUS
<1>3. ASSUME NEW x \in Range(Append(s, p)) PROVE x \in Range(s) \cup {p}
  BY <1>1, <1>2, <1>3 DEF Range
<1>4. ASSUME NEW x \in Range(s) \cup {p} PROVE x \in Range(Append(s, p))
  <2>1. CASE x = p
    <3>1. Len(s) + 1 \in DOMAIN Append(s, p) /\ Append(s, p)[Len(s) + 1] = p
      BY <1>1, <1>2
    <3>2. QED
      BY <2>1, <3>1 DEF Range
  <2>2. CASE x \in Range(s)
    <3>1. PICK i \in 1 .. Len(s) : s[i] = x
      BY <1>2, <2>2 DEF Range
    <3>2. i \in DOMAIN Append(s, p) /\ Append(s, p)[i] = x
      BY <1>1, <1>2, <3>1
    <3>3. QED
      BY <3>2 DEF Range
  <2>3. QED
    BY <1>4, <2>1, <2>2
<1>5. ASSUME IsInjective(s), p \notin Range(s) PROVE IsInjective(Append(s, p))
  BY <1>1, <1>2, <1>5 DEF IsInjective, Range
<1>6. QED
  BY <1>1, <1>3, <1>4, <1>5

LEMMA HolderInit == Init => HolderInv
<1> SUFFICES ASSUME Init PROVE HolderInv
  OBVIOUS
<1>1. ASSUME NEW q \in PEs
      PROVE  /\ bucket[q] \in Seq(Pieces) /\ Range(bucket[q]) = {p \in Pieces : Home[p] = q}
             /\ IsInjective(bucket[q])
  <2> DEFINE Here == {p \in Pieces : Home[p] = q}
  <2>1. IsFiniteSet(Here)
    BY PiecesAssumption, FS_Subset
  <2>2. SetToSeq(Here) \in Seq(Here) /\ Range(SetToSeq(Here)) = Here /\ IsInjective(SetToSeq(Here))
    BY <2>1, SetToSeqElements
  <2>3. bucket[q] = SetToSeq(Here)
    BY DEF Init
  <2>4. QED
    BY <2>2, <2>3
<1>2. bucket \in [PEs -> Seq(Pieces)] /\ held = bucket
  BY <1>1 DEF Init
<1>3. HolderTypes
  BY <1>1, <1>2 DEF Init, HolderTypes
<1>4. KeptWhereRegistered
  BY <1>1, <1>2 DEF KeptWhereRegistered, Init
<1>5. OneHolder
  BY <1>1 DEF OneHolder, PastStart, PastClaims, Init
<1>6. QED
  BY <1>3, <1>4, <1>5 DEF HolderInv

\* A step that leaves the registry alone, by PEs that are past the claims.
LEMMA RegistryKept ==
  ASSUME HolderInv, ChainTypes, UNCHANGED <<stealA, registry>>,
         \A r \in PEs : pc'[r] = pc[r] \/ (PastClaims(r) /\ PastClaims(r)')
  PROVE  HolderInv'
<1>1. UNCHANGED <<stealA, bucket, stealPool, claimed, held>>
  BY DEF registry
<1>2. \A r \in PEs : /\ PastStart(r)' = PastStart(r) /\ PastClaims(r)' = PastClaims(r)
                     /\ pc[r] # "claim" => pc'[r] # "claim"
  BY DEF PastStart, PastClaims
<1>3. HolderTypes'
  BY <1>1 DEF HolderInv, HolderTypes
<1>4. ~ stealA => KeptWhereRegistered'
  BY <1>1, <1>2 DEF HolderInv, KeptWhereRegistered
<1>5. stealA => OneHolder'
  BY <1>1, <1>2 DEF HolderInv, OneHolder
<1>6. QED
  BY <1>1, <1>3, <1>4, <1>5 DEF HolderInv

\* The first PE fills the pool with every piece; the PE empties its own set.
LEMMA StartKeepsHolders ==
  ASSUME HolderInv, ChainTypes, NEW q \in PEs, StartClaims(q)
  PROVE  HolderInv'
<1>1. OneHolder /\ stealA /\ HolderTypes
  BY DEF HolderInv, StartClaims
<1>2. stealA' = stealA /\ bucket' = bucket /\ claimed' = claimed
  BY DEF StartClaims, inputs
<1>3. \A r \in PEs : /\ pc'[r] = IF r = q THEN "claim" ELSE pc[r]
                     /\ held'[r] = IF r = q THEN <<>> ELSE held[r]
  BY <1>1 DEF StartClaims, Goto, ChainTypes, HolderTypes
<1>4. stealPool' = Pieces
  <2>1. CASE stealPool = {}
    <3>1. Registered \subseteq Pieces
      BY DEF Registered
    <3>2. ASSUME NEW p \in Pieces PROVE p \in Registered
      <4>1. Home[p] \in PEs
        BY HomeAssumption
      <4>2. ~ PastStart(Home[p])
        BY <1>1, <2>1, <4>1 DEF OneHolder
      <4>3. p \in Range(bucket[Home[p]])
        BY <1>1, <4>1, <4>2 DEF OneHolder
      <4>4. QED
        BY <4>1, <4>3 DEF Registered
    <3>3. QED
      BY <2>1, <3>1, <3>2 DEF StartClaims
  <2>2. CASE stealPool # {}
    BY <1>1, <2>2 DEF OneHolder, StartClaims
  <2>3. QED
    BY <2>1, <2>2
<1>5. Range(held'[q]) = {}
  BY <1>3 DEF Range
<1>6. HolderTypes'
  <2>1. held' \in [PEs -> Seq(Pieces)]
    BY <1>1 DEF StartClaims, HolderTypes
  <2>2. \A r \in PEs : IsInjective(held'[r])
    <3>1. IsInjective(<<>>)
      BY DOMAIN <<>> = {} DEF IsInjective
    <3>2. QED
      BY <1>1, <1>3, <3>1 DEF HolderTypes
  <2>3. QED
    BY <1>1, <1>2, <1>4, <2>1, <2>2 DEF HolderTypes
<1>7. OneHolder'
  <2>1. \A r \in PEs : /\ PastStart(r)' <=> (r = q \/ PastStart(r))
                       /\ PastClaims(r)' <=> PastClaims(r)
                       /\ ~ PastStart(q)
    BY <1>3 DEF PastStart, PastClaims, StartClaims
  <2>2. \A r \in PEs \ {q} : held'[r] = held[r]
    BY <1>3
  <2>3. \A r, s \in PEs : r # s /\ PastStart(r)' /\ PastStart(s)'
                            => Range(held'[r]) \cap Range(held'[s]) = {}
    BY <1>1, <1>5, <2>1, <2>2 DEF OneHolder
  <2>4. \A p \in claimed' : \E r \in PEs : PastStart(r)' /\ p \in Range(held'[r])
    BY <1>1, <1>2, <2>1, <2>2 DEF OneHolder
  <2>5. \A r \in PEs : PastStart(r)' => stealPool' = Pieces /\ Range(held'[r]) \subseteq claimed'
    BY <1>1, <1>2, <1>4, <1>5, <2>1, <2>2 DEF OneHolder
  <2>6. \A r \in PEs : PastClaims(r)' => claimed' = Pieces /\ bucket'[r] = held'[r]
    BY <1>1, <1>2, <1>3, <2>1, <2>2 DEF OneHolder, PastClaims
  <2>7. QED
    BY <1>1, <1>2, <1>4, <2>1, <2>3, <2>4, <2>5, <2>6 DEF OneHolder
<1>8. QED
  BY <1>1, <1>2, <1>6, <1>7 DEF HolderInv

\* A claim gives a piece that nobody holds to one PE.
LEMMA ClaimKeepsHolders ==
  ASSUME HolderInv, ChainTypes, NEW q \in PEs, Claim(q)
  PROVE  HolderInv'
<1>1. stealA /\ OneHolder /\ HolderTypes
  BY DEF HolderInv, KeptWhereRegistered, Claim, HolderTypes
<1>2. PICK p \in Unclaimed : claimed' = claimed \cup {p} /\ held' = [held EXCEPT ![q] = Append(@, p)]
  BY DEF Claim
<1>3. stealA' = stealA /\ bucket' = bucket /\ stealPool' = stealPool /\ pc' = pc
  BY DEF Claim, inputs
<1>4. PastStart(q) /\ ~ PastClaims(q) /\ stealPool = Pieces /\ p \in Pieces \ claimed
  BY <1>1, <1>2 DEF Claim, PastStart, PastClaims, OneHolder, Unclaimed
<1>5. /\ held'[q] \in Seq(Pieces) /\ Range(held'[q]) = Range(held[q]) \cup {p}
      /\ IsInjective(held[q]) /\ p \notin Range(held[q]) => IsInjective(held'[q])
      /\ \A r \in PEs \ {q} : held'[r] = held[r]
  BY <1>1, <1>2, <1>4, AppendElements DEF HolderTypes
<1>6. HolderTypes'
  <2>1. held' \in [PEs -> Seq(Pieces)]
    BY <1>1, <1>2, <1>5 DEF HolderTypes
  <2>2. p \notin Range(held[q])
    BY <1>1, <1>4 DEF OneHolder
  <2>3. \A r \in PEs : IsInjective(held'[r])
    BY <1>1, <1>5, <2>2 DEF HolderTypes
  <2>4. QED
    BY <1>1, <1>2, <1>3, <1>4, <2>1, <2>3 DEF HolderTypes
<1>7. \A r \in PEs : PastStart(r) => p \notin Range(held[r])
  BY <1>1, <1>4 DEF OneHolder
<1>8. \A r \in PEs : (PastStart(r)' <=> PastStart(r)) /\ (PastClaims(r)' <=> PastClaims(r))
  BY <1>3 DEF PastStart, PastClaims
<1>9. OneHolder'
  <2>1. \A r, s \in PEs : r # s /\ PastStart(r)' /\ PastStart(s)'
                            => Range(held'[r]) \cap Range(held'[s]) = {}
    <3>1. ASSUME NEW r \in PEs, NEW s \in PEs, r # s, PastStart(r), PastStart(s)
          PROVE  Range(held'[r]) \cap Range(held'[s]) = {}
      <4>1. Range(held[r]) \cap Range(held[s]) = {}
        BY <1>1, <3>1 DEF OneHolder
      <4>2. p \notin Range(held[r]) /\ p \notin Range(held[s])
        BY <1>7, <3>1
      <4>3. QED
        BY <1>5, <3>1, <4>1, <4>2
    <3>2. QED
      BY <1>8, <3>1
  <2>2. \A x \in claimed' : \E r \in PEs : PastStart(r)' /\ x \in Range(held'[r])
    BY <1>1, <1>2, <1>4, <1>5, <1>8 DEF OneHolder
  <2>3. \A r \in PEs : PastStart(r)' => stealPool' = Pieces /\ Range(held'[r]) \subseteq claimed'
    BY <1>1, <1>2, <1>3, <1>4, <1>5, <1>8 DEF OneHolder
  <2>4. \A r \in PEs : PastClaims(r)' => claimed' = Pieces /\ bucket'[r] = held'[r]
    BY <1>1, <1>2, <1>3, <1>4, <1>5, <1>8 DEF OneHolder
  <2>5. QED
    BY <1>1, <1>3, <1>8, <2>1, <2>2, <2>3, <2>4 DEF OneHolder
<1>10. QED
  BY <1>1, <1>3, <1>6, <1>9 DEF HolderInv

\* A PE that finds nothing to claim writes what it holds into the registry.
LEMMA CrossKeepsHolders ==
  ASSUME HolderInv, ChainTypes, NEW q \in PEs, CrossPass(q)
  PROVE  HolderInv'
<1>1. stealA /\ OneHolder /\ HolderTypes
  BY DEF HolderInv, KeptWhereRegistered, CrossPass, HolderTypes
<1>2. UNCHANGED <<stealA, stealPool, claimed, held>>
  BY DEF CrossPass, inputs
<1>3. \A r \in PEs : /\ pc'[r] = IF r = q THEN "freeze" ELSE pc[r]
                     /\ bucket'[r] = IF r = q THEN held[q] ELSE bucket[r]
  BY <1>1 DEF CrossPass, Rekeyed, Goto, ChainTypes, HolderTypes
<1>4. claimed = Pieces /\ pc[q] = "claim"
  BY <1>1 DEF CrossPass, Unclaimed, OneHolder, PastStart, HolderTypes
<1>5. HolderTypes'
  <2>1. bucket' \in [PEs -> Seq(Pieces)]
    BY <1>1 DEF CrossPass, Rekeyed, HolderTypes
  <2>2. \A r \in PEs : IsInjective(bucket'[r])
    BY <1>1, <1>3 DEF HolderTypes
  <2>3. QED
    BY <1>1, <1>2, <2>1, <2>2 DEF HolderTypes
<1>6. \A r \in PEs : (PastStart(r)' <=> PastStart(r)) /\ (PastClaims(r)' <=> (r = q \/ PastClaims(r)))
  BY <1>3, <1>4 DEF PastStart, PastClaims
<1>7. OneHolder'
  <2>1. \A r \in PEs : PastClaims(r)' => claimed' = Pieces /\ bucket'[r] = held'[r]
    BY <1>1, <1>2, <1>3, <1>4, <1>6 DEF OneHolder
  <2>2. \A r \in PEs, p \in Pieces : ~ PastStart(r)' => (p \in Range(bucket'[r]) <=> Home[p] = r)
    BY <1>1, <1>3, <1>4, <1>6 DEF OneHolder, PastStart
  <2>3. QED
    BY <1>1, <1>2, <1>6, <2>1, <2>2 DEF OneHolder
<1>8. QED
  BY <1>1, <1>2, <1>5, <1>7 DEF HolderInv

LEMMA HolderNext == HolderInv /\ PhaseInv /\ [Next]_vars => HolderInv'
<1> SUFFICES ASSUME HolderInv, PhaseInv, [Next]_vars PROVE HolderInv'
  OBVIOUS
<1>1. ChainTypes
  BY DEF PhaseInv
<1>2. CASE UNCHANGED vars
  BY <1>1, <1>2, RegistryKept DEF vars, registry
<1>3. ASSUME NEW q \in PEs, Step(q) PROVE HolderInv'
  <2>1. CASE WalkRegistered(q)
    <3>1. ~ stealA /\ UNCHANGED <<stealA, bucket, stealPool, claimed, held>>
      BY <2>1 DEF WalkRegistered, inputs, registry
    <3>2. \A r \in PEs : pc[r] # "claim" => pc'[r] # "claim"
      BY <1>1, <2>1 DEF WalkRegistered, Goto, ChainTypes
    <3>3. QED
      BY <3>1, <3>2 DEF HolderInv, HolderTypes, KeptWhereRegistered
  <2>2. CASE StartClaims(q)
    BY <1>1, <2>2, StartKeepsHolders
  <2>3. CASE Claim(q)
    BY <1>1, <2>3, ClaimKeepsHolders
  <2>4. CASE CrossPass(q)
    BY <1>1, <2>4, CrossKeepsHolders
  <2>5. CASE Freeze(q)
    <3>1. UNCHANGED <<stealA, registry>>
      BY <2>5 DEF Freeze, inputs
    <3>2. \A r \in PEs : pc'[r] = pc[r] \/ (PastClaims(r) /\ PastClaims(r)')
      BY <1>1, <2>5 DEF Freeze, Goto, ChainTypes, PastClaims
    <3>3. QED
      BY <1>1, <3>1, <3>2, RegistryKept
  <2>6. CASE BuildPoolSlice(q)
    BY <1>1, <2>6, RegistryKept DEF BuildPoolSlice, inputs
  <2>7. CASE EnterPhaseB(q)
    <3>1. UNCHANGED <<stealA, registry>>
      BY <2>7 DEF EnterPhaseB, inputs
    <3>2. \A r \in PEs : pc'[r] = pc[r] \/ (PastClaims(r) /\ PastClaims(r)')
      BY <1>1, <2>7 DEF EnterPhaseB, Takes, Goto, ChainTypes, PastClaims
    <3>3. QED
      BY <1>1, <3>1, <3>2, RegistryKept
  <2>8. CASE ClaimUnit(q)
    <3>1. UNCHANGED <<stealA, registry>>
      BY <2>8 DEF ClaimUnit, inputs
    <3>2. \A r \in PEs : pc'[r] = pc[r] \/ (PastClaims(r) /\ PastClaims(r)')
      <4>1. PICK s \in {"walk", "submit"} : pc' = [pc EXCEPT ![q] = s]
        BY <2>8 DEF ClaimUnit, TakeFrom, Goto
      <4>2. QED
        BY <1>1, <2>8, <4>1 DEF ClaimUnit, ChainTypes, PastClaims
    <3>3. QED
      BY <1>1, <3>1, <3>2, RegistryKept
  <2>9. CASE WalkUnit(q)
    <3>1. UNCHANGED <<stealA, registry>>
      BY <2>9 DEF WalkUnit, inputs
    <3>2. \A r \in PEs : pc'[r] = pc[r] \/ (PastClaims(r) /\ PastClaims(r)')
      BY <1>1, <2>9 DEF WalkUnit, Goto, ChainTypes, PastClaims
    <3>3. QED
      BY <1>1, <3>1, <3>2, RegistryKept
  <2>10. CASE SubmitEdges(q)
    <3>1. UNCHANGED <<stealA, registry>>
      BY <2>10 DEF SubmitEdges, inputs
    <3>2. \A r \in PEs : pc'[r] = pc[r] \/ (PastClaims(r) /\ PastClaims(r)')
      BY <1>1, <2>10 DEF SubmitEdges, Goto, ChainTypes, PastClaims
    <3>3. QED
      BY <1>1, <3>1, <3>2, RegistryKept
  <2>11. CASE DepositB(q)
    <3>1. UNCHANGED <<stealA, registry>>
      BY <2>11 DEF DepositB, inputs
    <3>2. \A r \in PEs : pc'[r] = pc[r] \/ (PastClaims(r) /\ PastClaims(r)')
      BY <1>1, <2>11 DEF DepositB, Goto, ChainTypes, PastClaims
    <3>3. QED
      BY <1>1, <3>1, <3>2, RegistryKept
  <2>12. CASE MidRelabel(q)
    BY <1>1, <2>12, RegistryKept DEF MidRelabel, inputs
  <2>13. CASE RelabelChained(q)
    <3>1. UNCHANGED <<stealA, registry>>
      BY <2>13 DEF RelabelChained, inputs
    <3>2. \A r \in PEs : pc'[r] = pc[r] \/ (PastClaims(r) /\ PastClaims(r)')
      BY <1>1, <2>13 DEF RelabelChained, Takes, Goto, ChainTypes, PastClaims
    <3>3. QED
      BY <1>1, <3>1, <3>2, RegistryKept
  <2>14. QED
    BY <1>3, <2>1, <2>2, <2>3, <2>4, <2>5, <2>6, <2>7, <2>8, <2>9, <2>10, <2>11, <2>12, <2>13 DEF Step
<1>4. QED
  BY <1>2, <1>3 DEF Next

\* Every piece has one holder, and the registry names it.
Settled ==
  /\ HolderTypes
  /\ \A q \in PEs : bucket[q] = held[q]
  /\ \A p \in Pieces : \E h \in PEs : \A q \in PEs : p \in Range(held[q]) <=> q = h

LEMMA SettledPastA ==
  ASSUME PhaseInv, HolderInv, ~ InA
  PROVE  Settled
<1>1. \A q \in PEs : PastStart(q) /\ PastClaims(q)
  BY DEF PhaseInv, InSlices, InB, InMiddle, Relabelling, Waits, At, AtRest, Draining,
              PastStart, PastClaims
<1>2. HolderTypes /\ \A q \in PEs : bucket[q] = held[q]
  BY <1>1 DEF HolderInv, HolderTypes, KeptWhereRegistered, OneHolder
<1>3. ASSUME NEW p \in Pieces
      PROVE  \E h \in PEs : \A q \in PEs : p \in Range(held[q]) <=> q = h
  <2>1. CASE stealA
    <3>1. p \in claimed
      BY <1>1, <2>1, PEsAssumption DEF HolderInv, OneHolder
    <3>2. PICK h \in PEs : p \in Range(held[h])
      BY <2>1, <3>1 DEF HolderInv, OneHolder
    <3>3. \A q \in PEs \ {h} : p \notin Range(held[q])
      BY <1>1, <2>1, <3>2 DEF HolderInv, OneHolder
    <3>4. QED
      BY <3>2, <3>3
  <2>2. CASE ~ stealA
    BY <2>2, HomeAssumption DEF HolderInv, KeptWhereRegistered
  <2>3. QED
    BY <2>1, <2>2
<1>4. QED
  BY <1>2, <1>3 DEF Settled

LEMMA SettledBySlices ==
  ASSUME PhaseInv, HolderInv, done["slice"] = NPEs
  PROVE  Settled
<1>1. ~ InA
  BY RestedType DEF InA, Counts
<1>2. QED
  BY <1>1, SettledPastA

\* The invariant of who holds what.
THEOREM Holders == Spec => [](PhaseInv /\ HolderInv)
BY PhaseInit, PhaseNext, HolderInit, HolderNext, PTL DEF Spec

-----------------------------------------------------------------------------
\* The pool.  A pool lists a set of shared units when each of them is at one place
\* of it.

Lists(us, list, S) ==
  /\ us \in Seq(Near) /\ list \in Seq(S) /\ Len(us) = Len(list)
  /\ Range(list) = S /\ IsInjective(list)
  /\ \A k \in 1 .. Len(us) : us[k] = PairOf(list[k])

\* The units of all slices.
Shared == Gathered([r \in PEs |-> Stripe(r)])

\* A function with a finite domain has finitely many values.
LEMMA ValuesFinite ==
  ASSUME NEW S, IsFiniteSet(S), NEW f, f = [x \in S |-> f[x]]
  PROVE  IsFiniteSet({f[x] : x \in S})
<1>1. f \in Surjection(S, {f[x] : x \in S})
  BY DEF Surjection
<1>2. QED
  BY <1>1, FS_Surjection

LEMMA PlacesFinite == HolderTypes => IsFiniteSet(Places)
<1> SUFFICES ASSUME HolderTypes PROVE IsFiniteSet(Places)
  OBVIOUS
<1> DEFINE Pairs == {x \in PEs \X PEs : Together(x[1], x[2])}
           Block(ab) == {<<ab[1], ab[2], i, j>> : i \in DOMAIN bucket[ab[1]], j \in DOMAIN bucket[ab[2]]}
           f == [ab \in Pairs |-> Block(ab)]
<1>1. IsFiniteSet(Pairs)
  BY PEsAssumption, FS_Product, FS_Subset
<1>2. ASSUME NEW ab \in Pairs PROVE IsFiniteSet(Block(ab))
  <2> DEFINE D == (DOMAIN bucket[ab[1]]) \X (DOMAIN bucket[ab[2]])
             g == [x \in D |-> <<ab[1], ab[2], x[1], x[2]>>]
  <2>1. bucket[ab[1]] \in Seq(Pieces) /\ bucket[ab[2]] \in Seq(Pieces)
    BY DEF HolderTypes
  <2>2. DOMAIN bucket[ab[1]] = 1 .. Len(bucket[ab[1]]) /\ DOMAIN bucket[ab[2]] = 1 .. Len(bucket[ab[2]])
        /\ Len(bucket[ab[1]]) \in Nat /\ Len(bucket[ab[2]]) \in Nat
    BY <2>1, LenProperties
  <2>3. IsFiniteSet(D)
    <3>1. IsFiniteSet(DOMAIN bucket[ab[1]]) /\ IsFiniteSet(DOMAIN bucket[ab[2]])
      <4>1. \A n \in Nat : IsFiniteSet(1 .. n)
        BY FS_Interval
      <4>2. QED
        BY <2>2, <4>1
    <3>2. QED
      BY <3>1, FS_Product
  <2>4. IsFiniteSet({g[x] : x \in D})
    <3>1. g = [x \in D |-> g[x]]
      OBVIOUS
    <3> HIDE DEF g, D
    <3>2. QED
      BY <2>3, <3>1, ValuesFinite
  <2>5. Block(ab) \subseteq {g[x] : x \in D}
    <3>1. ASSUME NEW z \in Block(ab) PROVE z \in {g[x] : x \in D}
      <4>1. PICK i \in DOMAIN bucket[ab[1]], j \in DOMAIN bucket[ab[2]] : z = <<ab[1], ab[2], i, j>>
        BY <3>1
      <4>2. <<i, j>> \in D /\ g[<<i, j>>] = z
        BY <4>1
      <4>3. QED
        BY <4>2
    <3> HIDE DEF Block, g, D
    <3>2. QED
      BY <3>1
  <2>6. QED
    <3> HIDE DEF Block, g, D
    <3>1. QED
      BY <2>4, <2>5, FS_Subset
<1>3. IsFiniteSet({f[ab] : ab \in Pairs})
  <2>1. f = [ab \in Pairs |-> f[ab]]
    OBVIOUS
  <2> HIDE DEF f, Pairs
  <2>2. QED
    BY <1>1, <2>1, ValuesFinite
<1>4. {f[ab] : ab \in Pairs} = {Block(ab) : ab \in Pairs}
  OBVIOUS
<1>5. \A T \in {Block(ab) : ab \in Pairs} : IsFiniteSet(T)
  BY <1>2
<1>6. Places = UNION {Block(ab) : ab \in Pairs}
  BY DEF Places
<1> HIDE DEF Block, f
<1>7. QED
  BY <1>3, <1>4, <1>5, <1>6, FS_UNION

LEMMA StripeFinite ==
  ASSUME HolderTypes, NEW rank
  PROVE  IsFiniteSet(Stripe(rank)) /\ \A u \in Stripe(rank) : u[2] \in Near
<1> DEFINE T == {y \in Places : InStripe(Index(y), rank) /\ PairAt(y) \in Near}
           f == [x \in T |-> <<Index(x), PairAt(x)>>]
<1>1. IsFiniteSet(T)
  BY PlacesFinite, FS_Subset
<1>2. IsFiniteSet({f[x] : x \in T})
  BY <1>1, ValuesFinite
<1>3. {f[x] : x \in T} = Stripe(rank)
  BY DEF Stripe
<1>4. QED
  BY <1>2, <1>3

LEMMA GatheredFinite ==
  ASSUME NEW share, \A r \in PEs : IsFiniteSet(share[r])
  PROVE  IsFiniteSet(Gathered(share))
<1> DEFINE Block(r) == {<<r, u>> : u \in share[r]}
           f == [r \in PEs |-> Block(r)]
<1>1. ASSUME NEW r \in PEs PROVE IsFiniteSet(Block(r))
  <2> DEFINE g == [u \in share[r] |-> <<r, u>>]
  <2>1. IsFiniteSet({g[u] : u \in share[r]})
    BY ValuesFinite
  <2>2. QED
    BY <2>1
<1>2. IsFiniteSet({f[r] : r \in PEs})
  <2>1. f = [r \in PEs |-> f[r]]
    OBVIOUS
  <2> HIDE DEF f
  <2>2. QED
    <3>1. IsFiniteSet(PEs)
      BY PEsAssumption
    <3>2. QED
      BY <2>1, <3>1, ValuesFinite
<1>3. {f[r] : r \in PEs} = {Block(r) : r \in PEs}
  OBVIOUS
<1>4. Gathered(share) = UNION {Block(r) : r \in PEs}
  BY DEF Gathered
<1>5. \A T \in {Block(r) : r \in PEs} : IsFiniteSet(T)
  BY <1>1
<1> HIDE DEF Block, f
<1>6. QED
  BY <1>2, <1>3, <1>4, <1>5, FS_UNION

\* What PairsIn returns.
LEMMA PairsListed ==
  ASSUME NEW S, IsFiniteSet(S), \A v \in S : PairOf(v) \in Near
  PROVE  Lists(PairsIn(S), SetToSeq(S), S)
<1> DEFINE s == SetToSeq(S)
<1>1. s \in Seq(S) /\ Range(s) = S /\ IsInjective(s)
  BY SetToSeqElements
<1>2. Len(s) \in Nat /\ \A k \in 1 .. Len(s) : s[k] \in S
  BY <1>1, LenProperties, ElementOfSeq
<1>3. PairsIn(S) = [k \in 1 .. Len(s) |-> PairOf(s[k])]
  BY DEF PairsIn
<1> HIDE DEF s
<1>4. PairsIn(S) \in Seq(Near) /\ Len(PairsIn(S)) = Len(s)
  BY <1>2, <1>3, IsASeq
<1>5. QED
  BY <1>1, <1>2, <1>3, <1>4 DEF Lists, s

\* The list of two parts.
LEMMA ListsConcat ==
  ASSUME NEW u1, NEW l1, NEW S1, Lists(u1, l1, S1),
         NEW u2, NEW l2, NEW S2, Lists(u2, l2, S2), S1 \cap S2 = {}
  PROVE  Lists(u1 \o u2, l1 \o l2, S1 \cup S2)
<1> DEFINE S == S1 \cup S2
           l == l1 \o l2
           n1 == Len(l1)
           n2 == Len(l2)
<1>1. /\ l1 \in Seq(S1) /\ l2 \in Seq(S2) /\ u1 \in Seq(Near) /\ u2 \in Seq(Near)
      /\ Len(u1) = n1 /\ Len(u2) = n2 /\ n1 \in Nat /\ n2 \in Nat
      /\ IsInjective(l1) /\ IsInjective(l2) /\ Range(l1) = S1 /\ Range(l2) = S2
  BY LenProperties DEF Lists
<1>2. l1 \in Seq(S) /\ l2 \in Seq(S)
  BY <1>1, SeqMonotonic
<1>3. /\ l \in Seq(S) /\ Len(l) = n1 + n2
      /\ \A k \in 1 .. (n1 + n2) : l[k] = IF k <= n1 THEN l1[k] ELSE l2[k - n1]
  BY <1>2, ConcatProperties
<1>4. /\ u1 \o u2 \in Seq(Near) /\ Len(u1 \o u2) = n1 + n2
      /\ \A k \in 1 .. (n1 + n2) : (u1 \o u2)[k] = IF k <= n1 THEN u1[k] ELSE u2[k - n1]
  <2>1. /\ u1 \o u2 \in Seq(Near) /\ Len(u1 \o u2) = Len(u1) + Len(u2)
        /\ \A k \in 1 .. (Len(u1) + Len(u2)) :
              (u1 \o u2)[k] = IF k <= Len(u1) THEN u1[k] ELSE u2[k - Len(u1)]
    <3>1. u1 \in Seq(Near) /\ u2 \in Seq(Near)
      BY <1>1
    <3>2. QED
      BY <3>1, ConcatProperties
  <2>2. QED
    BY <1>1, <2>1
<1>5. \A k \in 1 .. (n1 + n2) :
         IF k <= n1 THEN k \in 1 .. n1 ELSE k - n1 \in 1 .. n2
  BY <1>1
<1>6. DOMAIN l1 = 1 .. n1 /\ DOMAIN l2 = 1 .. n2 /\ DOMAIN l = 1 .. (n1 + n2)
  BY <1>1, <1>3, LenProperties
<1>7. /\ \A k \in 1 .. n1 : l1[k] \in S1 /\ k \in 1 .. (n1 + n2) /\ k <= n1
      /\ \A k \in 1 .. n2 : l2[k] \in S2 /\ k + n1 \in 1 .. (n1 + n2) /\ ~ (k + n1 <= n1) /\ k + n1 - n1 = k
  BY <1>1, ElementOfSeq
<1> HIDE DEF l, n1, n2
<1>8. Range(l) = S
  <2>1. ASSUME NEW k \in 1 .. (n1 + n2) PROVE l[k] \in S
    BY <1>3, <1>5, <1>7
  <2>2. ASSUME NEW v \in S1 PROVE \E k \in 1 .. (n1 + n2) : l[k] = v
    <3>1. PICK k \in 1 .. n1 : l1[k] = v
      BY <1>1, <1>6 DEF Range
    <3>2. l[k] = v /\ k \in 1 .. (n1 + n2)
      BY <1>3, <1>7, <3>1
    <3>3. QED
      BY <3>2
  <2>3. ASSUME NEW v \in S2 PROVE \E k \in 1 .. (n1 + n2) : l[k] = v
    <3>1. PICK k \in 1 .. n2 : l2[k] = v
      BY <1>1, <1>6 DEF Range
    <3>2. PICK m \in 1 .. (n1 + n2) : m = k + n1
      BY <1>7
    <3>3. ~ (m <= n1) /\ m - n1 = k
      BY <1>1, <1>7, <3>2
    <3>4. l[m] = IF m <= n1 THEN l1[m] ELSE l2[m - n1]
      BY <1>3
    <3>5. l[m] = v
      BY <3>1, <3>3, <3>4
    <3>6. QED
      BY <3>5
  <2>4. QED
    BY <1>6, <2>1, <2>2, <2>3 DEF Range
<1>9. IsInjective(l)
  <2> SUFFICES ASSUME NEW j \in 1 .. (n1 + n2), NEW k \in 1 .. (n1 + n2), l[j] = l[k] PROVE j = k
    BY <1>6 DEF IsInjective
  <2>1. CASE j <= n1 /\ k <= n1
    BY <1>1, <1>3, <1>5, <1>6, <2>1 DEF IsInjective
  <2>2. CASE ~ (j <= n1) /\ ~ (k <= n1)
    <3>1. j - n1 \in DOMAIN l2 /\ k - n1 \in DOMAIN l2 /\ l2[j - n1] = l2[k - n1]
      BY <1>3, <1>5, <1>6, <2>2
    <3>2. j - n1 = k - n1
      BY <1>1, <3>1 DEF IsInjective
    <3>3. QED
      BY <1>1, <3>2
  <2>3. CASE j <= n1 /\ ~ (k <= n1)
    BY <1>3, <1>5, <1>7, <2>3
  <2>4. CASE ~ (j <= n1) /\ k <= n1
    BY <1>3, <1>5, <1>7, <2>4
  <2>5. QED
    BY <2>1, <2>2, <2>3, <2>4
<1>10. \A k \in 1 .. (n1 + n2) : (u1 \o u2)[k] = PairOf(l[k])
  <2> SUFFICES ASSUME NEW k \in 1 .. (n1 + n2) PROVE (u1 \o u2)[k] = PairOf(l[k])
    OBVIOUS
  <2>1. CASE k <= n1
    BY <1>1, <1>3, <1>4, <1>5, <2>1 DEF Lists
  <2>2. CASE ~ (k <= n1)
    BY <1>1, <1>3, <1>4, <1>5, <2>2 DEF Lists
  <2>3. QED
    BY <2>1, <2>2
<1>11. QED
  BY <1>3, <1>4, <1>8, <1>9, <1>10 DEF Lists, l

\* What a PE does tells the phase of the process.
LEMMA PhaseOf ==
  ASSUME PhaseInv, NEW q \in PEs
  PROVE  /\ pc[q] \in Claiming => InA
         /\ Takes(q, "slice") => InSlices
         /\ Takes(q, "phaseB") \/ pc[q] \in Draining => InB
         /\ Takes(q, "mid") => InMiddle
         /\ Takes(q, "relabel") => Relabelling
BY DEF PhaseInv, InA, InSlices, InB, InMiddle, Relabelling, At, AtRest, Waits, Takes, Claiming, Draining

\* A counter at zero means that nobody is at rest.
LEMMA NoneRests ==
  ASSUME Rested = 0 PROVE \A q \in PEs : ~ AtRest(q)
<1>1. Resting = {}
  BY RestedType, FS_EmptySet DEF Rested
<1>2. QED
  BY <1>1 DEF Resting

LEMMA NoneRestsNext == (Rested = 0 => \A q \in PEs : ~ AtRest(q))'
<1>1. Rested = 0 => \A q \in PEs : ~ AtRest(q)
  BY NoneRests
<1>2. QED
  BY <1>1, PTL

PoolInv ==
  /\ slices = [q \in PEs |-> slices[q]]
  /\ \A q \in PEs : IsFiniteSet(slices[q]) /\ \A u \in slices[q] : u[2] \in Near
  /\ units \in Seq(Near) /\ b2Begin \in 0 .. Len(units)
  /\ InSlices => \A q \in PEs : AtRest(q) => slices[q] = Stripe(q)
  /\ done["slice"] = NPEs => \E list : Lists(units, list, Shared)

\* The list of pairs depends on the registry and the sets alone.
LEMMA SharesKept ==
  ASSUME UNCHANGED <<bucket, peSet>>
  PROVE  (\A r \in PEs : Stripe(r)' = Stripe(r)) /\ Shared' = Shared
<1>1. Places' = Places
  BY DEF Places, Together
<1>2. \A x : PairAt(x)' = PairAt(x) /\ Index(x)' = Index(x)
  BY <1>1 DEF PairAt, Index, Before
<1>3. \A r : Stripe(r)' = Stripe(r)
  BY <1>1, <1>2 DEF Stripe
<1>4. QED
  BY <1>3 DEF Shared, Gathered

LEMMA PoolInit == Init => PoolInv
<1> SUFFICES ASSUME Init PROVE PoolInv
  OBVIOUS
<1>1. done["slice"] # NPEs /\ done["a"] # NPEs
  BY RestedType DEF Init, Deposits
<1>2. IsFiniteSet({})
  BY FS_EmptySet
<1>3. slices = [q \in PEs |-> slices[q]] /\ \A q \in PEs : slices[q] = {}
  BY DEF Init
<1>4. units \in Seq(Near) /\ b2Begin \in 0 .. Len(units)
  BY DEF Init
<1>5. QED
  BY <1>1, <1>2, <1>3, <1>4 DEF PoolInv, InSlices, Counts

\* The steps of phase A, before any slice.
LEMMA PoolBefore ==
  ASSUME PoolInv, InA, UNCHANGED <<slices, units, b2Begin>>, done'["slice"] = done["slice"]
  PROVE  PoolInv'
<1>1. done["slice"] = 0 /\ done'["slice"] # NPEs
  BY RestedType DEF InA, Counts
<1>2. ASSUME InSlices', NEW q \in PEs PROVE ~ AtRest(q)'
  <2>1. Rested' = 0
    BY <1>1, <1>2 DEF InSlices, Counts
  <2>2. QED
    BY <2>1, NoneRestsNext
<1>3. QED
  BY <1>1, <1>2 DEF PoolInv

\* The steps after the pool has been built.
LEMMA PoolAfter ==
  ASSUME PoolInv, done["slice"] = NPEs,
         UNCHANGED <<bucket, peSet, slices, units, b2Begin>>, done'["slice"] = done["slice"]
  PROVE  PoolInv'
<1>1. ~ InSlices'
  <2>1. SUFFICES ASSUME InSlices' PROVE FALSE
    OBVIOUS
  <2>2. Rested' < NPEs /\ done'["slice"] = Rested'
    BY <2>1 DEF InSlices, Counts
  <2>3. QED
    BY <2>2, RestedType
<1>2. Shared' = Shared
  BY SharesKept
<1>3. QED
  BY <1>1, <1>2 DEF PoolInv, Lists

\* A slice: the PE's share is in its slice, or, when it is the last, the pool
\* lists all shares.
LEMMA PoolSlice ==
  ASSUME PoolInv, PhaseInv, HolderInv, NEW q \in PEs, BuildPoolSlice(q)
  PROVE  PoolInv'
<1>1. InSlices /\ ChainTypes /\ HolderTypes
  BY PhaseOf DEF BuildPoolSlice, PhaseInv, HolderInv
<1>2. inbox[q] = {"slice"} /\ pc' = pc /\ ~ AtRest(q) /\ UNCHANGED <<bucket, peSet>>
  BY <1>1 DEF InSlices, Waits, AtRest, BuildPoolSlice, Takes, inputs, registry
<1>3. done["slice"] = Rested /\ Rested < NPEs /\ done'["slice"] = Rested + 1
  BY <1>1 DEF InSlices, Counts, BuildPoolSlice, Deposit, ChainTypes, Deposits
<1>4. (\A r \in PEs : Stripe(r)' = Stripe(r)) /\ Shared' = Shared
  BY <1>2, SharesKept
<1>5. \A r \in PEs : IsFiniteSet(Stripe(r)) /\ \A u \in Stripe(r) : u[2] \in Near
  BY <1>1, StripeFinite
<1>6. CASE Rested + 1 # NPEs
  <2>1. slices' = [slices EXCEPT ![q] = Stripe(q)] /\ units' = units /\ b2Begin' = b2Begin
    BY <1>3, <1>6 DEF BuildPoolSlice, LastDeposit
  <2>2. slices' = [r \in PEs |-> slices'[r]]
        /\ \A r \in PEs : slices'[r] = IF r = q THEN Stripe(q) ELSE slices[r]
    BY <2>1 DEF PoolInv
  <2>3. ASSUME NEW r \in PEs, AtRest(r)' PROVE slices'[r] = Stripe(r)'
    <3>1. CASE r = q
      BY <1>4, <2>2, <3>1
    <3>2. CASE r # q
      <4>1. inbox'[r] = inbox[r]
        BY <1>3, <1>6, <3>2 DEF BuildPoolSlice, Reply, LastDeposit
      <4>2. AtRest(r)
        BY <1>2, <2>3, <4>1 DEF AtRest
      <4>3. QED
        BY <1>1, <1>4, <2>2, <3>2, <4>2 DEF PoolInv
    <3>3. QED
      BY <3>1, <3>2
  <2>4. done'["slice"] # NPEs
    BY <1>3, <1>6
  <2>5. \A r \in PEs : IsFiniteSet(slices'[r]) /\ \A u \in slices'[r] : u[2] \in Near
    BY <1>5, <2>2 DEF PoolInv
  <2>6. QED
    BY <2>1, <2>2, <2>3, <2>4, <2>5 DEF PoolInv
<1>7. CASE Rested + 1 = NPEs
  <2>1. LastDeposit("slice")
    BY <1>3, <1>7 DEF LastDeposit
  <2>2. [slices EXCEPT ![q] = Stripe(q)] = [r \in PEs |-> Stripe(r)]
    <3>1. \A r \in PEs \ {q} : slices[r] = Stripe(r)
      BY <1>1, <1>2, <1>7, OnlyLast DEF PoolInv
    <3>2. QED
      BY <3>1 DEF PoolInv
  <2>3. Assemble(Shared) /\ slices' = [r \in PEs |-> {}]
    BY <2>1, <2>2 DEF BuildPoolSlice, Shared
  <2>4. PICK inside : /\ units' = PairsIn({v \in Shared : PairOf(v) \in inside})
                                    \o PairsIn({v \in Shared : PairOf(v) \notin inside})
                      /\ b2Begin' \in {0, Len(PairsIn({v \in Shared : PairOf(v) \in inside}))}
    BY <2>3 DEF Assemble
  <2> DEFINE S1 == {v \in Shared : PairOf(v) \in inside}
             S2 == {v \in Shared : PairOf(v) \notin inside}
  <2>5. IsFiniteSet(Shared) /\ \A v \in Shared : PairOf(v) \in Near
    <3>1. IsFiniteSet(Shared)
      BY <1>5, GatheredFinite DEF Shared
    <3>2. \A v \in Shared : PairOf(v) \in Near
      BY <1>5 DEF Shared, Gathered, PairOf
    <3>3. QED
      BY <3>1, <3>2
  <2>6. IsFiniteSet(S1) /\ IsFiniteSet(S2) /\ S1 \cap S2 = {} /\ S1 \cup S2 = Shared
    BY <2>5, FS_Subset
  <2>7. Lists(PairsIn(S1), SetToSeq(S1), S1) /\ Lists(PairsIn(S2), SetToSeq(S2), S2)
    BY <2>5, <2>6, PairsListed
  <2>8. Lists(units', SetToSeq(S1) \o SetToSeq(S2), Shared)
    BY <2>4, <2>6, <2>7, ListsConcat
  <2>9. \E list : Lists(units', list, Shared')
    BY <1>4, <2>8
  <2>10. units' \in Seq(Near) /\ b2Begin' \in 0 .. Len(units')
    <3>1. PairsIn(S1) \in Seq(Near) /\ PairsIn(S2) \in Seq(Near)
      BY <2>7 DEF Lists
    <3>2. /\ Len(units') = Len(PairsIn(S1)) + Len(PairsIn(S2))
          /\ Len(PairsIn(S1)) \in Nat /\ Len(PairsIn(S2)) \in Nat
      BY <2>4, <3>1, ConcatProperties, LenProperties
    <3>3. QED
      BY <2>4, <2>8, <3>2 DEF Lists
  <2>11. ~ InSlices'
    <3>1. SUFFICES ASSUME InSlices' PROVE FALSE
      OBVIOUS
    <3>2. Rested' < NPEs /\ done'["slice"] = Rested'
      BY <3>1 DEF InSlices, Counts
    <3>3. QED
      BY <1>3, <1>7, <3>2, RestedType
  <2>12. slices' = [r \in PEs |-> slices'[r]] /\ \A r \in PEs : slices'[r] = {}
    BY <2>3
  <2>13. QED
    BY <2>9, <2>10, <2>11, <2>12, FS_EmptySet DEF PoolInv, Lists
<1>8. QED
  BY <1>6, <1>7

LEMMA PoolNext == PoolInv /\ PhaseInv /\ HolderInv /\ [Next]_vars => PoolInv'
<1> SUFFICES ASSUME PoolInv, PhaseInv, HolderInv, [Next]_vars PROVE PoolInv'
  OBVIOUS
<1>1. CASE UNCHANGED vars
  <2>1. UNCHANGED <<pc, inbox, done, stage, slices, units, b2Begin, bucket, peSet>>
    BY <1>1 DEF vars
  <2>2. InSlices' => InSlices
    BY <2>1 DEF InSlices, Waits, AtRest, Counts, Rested, Resting
  <2>3. QED
    BY <2>1, <2>2, SharesKept DEF PoolInv, Lists, AtRest
<1>2. ASSUME NEW q \in PEs, Step(q) PROVE PoolInv'
  <2>1. ChainTypes
    BY DEF PhaseInv
  <2>2. CASE WalkRegistered(q) \/ StartClaims(q) \/ Claim(q) \/ CrossPass(q)
    <3>1. pc[q] \in Claiming /\ UNCHANGED <<slices, units, b2Begin, done>>
      BY <2>2 DEF WalkRegistered, StartClaims, Claim, CrossPass, Claiming, pool
    <3>2. QED
      BY <3>1, PhaseOf, PoolBefore
  <2>3. CASE Freeze(q)
    <3>1. pc[q] \in Claiming /\ UNCHANGED <<slices, units, b2Begin>> /\ done'["slice"] = done["slice"]
      BY <2>1, <2>3 DEF Freeze, Claiming, pool, Deposit, ChainTypes, Deposits
    <3>2. QED
      BY <3>1, PhaseOf, PoolBefore
  <2>4. CASE BuildPoolSlice(q)
    BY <2>4, PoolSlice
  <2>5. CASE EnterPhaseB(q) \/ ClaimUnit(q) \/ WalkUnit(q) \/ SubmitEdges(q)
    <3>1. UNCHANGED <<bucket, peSet, slices, units, b2Begin, done>>
      BY <2>5 DEF EnterPhaseB, ClaimUnit, WalkUnit, SubmitEdges, inputs, registry, pool
    <3>2. InB
      BY <2>5, PhaseOf DEF EnterPhaseB, ClaimUnit, WalkUnit, SubmitEdges, Draining
    <3>3. QED
      BY <3>1, <3>2, PoolAfter DEF InB, Counts
  <2>6. CASE DepositB(q)
    <3>1. UNCHANGED <<bucket, peSet, slices, units, b2Begin>> /\ done'["slice"] = done["slice"]
      BY <2>1, <2>6 DEF DepositB, inputs, registry, pool, Deposit, ChainTypes, Deposits
    <3>2. InB
      BY <2>6, PhaseOf DEF DepositB, Draining
    <3>3. QED
      BY <3>1, <3>2, PoolAfter DEF InB, Counts
  <2>7. CASE MidRelabel(q)
    <3>1. UNCHANGED <<bucket, peSet, slices, units, b2Begin>> /\ done'["slice"] = done["slice"]
      BY <2>1, <2>7 DEF MidRelabel, inputs, registry, pool, Deposit, ChainTypes, Deposits
    <3>2. InMiddle
      BY <2>7, PhaseOf DEF MidRelabel
    <3>3. QED
      BY <3>1, <3>2, PoolAfter DEF InMiddle, Counts
  <2>8. CASE RelabelChained(q)
    <3>1. UNCHANGED <<bucket, peSet, slices, units, b2Begin, done>>
      BY <2>8 DEF RelabelChained, inputs, registry, pool
    <3>2. Relabelling
      BY <2>8, PhaseOf DEF RelabelChained
    <3>3. QED
      BY <3>1, <3>2, PoolAfter DEF Relabelling, Counts
  <2>9. QED
    BY <1>2, <2>2, <2>3, <2>4, <2>5, <2>6, <2>7, <2>8 DEF Step
<1>3. QED
  BY <1>1, <1>2 DEF Next

-----------------------------------------------------------------------------
\* The units of the pool, given who holds what.

Homes(pair) == {q \in PEs : Range(held[q]) \cap pair # {}}

\* A place of the list is two pieces of two PEs, in one set.
LEMMA PlaceIs ==
  ASSUME Settled, NEW x \in Places
  PROVE  /\ x = <<x[1], x[2], x[3], x[4]>>
         /\ x[1] \in PEs /\ x[2] \in PEs /\ x[1] < x[2] /\ peSet[x[1]] = peSet[x[2]]
         /\ x[3] \in DOMAIN held[x[1]] /\ x[4] \in DOMAIN held[x[2]]
         /\ PairAt(x) = {held[x[1]][x[3]], held[x[2]][x[4]]}
<1>1. PICK ab \in PEs \X PEs :
         /\ Together(ab[1], ab[2])
         /\ \E i \in DOMAIN bucket[ab[1]], j \in DOMAIN bucket[ab[2]] : x = <<ab[1], ab[2], i, j>>
  BY DEF Places
<1>2. PICK i \in DOMAIN bucket[ab[1]], j \in DOMAIN bucket[ab[2]] : x = <<ab[1], ab[2], i, j>>
  BY <1>1
<1>3. x[1] = ab[1] /\ x[2] = ab[2] /\ x[3] = i /\ x[4] = j
  BY <1>2
<1>4. QED
  BY <1>1, <1>2, <1>3 DEF Settled, Together, PairAt

\* And two pieces of two PEs in one set have a place.
LEMMA PlaceFor ==
  ASSUME Settled, NEW a \in PEs, NEW b \in PEs, a < b, peSet[a] = peSet[b],
         NEW i \in DOMAIN held[a], NEW j \in DOMAIN held[b]
  PROVE  <<a, b, i, j>> \in Places /\ PairAt(<<a, b, i, j>>) = {held[a][i], held[b][j]}
<1>1. <<a, b>> \in {x \in PEs \X PEs : Together(x[1], x[2])}
  BY DEF Together
<1>2. DOMAIN bucket[a] = DOMAIN held[a] /\ DOMAIN bucket[b] = DOMAIN held[b]
  BY DEF Settled
<1>3. <<a, b, i, j>> \in Places
  <2> DEFINE Block(ab) == {<<ab[1], ab[2], k, l>> : k \in DOMAIN bucket[ab[1]], l \in DOMAIN bucket[ab[2]]}
  <2>1. <<a, b, i, j>> \in Block(<<a, b>>)
    BY <1>2
  <2>2. Places = UNION {Block(ab) : ab \in {x \in PEs \X PEs : Together(x[1], x[2])}}
    BY DEF Places
  <2> HIDE DEF Block
  <2>3. QED
    BY <1>1, <2>1, <2>2
<1>4. QED
  BY <1>3 DEF PairAt, Settled

\* The two homes of a pair of pieces.
LEMMA HomesAre ==
  ASSUME Settled, NEW p \in Pieces, NEW r \in Pieces,
         NEW h \in PEs, p \in Range(held[h]), NEW g \in PEs, r \in Range(held[g])
  PROVE  Homes({p, r}) = {h, g}
BY DEF Settled, Homes

\* One more unit is at one more place.
LEMMA OneUnit ==
  ASSUME NEW list, Lists(units, list, Shared), NEW v \in Shared, NEW pair, PairOf(v) = pair,
         \A w \in Shared : PairOf(w) = pair => w = v
  PROVE  Cardinality({k \in DOMAIN units : units[k] = pair}) = 1
<1>1. /\ DOMAIN units = 1 .. Len(units) /\ Len(units) = Len(list)
      /\ DOMAIN list = 1 .. Len(list) /\ list \in Seq(Shared)
      /\ Range(list) = Shared /\ IsInjective(list)
      /\ \A k \in 1 .. Len(units) : units[k] = PairOf(list[k])
  BY LenProperties DEF Lists
<1>2. PICK k \in 1 .. Len(units) : list[k] = v
  BY <1>1 DEF Range
<1>3. \A i \in 1 .. Len(units) : list[i] \in Shared
  BY <1>1 DEF Range
<1>4. {i \in DOMAIN units : units[i] = pair} = {k}
  <2>1. ASSUME NEW i \in DOMAIN units, units[i] = pair PROVE i = k
    BY <1>1, <1>2, <1>3, <2>1 DEF IsInjective
  <2>2. k \in DOMAIN units /\ units[k] = pair
    BY <1>1, <1>2
  <2>3. QED
    BY <2>1, <2>2
<1>5. QED
  BY <1>4, FS_Singleton

LEMMA NoUnit ==
  ASSUME NEW list, Lists(units, list, Shared), NEW pair, \A w \in Shared : PairOf(w) # pair
  PROVE  Cardinality({k \in DOMAIN units : units[k] = pair}) = 0
<1>1. /\ DOMAIN units = 1 .. Len(units) /\ Len(units) = Len(list)
      /\ DOMAIN list = 1 .. Len(list) /\ Range(list) = Shared
      /\ \A k \in 1 .. Len(units) : units[k] = PairOf(list[k])
  BY LenProperties DEF Lists
<1>2. {k \in DOMAIN units : units[k] = pair} = {}
  BY <1>1 DEF Range
<1>3. QED
  BY <1>2, FS_EmptySet

\* A shared unit is a place of the list, in the share of the rank its number falls
\* to.
LEMMA SharedIs ==
  ASSUME NEW v \in Shared
  PROVE  \E r \in PEs, x \in Places :
           /\ v = <<r, <<Index(x), PairAt(x)>>>>
           /\ InStripe(Index(x), r) /\ PairAt(x) \in Near /\ PairOf(v) = PairAt(x)
<1>1. PICK r \in PEs : \E u \in Stripe(r) : v = <<r, u>>
  BY DEF Shared, Gathered
<1>2. PICK u \in Stripe(r) : v = <<r, u>>
  BY <1>1
<1>3. PICK x \in Places : u = <<Index(x), PairAt(x)>> /\ InStripe(Index(x), r) /\ PairAt(x) \in Near
  BY DEF Stripe
<1>4. QED
  BY <1>2, <1>3 DEF PairOf

LEMMA SharedFor ==
  ASSUME HolderTypes, NEW x \in Places, PairAt(x) \in Near
  PROVE  \E r \in PEs : InStripe(Index(x), r) /\ <<r, <<Index(x), PairAt(x)>>>> \in Shared
<1>1. Index(x) \in Nat
  BY PlacesFinite, FS_Subset, FS_CardinalityType DEF Index
<1>2. NPEs \in Nat /\ NPEs > 0 /\ PEs = 0 .. (NPEs - 1)
  BY RestedType, PEsAssumption
<1>3. PICK r \in PEs : r = Index(x) % NPEs
  BY <1>1, <1>2
<1>4. <<Index(x), PairAt(x)>> \in Stripe(r)
  BY <1>3 DEF Stripe, InStripe
<1>5. <<r, <<Index(x), PairAt(x)>>>> \in Shared
  BY <1>4 DEF Shared, Gathered
<1>6. QED
  BY <1>3, <1>5 DEF InStripe

\* The place of two pieces is the only one with them.
LEMMA CrossUnit ==
  ASSUME Settled, NEW list, Lists(units, list, Shared),
         NEW p \in Pieces, NEW r \in Pieces, p # r, {p, r} \in Near,
         NEW h \in PEs, \A q \in PEs : p \in Range(held[q]) <=> q = h,
         NEW g \in PEs, \A q \in PEs : r \in Range(held[q]) <=> q = g,
         h < g, peSet[h] = peSet[g]
  PROVE  Cardinality({k \in DOMAIN units : units[k] = {p, r}}) = 1
<1>1. HolderTypes /\ \A q \in PEs : IsInjective(held[q])
  BY DEF Settled, HolderTypes
<1>2. PICK i \in DOMAIN held[h] : held[h][i] = p
  BY DEF Range
<1>3. PICK j \in DOMAIN held[g] : held[g][j] = r
  BY DEF Range
<1>4. PICK x : x = <<h, g, i, j>>
  OBVIOUS
<1>5. x \in Places /\ PairAt(x) = {p, r}
  BY <1>2, <1>3, <1>4, PlaceFor
<1>6. PICK rank \in PEs : InStripe(Index(x), rank) /\ <<rank, <<Index(x), PairAt(x)>>>> \in Shared
  BY <1>1, <1>5, SharedFor
<1>7. PICK v : v = <<rank, <<Index(x), PairAt(x)>>>>
  OBVIOUS
<1>8. v \in Shared /\ PairOf(v) = {p, r}
  BY <1>5, <1>6, <1>7 DEF PairOf
<1>9. ASSUME NEW y \in Places, PairAt(y) = {p, r} PROVE y = x
  <2>1. /\ y = <<y[1], y[2], y[3], y[4]>> /\ y[1] \in PEs /\ y[2] \in PEs /\ y[1] < y[2]
        /\ y[3] \in DOMAIN held[y[1]] /\ y[4] \in DOMAIN held[y[2]]
        /\ {p, r} = {held[y[1]][y[3]], held[y[2]][y[4]]}
    BY <1>9, PlaceIs
  <2>2. held[y[1]][y[3]] \in Range(held[y[1]]) /\ held[y[2]][y[4]] \in Range(held[y[2]])
    BY <2>1 DEF Range
  <2>3. h \in Int /\ g \in Int
    BY PEsAssumption
  <2>4. held[y[1]][y[3]] = p /\ held[y[2]][y[4]] = r
    <3>1. CASE held[y[1]][y[3]] = r /\ held[y[2]][y[4]] = p
      <4>1. y[1] = g /\ y[2] = h
        BY <2>1, <2>2, <3>1
      <4>2. QED
        BY <2>1, <2>3, <4>1
    <3>2. QED
      BY <2>1, <3>1
  <2>5. y[1] = h /\ y[2] = g
    BY <2>1, <2>2, <2>4
  <2>6. y[3] = i /\ y[4] = j
    BY <1>1, <1>2, <1>3, <2>1, <2>4, <2>5 DEF IsInjective
  <2>7. QED
    BY <1>4, <2>1, <2>5, <2>6
<1>10. ASSUME NEW w \in Shared, PairOf(w) = {p, r} PROVE w = v
  <2>1. PICK s \in PEs, y \in Places : /\ w = <<s, <<Index(y), PairAt(y)>>>>
                                       /\ InStripe(Index(y), s) /\ PairOf(w) = PairAt(y)
    BY SharedIs
  <2>2. y = x
    BY <1>9, <1>10, <2>1
  <2>3. s = rank
    BY <1>6, <2>1, <2>2 DEF InStripe
  <2>4. QED
    BY <1>7, <2>1, <2>2, <2>3
<1>11. QED
  BY <1>8, <1>10, OneUnit

LEMMA TwoElements ==
  ASSUME NEW x, NEW y, x # y PROVE Cardinality({x, y}) = 2
<1>1. IsFiniteSet({x}) /\ Cardinality({x}) = 1
  BY FS_Singleton
<1>2. y \notin {x} /\ {x} \cup {y} = {x, y}
  OBVIOUS
<1>3. Cardinality({x} \cup {y}) = Cardinality({x}) + 1
  BY <1>1, <1>2, FS_AddElement
<1>4. QED
  BY <1>1, <1>2, <1>3

\* What the units of the pool are, for two near pieces.
LEMMA UnitsFollow ==
  ASSUME Settled, NEW list, Lists(units, list, Shared), NEW pair \in Near
  PROVE  LET sets == {peSet[q] : q \in Homes(pair)}
         IN  Cardinality({k \in DOMAIN units : units[k] = pair})
               = (IF Cardinality(Homes(pair)) = 2 /\ Cardinality(sets) = 1 THEN 1 ELSE 0)
<1> DEFINE times == Cardinality({k \in DOMAIN units : units[k] = pair})
           sets == {peSet[q] : q \in Homes(pair)}
<1>1. PICK p \in Pieces, r \in Pieces : p # r /\ pair = {p, r}
  BY NearAssumption
<1>2. PICK h \in PEs : \A q \in PEs : p \in Range(held[q]) <=> q = h
  BY DEF Settled
<1>3. PICK g \in PEs : \A q \in PEs : r \in Range(held[q]) <=> q = g
  BY DEF Settled
<1>4. Homes(pair) = {h, g}
  BY <1>1, <1>2, <1>3, HomesAre
<1>5. sets = {peSet[h], peSet[g]}
  BY <1>4
<1>6. ASSUME NEW x \in Places, PairAt(x) = pair
      PROVE  h # g /\ peSet[h] = peSet[g]
  <2>1. /\ x[1] \in PEs /\ x[2] \in PEs /\ x[1] < x[2] /\ peSet[x[1]] = peSet[x[2]]
        /\ x[3] \in DOMAIN held[x[1]] /\ x[4] \in DOMAIN held[x[2]]
        /\ pair = {held[x[1]][x[3]], held[x[2]][x[4]]}
    BY <1>6, PlaceIs
  <2>2. held[x[1]][x[3]] \in Range(held[x[1]]) /\ held[x[2]][x[4]] \in Range(held[x[2]])
    BY <2>1 DEF Range
  <2>3. x[1] # x[2]
    BY <2>1, PEsAssumption
  <2>4. CASE held[x[1]][x[3]] = p /\ held[x[2]][x[4]] = r
    BY <1>2, <1>3, <2>1, <2>2, <2>3, <2>4
  <2>5. CASE held[x[1]][x[3]] = r /\ held[x[2]][x[4]] = p
    BY <1>2, <1>3, <2>1, <2>2, <2>3, <2>5
  <2>6. QED
    BY <1>1, <2>1, <2>4, <2>5
<1>7. CASE h = g \/ peSet[h] # peSet[g]
  <2>1. times = 0
    <3>1. \A w \in Shared : PairOf(w) # pair
      BY <1>6, <1>7, SharedIs
    <3>2. QED
      BY <3>1, NoUnit
  <2>2. ~ (Cardinality(Homes(pair)) = 2 /\ Cardinality(sets) = 1)
    <3>1. CASE h = g
      <4>1. Homes(pair) = {h}
        BY <1>4, <3>1
      <4>2. Cardinality(Homes(pair)) = 1
        BY <4>1, FS_Singleton
      <4>3. QED
        BY <4>2
    <3>2. CASE peSet[h] # peSet[g]
      <4>1. Cardinality({peSet[h], peSet[g]}) = 2
        BY <3>2, TwoElements
      <4>2. QED
        BY <1>5, <4>1
    <3>3. QED
      BY <1>7, <3>1, <3>2
  <2>3. QED
    BY <2>1, <2>2
<1>8. CASE h # g /\ peSet[h] = peSet[g]
  <2>1. times = 1
    <3>1. h < g \/ g < h
      BY <1>8, PEsAssumption
    <3>2. CASE h < g
      BY <1>1, <1>2, <1>3, <1>8, <3>2, CrossUnit
    <3>3. CASE g < h
      <4>1. {r, p} \in Near /\ {r, p} = pair
        BY <1>1
      <4>2. QED
        BY <1>1, <1>2, <1>3, <1>8, <3>3, <4>1, CrossUnit
    <3>4. QED
      BY <3>1, <3>2, <3>3
  <2>2. Cardinality(Homes(pair)) = 2
    <3>1. Cardinality({h, g}) = 2
      BY <1>8, TwoElements
    <3>2. QED
      BY <1>4, <3>1
  <2>3. Cardinality(sets) = 1
    <3>1. sets = {peSet[h]}
      BY <1>5, <1>8
    <3>2. QED
      BY <3>1, FS_Singleton
  <2>4. QED
    BY <2>1, <2>2, <2>3
<1>9. QED
  BY <1>7, <1>8

\* When the pool has been built, the registry names what each PE holds and every
\* piece has one holder, whoever claimed it; and two near pieces are one unit of the
\* pool, and one only, exactly when two PEs of one set hold them.
THEOREM EachPairOnce == Phase1Spec => []PairsOnce
<1>1. Spec => [](PhaseInv /\ HolderInv /\ PoolInv)
  BY PhaseInit, PhaseNext, HolderInit, HolderNext, PoolInit, PoolNext, PTL DEF Spec
<1>2. PhaseInv /\ HolderInv /\ PoolInv => PairsOnce
  <2> SUFFICES ASSUME PhaseInv, HolderInv, PoolInv, done["slice"] = NPEs
               PROVE  PairsOnce
    BY DEF PairsOnce, HoldersExact, UnitsExact
  <2>1. Settled
    BY SettledBySlices
  <2>2. ASSUME NEW p \in Pieces
        PROVE  Cardinality({q \in PEs : p \in Range(held[q])}) = 1
    <3>1. PICK h \in PEs : {q \in PEs : p \in Range(held[q])} = {h}
      BY <2>1 DEF Settled
    <3>2. QED
      BY <3>1, FS_Singleton
  <2>3. HoldersExact
    BY <2>1, <2>2 DEF Settled, HoldersExact
  <2>4. PICK list : Lists(units, list, Shared)
    BY DEF PoolInv
  <2>5. UnitsExact
    BY <2>1, <2>4, UnitsFollow DEF UnitsExact, Homes
  <2>6. QED
    BY <2>3, <2>5 DEF PairsOnce
<1>3. QED
  BY <1>1, <1>2, ChainOfPhase1, PTL

-----------------------------------------------------------------------------
\* The edges of a stage.  A unit that was taken is in the hands of the PE that walks
\* it, or its edges are in somebody's buffer or with the process; a PE that found
\* the cursor at its limit saw every unit taken, and at rest its buffer is empty.

StageCursor == IF stage = 2 THEN b2Cursor ELSE cursor
EdgesKept(u) == \A e \in EdgesOf(u) : e \in edges \/ \E q \in PEs : e \in buf[q]
InHand(u) == \E q \in PEs : pc[q] = "walk" /\ unit[q] = u

TakenKept == \A k \in UnitsOfStage : k <= StageCursor => EdgesKept(units[k]) \/ InHand(units[k])

DrainInv ==
  /\ TakenKept
  /\ \A q \in PEs : pc[q] \in {"submit", "deposit"} \/ AtRest(q) => Limit <= StageCursor
  /\ \A q \in PEs : pc[q] = "deposit" \/ AtRest(q) => buf[q] = {}

MergeInv ==
  /\ cursor \in Nat /\ b2Cursor \in Nat
  /\ stage = 1 => b2Cursor = b2Begin
  /\ unit = [q \in PEs |-> unit[q]] /\ buf = [q \in PEs |-> buf[q]]
  /\ InB => DrainInv

LEMMA MergeInit == Init => MergeInv
<1> SUFFICES ASSUME Init PROVE MergeInv
  OBVIOUS
<1>1. ~ InB
  BY RestedType DEF Init, InB, Counts, Deposits
<1>2. QED
  BY <1>1 DEF Init, MergeInv

\* The steps that do not lead to phase B.
LEMMA MergeElsewhere ==
  ASSUME MergeInv, ~ InB', UNCHANGED <<stage, b2Begin, cursor, b2Cursor, unit, buf>>
  PROVE  MergeInv'
BY DEF MergeInv

\* The pool is assembled: nothing of the stage is taken, and nobody is at rest.
LEMMA MergeSlice ==
  ASSUME MergeInv, PhaseInv, PoolInv', NEW q \in PEs, BuildPoolSlice(q)
  PROVE  MergeInv'
<1>1. InSlices /\ ChainTypes
  BY PhaseOf DEF BuildPoolSlice, PhaseInv
<1>2. \A r \in PEs : pc'[r] = "wait"
  BY <1>1 DEF InSlices, Waits, AtRest, BuildPoolSlice
<1>3. /\ done["slice"] = Rested /\ done'["slice"] = Rested + 1 /\ stage = 0
      /\ done'["b1"] = 0 /\ done'["b"] = 0 /\ done'["mid"] = 0
  BY <1>1 DEF InSlices, Counts, BuildPoolSlice, Deposit, ChainTypes, Deposits
<1>4. unit' = unit /\ buf' = buf
  BY DEF BuildPoolSlice
<1>5. CASE ~ LastDeposit("slice")
  <2>1. UNCHANGED <<units, b2Begin, b2Cursor, stage, cursor>>
    BY <1>5 DEF BuildPoolSlice
  <2>2. ~ InB'
    BY <1>3, <1>5, <2>1 DEF LastDeposit, InB, Counts
  <2>3. QED
    BY <1>4, <2>1, <2>2, MergeElsewhere
<1>6. CASE LastDeposit("slice")
  <2>1. cursor' = 0 /\ b2Cursor' = b2Begin' /\ stage' \in {0, 1}
    BY <1>6 DEF BuildPoolSlice, Assemble
  <2>2. b2Begin' \in Nat
    BY LenProperties DEF PoolInv
  <2>3. ASSUME InB' PROVE DrainInv'
    <3>1. Rested' = 0
      BY <1>3, <2>1, <2>3 DEF InB, Counts
    <3>2. \A r \in PEs : ~ AtRest(r)'
      BY <3>1, NoneRestsNext
    <3>3. TakenKept'
      <4>1. UnitsOfStage' = 1 .. Limit' /\ StageCursor' = 0
        BY <2>1 DEF UnitsOfStage, StageCursor
      <4>2. QED
        BY <4>1 DEF TakenKept
    <3>4. QED
      BY <1>2, <3>2, <3>3 DEF DrainInv
  <2>4. QED
    BY <1>4, <2>1, <2>2, <2>3 DEF MergeInv
<1>7. QED
  BY <1>5, <1>6

\* Stage 2 is opened: the same, with the cursor of the tail.
LEMMA MergeMiddle ==
  ASSUME MergeInv, PhaseInv, PoolInv, NEW q \in PEs, MidRelabel(q)
  PROVE  MergeInv'
<1>1. InMiddle /\ ChainTypes
  BY PhaseOf DEF MidRelabel, PhaseInv
<1>2. \A r \in PEs : pc'[r] = "wait"
  BY <1>1 DEF InMiddle, Waits, AtRest, MidRelabel
<1>3. /\ stage = 1 /\ stage' \in {1, 2} /\ done'["b1"] = NPEs /\ done'["b"] = 0
  BY <1>1 DEF InMiddle, Counts, MidRelabel, Deposit, ChainTypes, Deposits
<1>4. UNCHANGED <<units, b2Begin, cursor, b2Cursor, unit, buf>>
  BY DEF MidRelabel, drain
<1>5. ASSUME InB' PROVE DrainInv'
  <2>1. Rested' = 0 /\ stage' = 2
    BY <1>3, <1>5, RestedType DEF InB, Counts
  <2>2. \A r \in PEs : ~ AtRest(r)'
    BY <2>1, NoneRestsNext
  <2>3. TakenKept'
    <3>1. UnitsOfStage' = (b2Begin + 1) .. Limit' /\ StageCursor' = b2Begin
      BY <1>3, <1>4, <2>1 DEF UnitsOfStage, StageCursor, MergeInv
    <3>2. b2Begin \in Nat
      BY LenProperties DEF PoolInv
    <3>3. QED
      BY <3>1, <3>2 DEF TakenKept
  <2>4. QED
    BY <1>2, <2>2, <2>3 DEF DrainInv
<1>6. QED
  BY <1>3, <1>4, <1>5 DEF MergeInv

\* What no step of phase B changes.
LEMMA StageKept ==
  ASSUME UNCHANGED <<links, tip, units, b2Begin, stage>>
  PROVE  UnitsOfStage' = UnitsOfStage /\ Limit' = Limit /\ \A u : EdgesOf(u)' = EdgesOf(u)
BY DEF UnitsOfStage, Limit, EdgesOf, LinksIn

LEMMA MergeEnter ==
  ASSUME MergeInv, PhaseInv, NEW q \in PEs, EnterPhaseB(q)
  PROVE  MergeInv'
<1>1. InB /\ ChainTypes /\ DrainInv
  BY PhaseOf DEF EnterPhaseB, PhaseInv, MergeInv
<1>2. UNCHANGED <<links, tip, units, b2Begin, stage, cursor, b2Cursor, unit, buf, edges>>
  BY DEF EnterPhaseB, inputs, labels, pool, drain, merge
<1>3. \A r \in PEs : /\ pc'[r] = IF r = q THEN "drain" ELSE pc[r]
                     /\ r # q => inbox'[r] = inbox[r]
  BY <1>1 DEF EnterPhaseB, Goto, Reply, ChainTypes
<1>4. pc[q] = "wait"
  BY DEF EnterPhaseB, Takes
<1>5. StageCursor' = StageCursor
  BY <1>2 DEF StageCursor
<1>6. TakenKept'
  <2>1. \A u : (EdgesKept(u) => EdgesKept(u)') /\ (InHand(u) => InHand(u)')
    BY <1>2, <1>3, <1>4, StageKept DEF EdgesKept, InHand
  <2>2. QED
    BY <1>1, <1>2, <1>5, <2>1, StageKept DEF DrainInv, TakenKept
<1>7. DrainInv'
  BY <1>1, <1>2, <1>3, <1>5, <1>6, StageKept DEF DrainInv, AtRest
<1>8. QED
  BY <1>2, <1>7 DEF MergeInv

LEMMA MergeClaim ==
  ASSUME MergeInv, PhaseInv, PoolInv, NEW q \in PEs, ClaimUnit(q)
  PROVE  MergeInv'
<1>1. InB /\ ChainTypes /\ DrainInv
  BY PhaseOf DEF ClaimUnit, PhaseInv, MergeInv, Draining
<1>2. UNCHANGED <<links, tip, units, b2Begin, stage, buf, edges, inbox>> /\ pc[q] = "drain"
  BY DEF ClaimUnit, inputs, labels, pool, merge
<1>3. /\ TakeFrom(q, StageCursor, Limit) /\ StageCursor' = StageCursor + 1
      /\ cursor' \in Nat /\ b2Cursor' \in Nat /\ (stage = 1 => b2Cursor' = b2Cursor)
  <2>1. CASE stage = 2
    BY <1>2, <2>1 DEF ClaimUnit, StageCursor, Limit, MergeInv
  <2>2. CASE stage # 2
    BY <1>2, <2>2 DEF ClaimUnit, StageCursor, Limit, MergeInv
  <2>3. QED
    BY <2>1, <2>2
<1>4. StageCursor \in Nat /\ Limit \in Nat
  BY LenProperties DEF StageCursor, Limit, MergeInv, PoolInv
<1>5. PICK s \in {"walk", "submit"} : \A r \in PEs : pc'[r] = IF r = q THEN s ELSE pc[r]
  BY <1>1, <1>3 DEF TakeFrom, Goto, ChainTypes
<1>6. \A r \in PEs \ {q} : unit'[r] = unit[r]
  BY <1>3 DEF TakeFrom, MergeInv
<1>7. unit' = [r \in PEs |-> unit'[r]]
  BY <1>3 DEF TakeFrom, MergeInv
<1>8. pc'[q] = "submit" => Limit <= StageCursor
  BY <1>1, <1>3, <1>4 DEF TakeFrom, Goto, ChainTypes
<1>9. TakenKept'
  <2>1. \A u : (EdgesKept(u) => EdgesKept(u)') /\ (InHand(u) => InHand(u)')
    BY <1>2, <1>5, <1>6, StageKept DEF EdgesKept, InHand
  <2>2. ASSUME NEW k \in UnitsOfStage, k <= StageCursor + 1
        PROVE  EdgesKept(units[k])' \/ InHand(units[k])'
    <3>1. CASE k <= StageCursor
      <4>1. EdgesKept(units[k]) \/ InHand(units[k])
        BY <1>1, <3>1 DEF DrainInv, TakenKept
      <4>2. PICK u : u = units[k]
        OBVIOUS
      <4>3. EdgesKept(u)' \/ InHand(u)'
        BY <2>1, <4>1, <4>2
      <4>4. QED
        BY <1>2, <4>2, <4>3 DEF EdgesKept, InHand, EdgesOf, LinksIn
    <3>2. CASE ~ (k <= StageCursor)
      <4>1. k = StageCursor + 1 /\ k <= Limit
        BY <1>4, <2>2, <3>2 DEF UnitsOfStage
      <4>2. unit' = [unit EXCEPT ![q] = units[k]] /\ Goto(q, "walk")
        BY <1>3, <1>4, <4>1 DEF TakeFrom
      <4>3. unit'[q] = units[k] /\ pc'[q] = "walk"
        BY <1>1, <4>2 DEF Goto, ChainTypes, MergeInv
      <4>4. QED
        BY <1>2, <4>3 DEF InHand
    <3>3. QED
      BY <3>1, <3>2
  <2>3. UnitsOfStage' = UnitsOfStage
    BY <1>2, StageKept
  <2>4. QED
    BY <1>3, <2>2, <2>3 DEF TakenKept
<1>10. DrainInv'
  <2>1. Limit' = Limit
    BY <1>2, StageKept
  <2>2. ASSUME NEW r \in PEs, pc'[r] \in {"submit", "deposit"} \/ AtRest(r)'
        PROVE  Limit' <= StageCursor'
    <3>1. CASE r = q
      BY <1>3, <1>4, <1>5, <1>8, <2>1, <2>2, <3>1 DEF AtRest
    <3>2. CASE r # q
      <4>1. pc[r] \in {"submit", "deposit"} \/ AtRest(r)
        BY <1>2, <1>5, <2>2, <3>2 DEF AtRest
      <4>2. QED
        BY <1>1, <1>3, <1>4, <2>1, <4>1 DEF DrainInv
    <3>3. QED
      BY <3>1, <3>2
  <2>3. \A r \in PEs : pc'[r] = "deposit" \/ AtRest(r)' => buf'[r] = {}
    BY <1>1, <1>2, <1>5 DEF DrainInv, AtRest
  <2>4. QED
    BY <1>9, <2>2, <2>3 DEF DrainInv
<1>11. QED
  BY <1>2, <1>3, <1>7, <1>10 DEF MergeInv

LEMMA MergeWalk ==
  ASSUME MergeInv, PhaseInv, NEW q \in PEs, WalkUnit(q)
  PROVE  MergeInv'
<1>1. InB /\ ChainTypes /\ DrainInv /\ inbox[q] = {}
  <2>1. InB /\ ChainTypes /\ DrainInv
    BY PhaseOf DEF WalkUnit, PhaseInv, MergeInv, Draining
  <2>2. QED
    BY <2>1 DEF InB, Waits, At, AtRest, WalkUnit
<1>2. UNCHANGED <<links, tip, units, b2Begin, stage, cursor, b2Cursor, edges>> /\ pc[q] = "walk"
  BY DEF WalkUnit, inputs, labels, pool, merge
<1>3. /\ \A r \in PEs \ {q} : pc'[r] = pc[r] /\ inbox'[r] = inbox[r]
      /\ pc'[q] \in {"drain", "wait"} /\ ~ AtRest(q)'
  BY <1>1 DEF WalkUnit, Goto, ChainTypes, AtRest
<1>4. /\ \A r \in PEs \ {q} : unit'[r] = unit[r] /\ buf'[r] = buf[r]
      /\ buf'[q] = buf[q] \cup EdgesOf(unit[q])
      /\ unit' = [r \in PEs |-> unit'[r]] /\ buf' = [r \in PEs |-> buf'[r]]
  BY DEF WalkUnit, MergeInv
<1>5. StageCursor' = StageCursor
  BY <1>2 DEF StageCursor
<1>6. TakenKept'
  <2>1. \A u : EdgesKept(u) => EdgesKept(u)'
    BY <1>2, <1>4, StageKept DEF EdgesKept
  <2>2. ASSUME NEW u, InHand(u) PROVE EdgesKept(u)' \/ InHand(u)'
    <3>1. PICK r \in PEs : pc[r] = "walk" /\ unit[r] = u
      BY <2>2 DEF InHand
    <3>2. CASE r = q
      BY <1>2, <1>4, <3>1, <3>2, StageKept DEF EdgesKept
    <3>3. CASE r # q
      BY <1>3, <1>4, <3>1, <3>3 DEF InHand
    <3>4. QED
      BY <3>2, <3>3
  <2>3. QED
    BY <1>1, <1>2, <1>5, <2>1, <2>2, StageKept DEF DrainInv, TakenKept
<1>7. DrainInv'
  BY <1>1, <1>2, <1>3, <1>4, <1>5, <1>6, StageKept DEF DrainInv, AtRest
<1>8. QED
  BY <1>2, <1>4, <1>7 DEF MergeInv

LEMMA MergeSubmit ==
  ASSUME MergeInv, PhaseInv, NEW q \in PEs, SubmitEdges(q)
  PROVE  MergeInv'
<1>1. InB /\ ChainTypes /\ DrainInv
  BY PhaseOf DEF SubmitEdges, PhaseInv, MergeInv, Draining
<1>2. /\ UNCHANGED <<links, tip, units, b2Begin, stage, cursor, b2Cursor, unit, inbox>>
      /\ pc[q] = "submit"
  BY DEF SubmitEdges, inputs, labels, pool
<1>3. \A r \in PEs : pc'[r] = IF r = q THEN "deposit" ELSE pc[r]
  BY <1>1 DEF SubmitEdges, Goto, ChainTypes
<1>4. /\ edges' = edges \cup buf[q] /\ buf' = [r \in PEs |-> buf'[r]]
      /\ \A r \in PEs : buf'[r] = IF r = q THEN {} ELSE buf[r]
  BY DEF SubmitEdges, WithEdges, MergeInv
<1>5. StageCursor' = StageCursor
  BY <1>2 DEF StageCursor
<1>6. TakenKept'
  <2>1. ASSUME NEW u, EdgesKept(u) PROVE EdgesKept(u)'
    <3>1. ASSUME NEW e \in EdgesOf(u) PROVE e \in edges' \/ \E r \in PEs : e \in buf'[r]
      BY <1>4, <2>1 DEF EdgesKept
    <3>2. QED
      BY <1>2, <3>1, StageKept DEF EdgesKept
  <2>2. \A u : InHand(u) => InHand(u)'
    BY <1>2, <1>3 DEF InHand
  <2>3. QED
    BY <1>1, <1>2, <1>5, <2>1, <2>2, StageKept DEF DrainInv, TakenKept
<1>7. DrainInv'
  BY <1>1, <1>2, <1>3, <1>4, <1>5, <1>6, StageKept DEF DrainInv, AtRest
<1>8. QED
  BY <1>2, <1>4, <1>7 DEF MergeInv

LEMMA MergeDeposit ==
  ASSUME MergeInv, PhaseInv, NEW q \in PEs, DepositB(q)
  PROVE  MergeInv'
<1> DEFINE c == IF stage = 1 THEN "b1" ELSE "b"
<1>1. InB /\ ChainTypes /\ DrainInv
  BY PhaseOf DEF DepositB, PhaseInv, MergeInv, Draining
<1>2. /\ UNCHANGED <<links, tip, units, b2Begin, stage, cursor, b2Cursor, unit, buf, edges>>
      /\ pc[q] = "deposit" /\ done' = [done EXCEPT ![c] = @ + 1]
  BY DEF DepositB, inputs, labels, pool, drain, Deposit
<1>3. \A r \in PEs : pc'[r] = IF r = q THEN "wait" ELSE pc[r]
  BY <1>1 DEF DepositB, Goto, ChainTypes
<1>4. done[c] = Rested
  BY <1>1 DEF InB, Counts
<1>5. CASE LastDeposit(c)
  <2>1. done'[c] = NPEs
    BY <1>1, <1>2, <1>5 DEF LastDeposit, ChainTypes, Deposits
  <2>2. ~ InB'
    <3>1. SUFFICES ASSUME InB' PROVE FALSE
      OBVIOUS
    <3>2. Rested' < NPEs /\ done'[c] = Rested'
      BY <1>2, <3>1 DEF InB, Counts
    <3>3. QED
      BY <2>1, <3>2, RestedType
  <2>3. QED
    BY <1>2, <2>2, MergeElsewhere
<1>6. CASE ~ LastDeposit(c)
  <2>1. \A r \in PEs \ {q} : inbox'[r] = inbox[r]
    BY <1>6 DEF DepositB, Reply
  <2>2. StageCursor' = StageCursor
    BY <1>2 DEF StageCursor
  <2>3. TakenKept'
    <3>1. \A u : (EdgesKept(u) => EdgesKept(u)') /\ (InHand(u) => InHand(u)')
      BY <1>2, <1>3, StageKept DEF EdgesKept, InHand
    <3>2. QED
      BY <1>1, <1>2, <2>2, <3>1, StageKept DEF DrainInv, TakenKept
  <2>4. DrainInv'
    BY <1>1, <1>2, <1>3, <2>1, <2>2, <2>3, StageKept DEF DrainInv, AtRest
  <2>5. QED
    BY <1>2, <2>4 DEF MergeInv
<1>7. QED
  BY <1>5, <1>6

LEMMA MergeNext == MergeInv /\ PhaseInv /\ PoolInv /\ PoolInv' /\ [Next]_vars => MergeInv'
<1> SUFFICES ASSUME MergeInv, PhaseInv, PoolInv, PoolInv', [Next]_vars PROVE MergeInv'
  OBVIOUS
<1>1. CASE UNCHANGED vars
  <2>1. /\ UNCHANGED <<links, tip, units, b2Begin, stage, cursor, b2Cursor, unit, buf, edges>>
        /\ UNCHANGED <<pc, inbox, done>>
    BY <1>1 DEF vars
  <2>2. InB' => InB
    BY <2>1 DEF InB, Waits, At, AtRest, Counts, Rested, Resting
  <2>3. StageCursor' = StageCursor
    BY <2>1 DEF StageCursor
  <2>4. \A u : (EdgesKept(u) => EdgesKept(u)') /\ (InHand(u) => InHand(u)')
    BY <2>1, StageKept DEF EdgesKept, InHand
  <2>5. DrainInv => TakenKept'
    BY <2>1, <2>3, <2>4, StageKept DEF DrainInv, TakenKept
  <2>6. DrainInv => DrainInv'
    BY <2>1, <2>3, <2>5, StageKept DEF DrainInv, AtRest
  <2>7. QED
    BY <2>1, <2>2, <2>6 DEF MergeInv
<1>2. ASSUME NEW q \in PEs, Step(q) PROVE MergeInv'
  <2>1. ChainTypes
    BY DEF PhaseInv
  <2>2. CASE WalkRegistered(q) \/ StartClaims(q) \/ Claim(q) \/ CrossPass(q) \/ Freeze(q)
    <3>1. /\ pc[q] \in Claiming
          /\ UNCHANGED <<stage, b2Begin, cursor, b2Cursor, unit, buf>>
          /\ done'["slice"] = done["slice"]
      BY <2>1, <2>2 DEF WalkRegistered, StartClaims, Claim, CrossPass, Freeze, Claiming, pool, drain,
                        Deposit, ChainTypes, Deposits
    <3>2. InA
      BY <3>1, PhaseOf
    <3>3. ~ InB'
      BY <3>1, <3>2, RestedType DEF InA, InB, Counts
    <3>4. QED
      BY <3>1, <3>3, MergeElsewhere
  <2>3. CASE BuildPoolSlice(q)
    BY <2>3, MergeSlice
  <2>4. CASE EnterPhaseB(q)
    BY <2>4, MergeEnter
  <2>5. CASE ClaimUnit(q)
    BY <2>5, MergeClaim
  <2>6. CASE WalkUnit(q)
    BY <2>6, MergeWalk
  <2>7. CASE SubmitEdges(q)
    BY <2>7, MergeSubmit
  <2>8. CASE DepositB(q)
    BY <2>8, MergeDeposit
  <2>9. CASE MidRelabel(q)
    BY <2>9, MergeMiddle
  <2>10. CASE RelabelChained(q)
    <3>1. UNCHANGED <<stage, b2Begin, cursor, b2Cursor, unit, buf, done>>
      BY <2>10 DEF RelabelChained, pool, drain
    <3>2. Relabelling
      BY <2>10, PhaseOf DEF RelabelChained
    <3>3. ~ InB'
      <4>1. SUFFICES ASSUME InB' PROVE FALSE
        OBVIOUS
      <4>2. Rested' < NPEs /\ done["b"] = NPEs /\ (stage # 1 => done'["b"] = Rested') /\ stage # 1
        BY <3>1, <3>2, <4>1 DEF Relabelling, InB, Counts
      <4>3. QED
        BY <3>1, <4>2, RestedType
    <3>4. QED
      BY <3>1, <3>3, MergeElsewhere
  <2>11. QED
    BY <1>2, <2>2, <2>3, <2>4, <2>5, <2>6, <2>7, <2>8, <2>9, <2>10 DEF Step
<1>3. QED
  BY <1>1, <1>2 DEF Next

\* The PE that makes the last deposit of a stage is the only one not at rest, so no
\* buffer holds an edge and no unit is in hand: the process has all the edges.
LEMMA LastSeesAll ==
  ASSUME PhaseInv, PoolInv, MergeInv, NEW q \in PEs, DepositB(q),
         LastDeposit(IF stage = 1 THEN "b1" ELSE "b"), NEW k \in UnitsOfStage
  PROVE  EdgesOf(units[k]) \subseteq edges
<1>1. InB /\ ChainTypes /\ DrainInv
  BY PhaseOf DEF DepositB, PhaseInv, MergeInv, Draining
<1>2. Rested + 1 = NPEs
  BY <1>1 DEF LastDeposit, InB, Counts
<1>3. ~ AtRest(q) /\ pc[q] = "deposit"
  BY <1>1 DEF DepositB, AtRest
<1>4. \A r \in PEs \ {q} : AtRest(r)
  BY <1>2, <1>3, OnlyLast
<1>5. \A r \in PEs : buf[r] = {} /\ pc[r] # "walk"
  BY <1>1, <1>3, <1>4 DEF DrainInv, AtRest
<1>6. k <= StageCursor
  <2>1. Limit <= StageCursor
    BY <1>1, <1>3 DEF DrainInv
  <2>2. Limit \in Nat /\ StageCursor \in Nat /\ k \in Nat /\ k <= Limit
    BY LenProperties DEF Limit, StageCursor, UnitsOfStage, PoolInv, MergeInv
  <2>3. QED
    BY <2>1, <2>2
<1>7. EdgesKept(units[k])
  BY <1>1, <1>5, <1>6 DEF DrainInv, TakenKept, InHand
<1>8. QED
  BY <1>5, <1>7 DEF EdgesKept

\* The merge sees every edge of its stage, whoever walked the units.
THEOREM MergeSeesAll == Phase1Spec => MergeComplete
<1>1. Spec => [](PhaseInv /\ HolderInv /\ PoolInv /\ MergeInv)
  BY PhaseInit, PhaseNext, HolderInit, HolderNext, PoolInit, PoolNext, MergeInit, MergeNext, PTL
     DEF Spec
<1>2. PhaseInv /\ PoolInv /\ MergeInv /\ [Next]_vars =>
        [\A q \in PEs :
           DepositB(q) /\ LastDeposit(IF stage = 1 THEN "b1" ELSE "b")
             => \A k \in UnitsOfStage : EdgesOf(units[k]) \subseteq edges]_vars
  BY LastSeesAll
<1>3. QED
  BY <1>1, <1>2, ChainOfPhase1, PTL DEF Spec, MergeComplete

-----------------------------------------------------------------------------
\* Phase 1 labels the particles by their groups (GroupsExact of Phase1Chain).
\*
\* At every time the roots and the tips label the particles by the links united so
\* far, and by no others: those a PE has walked among the pieces it holds, and then
\* those of the units whose edges are merged.  LabelInv says which these are in each
\* of the five phases of the counters; MinUnionProof has what one more union, and a
\* merge over labels, do to such a labelling.

-----------------------------------------------------------------------------
\* The phase of the process, read off the counters.
LEMMA PhaseByCounters ==
  ASSUME PhaseInv
  PROVE  /\ InA <=> done["a"] # NPEs
         /\ InSlices <=> done["a"] = NPEs /\ done["slice"] # NPEs
         /\ InMiddle <=> stage = 1 /\ done["b1"] = NPEs
         /\ Relabelling <=> done["b"] = NPEs
         /\ InB <=> /\ done["slice"] = NPEs /\ done["b"] # NPEs
                    /\ ~ (stage = 1 /\ done["b1"] = NPEs)
<1>1. NPEs \in Nat /\ NPEs > 0 /\ Rested \in Nat
  BY RestedType
<1>2. CASE InA
  BY <1>1, <1>2 DEF InA, InSlices, InB, InMiddle, Relabelling, Counts
<1>3. CASE InSlices
  BY <1>1, <1>3 DEF InA, InSlices, InB, InMiddle, Relabelling, Counts
<1>4. CASE InB
  BY <1>1, <1>4 DEF InA, InSlices, InB, InMiddle, Relabelling, Counts
<1>5. CASE InMiddle
  BY <1>1, <1>5 DEF InA, InSlices, InB, InMiddle, Relabelling, Counts
<1>6. CASE Relabelling
  BY <1>1, <1>6 DEF InA, InSlices, InB, InMiddle, Relabelling, Counts
<1>7. QED
  BY <1>2, <1>3, <1>4, <1>5, <1>6 DEF PhaseInv

PhasesRead ==
  /\ InA <=> done["a"] # NPEs
  /\ InSlices <=> done["a"] = NPEs /\ done["slice"] # NPEs
  /\ InMiddle <=> stage = 1 /\ done["b1"] = NPEs
  /\ Relabelling <=> done["b"] = NPEs
  /\ InB <=> /\ done["slice"] = NPEs /\ done["b"] # NPEs
             /\ ~ (stage = 1 /\ done["b1"] = NPEs)

\* The same of the state after a step.
LEMMA PhasesReadNext == (PhaseInv => PhasesRead)'
<1>1. PhaseInv => PhasesRead
  BY PhaseByCounters DEF PhasesRead
<1>2. QED
  BY <1>1, PTL

\* The links of what a PE holds, as far as it has walked them.
OwnLinks(q) ==
  IF PastClaims(q) THEN LinksIn(Held(q)) ELSE UNION {LinksIn(Parts[p]) : p \in Range(held[q])}
Walked == UNION {OwnLinks(q) : q \in {r \in PEs : PastStart(r)}}

\* The links of the units 1 .. k.
UnitLinks(k) == UNION {LinksIn(UNION {Parts[p] : p \in units[i]}) : i \in 1 .. k}

Frozen(q) == pc[q] \notin Claiming

LabelTypes ==
  /\ links \subseteq Orders \X Orders
  /\ repLabel \in [Orders -> Orders \cup {Unlabelled}]
  /\ tip \in [Orders -> Orders \cup {Unlabelled}]
  /\ tipMap \in [Orders -> Orders]
  /\ edges \subseteq Orders \X Orders
  /\ \A q \in PEs : buf[q] \subseteq Orders \X Orders

\* A PE that has frozen its groups keeps the label of each at its root.
LabelsAtRoots ==
  \A q \in PEs : Frozen(q) => \A x \in Held(q) : repLabel[root[x]] = tip[x]

\* The tips as the freeze wrote them, and no edges.
Fresh ==
  /\ \A q \in PEs : Frozen(q) => \A x \in Held(q) : tip[x] = root[x]
  /\ edges = {} /\ \A q \in PEs : buf[q] = {}

\* The links that the stage answers for, and what the edges join.
StageLinks == Walked \cup UnitLinks(Limit)
Entails(W, D) == \A f \in [Orders -> Orders] : Respects(f, W) => Respects(f, D)
EdgesSound == Entails(StageLinks, edges) /\ \A q \in PEs : Entails(StageLinks, buf[q])

\* The edges of two sets.
LEMMA EntailsBoth ==
  ASSUME NEW W, NEW D, NEW E, Entails(W, D), Entails(W, E)
  PROVE  Entails(W, D \cup E)
BY DEF Entails, Respects

\* No edges are entailed by any.
LEMMA EntailsNone == ASSUME NEW W PROVE Entails(W, {})
BY DEF Entails, Respects

\* The tips while units are walked: those of the links merged before the stage.
Merged == Walked \cup UnitLinks(IF stage = 2 THEN b2Begin ELSE 0)
TipsOfStage ==
  /\ Joins(tip, Merged, Orders)
  /\ \A q \in PEs : pc[q] = "walk" => \E k \in 1 .. Limit : unit[q] = units[k]

\* The tips while PEs relabel: those in S have, from the tips t to the next ones.
OnTheWay(t, S) ==
  /\ t \in [Orders -> Orders]
  /\ Joins([x \in Orders |-> tipMap[t[x]]], StageLinks, Orders)
  /\ \A q \in PEs : \A x \in Held(q) : tip[x] = IF q \in S THEN tipMap[t[x]] ELSE t[x]

LabelInv ==
  /\ LabelTypes
  /\ Joins(root, Walked, Orders)
  /\ LabelsAtRoots
  /\ InA \/ InSlices => Fresh
  /\ InB \/ InMiddle \/ Relabelling => EdgesSound
  /\ InB => TipsOfStage
  /\ InMiddle => \E t : OnTheWay(t, Resting)
  /\ Relabelling => \E t : OnTheWay(t, {q \in PEs : pc[q] = "done"})

\* The particles that PEs hold.
LEMMA HeldType ==
  ASSUME HolderTypes
  PROVE  /\ \A q \in PEs : \A p \in Range(held[q]) : p \in Pieces /\ Parts[p] \subseteq Held(q)
         /\ \A q \in PEs : Held(q) \subseteq Orders
<1>1. ASSUME NEW q \in PEs, NEW p \in Range(held[q]) PROVE p \in Pieces
  BY DEF HolderTypes, Range
<1>2. QED
  BY <1>1 DEF Held, Orders

\* What two PEs hold is disjoint: with claims, once both have started.
LEMMA HeldApart ==
  ASSUME HolderInv, NEW q \in PEs, NEW r \in PEs, q # r, stealA => PastStart(q) /\ PastStart(r)
  PROVE  Held(q) \cap Held(r) = {}
<1>1. Range(held[q]) \cap Range(held[r]) = {}
  <2>1. CASE stealA
    BY <2>1 DEF HolderInv, OneHolder
  <2>2. CASE ~ stealA
    <3>1. Range(held[q]) \subseteq Pieces /\ Range(held[r]) \subseteq Pieces
      BY HeldType DEF HolderInv
    <3>2. QED
      BY <2>2, <3>1 DEF HolderInv, KeptWhereRegistered
  <2>3. QED
    BY <2>1, <2>2
<1>2. Range(held[q]) \subseteq Pieces /\ Range(held[r]) \subseteq Pieces
  BY HeldType DEF HolderInv
<1>3. QED
  BY <1>1, <1>2, PartsAssumption DEF Held

\* The links of a PE are among the particles it holds.
LEMMA OwnLinksType ==
  ASSUME HolderTypes, NEW q \in PEs
  PROVE  OwnLinks(q) \subseteq LinksIn(Held(q))
<1>1. \A p \in Range(held[q]) : LinksIn(Parts[p]) \subseteq LinksIn(Held(q))
  BY HeldType DEF LinksIn
<1>2. QED
  BY <1>1 DEF OwnLinks

\* No link that has been walked leaves what a PE holds.
LEMMA WalkedKeeps ==
  ASSUME HolderInv, NEW r \in PEs, PastStart(r)
  PROVE  Keeps(Walked, Held(r))
<1> SUFFICES ASSUME NEW e \in Walked PROVE e[1] \in Held(r) <=> e[2] \in Held(r)
  BY DEF Keeps
<1>1. PICK q \in PEs : PastStart(q) /\ e \in OwnLinks(q)
  BY DEF Walked
<1>2. e[1] \in Held(q) /\ e[2] \in Held(q)
  BY <1>1, OwnLinksType DEF HolderInv, LinksIn
<1>3. CASE q = r
  BY <1>2, <1>3
<1>4. CASE q # r
  BY <1>1, <1>2, <1>4, HeldApart
<1>5. QED
  BY <1>3, <1>4

\* The links among some particles are finitely many.
LEMMA LinksFinite ==
  ASSUME LabelTypes, NEW A
  PROVE  LinksIn(A) \subseteq Orders \X Orders /\ IsFiniteSet(LinksIn(A))
<1>1. LinksIn(A) \subseteq Orders \X Orders
  BY DEF LinksIn, LabelTypes
<1>2. IsFiniteSet(Orders \X Orders)
  BY FS_Product, PartsAssumption
<1>3. QED
  BY <1>1, <1>2, FS_Subset

\* At the start nothing is walked and every root is the particle itself.
LEMMA LabelsInit == Init => LabelInv
<1> SUFFICES ASSUME Init PROVE LabelInv
  OBVIOUS
<1>1. LabelTypes
  BY LayoutsAssumption DEF Init, LabelTypes, Alone
<1>2. Walked = {}
  BY DEF Init, Walked, PastStart
<1>3. Joins(root, Walked, Orders)
  BY <1>2, AloneJoins, PartsAssumption DEF Init
<1>4. \A q \in PEs : ~ Frozen(q)
  BY DEF Init, Frozen, Claiming
<1>5. PhaseInv /\ done["a"] = 0 /\ NPEs # 0
  BY PhaseInit, RestedType DEF Init, Deposits
<1>6. InA /\ ~ InB /\ ~ InMiddle /\ ~ Relabelling
  BY <1>5, PhaseByCounters DEF Init, Deposits
<1>7. Fresh
  BY <1>4 DEF Fresh, Init
<1>8. QED
  BY <1>1, <1>3, <1>4, <1>6, <1>7 DEF LabelInv, LabelsAtRoots

\* Links that a PE of phase A walks, away from what the others hold.
LEMMA UnitesInA ==
  ASSUME LabelInv, HolderInv, PhaseInv, PhaseInv', InA, done' = done, NEW q \in PEs,
         ~ Frozen(q)', NEW A \in SUBSET Orders,
         Walked' = Walked \cup LinksIn(A), Joins(root', Walked', Orders),
         \A r \in PEs \ {q} : PastStart(r) => A \cap Held(r) = {},
         \A r \in PEs \ {q} : held'[r] = held[r] /\ pc'[r] = pc[r],
         UNCHANGED <<links, repLabel, tip, tipMap, edges, buf>>
  PROVE  LabelInv'
<1>1. LabelTypes /\ LabelTypes' /\ Joins(root, Walked, Orders)
  BY DEF LabelInv, LabelTypes
<1>2. ASSUME NEW r \in PEs, Frozen(r)'
      PROVE  r # q /\ Frozen(r) /\ PastStart(r) /\ Held(r)' = Held(r)
  <2>1. r # q
    BY <1>2
  <2>2. held'[r] = held[r] /\ pc'[r] = pc[r]
    BY <2>1
  <2>3. QED
    BY <1>2, <2>1, <2>2 DEF Frozen, PastStart, Claiming, Held
<1>3. ASSUME NEW r \in PEs, Frozen(r)', NEW x \in Held(r) PROVE root'[x] = root[x]
  <2>1. r # q /\ PastStart(r)
    BY <1>2, <1>3
  <2>2. \A e \in LinksIn(A) : e[1] \notin Held(r) /\ e[2] \notin Held(r)
    BY <2>1 DEF LinksIn
  <2>3. Keeps(Walked', Held(r)) /\ InsideIs(Walked', Held(r), Walked)
    BY <2>1, <2>2, WalkedKeeps DEF Keeps, InsideIs
  <2>4. Held(r) \subseteq Orders /\ Walked \subseteq Walked'
    BY HeldType DEF HolderInv
  <2>5. GrowsApart(Held(r), root, Walked, root', Walked', Orders)
    BY <1>1, <2>3, <2>4 DEF GrowsApart
  <2>6. Orders \in SUBSET Nat
    BY PartsAssumption
  <2>7. QED
    BY <1>3, <2>5, <2>6, JoinsApart
<1>4. LabelsAtRoots' /\ Fresh'
  <2>1. LabelsAtRoots /\ Fresh
    BY DEF LabelInv
  <2>2. ASSUME NEW r \in PEs, Frozen(r)', NEW x \in Held(r)'
        PROVE  repLabel'[root'[x]] = tip'[x] /\ tip'[x] = root'[x]
    <3>1. x \in Held(r) /\ Frozen(r) /\ root'[x] = root[x]
      BY <1>2, <1>3, <2>2
    <3>2. QED
      BY <2>1, <3>1 DEF LabelsAtRoots, Fresh
  <2>3. QED
    BY <2>1, <2>2 DEF LabelsAtRoots, Fresh
<1>5. done["a"] # NPEs
  BY PhaseByCounters
<1>6. PhasesRead'
  BY PhasesReadNext
<1>7. PhasesRead
  BY PhaseByCounters DEF PhasesRead
<1>8. InA' /\ ~ InB' /\ ~ InMiddle' /\ ~ Relabelling' /\ ~ InSlices'
  <2>1. InA'
    BY <1>5, <1>6 DEF PhasesRead
  <2>2. done["slice"] = 0 /\ done["b"] = 0 /\ done["b1"] = 0 /\ NPEs # 0
    BY RestedType DEF InA, Counts
  <2>3. QED
    BY <1>5, <1>6, <2>1, <2>2 DEF PhasesRead
<1>9. QED
  BY <1>1, <1>4, <1>8 DEF LabelInv

\* What PEs but q have walked stays, and q's links are added.
LEMMA WalkedGrows ==
  ASSUME NEW q \in PEs, links' = links,
         \A r \in PEs \ {q} : held'[r] = held[r] /\ pc'[r] = pc[r],
         NEW L, PastStart(q)' => OwnLinks(q)' = L, ~ PastStart(q)' => L = {},
         PastStart(q) => OwnLinks(q) \subseteq L
  PROVE  Walked' = Walked \cup L
<1>1. ASSUME NEW r \in PEs \ {q} PROVE OwnLinks(r)' = OwnLinks(r) /\ (PastStart(r)' <=> PastStart(r))
  <2>1. held'[r] = held[r] /\ pc'[r] = pc[r]
    OBVIOUS
  <2>2. Held(r)' = Held(r) /\ (PastClaims(r)' <=> PastClaims(r)) /\ (PastStart(r)' <=> PastStart(r))
    BY <2>1 DEF Held, PastClaims, PastStart
  <2>3. \A B : LinksIn(B)' = LinksIn(B)
    BY DEF LinksIn
  <2>4. LinksIn(Held(r))' = LinksIn(Held(r))
    BY <2>2 DEF LinksIn
  <2>5. (UNION {LinksIn(Parts[p]) : p \in Range(held[r])})' = UNION {LinksIn(Parts[p]) : p \in Range(held[r])}
    BY <2>1, <2>3
  <2>6. QED
    BY <2>2, <2>4, <2>5 DEF OwnLinks
<1>2. Walked' \subseteq Walked \cup L
  <2>1. ASSUME NEW e \in Walked' PROVE e \in Walked \cup L
    <3>1. PICK r \in PEs : PastStart(r)' /\ e \in OwnLinks(r)'
      BY <2>1 DEF Walked
    <3>2. QED
      BY <1>1, <3>1 DEF Walked
  <2>2. QED
    BY <2>1
<1>3. Walked \cup L \subseteq Walked'
  <2>1. ASSUME NEW e \in Walked PROVE e \in Walked'
    <3>1. PICK r \in PEs : PastStart(r) /\ e \in OwnLinks(r)
      BY <2>1 DEF Walked
    <3>2. CASE r = q
      <4>1. e \in L /\ PastStart(q)'
        BY <3>1, <3>2
      <4>2. QED
        BY <4>1 DEF Walked
    <3>3. CASE r # q
      BY <1>1, <3>1, <3>3 DEF Walked
    <3>4. QED
      BY <3>2, <3>3
  <2>2. ASSUME NEW e \in L PROVE e \in Walked'
    BY <2>2 DEF Walked
  <2>3. QED
    BY <2>1, <2>2
<1>4. QED
  BY <1>2, <1>3

\* The static path: all the links of what the PE holds.
LEMMA LabelsRegistered ==
  ASSUME LabelInv, HolderInv, PhaseInv, PhaseInv', NEW q \in PEs, WalkRegistered(q)
  PROVE  LabelInv'
<1>1. pc[q] = "start" /\ ~ stealA /\ root' = UniteAll(root, LinksIn(Held(q)))
  BY DEF WalkRegistered
<1>2. UNCHANGED <<links, held, repLabel, tip, tipMap, edges, buf, done>>
  BY DEF WalkRegistered, inputs, registry, drain, merge
<1>3. pc'[q] = "freeze" /\ \A r \in PEs \ {q} : held'[r] = held[r] /\ pc'[r] = pc[r]
  BY <1>2 DEF WalkRegistered, Goto, PhaseInv, ChainTypes
<1>4. Held(q) \in SUBSET Orders
  BY HeldType DEF HolderInv
<1>5. LabelTypes /\ Joins(root, Walked, Orders)
  BY DEF LabelInv
<1>6. Walked' = Walked \cup LinksIn(Held(q))
  <2>1. PastStart(q)' /\ PastClaims(q)' /\ ~ PastStart(q)
    BY <1>1, <1>3 DEF PastStart, PastClaims
  <2>2. OwnLinks(q)' = LinksIn(Held(q))
    BY <1>2, <2>1 DEF OwnLinks, LinksIn, Held
  <2>3. QED
    BY <1>2, <1>3, <2>1, <2>2, WalkedGrows
<1>7. Joins(root', Walked', Orders)
  <2>1. IsFiniteSet(LinksIn(Held(q))) /\ LinksIn(Held(q)) \in SUBSET (Orders \X Orders)
    BY <1>5, LinksFinite
  <2>2. Orders \in SUBSET Nat
    BY PartsAssumption
  <2>3. Joins(UniteAll(root, LinksIn(Held(q))), Walked \cup LinksIn(Held(q)), Orders)
    BY <1>5, <2>1, <2>2, UniteAllJoins
  <2>4. QED
    BY <1>1, <1>6, <2>3
<1>8. \A r \in PEs \ {q} : PastStart(r) => Held(q) \cap Held(r) = {}
  BY <1>1, HeldApart
<1>9. InA /\ ~ Frozen(q)'
  BY <1>1, <1>3, PhaseOf DEF Frozen, Claiming
<1>10. QED
  BY <1>2, <1>3, <1>4, <1>6, <1>7, <1>8, <1>9, UnitesInA

\* A PE that starts to claim has walked nothing.
LEMMA LabelsStart ==
  ASSUME LabelInv, HolderInv, PhaseInv, PhaseInv', NEW q \in PEs, StartClaims(q)
  PROVE  LabelInv'
<1>1. pc[q] = "start"
  BY DEF StartClaims
<1>2. UNCHANGED <<links, root, repLabel, tip, tipMap, edges, buf, done>>
  BY DEF StartClaims, inputs, labels, drain, merge
<1>3. pc'[q] = "claim" /\ \A r \in PEs \ {q} : held'[r] = held[r] /\ pc'[r] = pc[r]
  BY DEF StartClaims, Goto, PhaseInv, ChainTypes, HolderInv, HolderTypes
<1>4. Range(held'[q]) = {}
  BY DEF StartClaims, HolderInv, HolderTypes, Range
<1>5. LinksIn({}) = {} /\ {} \in SUBSET Orders
  BY DEF LinksIn
<1>6. Walked' = Walked \cup {}
  <2>1. PastStart(q)' /\ ~ PastClaims(q)' /\ ~ PastStart(q)
    BY <1>1, <1>3 DEF PastStart, PastClaims
  <2>2. OwnLinks(q)' = {}
    BY <1>4, <2>1 DEF OwnLinks
  <2>3. QED
    BY <1>2, <1>3, <2>1, <2>2, WalkedGrows
<1>7. Joins(root', Walked', Orders)
  <2>1. Joins(root, Walked, Orders)
    BY DEF LabelInv
  <2>2. Walked' = Walked
    BY <1>6
  <2>3. QED
    BY <1>2, <2>1, <2>2
<1>8. \A r \in PEs \ {q} : PastStart(r) => {} \cap Held(r) = {}
  OBVIOUS
<1>9. InA /\ ~ Frozen(q)'
  BY <1>1, <1>3, PhaseOf DEF Frozen, Claiming
<1>10. Walked' = Walked \cup LinksIn({})
  BY <1>5, <1>6
<1>11. QED
  BY <1>2, <1>3, <1>5, <1>10, <1>7, <1>8, <1>9, UnitesInA

\* A claim: the links inside the piece.
LEMMA LabelsClaim ==
  ASSUME LabelInv, HolderInv, PhaseInv, PhaseInv', NEW q \in PEs, Claim(q)
  PROVE  LabelInv'
<1>1. PICK p \in Unclaimed : held' = [held EXCEPT ![q] = Append(@, p)]
                             /\ root' = UniteAll(root, LinksIn(Parts[p]))
  BY DEF Claim
<1>2. UNCHANGED <<links, repLabel, tip, tipMap, edges, buf, done, pc>> /\ pc[q] = "claim"
  BY DEF Claim, inputs, drain, merge
<1>3. p \in Pieces /\ p \notin claimed /\ stealA
  BY <1>2 DEF Unclaimed, HolderInv, HolderTypes, KeptWhereRegistered
<1>4. \A r \in PEs \ {q} : held'[r] = held[r] /\ pc'[r] = pc[r]
  BY <1>1, <1>2 DEF HolderInv, HolderTypes
<1>5. Range(held'[q]) = Range(held[q]) \cup {p}
  BY <1>1, <1>3, AppendElements DEF HolderInv, HolderTypes
<1>6. Parts[p] \in SUBSET Orders
  BY <1>3 DEF Orders
<1>7. LabelTypes /\ Joins(root, Walked, Orders)
  BY DEF LabelInv
<1>8. Walked' = Walked \cup LinksIn(Parts[p])
  <2>1. PastStart(q)' /\ PastStart(q) /\ ~ PastClaims(q)' /\ ~ PastClaims(q)
    BY <1>2 DEF PastStart, PastClaims
  <2>2. \A A : LinksIn(A)' = LinksIn(A)
    BY <1>2 DEF LinksIn
  <2>3. OwnLinks(q)' = UNION {LinksIn(Parts[o]) : o \in Range(held'[q])}
    BY <2>1, <2>2 DEF OwnLinks
  <2>4. OwnLinks(q) = UNION {LinksIn(Parts[o]) : o \in Range(held[q])}
    BY <2>1 DEF OwnLinks
  <2>5. OwnLinks(q)' = OwnLinks(q) \cup LinksIn(Parts[p])
    BY <1>5, <2>3, <2>4
  <2>6. Walked' = Walked \cup OwnLinks(q) \cup LinksIn(Parts[p])
    <3> DEFINE L == OwnLinks(q) \cup LinksIn(Parts[p])
    <3>1. Walked' = Walked \cup L
      BY <1>2, <1>4, <2>1, <2>5, WalkedGrows
    <3>2. QED
      BY <3>1
  <2>7. OwnLinks(q) \subseteq Walked
    BY <2>1 DEF Walked
  <2>8. QED
    BY <2>6, <2>7
<1>9. Joins(root', Walked', Orders)
  <2>1. IsFiniteSet(LinksIn(Parts[p])) /\ LinksIn(Parts[p]) \in SUBSET (Orders \X Orders)
    BY <1>7, LinksFinite
  <2>2. Orders \in SUBSET Nat
    BY PartsAssumption
  <2>3. Joins(UniteAll(root, LinksIn(Parts[p])), Walked \cup LinksIn(Parts[p]), Orders)
    BY <1>7, <2>1, <2>2, UniteAllJoins
  <2>4. QED
    BY <1>1, <1>8, <2>3
<1>10. ASSUME NEW r \in PEs \ {q}, PastStart(r) PROVE Parts[p] \cap Held(r) = {}
  <2>1. Range(held[r]) \subseteq claimed /\ claimed \subseteq Pieces
    BY <1>3, <1>10 DEF HolderInv, HolderTypes, OneHolder
  <2>2. \A o \in Range(held[r]) : Parts[p] \cap Parts[o] = {}
    BY <1>3, <2>1, PartsAssumption
  <2>3. QED
    BY <2>2 DEF Held
<1>11. InA /\ ~ Frozen(q)'
  BY <1>2, PhaseOf DEF Frozen, Claiming
<1>12. QED
  BY <1>2, <1>4, <1>6, <1>8, <1>9, <1>10, <1>11, UnitesInA

\* The pool is drained: the links between the pieces that the PE has claimed.
LEMMA LabelsCross ==
  ASSUME LabelInv, HolderInv, PhaseInv, PhaseInv', NEW q \in PEs, CrossPass(q)
  PROVE  LabelInv'
<1>1. pc[q] = "claim" /\ root' = UniteAll(root, LinksIn(Held(q)))
  BY DEF CrossPass
<1>2. UNCHANGED <<links, held, repLabel, tip, tipMap, edges, buf, done>>
  BY DEF CrossPass, inputs, drain, merge
<1>3. pc'[q] = "freeze" /\ \A r \in PEs \ {q} : held'[r] = held[r] /\ pc'[r] = pc[r]
  BY <1>2 DEF CrossPass, Goto, PhaseInv, ChainTypes
<1>4. Held(q) \in SUBSET Orders
  BY HeldType DEF HolderInv
<1>5. LabelTypes /\ Joins(root, Walked, Orders)
  BY DEF LabelInv
<1>6. Walked' = Walked \cup LinksIn(Held(q))
  <2>1. PastStart(q)' /\ PastClaims(q)'
    BY <1>1, <1>3 DEF PastStart, PastClaims
  <2>2. OwnLinks(q)' = LinksIn(Held(q))
    BY <1>2, <2>1 DEF OwnLinks, LinksIn, Held
  <2>3. OwnLinks(q) \subseteq LinksIn(Held(q))
    BY OwnLinksType DEF HolderInv
  <2>4. QED
    BY <1>2, <1>3, <2>1, <2>2, <2>3, WalkedGrows
<1>7. Joins(root', Walked', Orders)
  <2>1. IsFiniteSet(LinksIn(Held(q))) /\ LinksIn(Held(q)) \in SUBSET (Orders \X Orders)
    BY <1>5, LinksFinite
  <2>2. Orders \in SUBSET Nat
    BY PartsAssumption
  <2>3. Joins(UniteAll(root, LinksIn(Held(q))), Walked \cup LinksIn(Held(q)), Orders)
    BY <1>5, <2>1, <2>2, UniteAllJoins
  <2>4. QED
    BY <1>1, <1>6, <2>3
<1>8. \A r \in PEs \ {q} : PastStart(r) => Held(q) \cap Held(r) = {}
  BY <1>1, HeldApart DEF PastStart
<1>9. InA /\ ~ Frozen(q)'
  BY <1>1, <1>3, PhaseOf DEF Frozen, Claiming
<1>10. QED
  BY <1>2, <1>3, <1>4, <1>6, <1>7, <1>8, <1>9, UnitesInA

\* Nobody is past the pool before the slices are done.
LEMMA NotYet ==
  ASSUME PhaseInv', done'["slice"] # NPEs, done'["b"] # NPEs, done'["b1"] # NPEs
  PROVE  ~ InB' /\ ~ InMiddle' /\ ~ Relabelling'
BY PhasesReadNext DEF PhasesRead

\* What has been walked is the same after a step that moves no piece.
LEMMA WalkedKept ==
  ASSUME UNCHANGED <<links, held>>,
         \A r \in PEs : (PastStart(r)' <=> PastStart(r)) /\ (PastClaims(r)' <=> PastClaims(r))
  PROVE  Walked' = Walked
<1>1. \A A : LinksIn(A)' = LinksIn(A)
  BY DEF LinksIn
<1>2. \A r \in PEs : Held(r)' = Held(r) /\ LinksIn(Held(r))' = LinksIn(Held(r))
  BY DEF LinksIn, Held
<1>3. \A r \in PEs : OwnLinks(r)' = OwnLinks(r)
  BY <1>1, <1>2 DEF OwnLinks
<1>4. QED
  BY <1>3 DEF Walked

\* The root of a particle is on the PE that holds the particle.
LEMMA RootWithin ==
  ASSUME LabelInv, HolderInv, NEW q \in PEs, PastStart(q), NEW x \in Held(q)
  PROVE  root[x] \in Held(q) /\ root[root[x]] = root[x] /\ x \in Orders
<1>1. Held(q) \in SUBSET Orders
  BY HeldType DEF HolderInv
<1>2. Keeps(Walked, Held(q))
  BY WalkedKeeps
<1>3. Orders \in SUBSET Nat
  BY PartsAssumption
<1>4. Joins(root, Walked, Orders)
  BY DEF LabelInv
<1>5. root[x] \in Held(q)
  BY <1>1, <1>2, <1>3, <1>4, JoinsWithin
<1>6. QED
  BY <1>1, <1>4, <1>5 DEF Joins

\* The freeze writes the tips of what the PE holds, and labels its roots.
LEMMA LabelsFreeze ==
  ASSUME LabelInv, HolderInv, PhaseInv, PhaseInv', NEW q \in PEs, Freeze(q)
  PROVE  LabelInv'
<1>1. /\ pc[q] = "freeze"
      /\ tip' = [x \in Orders |-> IF x \in Held(q) THEN root[x] ELSE tip[x]]
      /\ repLabel' = [x \in Orders |->
                        IF x \in Held(q) /\ root[x] = x THEN x ELSE repLabel[x]]
  BY DEF Freeze
<1>2. UNCHANGED <<links, held, root, tipMap, edges, buf>>
  BY DEF Freeze, inputs, registry, merge, drain
<1>3. pc'[q] = "wait" /\ \A r \in PEs \ {q} : pc'[r] = pc[r]
  BY DEF Freeze, Goto, PhaseInv, ChainTypes
<1>4. InA /\ LabelTypes /\ Joins(root, Walked, Orders) /\ LabelsAtRoots /\ Fresh
  BY <1>1, PhaseOf DEF LabelInv, Claiming
<1>5. LabelTypes'
  <2>1. root \in [Orders -> Orders]
    BY <1>4 DEF Joins
  <2>2. QED
    BY <1>1, <1>2, <1>4, <2>1 DEF LabelTypes
<1>6. \A r \in PEs : (PastStart(r)' <=> PastStart(r)) /\ (PastClaims(r)' <=> PastClaims(r))
  BY <1>1, <1>3 DEF PastStart, PastClaims
<1>7. Walked' = Walked
  BY <1>2, <1>6, WalkedKept
<1>8. Joins(root', Walked', Orders)
  BY <1>2, <1>4, <1>7
<1>9. ASSUME NEW r \in PEs, Frozen(r)', NEW x \in Held(r)
      PROVE  repLabel'[root[x]] = tip'[x] /\ tip'[x] = root[x]
  <2>1. PastStart(r) /\ PastStart(q)
    BY <1>1, <1>6, <1>9 DEF Frozen, Claiming, PastStart
  <2>2. root[x] \in Held(r) /\ root[root[x]] = root[x] /\ x \in Orders /\ root[x] \in Orders
    <3>1. root[x] \in Held(r) /\ root[root[x]] = root[x] /\ x \in Orders
      BY <1>9, <2>1, RootWithin
    <3>2. QED
      BY <1>9, <3>1, HeldType DEF HolderInv
  <2>3. CASE r = q
    BY <1>1, <1>9, <2>2, <2>3
  <2>4. CASE r # q
    <3>1. x \notin Held(q) /\ root[x] \notin Held(q)
      BY <1>9, <2>1, <2>2, <2>4, HeldApart
    <3>2. Frozen(r)
      BY <1>3, <1>9, <2>4 DEF Frozen
    <3>3. repLabel[root[x]] = tip[x] /\ tip[x] = root[x]
      BY <1>4, <1>9, <3>2 DEF LabelsAtRoots, Fresh
    <3>4. QED
      BY <1>1, <2>2, <3>1, <3>3
  <2>5. QED
    BY <2>3, <2>4
<1>10. \A r \in PEs : Held(r)' = Held(r)
  BY <1>2 DEF Held
<1>11. LabelsAtRoots' /\ Fresh'
  <2>1. LabelsAtRoots'
    BY <1>2, <1>9, <1>10 DEF LabelsAtRoots
  <2>2. edges' = {} /\ \A r \in PEs : buf'[r] = {}
    BY <1>2, <1>4 DEF Fresh
  <2>3. QED
    BY <1>2, <1>9, <1>10, <2>1, <2>2 DEF Fresh
<1>12. ~ InB' /\ ~ InMiddle' /\ ~ Relabelling'
  <2>1. done["slice"] = 0 /\ done["b"] = 0 /\ done["b1"] = 0 /\ NPEs # 0
    BY <1>4, RestedType DEF InA, Counts
  <2>2. done' = [done EXCEPT !["a"] = @ + 1]
    BY DEF Freeze, Deposit
  <2>3. done'["slice"] = 0 /\ done'["b"] = 0 /\ done'["b1"] = 0
    BY <2>1, <2>2 DEF PhaseInv, ChainTypes, Deposits
  <2>4. QED
    BY <2>1, <2>3, NotYet
<1>13. QED
  BY <1>5, <1>8, <1>11, <1>12 DEF LabelInv

\* Every particle is held, once every piece is.
LEMMA AllHeld ==
  ASSUME Settled PROVE \A x \in Orders : \E q \in PEs : x \in Held(q)
BY DEF Settled, Held, Orders

\* The same of the state after a step.
LEMMA SettledNext == (PhaseInv /\ HolderInv /\ done["slice"] = NPEs => Settled /\ \A x \in Orders : \E q \in PEs : x \in Held(q))'
<1>1. PhaseInv /\ HolderInv /\ done["slice"] = NPEs => Settled /\ \A x \in Orders : \E q \in PEs : x \in Held(q)
  BY SettledBySlices, AllHeld
<1>2. QED
  BY <1>1, PTL

\* The last slice: the tips of all are the roots, and nothing of the pool is merged.
LEMMA LabelsSlice ==
  ASSUME LabelInv, HolderInv, HolderInv', PhaseInv, PhaseInv', NEW q \in PEs, BuildPoolSlice(q)
  PROVE  LabelInv'
<1>1. InSlices /\ ChainTypes
  BY PhaseOf DEF BuildPoolSlice, PhaseInv
<1>2. UNCHANGED <<links, held, root, repLabel, tip, pc, tipMap, edges, buf>>
  BY DEF BuildPoolSlice, inputs, registry, labels, merge
<1>3. LabelTypes /\ Joins(root, Walked, Orders) /\ LabelsAtRoots /\ Fresh
  BY <1>1 DEF LabelInv
<1>4. LabelTypes'
  BY <1>2, <1>3 DEF LabelTypes
<1>5. Walked' = Walked
  BY <1>2, WalkedKept DEF PastStart, PastClaims
<1>6. LabelsAtRoots' /\ Fresh'
  BY <1>2, <1>3 DEF LabelsAtRoots, Fresh, Frozen, Held
<1>7. \A r \in PEs : Frozen(r) /\ pc'[r] # "walk"
  BY <1>1, <1>2 DEF InSlices, Waits, AtRest, Frozen, Claiming
<1>8. EdgesSound'
  <2>1. edges' = {} /\ \A r \in PEs : buf'[r] = {}
    BY <1>2, <1>3 DEF Fresh
  <2>2. QED
    BY <2>1 DEF EdgesSound, Entails, Respects
<1>9. ~ InMiddle' /\ ~ Relabelling'
  <2>1. done["b"] = 0 /\ done["b1"] = 0 /\ NPEs # 0
    BY <1>1, RestedType DEF InSlices, Counts
  <2>2. done' = [done EXCEPT !["slice"] = @ + 1]
    BY DEF BuildPoolSlice, Deposit
  <2>3. done'["b"] = 0 /\ done'["b1"] = 0
    BY <1>1, <2>1, <2>2 DEF ChainTypes, Deposits
  <2>4. QED
    BY <2>1, <2>3, PhasesReadNext DEF PhasesRead
<1>10. ASSUME InB' PROVE TipsOfStage'
  <2>1. done'["slice"] = NPEs
    BY <1>10, PhasesReadNext DEF PhasesRead
  <2>2. ASSUME NEW x \in Orders PROVE tip[x] = root[x]
    <3>1. PICK r \in PEs : x \in Held(r)
      BY <1>2, <2>1, SettledNext DEF Held
    <3>2. QED
      BY <1>3, <1>7, <3>1 DEF Fresh
  <2>3. tip = root
    <3>1. tip = [x \in Orders |-> tip[x]] /\ root = [x \in Orders |-> root[x]]
      BY <1>3 DEF LabelTypes, Joins
    <3>2. QED
      BY <2>2, <3>1
  <2>4. stage' # 2
    <3>1. CASE LastDeposit("slice")
      <4>1. PICK all : Assemble(all)
        BY <3>1 DEF BuildPoolSlice
      <4>2. QED
        BY <4>1 DEF Assemble
    <3>2. CASE ~ LastDeposit("slice")
      BY <1>1, <3>2 DEF BuildPoolSlice, InSlices
    <3>3. QED
      BY <3>1, <3>2
  <2>5. Merged' = Walked
    BY <1>5, <2>4 DEF Merged, UnitLinks
  <2>6. Joins(tip', Merged', Orders)
    BY <1>2, <1>3, <2>3, <2>5
  <2>7. QED
    BY <1>7, <2>6 DEF TipsOfStage
<1>11. QED
  BY <1>2, <1>3, <1>4, <1>5, <1>6, <1>8, <1>9, <1>10 DEF LabelInv

\* While units are walked, every PE has frozen its tips.
LEMMA FrozenPastA ==
  ASSUME PhaseInv, ~ InA
  PROVE  \A r \in PEs : Frozen(r) /\ PastStart(r) /\ PastClaims(r)
BY DEF PhaseInv, InSlices, InB, InMiddle, Relabelling, Waits, At, AtRest, Draining,
       Frozen, Claiming, PastStart, PastClaims

\* The same of the state after a step.
LEMMA FrozenPastANext ==
  (PhaseInv /\ ~ InA => \A r \in PEs : Frozen(r) /\ PastStart(r) /\ PastClaims(r))'
<1>1. PhaseInv /\ ~ InA => \A r \in PEs : Frozen(r) /\ PastStart(r) /\ PastClaims(r)
  BY FrozenPastA
<1>2. QED
  BY <1>1, PTL

\* One phase at a time.
LEMMA OnePhase ==
  ASSUME PhaseInv
  PROVE  /\ InB => ~ InA /\ ~ InSlices /\ ~ InMiddle /\ ~ Relabelling
         /\ InMiddle => ~ InA /\ ~ InSlices /\ ~ InB /\ ~ Relabelling
         /\ Relabelling => ~ InA /\ ~ InSlices /\ ~ InB /\ ~ InMiddle
<1>1. PhasesRead
  BY PhaseByCounters DEF PhasesRead
<1>2. NPEs # 0 /\ NPEs \in Nat /\ Rested \in Nat
  BY RestedType
<1>3. InB => done["a"] = NPEs
  BY DEF InB, Counts
<1>4. InMiddle => done["a"] = NPEs /\ done["slice"] = NPEs /\ done["b"] # NPEs
  BY <1>2 DEF InMiddle, Counts
<1>5. Relabelling => done["a"] = NPEs /\ done["slice"] = NPEs
  BY DEF Relabelling, Counts
<1>6. QED
  BY <1>1, <1>3, <1>4, <1>5 DEF PhasesRead

\* The same of the state after a step.
LEMMA OnePhaseNext ==
  (PhaseInv => /\ InB => ~ InA /\ ~ InSlices /\ ~ InMiddle /\ ~ Relabelling
               /\ InMiddle => ~ InA /\ ~ InSlices /\ ~ InB /\ ~ Relabelling
               /\ Relabelling => ~ InA /\ ~ InSlices /\ ~ InB /\ ~ InMiddle)'
<1>1. PhaseInv => /\ InB => ~ InA /\ ~ InSlices /\ ~ InMiddle /\ ~ Relabelling
                  /\ InMiddle => ~ InA /\ ~ InSlices /\ ~ InB /\ ~ Relabelling
                  /\ Relabelling => ~ InA /\ ~ InSlices /\ ~ InB /\ ~ InMiddle
  BY OnePhase
<1>2. QED
  BY <1>1, PTL

\* A step of phase B that counts nothing.
LEMMA StaysInB ==
  ASSUME PhaseInv, PhaseInv', InB, UNCHANGED <<stage, done>>
  PROVE  InB'
<1>1. PhasesRead /\ PhasesRead'
  BY PhaseByCounters, PhasesReadNext DEF PhasesRead
<1>2. QED
  BY <1>1 DEF PhasesRead

\* A step in phase B.
LEMMA LabelsDrain ==
  ASSUME LabelInv, PhaseInv, PhaseInv', InB, InB', LabelTypes', EdgesSound',
         UNCHANGED <<links, held, root, repLabel, tip, units, b2Begin, stage>>,
         \A q \in PEs : pc'[q] = "walk" => \E k \in 1 .. Limit : unit'[q] = units[k]
  PROVE  LabelInv'
<1>1. Joins(root, Walked, Orders) /\ LabelsAtRoots /\ TipsOfStage
  BY DEF LabelInv
<1>2. InB' /\ ~ InA' /\ ~ InSlices' /\ ~ InMiddle' /\ ~ Relabelling' /\ ~ InA
  BY OnePhase, OnePhaseNext
<1>3. \A r \in PEs : /\ Frozen(r) /\ PastStart(r) /\ PastClaims(r)
                     /\ PastStart(r)' /\ PastClaims(r)'
  BY <1>2, FrozenPastA, FrozenPastANext
<1>4. Walked' = Walked
  BY <1>3, WalkedKept
<1>5. UnitLinks(b2Begin)' = UnitLinks(b2Begin) /\ UnitLinks(0)' = UnitLinks(0)
  BY DEF UnitLinks, LinksIn
<1>6. Merged' = Merged
  BY <1>4, <1>5 DEF Merged
<1>7. Limit' = Limit
  BY DEF Limit
<1>8. TipsOfStage'
  BY <1>1, <1>6, <1>7 DEF TipsOfStage
<1>9. LabelsAtRoots'
  BY <1>1, <1>3 DEF LabelsAtRoots, Held
<1>10. QED
  BY <1>1, <1>2, <1>4, <1>8, <1>9 DEF LabelInv

\* What such a step leaves as it was.
LEMMA StageLinksKept ==
  ASSUME PhaseInv, PhaseInv', ~ InA, ~ InA', UNCHANGED <<links, held, units, b2Begin, stage>>
  PROVE  StageLinks' = StageLinks
<1>1. Walked' = Walked
  BY WalkedKept, FrozenPastA, FrozenPastANext
<1>2. UnitLinks(Limit)' = UnitLinks(Limit)
  BY DEF UnitLinks, LinksIn, Limit
<1>3. QED
  BY <1>1, <1>2 DEF StageLinks

\* The drain of the pool is scheduled.
LEMMA LabelsEnter ==
  ASSUME LabelInv, PhaseInv, PhaseInv', NEW q \in PEs, EnterPhaseB(q)
  PROVE  LabelInv'
<1>1. InB
  BY PhaseOf DEF EnterPhaseB
<1>2. UNCHANGED <<links, held, root, repLabel, tip, tipMap, units, b2Begin, stage, done, unit,
                  edges, buf>>
  BY DEF EnterPhaseB, inputs, registry, labels, pool, drain, merge
<1>3. InB' /\ ~ InA /\ ~ InA'
  BY <1>1, <1>2, StaysInB, OnePhase, OnePhaseNext
<1>4. LabelTypes /\ EdgesSound /\ TipsOfStage
  BY <1>1 DEF LabelInv
<1>5. LabelTypes' /\ EdgesSound'
  <2>1. StageLinks' = StageLinks
    BY <1>2, <1>3, StageLinksKept
  <2>2. QED
    BY <1>2, <1>4, <2>1 DEF LabelTypes, EdgesSound, Entails
<1>6. ASSUME NEW r \in PEs, pc'[r] = "walk" PROVE \E k \in 1 .. Limit : unit'[r] = units[k]
  <2>1. pc[r] = "walk"
    BY <1>6 DEF EnterPhaseB, Goto, PhaseInv, ChainTypes
  <2>2. QED
    BY <1>2, <1>4, <2>1 DEF TipsOfStage
<1>7. QED
  BY <1>1, <1>2, <1>3, <1>5, <1>6, LabelsDrain

\* A unit is claimed, or the cursor is past the stage.
LEMMA LabelsClaimUnit ==
  ASSUME LabelInv, MergeInv, PoolInv, PhaseInv, PhaseInv', NEW q \in PEs, ClaimUnit(q)
  PROVE  LabelInv'
<1>1. InB
  BY PhaseOf DEF ClaimUnit, Draining
<1>2. UNCHANGED <<links, held, root, repLabel, tip, tipMap, units, b2Begin, stage, done,
                  edges, buf>>
  BY DEF ClaimUnit, inputs, registry, labels, pool, merge
<1>3. InB' /\ ~ InA /\ ~ InA'
  BY <1>1, <1>2, StaysInB, OnePhase, OnePhaseNext
<1>4. LabelTypes /\ EdgesSound /\ TipsOfStage
  BY <1>1 DEF LabelInv
<1>5. LabelTypes' /\ EdgesSound'
  <2>1. StageLinks' = StageLinks
    BY <1>2, <1>3, StageLinksKept
  <2>2. QED
    BY <1>2, <1>4, <2>1 DEF LabelTypes, EdgesSound, Entails
<1>6. StageCursor \in Nat /\ TakeFrom(q, StageCursor, Limit)
  BY DEF ClaimUnit, StageCursor, Limit, MergeInv
<1>7. ASSUME NEW r \in PEs, pc'[r] = "walk" PROVE \E k \in 1 .. Limit : unit'[r] = units[k]
  <2>1. CASE StageCursor < Limit
    <3>1. unit' = [unit EXCEPT ![q] = units[StageCursor + 1]] /\ pc' = [pc EXCEPT ![q] = "walk"]
      BY <1>6, <2>1 DEF TakeFrom, Goto
    <3>2. CASE r = q
      <4>1. unit'[r] = units[StageCursor + 1]
        BY <3>1, <3>2 DEF MergeInv
      <4>2. Limit \in Nat
        BY LenProperties DEF PoolInv, Limit
      <4>3. StageCursor + 1 \in 1 .. Limit
        BY <1>6, <2>1, <4>2
      <4>4. QED
        BY <4>1, <4>3
    <3>3. CASE r # q
      <4>1. pc[r] = "walk" /\ unit'[r] = unit[r]
        BY <1>7, <3>1, <3>3 DEF PhaseInv, ChainTypes, MergeInv
      <4>2. QED
        BY <1>4, <4>1 DEF TipsOfStage
    <3>4. QED
      BY <3>2, <3>3
  <2>2. CASE ~ (StageCursor < Limit)
    <3>1. unit' = unit /\ pc' = [pc EXCEPT ![q] = "submit"]
      BY <1>6, <2>2 DEF TakeFrom, Goto
    <3>2. pc[r] = "walk"
      BY <1>7, <3>1 DEF PhaseInv, ChainTypes
    <3>3. QED
      BY <1>4, <3>1, <3>2 DEF TipsOfStage
  <2>3. QED
    BY <2>1, <2>2
<1>8. QED
  BY <1>1, <1>2, <1>3, <1>5, <1>7, LabelsDrain

\* The edges of a PE are appended to those of the process.
LEMMA LabelsSubmit ==
  ASSUME LabelInv, MergeInv, PhaseInv, PhaseInv', NEW q \in PEs, SubmitEdges(q)
  PROVE  LabelInv'
<1>1. InB
  BY PhaseOf DEF SubmitEdges, Draining
<1>2. UNCHANGED <<links, held, root, repLabel, tip, tipMap, units, b2Begin, stage, done, unit>>
  BY DEF SubmitEdges, inputs, registry, labels, pool
<1>3. InB' /\ ~ InA /\ ~ InA'
  BY <1>1, <1>2, StaysInB, OnePhase, OnePhaseNext
<1>4. LabelTypes /\ EdgesSound /\ TipsOfStage
  BY <1>1 DEF LabelInv
<1>5. edges' = edges \cup buf[q] /\ \A r \in PEs : buf'[r] = IF r = q THEN {} ELSE buf[r]
  BY DEF SubmitEdges, WithEdges, MergeInv
<1>6. LabelTypes'
  BY <1>2, <1>4, <1>5 DEF LabelTypes
<1>7. EdgesSound'
  <2>1. StageLinks' = StageLinks
    BY <1>2, <1>3, StageLinksKept
  <2>2. Entails(StageLinks, edges') /\ \A r \in PEs : Entails(StageLinks, buf'[r])
    BY <1>4, <1>5, EntailsBoth, EntailsNone DEF EdgesSound
  <2>3. QED
    BY <2>1, <2>2 DEF EdgesSound, Entails
<1>8. ASSUME NEW r \in PEs, pc'[r] = "walk" PROVE \E k \in 1 .. Limit : unit'[r] = units[k]
  <2>1. pc[r] = "walk"
    BY <1>8 DEF SubmitEdges, Goto, PhaseInv, ChainTypes
  <2>2. QED
    BY <1>2, <1>4, <2>1 DEF TipsOfStage
<1>9. QED
  BY <1>1, <1>2, <1>3, <1>6, <1>7, <1>8, LabelsDrain

\* The links that are merged before the stage are among those it answers for.
LEMMA MergedBefore ==
  ASSUME PoolInv PROVE Merged \subseteq StageLinks /\ Limit \in Nat /\ b2Begin \in Nat
<1>1. Limit \in Nat /\ b2Begin \in Nat /\ (stage = 2 => b2Begin <= Limit)
  BY LenProperties DEF PoolInv, Limit
<1>2. stage = 2 => 1 .. b2Begin \subseteq 1 .. Limit
  BY <1>1
<1>3. UnitLinks(0) = {}
  BY DEF UnitLinks
<1>4. QED
  BY <1>1, <1>2, <1>3 DEF Merged, StageLinks, UnitLinks

\* The ends of an edge.
LEMMA EdgeEnds ==
  ASSUME NEW a \in Nat, NEW b \in Nat
  PROVE  Edge(a, b) = <<a, b>> \/ Edge(a, b) = <<b, a>>
BY DEF Edge, Min, Max

\* The edges of a unit join the tips of links, and what the tips stand for.
LEMMA UnitEdgesSound ==
  ASSUME LabelTypes, TipsOfStage, PoolInv, NEW k \in 1 .. Limit
  PROVE  EdgesOf(units[k]) \subseteq Orders \X Orders /\ Entails(StageLinks, EdgesOf(units[k]))
<1> DEFINE A == UNION {Parts[p] : p \in units[k]}
<1>1. Joins(tip, Merged, Orders) /\ Orders \subseteq Nat
  BY PartsAssumption DEF TipsOfStage
<1>2. ASSUME NEW e \in EdgesOf(units[k])
      PROVE  \E l \in LinksIn(A) : \/ e = <<tip[l[1]], tip[l[2]]>>
                                   \/ e = <<tip[l[2]], tip[l[1]]>>
  <2>1. PICK l \in LinksIn(A) : e = Edge(tip[l[1]], tip[l[2]])
    BY DEF EdgesOf
  <2>2. l \in Orders \X Orders
    BY LinksFinite
  <2>3. tip[l[1]] \in Nat /\ tip[l[2]] \in Nat
    BY <1>1, <2>2 DEF Joins
  <2>4. QED
    BY <2>1, <2>3, EdgeEnds
<1>3. LinksIn(A) \subseteq Orders \X Orders
  BY LinksFinite
<1>4. LinksIn(A) \subseteq StageLinks /\ Merged \subseteq StageLinks
  BY MergedBefore DEF StageLinks, UnitLinks
<1> HIDE DEF A
<1>5. EdgesOf(units[k]) \subseteq Orders \X Orders
  <2>1. ASSUME NEW e \in EdgesOf(units[k]) PROVE e \in Orders \X Orders
    <3>1. PICK l \in LinksIn(A) : \/ e = <<tip[l[1]], tip[l[2]]>>
                                  \/ e = <<tip[l[2]], tip[l[1]]>>
      BY <1>2
    <3>2. l[1] \in Orders /\ l[2] \in Orders
      BY <1>3
    <3>3. tip[l[1]] \in Orders /\ tip[l[2]] \in Orders
      BY <1>1, <3>2 DEF Joins
    <3>4. QED
      BY <3>1, <3>3
  <2>2. QED
    BY <2>1
<1>6. ASSUME NEW f \in [Orders -> Orders], Respects(f, StageLinks), NEW e \in EdgesOf(units[k])
      PROVE  f[e[1]] = f[e[2]]
  <2>1. PICK l \in LinksIn(A) : \/ e = <<tip[l[1]], tip[l[2]]>>
                                \/ e = <<tip[l[2]], tip[l[1]]>>
    BY <1>2
  <2>2. Respects(f, Merged) /\ f[l[1]] = f[l[2]]
    BY <1>4, <1>6 DEF Respects
  <2>3. l[1] \in Orders /\ l[2] \in Orders
    BY <1>3
  <2>4. f[tip[l[1]]] = f[l[1]] /\ f[tip[l[2]]] = f[l[2]]
    BY <1>1, <2>2, <2>3 DEF Joins
  <2>5. QED
    BY <2>1, <2>2, <2>4
<1>7. QED
  BY <1>5, <1>6 DEF Entails, Respects

\* A unit is walked: its edges are between tips, and the links of the unit entail them.
LEMMA LabelsWalk ==
  ASSUME LabelInv, MergeInv, PoolInv, PhaseInv, PhaseInv', NEW q \in PEs, WalkUnit(q)
  PROVE  LabelInv'
<1>1. InB
  BY PhaseOf DEF WalkUnit, Draining
<1>2. UNCHANGED <<links, held, root, repLabel, tip, tipMap, units, b2Begin, stage, done, edges>>
  BY DEF WalkUnit, inputs, registry, labels, pool, merge
<1>3. InB' /\ ~ InA /\ ~ InA'
  BY <1>1, <1>2, StaysInB, OnePhase, OnePhaseNext
<1>4. LabelTypes /\ EdgesSound /\ TipsOfStage
  BY <1>1 DEF LabelInv
<1>5. PICK k \in 1 .. Limit : unit[q] = units[k]
  BY <1>4 DEF WalkUnit, TipsOfStage
<1>6. \A r \in PEs : buf'[r] = IF r = q THEN buf[r] \cup EdgesOf(units[k]) ELSE buf[r]
  BY <1>5 DEF WalkUnit, MergeInv
<1>7. /\ EdgesOf(units[k]) \subseteq Orders \X Orders
      /\ Entails(StageLinks, EdgesOf(units[k]))
  BY <1>4, UnitEdgesSound
<1>8. LabelTypes'
  BY <1>2, <1>4, <1>6, <1>7 DEF LabelTypes
<1>9. EdgesSound'
  <2>1. StageLinks' = StageLinks
    BY <1>2, <1>3, StageLinksKept
  <2>2. Entails(StageLinks, edges) /\ \A r \in PEs : Entails(StageLinks, buf'[r])
    <3>1. Entails(StageLinks, edges)
      BY <1>4 DEF EdgesSound
    <3>2. ASSUME NEW r \in PEs PROVE Entails(StageLinks, buf'[r])
      <4>1. Entails(StageLinks, buf[r])
        BY <1>4 DEF EdgesSound
      <4>2. CASE r = q
        <5>1. Entails(StageLinks, buf[r] \cup EdgesOf(units[k]))
          BY <1>7, <4>1, EntailsBoth
        <5>2. QED
          BY <1>6, <4>2, <5>1
      <4>3. CASE r # q
        BY <1>6, <4>1, <4>3
      <4>4. QED
        BY <4>2, <4>3
    <3>3. QED
      BY <3>1, <3>2
  <2>3. QED
    BY <1>2, <2>1, <2>2 DEF EdgesSound, Entails
<1>10. ASSUME NEW r \in PEs, pc'[r] = "walk" PROVE \E j \in 1 .. Limit : unit'[r] = units[j]
  <2>1. r # q
    BY <1>10 DEF WalkUnit, Goto, PhaseInv, ChainTypes
  <2>2. pc[r] = "walk" /\ unit'[r] = unit[r]
    BY <1>10, <2>1 DEF WalkUnit, Goto, PhaseInv, ChainTypes, MergeInv
  <2>3. QED
    BY <1>4, <2>2 DEF TipsOfStage
<1>11. QED
  BY <1>1, <1>2, <1>3, <1>8, <1>9, <1>10, LabelsDrain

\* The links of the units.
LEMMA UnitLinksType ==
  ASSUME LabelTypes, NEW n \in Nat PROVE UnitLinks(n) \in SUBSET (Orders \X Orders)
BY LinksFinite DEF UnitLinks

\* A merge of all the edges of the stage labels the tips by the links of the stage.
LEMMA MergeLabels ==
  ASSUME LabelTypes, EdgesSound, TipsOfStage, PoolInv,
         \A k \in UnitsOfStage : EdgesOf(units[k]) \subseteq edges
  PROVE  /\ MergeBody \in [Orders -> Orders]
         /\ Joins([x \in Orders |-> MergeBody[tip[x]]], StageLinks, Orders)
<1> DEFINE X == UnitLinks(Limit)
<1>1. Orders \in SUBSET Nat /\ Joins(tip, Merged, Orders)
  BY PartsAssumption DEF TipsOfStage
<1>2. Limit \in Nat /\ b2Begin \in Nat /\ Merged \subseteq StageLinks
  BY MergedBefore
<1>3. X \in SUBSET (Orders \X Orders)
  BY <1>2, UnitLinksType
<1>4. Merged \cup X = StageLinks
  BY <1>2 DEF StageLinks, Merged
<1>5. Joins(MergeBody, edges, Orders)
  <2>1. Joins(Alone(Orders), {}, Orders)
    BY <1>1, AloneJoins
  <2>2. edges \in SUBSET (Orders \X Orders) /\ IsFiniteSet(edges)
    <3>1. IsFiniteSet(Orders \X Orders)
      BY FS_Product, PartsAssumption
    <3>2. QED
      BY <3>1, FS_Subset DEF LabelTypes
  <2>3. Joins(UniteAll(Alone(Orders), edges), {} \cup edges, Orders)
    BY <1>1, <2>1, <2>2, UniteAllJoins
  <2>4. {} \cup edges = edges
    OBVIOUS
  <2>5. QED
    BY <2>3, <2>4 DEF MergeBody
<1>6. \A f \in [Orders -> Orders] : Respects(f, Merged \cup X) => Respects(f, edges)
  BY <1>4 DEF EdgesSound, Entails
<1>7. ASSUME NEW e \in X PROVE tip[e[1]] = tip[e[2]] \/ Edge(tip[e[1]], tip[e[2]]) \in edges
  <2>1. PICK k \in 1 .. Limit : e \in LinksIn(UNION {Parts[p] : p \in units[k]})
    BY DEF UnitLinks
  <2>2. CASE k \in UnitsOfStage
    <3>1. tip[e[1]] = tip[e[2]] \/ Edge(tip[e[1]], tip[e[2]]) \in EdgesOf(units[k])
      BY <2>1 DEF EdgesOf
    <3>2. QED
      BY <2>2, <3>1
  <2>3. CASE k \notin UnitsOfStage
    <3>1. stage = 2 /\ k \in 1 .. b2Begin
      BY <1>2, <2>1, <2>3 DEF UnitsOfStage
    <3>2. e \in Merged
      BY <2>1, <3>1 DEF Merged, UnitLinks
    <3>3. QED
      BY <1>1, <3>2 DEF Joins, Respects
  <2>4. QED
    BY <2>2, <2>3
<1> HIDE DEF X
<1>8. Joins([x \in Orders |-> MergeBody[tip[x]]], Merged \cup X, Orders)
  BY <1>1, <1>3, <1>5, <1>6, <1>7, JoinsInTurn
<1>9. QED
  BY <1>4, <1>5, <1>8 DEF Joins

\* The last deposit of a stage merges, and every tip is on its way to the label of
\* its group.
LEMMA LabelsDeposit ==
  ASSUME LabelInv, MergeInv, PoolInv, PhaseInv, PhaseInv', NEW q \in PEs, DepositB(q)
  PROVE  LabelInv'
<1> DEFINE c == IF stage = 1 THEN "b1" ELSE "b"
<1>1. InB /\ ~ InA /\ ChainTypes
  BY PhaseOf, OnePhase DEF DepositB, Draining, PhaseInv
<1>2. /\ UNCHANGED <<links, held, root, repLabel, tip, units, b2Begin, stage, unit, buf, edges>>
      /\ done' = [done EXCEPT ![c] = @ + 1]
      /\ tipMap' = IF LastDeposit(c) THEN MergeBody ELSE tipMap
  BY DEF DepositB, inputs, registry, labels, pool, drain, Deposit
<1>3. \A r \in PEs : pc'[r] = IF r = q THEN "wait" ELSE pc[r]
  BY <1>1 DEF DepositB, Goto, ChainTypes
<1>4. LabelTypes /\ EdgesSound /\ TipsOfStage /\ Joins(root, Walked, Orders) /\ LabelsAtRoots
  BY <1>1 DEF LabelInv
<1>5. done["a"] = NPEs /\ done["slice"] = NPEs /\ done["b"] # NPEs /\ (stage = 1 => done["b1"] # NPEs)
  BY <1>1, PhaseByCounters DEF InB, Counts
<1>6. done'["a"] = NPEs /\ done'["slice"] = NPEs /\ done'[c] = done[c] + 1
      /\ \A d \in {"b1", "b"} \ {c} : done'[d] = done[d]
  BY <1>1, <1>2, <1>5 DEF ChainTypes, Deposits
<1>7. ~ InA' /\ ~ InSlices'
  BY <1>6, PhasesReadNext DEF PhasesRead
<1>8. CASE ~ LastDeposit(c)
  <2>1. InB'
    BY <1>2, <1>5, <1>6, <1>8, PhasesReadNext DEF PhasesRead, LastDeposit
  <2>2. LabelTypes' /\ EdgesSound'
    <3>1. StageLinks' = StageLinks
      BY <1>1, <1>2, <1>7, StageLinksKept
    <3>2. QED
      BY <1>2, <1>4, <1>8, <3>1 DEF LabelTypes, EdgesSound, Entails
  <2>3. ASSUME NEW r \in PEs, pc'[r] = "walk" PROVE \E j \in 1 .. Limit : unit'[r] = units[j]
    BY <1>2, <1>3, <1>4, <2>3 DEF TipsOfStage
  <2>4. QED
    BY <1>1, <1>2, <2>1, <2>2, <2>3, LabelsDrain
<1>9. CASE LastDeposit(c)
  <2>1. \A k \in UnitsOfStage : EdgesOf(units[k]) \subseteq edges
    BY <1>9, LastSeesAll
  <2>2. /\ MergeBody \in [Orders -> Orders]
        /\ Joins([x \in Orders |-> MergeBody[tip[x]]], StageLinks, Orders)
    BY <1>4, <2>1, MergeLabels
  <2>3. tipMap' = MergeBody
    BY <1>2, <1>9
  <2>4. StageLinks' = StageLinks /\ Walked' = Walked
    BY <1>1, <1>2, <1>7, StageLinksKept, WalkedKept, FrozenPastA, FrozenPastANext
  <2>5. LabelTypes' /\ EdgesSound' /\ LabelsAtRoots' /\ Joins(root', Walked', Orders)
    <3>1. LabelTypes'
      BY <1>2, <1>4, <2>2, <2>3 DEF LabelTypes
    <3>2. EdgesSound'
      BY <1>2, <1>4, <2>4 DEF EdgesSound, Entails
    <3>3. \A r \in PEs : Frozen(r)
      BY <1>1, FrozenPastA
    <3>4. LabelsAtRoots'
      BY <1>2, <1>4, <3>3 DEF LabelsAtRoots, Held
    <3>5. QED
      BY <1>2, <1>4, <2>4, <3>1, <3>2, <3>4
  <2>6. tip \in [Orders -> Orders]
    BY <1>4 DEF TipsOfStage, Joins
  <2>7. Joins([x \in Orders |-> tipMap'[tip[x]]], StageLinks', Orders)
    BY <2>2, <2>3, <2>4
  <2>8. done'[c] = NPEs
    BY <1>6, <1>9 DEF LastDeposit
  <2>9. CASE stage = 1
    <3>1. InMiddle' /\ ~ InB' /\ ~ Relabelling'
      BY <1>2, <2>8, <2>9, PhasesReadNext, OnePhaseNext DEF PhasesRead
    <3>2. Rested' = 0
      <4>1. done["mid"] = 0
        BY <1>1, <1>5, <2>9 DEF InB, Counts
      <4>2. done'["mid"] = 0
        BY <1>1, <1>2, <2>9, <4>1 DEF ChainTypes, Deposits
      <4>3. QED
        BY <3>1, <4>2 DEF InMiddle, Counts
    <3>3. Resting' = {}
      BY <3>2, NoneRestsNext DEF Resting
    <3>4. OnTheWay(tip, {})'
      <4>1. \A r \in PEs : \A x \in Held(r)' : tip'[x] = tip[x]
        BY <1>2
      <4>2. QED
        BY <1>2, <2>6, <2>7, <4>1 DEF OnTheWay
    <3>5. (\E t : OnTheWay(t, Resting))'
      <4>1. PICK t : t = tip
        OBVIOUS
      <4>2. OnTheWay(t, Resting)'
        BY <1>2, <3>3, <3>4, <4>1 DEF OnTheWay
      <4>3. QED
        BY <4>2
    <3>6. QED
      BY <1>7, <2>5, <3>1, <3>5 DEF LabelInv
  <2>10. CASE stage # 1
    <3>1. Relabelling' /\ ~ InB' /\ ~ InMiddle'
      BY <1>2, <2>8, <2>10, PhasesReadNext, OnePhaseNext DEF PhasesRead
    <3>2. \A r \in PEs : pc'[r] # "done"
      BY <1>1, <1>3 DEF InB, Waits, At, AtRest, Draining
    <3>3. {r \in PEs : pc'[r] = "done"} = {}
      BY <3>2
    <3>4. (\E t : OnTheWay(t, {r \in PEs : pc[r] = "done"}))'
      <4>1. PICK t : t = tip
        OBVIOUS
      <4>2. \A r \in PEs : \A x \in Held(r)' : tip'[x] = t[x]
        BY <1>2, <4>1
      <4>3. OnTheWay(t, {r \in PEs : pc[r] = "done"})'
        BY <1>2, <2>6, <2>7, <3>3, <4>1, <4>2 DEF OnTheWay
      <4>4. QED
        BY <4>3
    <3>5. QED
      BY <1>7, <2>5, <3>1, <3>4 DEF LabelInv
  <2>11. QED
    BY <2>9, <2>10
<1>10. QED
  BY <1>8, <1>9

\* A relabel by q: the tips of what it holds go through the map.
LEMMA RelabelMaps ==
  ASSUME LabelInv, HolderInv, PhaseInv, ~ InA, NEW q \in PEs, RelabelBody(q),
         \A x \in Held(q) : tip[x] \in Orders,
         UNCHANGED <<links, held, root, tipMap, edges, buf>>
  PROVE  /\ LabelTypes' /\ \A r \in PEs : \A x \in Held(r) : repLabel'[root[x]] = tip'[x]
         /\ \A x \in Held(q) : tip'[x] = tipMap[tip[x]]
         /\ \A r \in PEs \ {q} : \A x \in Held(r) : tip'[x] = tip[x]
<1>1. LabelTypes /\ Joins(root, Walked, Orders) /\ LabelsAtRoots
  BY DEF LabelInv
<1>2. \A r \in PEs : Frozen(r) /\ PastStart(r)
  BY FrozenPastA
<1>3. /\ repLabel' = [x \in Orders |->
           IF x \in Held(q) /\ root[x] = x THEN tipMap[repLabel[x]] ELSE repLabel[x]]
      /\ tip' = [x \in Orders |-> IF x \in Held(q) THEN repLabel'[root[x]] ELSE tip[x]]
  BY DEF RelabelBody, LabelOfRoot
<1>4. ASSUME NEW r \in PEs, NEW x \in Held(r)
      PROVE  /\ x \in Orders /\ root[x] \in Orders /\ root[x] \in Held(r)
             /\ root[root[x]] = root[x] /\ repLabel[root[x]] = tip[x]
  <2>1. root[x] \in Held(r) /\ root[root[x]] = root[x] /\ x \in Orders
    BY <1>2, <1>4, RootWithin
  <2>2. QED
    BY <1>1, <1>2, <1>4, <2>1, HeldType DEF HolderInv, LabelsAtRoots
<1>5. ASSUME NEW x \in Held(q) PROVE repLabel'[root[x]] = tip'[x] /\ tip'[x] = tipMap[tip[x]]
  BY <1>3, <1>4, <1>5
<1>6. ASSUME NEW r \in PEs \ {q}, NEW x \in Held(r)
      PROVE  repLabel'[root[x]] = tip'[x] /\ tip'[x] = tip[x]
  <2>1. x \notin Held(q) /\ root[x] \notin Held(q)
    BY <1>2, <1>4, <1>6, HeldApart
  <2>2. QED
    BY <1>3, <1>4, <1>6, <2>1
<1>7. LabelTypes'
  <2>1. ASSUME NEW x \in Orders PROVE repLabel'[x] \in Orders \cup {Unlabelled}
    <3>1. CASE x \in Held(q) /\ root[x] = x
      <4>1. repLabel'[x] = tipMap[tip[x]] /\ tip[x] \in Orders
        BY <1>3, <1>4, <3>1
      <4>2. QED
        BY <1>1, <4>1 DEF LabelTypes
    <3>2. CASE ~ (x \in Held(q) /\ root[x] = x)
      BY <1>1, <1>3, <2>1, <3>2 DEF LabelTypes
    <3>3. QED
      BY <3>1, <3>2
  <2>2. ASSUME NEW x \in Orders PROVE tip'[x] \in Orders \cup {Unlabelled}
    <3>1. CASE x \in Held(q)
      BY <1>1, <1>5, <3>1 DEF LabelTypes
    <3>2. CASE x \notin Held(q)
      BY <1>1, <1>3, <2>2, <3>2 DEF LabelTypes
    <3>3. QED
      BY <3>1, <3>2
  <2>3. repLabel' \in [Orders -> Orders \cup {Unlabelled}]
    BY <1>3, <2>1
  <2>4. tip' \in [Orders -> Orders \cup {Unlabelled}]
    BY <1>3, <2>2
  <2>5. QED
    BY <1>1, <2>3, <2>4 DEF LabelTypes
<1>8. QED
  BY <1>5, <1>6, <1>7

\* The relabel between the stages; the last one leaves the tips of stage 2.
LEMMA LabelsMiddle ==
  ASSUME LabelInv, HolderInv, HolderInv', PoolInv, PhaseInv, PhaseInv', NEW q \in PEs, MidRelabel(q)
  PROVE  LabelInv'
<1>1. InMiddle /\ ~ InA /\ ~ AtRest(q) /\ ChainTypes
  BY PhaseOf, OnePhase DEF MidRelabel, Takes, AtRest, PhaseInv
<1>2. /\ UNCHANGED <<links, held, root, tipMap, units, b2Begin, edges, buf, pc>>
      /\ RelabelBody(q) /\ done' = [done EXCEPT !["mid"] = @ + 1] /\ pc[q] = "wait"
  BY DEF MidRelabel, inputs, registry, merge, drain, pool, Deposit, Takes
<1>3. EdgesSound /\ Joins(root, Walked, Orders) /\ LabelTypes
  BY <1>1 DEF LabelInv
<1>4. PICK t : OnTheWay(t, Resting)
  BY <1>1 DEF LabelInv
<1>5. \A x \in Held(q) : tip[x] = t[x] /\ t[x] \in Orders /\ x \in Orders
  <2>1. Held(q) \subseteq Orders
    BY HeldType DEF HolderInv
  <2>2. QED
    BY <1>1, <1>4, <2>1 DEF OnTheWay, Resting
<1>6. /\ LabelTypes' /\ \A r \in PEs : \A x \in Held(r) : repLabel'[root[x]] = tip'[x]
      /\ \A x \in Held(q) : tip'[x] = tipMap[t[x]]
      /\ \A r \in PEs \ {q} : \A x \in Held(r) : tip'[x] = tip[x]
  BY <1>1, <1>2, <1>5, RelabelMaps
<1>7. LabelsAtRoots'
  BY <1>2, <1>6 DEF LabelsAtRoots, Held
<1>8. /\ stage = 1 /\ done["a"] = NPEs /\ done["slice"] = NPEs /\ done["b1"] = NPEs
      /\ done["b"] # NPEs /\ done["mid"] = Rested
  BY <1>1, RestedType DEF InMiddle, Counts
<1>9. /\ done'["a"] = NPEs /\ done'["slice"] = NPEs /\ done'["b1"] = NPEs
      /\ done'["b"] # NPEs
  BY <1>1, <1>2, <1>8 DEF ChainTypes, Deposits
<1>10. ~ InA' /\ ~ InSlices' /\ ~ Relabelling'
  BY <1>9, PhasesReadNext DEF PhasesRead
<1>11. Walked' = Walked
  BY <1>1, <1>2, <1>10, WalkedKept, FrozenPastA, FrozenPastANext
<1>12. UnitLinks(b2Begin)' = UnitLinks(b2Begin) /\ UnitLinks(Len(units))' = UnitLinks(Len(units))
  BY <1>2 DEF UnitLinks, LinksIn
<1>13. StageLinks = Walked \cup UnitLinks(b2Begin) /\ StageLinks \subseteq Orders \X Orders
  BY <1>4, <1>8 DEF StageLinks, Limit, OnTheWay, Joins
<1>14. CASE ~ LastDeposit("mid")
  <2>1. stage' = stage
    BY <1>14 DEF MidRelabel
  <2>2. InMiddle' /\ ~ InB'
    BY <1>8, <1>9, <2>1, PhasesReadNext DEF PhasesRead
  <2>3. StageLinks' = StageLinks
    BY <1>1, <1>2, <1>10, <2>1, StageLinksKept
  <2>4. Resting' = Resting \cup {q}
    <3>1. inbox' = [r \in PEs |-> inbox[r] \ (IF r = q THEN {"mid"} ELSE {})]
      BY <1>14 DEF MidRelabel, Reply
    <3>2. inbox[q] = {"mid"}
      BY <1>1 DEF InMiddle, Waits
    <3>3. QED
      BY <1>2, <3>1, <3>2 DEF Resting, AtRest
  <2>5. OnTheWay(t, Resting)'
    <3>1. \A r \in PEs : \A x \in Held(r) :
            tip'[x] = IF r \in Resting \cup {q} THEN tipMap[t[x]] ELSE t[x]
      BY <1>1, <1>4, <1>6 DEF OnTheWay, Resting
    <3>2. \A r \in PEs : Held(r)' = Held(r)
      BY <1>2 DEF Held
    <3>3. QED
      BY <1>2, <1>4, <2>3, <2>4, <3>1, <3>2 DEF OnTheWay
  <2>6. EdgesSound'
    BY <1>2, <1>3, <2>3 DEF EdgesSound, Entails
  <2>7. (\E s : OnTheWay(s, Resting))'
    BY <2>5
  <2>8. QED
    BY <1>2, <1>3, <1>6, <1>7, <1>10, <1>11, <2>2, <2>6, <2>7 DEF LabelInv
<1>15. CASE LastDeposit("mid")
  <2>1. stage' = 2 /\ done["mid"] + 1 = NPEs
    BY <1>15 DEF MidRelabel, LastDeposit
  <2>2. InB' /\ ~ InMiddle'
    BY <1>9, <2>1, PhasesReadNext DEF PhasesRead
  <2>3. \A r \in PEs \ {q} : r \in Resting
    BY <1>1, <1>8, <2>1, OnlyLast DEF Resting
  <2>4. ASSUME NEW x \in Orders PROVE tip'[x] = tipMap[t[x]]
    <3>1. PICK r \in PEs : x \in Held(r)
      BY <1>2, <1>9, SettledNext DEF Held
    <3>2. QED
      BY <1>4, <1>6, <2>3, <3>1 DEF OnTheWay
  <2>5. tip' = [x \in Orders |-> tipMap[t[x]]]
    <3>1. tip' = [x \in Orders |-> tip'[x]]
      BY <1>6 DEF LabelTypes
    <3>2. QED
      BY <2>4, <3>1
  <2>6. Merged' = StageLinks
    BY <1>2, <1>11, <1>12, <1>13, <2>1 DEF Merged
  <2>7. TipsOfStage'
    <3>1. Joins(tip', Merged', Orders)
      BY <1>4, <2>5, <2>6 DEF OnTheWay
    <3>2. \A r \in PEs : pc'[r] # "walk"
      BY <1>1, <1>2 DEF InMiddle, Waits, AtRest
    <3>3. QED
      BY <3>1, <3>2 DEF TipsOfStage
  <2>8. EdgesSound'
    <3>1. StageLinks' = Walked \cup UnitLinks(Len(units))
      BY <1>11, <1>12, <2>1 DEF StageLinks, Limit
    <3>2. StageLinks \subseteq StageLinks'
      <4>1. b2Begin \in Nat /\ Len(units) \in Nat /\ b2Begin <= Len(units)
        BY LenProperties DEF PoolInv
      <4>2. 1 .. b2Begin \subseteq 1 .. Len(units)
        BY <4>1
      <4>3. QED
        BY <1>13, <3>1, <4>2 DEF UnitLinks
    <3>3. QED
      BY <1>2, <1>3, <3>2 DEF EdgesSound, Entails, Respects
  <2>9. QED
    BY <1>2, <1>3, <1>6, <1>7, <1>10, <1>11, <2>2, <2>7, <2>8 DEF LabelInv
<1>16. QED
  BY <1>14, <1>15

\* The last relabel.
LEMMA LabelsRelabel ==
  ASSUME LabelInv, HolderInv, PoolInv, PhaseInv, PhaseInv', NEW q \in PEs, RelabelChained(q)
  PROVE  LabelInv'
<1>1. Relabelling /\ ~ InA /\ pc[q] = "wait" /\ ChainTypes
  BY PhaseOf, OnePhase DEF RelabelChained, Takes, PhaseInv
<1>2. /\ UNCHANGED <<links, held, root, tipMap, units, b2Begin, stage, edges, buf, done>>
      /\ RelabelBody(q)
  BY DEF RelabelChained, inputs, registry, merge, drain, pool
<1>3. EdgesSound /\ Joins(root, Walked, Orders) /\ LabelTypes
  BY <1>1 DEF LabelInv
<1>4. PICK t : OnTheWay(t, {r \in PEs : pc[r] = "done"})
  BY <1>1 DEF LabelInv
<1>5. \A x \in Held(q) : tip[x] = t[x] /\ t[x] \in Orders /\ x \in Orders
  <2>1. Held(q) \subseteq Orders
    BY HeldType DEF HolderInv
  <2>2. QED
    BY <1>1, <1>4, <2>1 DEF OnTheWay
<1>6. /\ LabelTypes' /\ \A r \in PEs : \A x \in Held(r) : repLabel'[root[x]] = tip'[x]
      /\ \A x \in Held(q) : tip'[x] = tipMap[t[x]]
      /\ \A r \in PEs \ {q} : \A x \in Held(r) : tip'[x] = tip[x]
  BY <1>1, <1>2, <1>5, RelabelMaps
<1>7. LabelsAtRoots'
  BY <1>2, <1>6 DEF LabelsAtRoots, Held
<1>8. Relabelling' /\ ~ InA' /\ ~ InSlices' /\ ~ InB' /\ ~ InMiddle'
  <2>1. PhasesRead /\ PhasesRead'
    BY PhaseByCounters, PhasesReadNext DEF PhasesRead
  <2>2. Relabelling'
    BY <1>1, <1>2, <2>1 DEF PhasesRead
  <2>3. QED
    BY <2>2, OnePhaseNext DEF Relabelling, InSlices, Counts
<1>9. Walked' = Walked /\ StageLinks' = StageLinks
  BY <1>1, <1>2, <1>8, WalkedKept, StageLinksKept, FrozenPastA, FrozenPastANext
<1>10. \A r \in PEs : pc'[r] = IF r = q THEN "done" ELSE pc[r]
  BY <1>1 DEF RelabelChained, Goto, ChainTypes
<1>11. {r \in PEs : pc'[r] = "done"} = {r \in PEs : pc[r] = "done"} \cup {q}
  BY <1>10
<1>12. (\E s : OnTheWay(s, {r \in PEs : pc[r] = "done"}))'
  <2>1. \A r \in PEs : \A x \in Held(r) :
          tip'[x] = IF r \in {o \in PEs : pc[o] = "done"} \cup {q} THEN tipMap[t[x]] ELSE t[x]
    BY <1>1, <1>4, <1>6 DEF OnTheWay
  <2>2. \A r \in PEs : Held(r)' = Held(r)
    BY <1>2 DEF Held
  <2>3. OnTheWay(t, {r \in PEs : pc[r] = "done"})'
    BY <1>2, <1>4, <1>9, <1>11, <2>1, <2>2 DEF OnTheWay
  <2>4. QED
    BY <2>3
<1>13. EdgesSound'
  BY <1>2, <1>3, <1>9 DEF EdgesSound, Entails
<1>14. QED
  BY <1>2, <1>3, <1>6, <1>7, <1>8, <1>9, <1>12, <1>13 DEF LabelInv

\* A step that changes nothing.
LEMMA LabelsStutter ==
  ASSUME LabelInv, UNCHANGED vars
  PROVE  LabelInv'
<1>1. /\ UNCHANGED <<links, held, root, repLabel, tip, pc, inbox, units, b2Begin, stage, unit, buf,
                     edges, tipMap, done>>
  BY DEF vars
<1>2. Walked' = Walked
  BY <1>1, WalkedKept DEF PastStart, PastClaims
<1>3. UnitLinks(Limit)' = UnitLinks(Limit) /\ UnitLinks(b2Begin)' = UnitLinks(b2Begin)
      /\ UnitLinks(0)' = UnitLinks(0) /\ Limit' = Limit
  BY <1>1 DEF UnitLinks, LinksIn, Limit
<1>4. StageLinks' = StageLinks /\ Merged' = Merged
  BY <1>1, <1>2, <1>3 DEF StageLinks, Merged
<1>5. Resting' = Resting
  BY <1>1 DEF Resting, AtRest
<1>6. /\ InA' = InA /\ InSlices' = InSlices /\ InB' = InB /\ InMiddle' = InMiddle
      /\ Relabelling' = Relabelling
  BY <1>1, <1>5 DEF InA, InSlices, InB, InMiddle, Relabelling, At, AtRest, Waits, Counts, Rested
<1>7. /\ LabelTypes' = LabelTypes /\ LabelsAtRoots' = LabelsAtRoots /\ Fresh' = Fresh
  BY <1>1 DEF LabelTypes, LabelsAtRoots, Fresh, Frozen, Held
<1>8. EdgesSound => EdgesSound'
  BY <1>1, <1>4 DEF EdgesSound, Entails
<1>9. TipsOfStage => TipsOfStage'
  BY <1>1, <1>3, <1>4 DEF TipsOfStage
<1>10. \A t, S : OnTheWay(t, S) => OnTheWay(t, S)'
  <2>1. \A r \in PEs : Held(r)' = Held(r)
    BY <1>1 DEF Held
  <2>2. QED
    BY <1>1, <1>4, <2>1 DEF OnTheWay
<1>11. (\E t : OnTheWay(t, Resting)) => (\E t : OnTheWay(t, Resting))'
  BY <1>5, <1>10
<1>12. (\E t : OnTheWay(t, {q \in PEs : pc[q] = "done"})) => (\E t : OnTheWay(t, {q \in PEs : pc[q] = "done"}))'
  BY <1>1, <1>10
<1>13. Joins(root, Walked, Orders)' = Joins(root, Walked, Orders)
  BY <1>1, <1>2
<1>14. QED
  BY <1>6, <1>7, <1>8, <1>9, <1>11, <1>12, <1>13 DEF LabelInv

\* Every step keeps the labelling.
LEMMA LabelsNext ==
  LabelInv /\ PhaseInv /\ PhaseInv' /\ HolderInv /\ HolderInv' /\ PoolInv /\ MergeInv /\ [Next]_vars
    => LabelInv'
<1> SUFFICES ASSUME LabelInv, PhaseInv, PhaseInv', HolderInv, HolderInv', PoolInv, MergeInv, [Next]_vars
             PROVE  LabelInv'
  OBVIOUS
<1>1. CASE UNCHANGED vars
  BY <1>1, LabelsStutter
<1>2. ASSUME NEW q \in PEs, Step(q) PROVE LabelInv'
  <2>1. CASE WalkRegistered(q)
    BY <2>1, LabelsRegistered
  <2>2. CASE StartClaims(q)
    BY <2>2, LabelsStart
  <2>3. CASE Claim(q)
    BY <2>3, LabelsClaim
  <2>4. CASE CrossPass(q)
    BY <2>4, LabelsCross
  <2>5. CASE Freeze(q)
    BY <2>5, LabelsFreeze
  <2>6. CASE BuildPoolSlice(q)
    BY <2>6, LabelsSlice
  <2>7. CASE EnterPhaseB(q)
    BY <2>7, LabelsEnter
  <2>8. CASE ClaimUnit(q)
    BY <2>8, LabelsClaimUnit
  <2>9. CASE WalkUnit(q)
    BY <2>9, LabelsWalk
  <2>10. CASE SubmitEdges(q)
    BY <2>10, LabelsSubmit
  <2>11. CASE DepositB(q)
    BY <2>11, LabelsDeposit
  <2>12. CASE MidRelabel(q)
    BY <2>12, LabelsMiddle
  <2>13. CASE RelabelChained(q)
    BY <2>13, LabelsRelabel
  <2>14. QED
    BY <1>2, <2>1, <2>2, <2>3, <2>4, <2>5, <2>6, <2>7, <2>8, <2>9, <2>10, <2>11, <2>12, <2>13 DEF Step
<1>3. QED
  BY <1>1, <1>2 DEF Next

-----------------------------------------------------------------------------
\* The end.  The links inside a PE and those of the units are the links phase 1
\* answers for.

\* Every particle has one holder.
LEMMA HolderIs ==
  ASSUME Settled, NEW q \in PEs, NEW x \in Held(q)
  PROVE  HolderOf(x) = q
<1> DEFINE Has(r) == x \in UNION {Parts[p] : p \in Range(bucket[r])}
<1>1. PICK p \in Range(held[q]) : x \in Parts[p]
  BY DEF Held
<1>2. ASSUME NEW r \in PEs, Has(r) PROVE r = q
  <2>1. PICK o \in Range(held[r]) : x \in Parts[o]
    BY <1>2 DEF Settled
  <2>2. p \in Pieces /\ o \in Pieces
    BY HeldType DEF Settled
  <2>3. o = p
    BY <1>1, <2>1, <2>2, PartsAssumption
  <2>4. QED
    BY <1>1, <2>1, <2>2, <2>3 DEF Settled
<1>3. Has(q)
  BY <1>1 DEF Settled
<1> HIDE DEF Has
<1>4. (CHOOSE r \in PEs : Has(r)) = q
  BY <1>2, <1>3
<1>5. QED
  BY <1>4 DEF HolderOf, Has

\* The holders of the pieces of a unit are in one set.
LEMMA UnitOfOneSet ==
  ASSUME Settled, NEW list, Lists(units, list, Shared), NEW k \in 1 .. Len(units),
         NEW p \in units[k], NEW r \in units[k], NEW h \in PEs, NEW g \in PEs,
         p \in Range(held[h]), r \in Range(held[g])
  PROVE  peSet[h] = peSet[g]
<1>1. units[k] = PairOf(list[k]) /\ list[k] \in Shared
  BY LenProperties DEF Lists, Range
<1>2. PICK x \in Places : units[k] = PairAt(x)
  BY <1>1, SharedIs
<1>3. /\ x[1] \in PEs /\ x[2] \in PEs /\ peSet[x[1]] = peSet[x[2]]
      /\ x[3] \in DOMAIN held[x[1]] /\ x[4] \in DOMAIN held[x[2]]
      /\ units[k] = {held[x[1]][x[3]], held[x[2]][x[4]]}
  BY <1>2, PlaceIs
<1>4. ASSUME NEW o \in units[k], NEW q \in PEs, o \in Range(held[q]) PROVE q \in {x[1], x[2]}
  <2>1. o \in Pieces
    BY <1>4, HeldType DEF Settled
  <2>2. o \in Range(held[x[1]]) \/ o \in Range(held[x[2]])
    BY <1>3, <1>4 DEF Range
  <2>3. QED
    BY <1>3, <1>4, <2>1, <2>2 DEF Settled
<1>5. h \in {x[1], x[2]} /\ g \in {x[1], x[2]}
  BY <1>4
<1>6. QED
  BY <1>3, <1>5

\* Two near pieces of two PEs of one set are a unit.
IsUnit(pair) == \E k \in 1 .. Len(units) : units[k] = pair

\* Two near pieces with holders in one set are a unit of the pool.
LEMMA UnitFor ==
  ASSUME Settled, NEW list, Lists(units, list, Shared), NEW h \in PEs, NEW g \in PEs, h # g,
         peSet[h] = peSet[g], NEW p \in Range(held[h]), NEW r \in Range(held[g]), NEW pair \in Near, pair = {p, r}
  PROVE  IsUnit(pair)
<1>1. p \in Pieces /\ r \in Pieces
  BY HeldType DEF Settled
<1>2. Homes(pair) = {h, g}
  BY <1>1, HomesAre DEF Settled
<1>3. Cardinality(Homes(pair)) = 2
  BY <1>2, TwoElements
<1>4. Cardinality({peSet[q] : q \in Homes(pair)}) = 1
  <2>1. {peSet[q] : q \in Homes(pair)} = {peSet[h]}
    BY <1>2
  <2>2. QED
    BY <2>1, FS_Singleton
<1>5. Cardinality({k \in DOMAIN units : units[k] = pair}) = 1
  BY <1>3, <1>4, UnitsFollow
<1>6. {k \in DOMAIN units : units[k] = pair} # {}
  <2>1. Cardinality({}) = 0
    BY FS_EmptySet
  <2>2. QED
    BY <1>5, <2>1
<1>7. DOMAIN units = 1 .. Len(units)
  BY LenProperties DEF Lists
<1>8. QED
  BY <1>6, <1>7 DEF IsUnit

\* The links that PEs walked and those of the units are the links that phase 1
\* answers for.
LEMMA AnsweredLinks ==
  ASSUME Settled, PhaseInv, ~ InA, links \in Layouts, NEW list, Lists(units, list, Shared)
  PROVE  Walked \cup UnitLinks(Len(units)) = Answered
<1>1. \A r \in PEs : PastStart(r) /\ OwnLinks(r) = LinksIn(Held(r))
  BY FrozenPastA DEF OwnLinks
<1>2. ASSUME NEW e \in Walked PROVE e \in Answered
  <2>1. PICK r \in PEs : e \in links /\ e[1] \in Held(r) /\ e[2] \in Held(r)
    BY <1>1 DEF Walked, LinksIn
  <2>2. HolderOf(e[1]) = r /\ HolderOf(e[2]) = r
    BY <2>1, HolderIs
  <2>3. QED
    BY <2>1, <2>2 DEF Answered
<1>3. ASSUME NEW e \in UnitLinks(Len(units)) PROVE e \in Answered
  <2>1. PICK k \in 1 .. Len(units) : e \in LinksIn(UNION {Parts[p] : p \in units[k]})
    BY DEF UnitLinks
  <2>2. PICK p \in units[k], r \in units[k] : e \in links /\ e[1] \in Parts[p] /\ e[2] \in Parts[r]
    BY <2>1 DEF LinksIn
  <2>3. units[k] \subseteq Pieces
    BY NearAssumption DEF Lists
  <2>4. PICK h \in PEs : p \in Range(held[h])
    BY <2>3 DEF Settled
  <2>5. PICK g \in PEs : r \in Range(held[g])
    BY <2>3 DEF Settled
  <2>6. peSet[h] = peSet[g]
    BY <2>4, <2>5, UnitOfOneSet
  <2>7. HolderOf(e[1]) = h /\ HolderOf(e[2]) = g
    BY <2>2, <2>4, <2>5, HolderIs DEF Held
  <2>8. QED
    BY <2>2, <2>6, <2>7 DEF Answered
<1>4. ASSUME NEW e \in Answered PROVE e \in Walked \cup UnitLinks(Len(units))
  <2>1. e \in links /\ e[1] \in Orders /\ e[2] \in Orders
    BY LayoutsAssumption DEF Answered
  <2>2. PICK h \in PEs : e[1] \in Held(h)
    BY <2>1, AllHeld
  <2>3. PICK g \in PEs : e[2] \in Held(g)
    BY <2>1, AllHeld
  <2>4. peSet[h] = peSet[g]
    BY <2>2, <2>3, HolderIs DEF Answered
  <2>5. CASE h = g
    BY <1>1, <2>1, <2>2, <2>3, <2>5 DEF Walked, LinksIn
  <2>6. CASE h # g
    <3>1. PICK p \in Range(held[h]) : e[1] \in Parts[p]
      BY <2>2 DEF Held
    <3>2. PICK r \in Range(held[g]) : e[2] \in Parts[r]
      BY <2>3 DEF Held
    <3>3. p \in Pieces /\ r \in Pieces
      BY HeldType DEF Settled
    <3>4. p # r
      BY <2>6, <3>3 DEF Settled
    <3>5. {p, r} \in Near
      BY <2>1, <3>1, <3>2, <3>3, <3>4, NearAssumption
    <3>6. PICK k \in 1 .. Len(units) : units[k] = {p, r}
      <4>1. PICK pair \in Near : pair = {p, r}
        BY <3>5
      <4>2. IsUnit(pair)
        BY <2>4, <2>6, <4>1, UnitFor
      <4>3. QED
        BY <4>1, <4>2 DEF IsUnit
    <3>7. e \in LinksIn(UNION {Parts[o] : o \in units[k]})
      BY <2>1, <3>1, <3>2, <3>6 DEF LinksIn
    <3>8. QED
      BY <3>7 DEF UnitLinks
  <2>7. QED
    BY <2>5, <2>6
<1>5. QED
  BY <1>2, <1>3, <1>4

\* When the chain has ended, the tips are what the reference finds.
LEMMA FinishedLabels ==
  ASSUME LabelInv, PhaseInv, HolderInv, PoolInv, links \in Layouts, Finished, NEW x \in Orders
  PROVE  tip[x] = LeastReached(Answered, x, Cardinality(Orders))
<1>1. PICK q \in PEs : pc[q] = "done"
  BY PEsAssumption DEF Finished
<1>2. Relabelling /\ ~ InA
  BY <1>1, OnePhase DEF PhaseInv, InA, InSlices, InB, InMiddle, Waits, At, AtRest, Claiming, Draining
<1>3. PICK t : OnTheWay(t, {r \in PEs : pc[r] = "done"})
  BY <1>2 DEF LabelInv
<1>4. Settled
  BY <1>2, SettledPastA
<1>5. ASSUME NEW y \in Orders PROVE tip[y] = tipMap[t[y]]
  <2>1. PICK r \in PEs : y \in Held(r)
    BY <1>4, AllHeld
  <2>2. QED
    BY <1>3, <2>1 DEF OnTheWay, Finished
<1>6. tip = [y \in Orders |-> tipMap[t[y]]]
  <2>1. tip = [y \in Orders |-> tip[y]]
    BY DEF LabelInv, LabelTypes
  <2>2. QED
    BY <1>5, <2>1
<1>7. PICK list : Lists(units, list, Shared)
  BY <1>2 DEF PoolInv, Relabelling, Counts
<1>8. StageLinks = Walked \cup UnitLinks(Len(units))
  BY <1>2 DEF StageLinks, Limit, Relabelling
<1>9. Joins(tip, Answered, Orders)
  <2>1. Walked \cup UnitLinks(Len(units)) = Answered
    BY <1>2, <1>4, <1>7, AnsweredLinks
  <2>2. QED
    BY <1>3, <1>6, <1>8, <2>1 DEF OnTheWay
<1>10. QED
  BY <1>9, PartsAssumption, LeastReachedIsLabel

-----------------------------------------------------------------------------
\* The cursors.  A PE goes past the limit of the stage at most once.

PastDrain == {q \in PEs : pc[q] \in {"submit", "deposit"} \/ AtRest(q)}

CursorInv ==
  /\ cursor \in Nat /\ cursor <= Len(units) + NPEs
  /\ b2Cursor \in Nat /\ b2Cursor <= Len(units) + NPEs
  /\ InB => StageCursor <= Limit + Cardinality(PastDrain)

\* The PEs that are past the drain are finitely many.
LEMMA PastDrainFinite ==
  IsFiniteSet(PastDrain) /\ Cardinality(PastDrain) \in Nat /\ Cardinality(PastDrain) <= NPEs
<1>1. PastDrain \subseteq PEs
  BY DEF PastDrain
<1>2. QED
  BY <1>1, PEsAssumption, FS_Subset, FS_CardinalityType DEF NPEs

\* The same of the state after a step.
LEMMA PastDrainFiniteNext ==
  (IsFiniteSet(PastDrain) /\ Cardinality(PastDrain) \in Nat /\ Cardinality(PastDrain) <= NPEs)'
BY PastDrainFinite, PTL

\* At the start both cursors are at 0.
LEMMA CursorInit == Init => CursorInv
<1> SUFFICES ASSUME Init PROVE CursorInv
  OBVIOUS
<1>1. cursor = 0 /\ b2Cursor = 0 /\ Len(units) = 0 /\ Limit = 0 /\ StageCursor = 0
  BY DEF Init, Limit, StageCursor
<1>2. QED
  BY <1>1, PastDrainFinite, RestedType DEF CursorInv

\* A step that leaves the cursors.
LEMMA CursorsKept ==
  ASSUME CursorInv, InB' => InB /\ PastDrain \subseteq PastDrain',
         PoolInv, UNCHANGED <<cursor, b2Cursor, units, b2Begin, stage>>
  PROVE  CursorInv'
<1>1. Limit' = Limit /\ StageCursor' = StageCursor
  BY DEF Limit, StageCursor
<1>2. InB' => Cardinality(PastDrain) <= Cardinality(PastDrain)'
  BY PastDrainFiniteNext, FS_Subset
<1>3. Limit \in Nat /\ Cardinality(PastDrain) \in Nat /\ Cardinality(PastDrain)' \in Nat
      /\ StageCursor \in Nat
  BY PastDrainFinite, PastDrainFiniteNext, MergedBefore DEF StageCursor, CursorInv
<1>4. ASSUME InB' PROVE StageCursor' <= Limit' + Cardinality(PastDrain)'
  <2>1. StageCursor <= Limit + Cardinality(PastDrain)
    BY <1>4 DEF CursorInv
  <2>2. QED
    BY <1>1, <1>2, <1>3, <1>4, <2>1
<1>5. QED
  BY <1>4 DEF CursorInv

\* One more unit is taken, or one more PE is past the drain.
LEMMA CursorClaim ==
  ASSUME CursorInv, PoolInv, PhaseInv, NEW q \in PEs, ClaimUnit(q)
  PROVE  CursorInv'
<1>1. InB /\ ChainTypes /\ pc[q] = "drain"
  BY PhaseOf DEF ClaimUnit, Draining, PhaseInv
<1>2. UNCHANGED <<units, b2Begin, stage, inbox>> /\ Limit' = Limit
  BY DEF ClaimUnit, pool, Limit
<1>3. /\ StageCursor' = StageCursor + 1 /\ TakeFrom(q, StageCursor, Limit)
      /\ {cursor', b2Cursor'} \subseteq {cursor, b2Cursor, StageCursor + 1}
  BY DEF ClaimUnit, StageCursor, Limit, pool
<1>4. /\ Limit \in Nat /\ Limit <= Len(units) /\ Len(units) \in Nat /\ StageCursor \in Nat /\ NPEs \in Nat
      /\ NPEs > 0
  BY MergedBefore, LenProperties, RestedType DEF PoolInv, Limit, CursorInv, StageCursor
<1>5. PastDrain \subseteq PastDrain' /\ q \notin PastDrain
  <2>1. PICK s : pc' = [pc EXCEPT ![q] = s]
    BY <1>3 DEF TakeFrom, Goto
  <2>2. q \notin PastDrain
    BY <1>1 DEF PastDrain, AtRest
  <2>3. QED
    BY <1>1, <1>2, <2>1, <2>2 DEF PastDrain, AtRest, ChainTypes
<1>6. StageCursor + 1 <= Limit + Cardinality(PastDrain)'
  <2>1. CASE StageCursor < Limit
    BY <1>4, <2>1, PastDrainFiniteNext
  <2>2. CASE ~ (StageCursor < Limit)
    <3>1. q \in PastDrain'
      BY <1>1, <1>3, <2>2 DEF TakeFrom, Goto, ChainTypes, PastDrain
    <3>2. PastDrain \cup {q} \subseteq PastDrain'
      BY <1>5, <3>1
    <3>3. Cardinality(PastDrain \cup {q}) = Cardinality(PastDrain) + 1
      BY <1>5, PastDrainFinite, FS_AddElement
    <3>4. Cardinality(PastDrain \cup {q}) <= Cardinality(PastDrain)'
      BY <3>2, PastDrainFiniteNext, FS_Subset
    <3>5. StageCursor <= Limit + Cardinality(PastDrain)
      BY <1>1 DEF CursorInv
    <3>6. QED
      BY <1>4, <3>3, <3>4, <3>5, PastDrainFinite, PastDrainFiniteNext
  <2>3. QED
    BY <2>1, <2>2
<1>7. StageCursor + 1 <= Len(units) + NPEs
  BY <1>4, <1>6, PastDrainFiniteNext
<1>8. QED
  BY <1>2, <1>3, <1>4, <1>6, <1>7 DEF CursorInv

\* Every step keeps the bound on the cursors.
LEMMA CursorNext ==
  CursorInv /\ PhaseInv /\ PhaseInv' /\ PoolInv /\ PoolInv' /\ MergeInv /\ [Next]_vars => CursorInv'
<1> SUFFICES ASSUME CursorInv, PhaseInv, PhaseInv', PoolInv, PoolInv', MergeInv, [Next]_vars
             PROVE  CursorInv'
  OBVIOUS
<1>1. ChainTypes
  BY DEF PhaseInv
<1>2. CASE UNCHANGED vars
  <2>1. UNCHANGED <<cursor, b2Cursor, units, b2Begin, stage, pc, inbox, done>>
    BY <1>2 DEF vars
  <2>2. InB' => InB /\ PastDrain \subseteq PastDrain'
    BY <2>1 DEF InB, Waits, At, AtRest, Counts, Rested, Resting, PastDrain
  <2>3. QED
    BY <2>1, <2>2, CursorsKept
<1>3. ASSUME NEW q \in PEs, Step(q) PROVE CursorInv'
  <2>1. CASE WalkRegistered(q) \/ StartClaims(q) \/ Claim(q) \/ CrossPass(q) \/ Freeze(q)
    <3>1. /\ pc[q] \in Claiming /\ UNCHANGED <<cursor, b2Cursor, units, b2Begin, stage>>
          /\ done'["slice"] = done["slice"]
      BY <1>1, <2>1 DEF WalkRegistered, StartClaims, Claim, CrossPass, Freeze, Claiming, pool, drain,
                        Deposit, ChainTypes, Deposits
    <3>2. ~ InB'
      <4>1. InA
        BY <3>1, PhaseOf
      <4>2. QED
        BY <3>1, <4>1, RestedType DEF InA, InB, Counts
    <3>3. QED
      BY <3>1, <3>2, CursorsKept
  <2>2. CASE BuildPoolSlice(q)
    <3>1. InSlices /\ NPEs \in Nat /\ NPEs > 0
      BY <2>2, PhaseOf, RestedType DEF BuildPoolSlice
    <3>2. CASE ~ LastDeposit("slice")
      <4>1. UNCHANGED <<units, b2Begin, b2Cursor, stage, cursor>>
        BY <2>2, <3>2 DEF BuildPoolSlice
      <4>2. ~ InB'
        <5>1. done'["slice"] = done["slice"] + 1
          BY <1>1, <2>2 DEF BuildPoolSlice, Deposit, ChainTypes, Deposits
        <5>2. QED
          BY <3>2, <5>1 DEF LastDeposit, InB, Counts
      <4>3. QED
        BY <4>1, <4>2, CursorsKept
    <3>3. CASE LastDeposit("slice")
      <4>1. cursor' = 0 /\ b2Cursor' = b2Begin' /\ stage' \in {0, 1}
        BY <2>2, <3>3 DEF BuildPoolSlice, Assemble
      <4>2. b2Begin' \in Nat /\ Len(units') \in Nat /\ b2Begin' <= Len(units')
        BY LenProperties DEF PoolInv
      <4>3. StageCursor' = 0 /\ Limit' \in Nat
        BY <4>1, <4>2 DEF StageCursor, Limit
      <4>4. QED
        BY <3>1, <4>1, <4>2, <4>3, PastDrainFiniteNext DEF CursorInv
    <3>4. QED
      BY <3>2, <3>3
  <2>3. CASE EnterPhaseB(q)
    <3>1. UNCHANGED <<cursor, b2Cursor, units, b2Begin, stage>>
      BY <2>3 DEF EnterPhaseB, pool, drain
    <3>2. InB
      BY <2>3, PhaseOf DEF EnterPhaseB
    <3>3. PastDrain \subseteq PastDrain'
      <4>1. q \notin PastDrain
        BY <2>3 DEF EnterPhaseB, Takes, PastDrain, AtRest
      <4>2. \A r \in PEs \ {q} : pc'[r] = pc[r] /\ inbox'[r] = inbox[r]
        BY <1>1, <2>3 DEF EnterPhaseB, Goto, Reply, ChainTypes
      <4>3. QED
        BY <4>1, <4>2 DEF PastDrain, AtRest
    <3>4. QED
      BY <3>1, <3>2, <3>3, CursorsKept
  <2>4. CASE ClaimUnit(q)
    BY <2>4, CursorClaim
  <2>5. CASE WalkUnit(q)
    <3>1. UNCHANGED <<cursor, b2Cursor, units, b2Begin, stage>>
      BY <2>5 DEF WalkUnit, pool
    <3>2. InB
      BY <2>5, PhaseOf DEF WalkUnit, Draining
    <3>3. PastDrain \subseteq PastDrain'
      <4>1. q \notin PastDrain
        BY <2>5 DEF WalkUnit, PastDrain, AtRest
      <4>2. \A r \in PEs \ {q} : pc'[r] = pc[r] /\ inbox'[r] = inbox[r]
        BY <1>1, <2>5 DEF WalkUnit, Goto, ChainTypes
      <4>3. QED
        BY <4>1, <4>2 DEF PastDrain, AtRest
    <3>4. QED
      BY <3>1, <3>2, <3>3, CursorsKept
  <2>6. CASE SubmitEdges(q)
    <3>1. UNCHANGED <<cursor, b2Cursor, units, b2Begin, stage>>
      BY <2>6 DEF SubmitEdges, pool
    <3>2. InB
      BY <2>6, PhaseOf DEF SubmitEdges, Draining
    <3>3. PastDrain \subseteq PastDrain'
      <4>1. \A r \in PEs : inbox'[r] = inbox[r] /\ pc'[r] = IF r = q THEN "deposit" ELSE pc[r]
        BY <1>1, <2>6 DEF SubmitEdges, Goto, ChainTypes
      <4>2. QED
        BY <4>1 DEF PastDrain, AtRest
    <3>4. QED
      BY <3>1, <3>2, <3>3, CursorsKept
  <2>7. CASE DepositB(q)
    <3>1. UNCHANGED <<cursor, b2Cursor, units, b2Begin, stage>>
      BY <2>7 DEF DepositB, pool, drain
    <3>2. InB /\ pc[q] = "deposit"
      BY <2>7, PhaseOf DEF DepositB, Draining
    <3>3. ASSUME InB' PROVE PastDrain \subseteq PastDrain'
      <4>1. ~ LastDeposit(IF stage = 1 THEN "b1" ELSE "b")
        <5>1. PhasesRead'
          BY PhasesReadNext
        <5>2. done'[IF stage = 1 THEN "b1" ELSE "b"] = done[IF stage = 1 THEN "b1" ELSE "b"] + 1
          BY <1>1, <2>7 DEF DepositB, Deposit, ChainTypes, Deposits
        <5>3. QED
          BY <3>1, <3>3, <5>1, <5>2 DEF PhasesRead, LastDeposit
      <4>2. \A r \in PEs : pc'[r] = IF r = q THEN "wait" ELSE pc[r]
        BY <1>1, <2>7 DEF DepositB, Goto, ChainTypes
      <4>3. inbox' = [r \in PEs |-> inbox[r] \ (IF r = q THEN {Nothing} ELSE {})]
        BY <2>7, <4>1 DEF DepositB, Reply
      <4>4. inbox[q] = {}
        BY <3>2 DEF InB, Waits, At, AtRest
      <4>5. QED
        BY <4>2, <4>3, <4>4 DEF PastDrain, AtRest
    <3>4. QED
      BY <3>1, <3>2, <3>3, CursorsKept
  <2>8. CASE MidRelabel(q)
    <3>1. InMiddle
      BY <2>8, PhaseOf DEF MidRelabel
    <3>2. UNCHANGED <<units, b2Begin, cursor, b2Cursor>> /\ stage = 1
      BY <2>8, <3>1 DEF MidRelabel, drain, InMiddle
    <3>3. ASSUME InB' PROVE StageCursor' <= Limit' + Cardinality(PastDrain)'
      <4>1. stage' = 2
        <5>1. done["b1"] = NPEs /\ done'["b1"] = done["b1"]
          BY <1>1, <2>8, <3>1 DEF InMiddle, Counts, MidRelabel, Deposit, ChainTypes, Deposits
        <5>2. stage' # 1
          BY <3>3, <5>1, PhasesReadNext DEF PhasesRead
        <5>3. QED
          BY <2>8, <3>2, <5>2 DEF MidRelabel
      <4>2. StageCursor' = b2Begin /\ Limit' = Len(units)
        BY <3>2, <4>1 DEF StageCursor, Limit, MergeInv
      <4>3. b2Begin \in Nat /\ Len(units) \in Nat /\ b2Begin <= Len(units)
        BY LenProperties DEF PoolInv
      <4>4. QED
        BY <4>2, <4>3, PastDrainFiniteNext
    <3>4. QED
      BY <3>2, <3>3 DEF CursorInv
  <2>9. CASE RelabelChained(q)
    <3>1. UNCHANGED <<cursor, b2Cursor, units, b2Begin, stage, done>>
      BY <2>9 DEF RelabelChained, pool, drain
    <3>2. ~ InB'
      <4>1. Relabelling
        BY <2>9, PhaseOf DEF RelabelChained
      <4>2. done["b"] = NPEs
        BY <4>1, PhaseByCounters
      <4>3. QED
        BY <3>1, <4>2, PhasesReadNext DEF PhasesRead
    <3>3. QED
      BY <3>1, <3>2, CursorsKept
  <2>10. QED
    BY <1>3, <2>1, <2>2, <2>3, <2>4, <2>5, <2>6, <2>7, <2>8, <2>9 DEF Step
<1>4. QED
  BY <1>2, <1>3 DEF Next

-----------------------------------------------------------------------------
\* What the invariant says of the types, and of the end.

ChainInv ==
  PhaseInv /\ HolderInv /\ PoolInv /\ MergeInv /\ LabelInv /\ CursorInv /\ links \in Layouts

\* The links are those of one layout throughout.
LEMMA LinksNext == links \in Layouts /\ [Next]_vars => links' \in Layouts
BY DEF Next, Step, WalkRegistered, StartClaims, Claim, CrossPass, Freeze, BuildPoolSlice, EnterPhaseB,
       ClaimUnit, WalkUnit, SubmitEdges, DepositB, MidRelabel, RelabelChained, inputs, vars

\* The labels, the edges and the cursors keep their invariant whatever the PEs do.
THEOREM LabelsKept == Spec => []ChainInv
<1>1. Init => ChainInv
  BY PhaseInit, HolderInit, PoolInit, MergeInit, LabelsInit, CursorInit DEF ChainInv, Init
<1>2. ChainInv /\ [Next]_vars => ChainInv'
  <2> SUFFICES ASSUME ChainInv, [Next]_vars PROVE ChainInv'
    OBVIOUS
  <2>1. PhaseInv /\ HolderInv /\ PoolInv /\ MergeInv /\ LabelInv /\ CursorInv /\ links \in Layouts
    BY DEF ChainInv
  <2>2. PhaseInv'
    BY <2>1, PhaseNext
  <2>3. HolderInv'
    BY <2>1, HolderNext
  <2>4. PoolInv'
    BY <2>1, PoolNext
  <2>5. MergeInv'
    BY <2>1, <2>4, MergeNext
  <2>6. LabelInv'
    BY <2>1, <2>2, <2>3, LabelsNext
  <2>7. CursorInv'
    BY <2>1, <2>2, <2>4, CursorNext
  <2>8. links' \in Layouts
    BY <2>1, LinksNext
  <2>9. QED
    BY <2>2, <2>3, <2>4, <2>5, <2>6, <2>7, <2>8 DEF ChainInv
<1>3. QED
  BY <1>1, <1>2, PTL DEF Spec

\* Past phase A every tip is the order of a particle.
LEMMA TipsPastA ==
  ASSUME ChainInv, done["a"] = NPEs
  PROVE  tip \in [Orders -> Orders]
<1>1. PhaseInv /\ HolderInv /\ LabelInv /\ LabelTypes
  BY DEF ChainInv, LabelInv
<1>2. ~ InA
  BY <1>1, PhaseByCounters
<1>3. Settled /\ \A q \in PEs : Frozen(q)
  BY <1>1, <1>2, SettledPastA, FrozenPastA
<1>4. CASE InB
  BY <1>1, <1>4 DEF LabelInv, TipsOfStage, Joins
<1>5. ASSUME ~ InB, NEW x \in Orders PROVE tip[x] \in Orders
  <2>1. PICK q \in PEs : x \in Held(q)
    BY <1>3, AllHeld
  <2>2. root \in [Orders -> Orders] /\ tipMap \in [Orders -> Orders]
    BY <1>1 DEF LabelInv, LabelTypes, Joins
  <2>3. CASE InSlices
    BY <1>1, <1>3, <2>1, <2>2, <2>3 DEF LabelInv, Fresh
  <2>4. CASE InMiddle \/ Relabelling
    <3>1. PICK t, S : OnTheWay(t, S)
      BY <1>1, <2>4 DEF LabelInv
    <3>2. t[x] \in Orders /\ tip[x] \in {t[x], tipMap[t[x]]}
      BY <2>1, <3>1 DEF OnTheWay
    <3>3. QED
      BY <2>2, <3>2
  <2>5. QED
    BY <1>1, <1>2, <1>5, <2>3, <2>4 DEF PhaseInv
<1>6. ASSUME ~ InB PROVE tip \in [Orders -> Orders]
  <2>1. tip = [x \in Orders |-> tip[x]]
    BY <1>1 DEF LabelTypes
  <2>2. QED
    BY <1>5, <1>6, <2>1
<1>7. QED
  BY <1>4, <1>6

\* The invariant bounds every variable as the type invariant does.
LEMMA ChainTypeOK == ChainInv => TypeOK
<1> SUFFICES ASSUME ChainInv PROVE TypeOK
  OBVIOUS
<1>1. PhaseInv /\ HolderTypes /\ PoolInv /\ LabelInv /\ LabelTypes /\ CursorInv /\ ChainTypes
  BY DEF ChainInv, LabelInv, HolderInv, PhaseInv
<1>2. \A q \in PEs : Range(bucket[q]) \subseteq Pieces /\ Range(held[q]) \subseteq Pieces
  BY <1>1 DEF HolderTypes, Range
<1>3. done \in [Deposits -> 0 .. NPEs]
  <2>1. NPEs \in Nat /\ Rested \in Nat /\ Rested <= NPEs
    BY RestedType
  <2>2. \A c \in Deposits : done[c] \in {0, Rested, NPEs}
    <3>1. CASE InA
      BY <3>1 DEF InA, Counts, Deposits
    <3>2. CASE InSlices
      BY <3>2 DEF InSlices, Counts, Deposits
    <3>3. CASE InB
      BY <3>3 DEF InB, Counts, Deposits
    <3>4. CASE InMiddle
      BY <3>4 DEF InMiddle, Counts, Deposits
    <3>5. CASE Relabelling
      BY <3>5 DEF Relabelling, Counts, Deposits
    <3>6. QED
      BY <1>1, <3>1, <3>2, <3>3, <3>4, <3>5 DEF PhaseInv
  <2>3. \A c \in Deposits : done[c] \in 0 .. NPEs
    BY <2>1, <2>2
  <2>4. QED
    BY <1>1, <2>3 DEF ChainTypes
<1>4. cursor \in 0 .. Len(units) + NPEs /\ b2Cursor \in 0 .. Len(units) + NPEs
  <2>1. Len(units) \in Nat /\ NPEs \in Nat
    BY <1>1, LenProperties, RestedType DEF PoolInv
  <2>2. QED
    BY <1>1, <2>1 DEF CursorInv
<1>5. /\ stealA \in BOOLEAN /\ stealPool \subseteq Pieces /\ claimed \subseteq stealPool
      /\ stage \in 0 .. 2 /\ b2Begin \in 0 .. Len(units)
  BY <1>1 DEF HolderTypes, ChainTypes, PoolInv
<1>6. /\ pc \in [PEs -> {"start", "claim", "freeze", "wait", "drain", "walk", "submit",
                         "deposit", "done"}]
      /\ inbox \in [PEs -> SUBSET {"slice", "phaseB", "mid", "relabel"}]
  BY <1>1 DEF ChainTypes, PCs, Messages
<1>7. /\ root \in [Orders -> Orders] /\ repLabel \in [Orders -> Orders \cup {Unlabelled}]
      /\ tip \in [Orders -> Orders \cup {Unlabelled}] /\ edges \subseteq Orders \X Orders
      /\ tipMap \in [Orders -> Orders]
  BY <1>1 DEF LabelInv, LabelTypes, Joins
<1>8. done["a"] = NPEs => tip \in [Orders -> Orders]
  BY TipsPastA
<1>9. QED
  BY <1>2, <1>3, <1>4, <1>5, <1>6, <1>7, <1>8 DEF TypeOK

\* When the chain ends, every particle carries the least order that the links phase 1
\* answers for join it to: for every number of PEs, every set of pieces and of links,
\* whoever claimed which piece, whoever walked which unit and when, with or without
\* the merge in the middle.
THEOREM GroupsAreExact == Phase1Spec => []GroupsExact
<1>1. ChainInv => GroupsExact
  BY ChainTypeOK, FinishedLabels DEF ChainInv, GroupsExact
<1>2. QED
  BY <1>1, LabelsKept, ChainOfPhase1, PTL
====
