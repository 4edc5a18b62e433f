-------------------------- MODULE ParkInstallProof --------------------------
(***************************************************************************)
(* The park / install protocol implements the contract of WakeContract for *)
(* any number of walkers and installers, and it loses no wake-up provided  *)
(* a deleted entry never reads as somebody's opaque.                       *)
(***************************************************************************)
EXTENDS ParkInstall, SequenceTheorems, TLAPS

Parking == {"peek", "compare", "load", "cas"}
Draining(i) == ipc[i] \in {"close", "collect"}

\* What an installer's program counter says about the node it displaced.
InstallerInv ==
  \A i \in Installers :
    /\ i \in closed
    /\ list[i] = << >>
    /\ ipc[i] = "building" => old[i] = Null
    /\ ipc[i] # "building" => slot \in Installers
    /\ Draining(i) => old[i] \in Nodes
    /\ out[i] # << >> => ipc[i] \in {"collect", "wake"}
    /\ \A j \in Installers : old[i] = old[j] /\ old[i] \in Placeholders => i = j
    /\ old[i] \in Placeholders =>
         /\ ipc[i] = "close" <=> old[i] \notin closed
         /\ ipc[i] \in {"wake", "done"} => list[old[i]] = << >>

\* A placeholder's list is closed by the installer that displaced it, and
\* holds entries only while it is in the slot or that installer is at work.
PlaceholderInv ==
  \A n \in Placeholders :
    /\ n \in closed => \E i \in Installers : old[i] = n /\ ipc[i] \notin {"building", "close"}
    /\ list[n] # << >> => slot = n \/ \E i \in Installers : old[i] = n /\ Draining(i)

\* A walker inside park is on a placeholder that was in the slot, and no
\* wake-up is on its way before the slot is filled.
WalkerInv ==
  \A w \in Walkers :
    /\ pc[w] \in Parking =>
         /\ node[w] \in Placeholders
         /\ slot = node[w] \/ \E i \in Installers : old[i] = node[w]
    /\ wakes[w] > 0 => slot \in Installers

\* What holds whatever the memory of a deleted entry reads as.
BaseInv == TypeOK /\ InstallerInv /\ PlaceholderInv /\ WalkerInv

\* Its own opaque at the head of the list it has seen assures a walker that
\* it will be woken, and so does having left park with work recorded.
OwedInv ==
  \A w \in Walkers :
    /\ pc[w] = "compare" /\ Last(seen[w]) = w => Assured(w)
    /\ owed[w] /\ pc[w] \in {"away", "create"} => Assured(w)

IInv == BaseInv /\ OwedInv

-----------------------------------------------------------------------------
(* Facts about sequences.                                                  *)

\* An element of a sequence is the value at one of its positions.
LEMMA ElementAt ==
  ASSUME NEW S, NEW s \in Seq(S), NEW x
  PROVE  x \in ToSet(s) <=> \E k \in 1 .. Len(s) : s[k] = x
<1>1. DOMAIN s = 1 .. Len(s)
  OBVIOUS
<1>2. QED
  BY ONLY <1>1, Zenon DEF ToSet

\* Elements of a sequence over S are in S, and the empty sequence has none.
LEMMA ElementsOf ==
  ASSUME NEW S, NEW s \in Seq(S)
  PROVE  /\ ToSet(s) \subseteq S
         /\ s = << >> => ToSet(s) = {}
<1>1. \A k \in 1 .. Len(s) : s[k] \in S
  OBVIOUS
<1>2. s = << >> => 1 .. Len(s) = {}
  OBVIOUS
<1>3. ToSet(s) \subseteq S
  BY <1>1, ElementAt
<1>4. ASSUME s = << >> PROVE ToSet(s) = {}
  <2>1. SUFFICES ASSUME NEW x, x \in ToSet(s) PROVE FALSE
    BY Zenon
  <2>2. PICK k \in 1 .. Len(s) : s[k] = x
    BY <2>1, ElementAt
  <2>3. QED
    BY <2>2, <1>2, <1>4
<1>5. QED
  BY ONLY <1>3, <1>4, Zenon

\* Taking the last element off a sequence splits its elements.
LEMMA FrontLastElements ==
  ASSUME NEW S, NEW s \in Seq(S), s # << >>
  PROVE  /\ Front(s) \in Seq(S)
         /\ Last(s) \in S
         /\ Last(s) \in ToSet(s)
         /\ \A x : x \in ToSet(s) => x \in ToSet(Front(s)) \/ x = Last(s)
         /\ \A x : x \in ToSet(Front(s)) => x \in ToSet(s)
         /\ Front(s) = << >> \/ Len(Front(s)) > 0
<1>1. Len(s) \in Nat /\ Len(s) > 0
  OBVIOUS
<1>2. /\ Front(s) \in Seq(S)
      /\ Len(Front(s)) = Len(s) - 1
      /\ \A k \in 1 .. Len(s) - 1 : Front(s)[k] = s[k]
  <2>1. PICK m \in Nat : Len(s) = m + 1
    BY <1>1
  <2>2. m \in Int /\ m >= 0 /\ 1 \in Int /\ (\A k \in 1 .. m : s[k] \in S)
    BY <2>1
  <2>3. m - 1 + 1 = m /\ (\A k \in 1 .. m : 1 + k - 1 = k) /\ (1 <= m \/ m = 0)
    BY <2>1
  <2>4. /\ SubSeq(s, 1, m) \in Seq(S)
        /\ Len(SubSeq(s, 1, m)) = IF 1 <= m THEN m - 1 + 1 ELSE 0
        /\ \A k \in 1 .. m - 1 + 1 : SubSeq(s, 1, m)[k] = s[1 + k - 1]
    <3>1. \A n \in Int : (\A k \in 1 .. n : s[k] \in S) =>
            /\ SubSeq(s, 1, n) \in Seq(S)
            /\ Len(SubSeq(s, 1, n)) = IF 1 <= n THEN n - 1 + 1 ELSE 0
            /\ \A k \in 1 .. n - 1 + 1 : SubSeq(s, 1, n)[k] = s[1 + k - 1]
      BY <2>2, SubSeqProperties
    <3>2. QED
      BY <2>2, <3>1, Zenon
  <2>5. /\ SubSeq(s, 1, m) \in Seq(S)
        /\ Len(SubSeq(s, 1, m)) = m
        /\ \A k \in 1 .. m : SubSeq(s, 1, m)[k] = s[k]
    BY <2>2, <2>3, <2>4
  <2>6. Len(s) - 1 = m
    BY <2>1
  <2>7. QED
    BY <2>5, <2>6 DEF Front
<1>3. Last(s) \in S /\ Last(s) = s[Len(s)] /\ Len(s) \in 1 .. Len(s)
  BY <1>1 DEF Last
<1>4. Last(s) \in ToSet(s)
  BY <1>3, ElementAt
<1>5. ASSUME NEW x, x \in ToSet(s) PROVE x \in ToSet(Front(s)) \/ x = Last(s)
  <2>1. PICK k \in 1 .. Len(s) : s[k] = x
    BY <1>5, ElementAt
  <2>2. CASE k = Len(s)
    BY <2>1, <2>2, <1>3
  <2>3. CASE k # Len(s)
    <3>1. k \in 1 .. Len(Front(s)) /\ Front(s)[k] = x
      BY <2>1, <2>3, <1>1, <1>2
    <3>2. QED
      BY <3>1, <1>2, ElementAt
  <2>4. QED
    BY <2>2, <2>3
<1>6. ASSUME NEW x, x \in ToSet(Front(s)) PROVE x \in ToSet(s)
  <2>1. PICK k \in 1 .. Len(Front(s)) : Front(s)[k] = x
    BY <1>2, <1>6, ElementAt
  <2>2. k \in 1 .. Len(s) - 1 /\ k \in 1 .. Len(s)
    BY <1>1, <1>2, <2>1
  <2>3. s[k] = x
    BY <1>2, <2>1, <2>2
  <2>4. QED
    BY <2>2, <2>3, ElementAt
<1>7. QED
  BY <1>1, <1>2, <1>3, <1>4, <1>5, <1>6

\* Appending an element keeps the elements and adds one.
LEMMA AppendElements ==
  ASSUME NEW S, NEW s \in Seq(S), NEW e \in S
  PROVE  /\ Append(s, e) \in Seq(S)
         /\ Append(s, e) # << >>
         /\ e \in ToSet(Append(s, e))
         /\ \A x : x \in ToSet(s) => x \in ToSet(Append(s, e))
         /\ \A x : x \in ToSet(Append(s, e)) => x \in ToSet(s) \/ x = e
<1> DEFINE t == Append(s, e)
<1>1. /\ t \in Seq(S)
      /\ t # << >>
      /\ Len(s) \in Nat
      /\ Len(t) = Len(s) + 1
      /\ \A k \in 1 .. Len(s) : t[k] = s[k] /\ k \in 1 .. Len(t)
      /\ t[Len(t)] = e /\ Len(t) \in 1 .. Len(t)
      /\ \A k \in 1 .. Len(t) : k \in 1 .. Len(s) \/ k = Len(t)
  OBVIOUS
<1> HIDE DEF t
<1>2. e \in ToSet(t)
  BY <1>1, ElementAt
<1>3. \A x : x \in ToSet(s) => x \in ToSet(t)
  BY <1>1, ElementAt
<1>4. \A x : x \in ToSet(t) => x \in ToSet(s) \/ x = e
  BY <1>1, ElementAt
<1>5. QED
  BY <1>1, <1>2, <1>3, <1>4 DEF t

-----------------------------------------------------------------------------
(* Every step preserves the invariant, one part at a time.                 *)

\* Placeholders, installed nodes and the null pointer are told apart.
LEMMA NodeFacts ==
  /\ Nodes = Placeholders \cup Installers
  /\ Walkers \subseteq Placeholders
  /\ Null \notin Nodes /\ Null \notin Placeholders /\ Null \notin Installers
  /\ \A n \in Placeholders : n \notin Installers
BY NamesAssumption DEF Nodes, Placeholders

LEMMA InitInv == Init => BaseInv
<1> SUFFICES ASSUME Init PROVE BaseInv
  OBVIOUS
<1>1. TypeOK
  BY NamesAssumption DEF Init, TypeOK, Nodes, Placeholders
<1>2. InstallerInv
  BY NamesAssumption DEF Init, InstallerInv, Draining, Nodes, Placeholders
<1>3. PlaceholderInv
  BY NamesAssumption DEF Init, PlaceholderInv, Draining, Nodes, Placeholders
<1>4. WalkerInv
  BY DEF Init, WalkerInv, Parking
<1>5. QED
  BY <1>1, <1>2, <1>3, <1>4 DEF BaseInv

LEMMA TypeStep ==
  ASSUME BaseInv, [Next]_vars PROVE TypeOK'
<1> USE DEF BaseInv, TypeOK, Goto, Nodes, Placeholders, walkerVars, installerVars
<1>1. ASSUME NEW w \in Walkers, WalkerStep(w) PROVE TypeOK'
  <2>1. CASE LoadChild(w)
    <3>1. touches[w] \in Nat /\ touches[w] + 1 \in Nat
      OBVIOUS
    <3>2. touches' \in [Walkers -> Nat]
      BY <2>1, <3>1 DEF LoadChild
    <3>3. CASE slot = Null
      BY <2>1, <3>2, <3>3 DEF LoadChild
    <3>4. CASE slot # Null /\ slot \in Placeholders
      BY <2>1, <3>2, <3>4 DEF LoadChild, Visit
    <3>5. CASE slot # Null /\ slot \notin Placeholders
      BY <2>1, <3>2, <3>5 DEF LoadChild, Visit
    <3>6. QED
      BY <3>3, <3>4, <3>5
  <2>2. CASE CreateChild(w)
    <3>1. CASE slot = Null
      BY <2>2, <3>1 DEF CreateChild, Visit
    <3>2. CASE slot # Null /\ slot \in Placeholders
      BY <2>2, <3>2 DEF CreateChild, Visit
    <3>3. CASE slot # Null /\ slot \notin Placeholders
      BY <2>2, <3>3 DEF CreateChild, Visit
    <3>4. QED
      BY <3>1, <3>2, <3>3
  <2>3. CASE Peek(w)
    <3>1. node[w] \in Nodes
      BY <2>3 DEF Peek, WalkerInv, Parking
    <3>2. list[node[w]] \in Seq(Walkers)
      BY <3>1
    <3>3. QED
      BY <2>3, <3>2 DEF Peek
  <2>4. CASE SkipDuplicate(w)
    BY <2>4 DEF SkipDuplicate
  <2>5. CASE NotDuplicate(w)
    BY <2>5 DEF NotDuplicate
  <2>6. CASE LoadHead(w)
    <3>1. node[w] \in Nodes
      BY <2>6 DEF LoadHead, WalkerInv, Parking
    <3>2. list[node[w]] \in Seq(Walkers) /\ wakes[w] \in Nat /\ wakes[w] + 1 \in Nat
      BY <3>1
    <3>3. CASE node[w] \in closed
      BY <2>6, <3>2, <3>3 DEF LoadHead
    <3>4. CASE node[w] \notin closed
      BY <2>6, <3>2, <3>4 DEF LoadHead
    <3>5. QED
      BY <3>3, <3>4
  <2>7. CASE Push(w)
    <3>1. node[w] \in Nodes
      BY <2>7 DEF Push, WalkerInv, Parking
    <3>2. Append(list[node[w]], w) \in Seq(Walkers)
      BY <3>1, AppendElements
    <3>3. list' \in [Nodes -> Seq(Walkers)]
      BY <2>7, <3>1, <3>2 DEF Push
    <3>4. QED
      BY <2>7, <3>3 DEF Push
  <2>8. CASE PushFails(w)
    BY <2>8 DEF PushFails
  <2>9. CASE Resume(w)
    BY <2>9 DEF Resume
  <2>10. QED
    BY <1>1, <2>1, <2>2, <2>3, <2>4, <2>5, <2>6, <2>7, <2>8, <2>9 DEF WalkerStep
<1>2. ASSUME NEW i \in Installers, InstallerStep(i) PROVE TypeOK'
  <2>1. CASE Publish(i)
    BY <2>1 DEF Publish
  <2>2. CASE CloseList(i)
    BY <2>2 DEF CloseList, InstallerInv, Draining
  <2>3. CASE CollectEntry(i)
    <3>1. old[i] \in Nodes
      BY <2>3 DEF CollectEntry, InstallerInv, Draining
    <3>2. list[old[i]] \in Seq(Walkers) /\ list[old[i]] # << >>
      BY <2>3, <3>1 DEF CollectEntry
    <3>3. Front(list[old[i]]) \in Seq(Walkers) /\ Last(list[old[i]]) \in Walkers
      BY <3>2, FrontLastElements
    <3>4. Append(out[i], Last(list[old[i]])) \in Seq(Walkers)
      BY <3>3, AppendElements
    <3>5. list' \in [Nodes -> Seq(Walkers)] /\ out' \in [Installers -> Seq(Walkers)]
      BY <2>3, <3>1, <3>3, <3>4 DEF CollectEntry
    <3>6. QED
      BY <2>3, <3>5 DEF CollectEntry
  <2>4. CASE CollectDone(i)
    BY <2>4 DEF CollectDone
  <2>5. CASE Wake(i)
    BY <2>5 DEF Wake
  <2>6. QED
    BY <1>2, <2>1, <2>2, <2>3, <2>4, <2>5 DEF InstallerStep
<1>3. CASE UNCHANGED vars
  BY <1>3 DEF vars
<1>4. QED
  BY <1>1, <1>2, <1>3 DEF Next

\* What the installers' program counters say survives every step.
LEMMA InstallerStepInv ==
  ASSUME BaseInv, TypeOK', [Next]_vars PROVE InstallerInv'
<1> USE NodeFacts DEF BaseInv, Goto, walkerVars, installerVars, Draining
<1>1. ASSUME NEW w \in Walkers, WalkerStep(w) PROVE InstallerInv'
  <2>1. CASE LoadChild(w)
    BY <2>1 DEF LoadChild, InstallerInv
  <2>2. CASE CreateChild(w)
    BY <2>2 DEF CreateChild, InstallerInv
  <2>3. CASE Push(w)
    <3>1. node[w] \in Placeholders /\ node[w] \notin closed
      BY <2>3 DEF Push, WalkerInv, Parking
    <3>2. \A n \in Nodes : n # node[w] => list'[n] = list[n]
      BY <2>3 DEF Push, TypeOK
    <3>3. node[w] \notin Installers
      BY <3>1
    <3>4. ASSUME NEW i \in Installers, old[i] = node[w], ipc[i] \in {"wake", "done"} PROVE FALSE
      BY <3>1, <3>4 DEF InstallerInv
    <3>5. UNCHANGED <<slot, closed, ipc, old, out>>
      BY <2>3 DEF Push
    <3>6. ASSUME NEW i \in Installers, old[i] \in Placeholders, ipc[i] \in {"wake", "done"}
          PROVE  list'[old[i]] = << >>
      <4>1. old[i] # node[w] /\ old[i] \in Nodes
        BY <3>4, <3>6
      <4>2. list[old[i]] = << >>
        BY <3>6 DEF InstallerInv
      <4>3. QED
        BY <3>2, <4>1, <4>2
    <3>7. ASSUME NEW i \in Installers PROVE list'[i] = << >>
      <4>1. i \in Nodes /\ i # node[w]
        BY <3>3
      <4>2. QED
        BY <3>2, <4>1 DEF InstallerInv
    <3>8. SUFFICES ASSUME NEW i \in Installers
                   PROVE  /\ i \in closed'
                          /\ list'[i] = << >>
                          /\ ipc'[i] = "building" => old'[i] = Null
                          /\ ipc'[i] # "building" => slot' \in Installers
                          /\ Draining(i)' => old'[i] \in Nodes
                          /\ out'[i] # << >> => ipc'[i] \in {"collect", "wake"}
                          /\ \A j \in Installers :
                               old'[i] = old'[j] /\ old'[i] \in Placeholders => i = j
                          /\ old'[i] \in Placeholders =>
                               /\ ipc'[i] = "close" <=> old'[i] \notin closed'
                               /\ ipc'[i] \in {"wake", "done"} => list'[old'[i]] = << >>
      BY DEF InstallerInv
    <3>9. old[i] \in Placeholders /\ ipc[i] \in {"wake", "done"} => list'[old[i]] = << >>
      BY <3>6
    <3>10. QED
      BY <3>5, <3>7, <3>9 DEF InstallerInv
  <2>4. CASE Peek(w) \/ SkipDuplicate(w) \/ NotDuplicate(w) \/ LoadHead(w) \/ PushFails(w) \/ Resume(w)
    <3>1. UNCHANGED <<slot, closed, list, ipc, old, out>>
      BY <2>4 DEF Peek, SkipDuplicate, NotDuplicate, LoadHead, PushFails, Resume
    <3>2. QED
      BY <3>1 DEF InstallerInv
  <2>5. QED
    BY <1>1, <2>1, <2>2, <2>3, <2>4 DEF WalkerStep
<1>2. ASSUME NEW i \in Installers, InstallerStep(i) PROVE InstallerInv'
  <2>1. CASE Publish(i)
    <3>1. \A j \in Installers : old[j] \in Placeholders => old[j] # slot
      BY DEF InstallerInv
    <3>2. slot \in Placeholders => slot \notin closed
      BY <3>1 DEF PlaceholderInv
    <3>3. /\ ipc' = [ipc EXCEPT ![i] = IF slot = Null THEN "wake" ELSE "close"]
          /\ old' = [old EXCEPT ![i] = slot]
          /\ UNCHANGED <<closed, list, out>>
          /\ slot' = i
          /\ ipc[i] = "building"
          /\ out[i] = << >>
      BY <2>1 DEF Publish, InstallerInv
    <3>4. ASSUME NEW j \in Installers, j # i
          PROVE  ipc'[j] = ipc[j] /\ old'[j] = old[j] /\ out'[j] = out[j]
      BY <3>3, <3>4 DEF TypeOK
    <3>5. /\ ipc'[i] = IF slot = Null THEN "wake" ELSE "close"
          /\ old'[i] = slot
          /\ out'[i] = << >>
          /\ slot # Null => slot \in Nodes
      BY <3>3 DEF TypeOK
    <3>6. QED
      BY <3>1, <3>2, <3>3, <3>4, <3>5 DEF InstallerInv
  <2>2. CASE CloseList(i)
    <3>1. /\ ipc' = [ipc EXCEPT ![i] = IF old[i] \in closed THEN "wake" ELSE "collect"]
          /\ closed' = closed \cup {old[i]}
          /\ UNCHANGED <<slot, list, old, out>>
          /\ ipc[i] = "close"
      BY <2>2 DEF CloseList
    <3>2. ASSUME NEW j \in Installers, j # i
          PROVE  ipc'[j] = ipc[j] /\ (old[j] \in Placeholders => (old[j] \in closed' <=> old[j] \in closed))
      BY <3>1, <3>2 DEF TypeOK, InstallerInv
    <3>3. ipc'[i] = IF old[i] \in closed THEN "wake" ELSE "collect"
      BY <3>1 DEF TypeOK
    <3>4. QED
      BY <3>1, <3>2, <3>3 DEF InstallerInv
  <2>3. CASE CollectEntry(i)
    <3>1. old[i] \in Placeholders /\ old[i] \notin Installers
      BY <2>3 DEF CollectEntry, InstallerInv
    <3>2. \A n \in Nodes : n # old[i] => list'[n] = list[n]
      BY <2>3 DEF CollectEntry, TypeOK
    <3>3. \A j \in Installers : j # i => out'[j] = out[j]
      BY <2>3 DEF CollectEntry, TypeOK
    <3>4. UNCHANGED <<slot, closed, ipc, old>> /\ ipc[i] = "collect"
      BY <2>3 DEF CollectEntry
    <3>5. \A j \in Installers : j # i /\ old[j] \in Placeholders => old[j] # old[i]
      BY DEF InstallerInv
    <3>6. QED
      BY <3>1, <3>2, <3>3, <3>4, <3>5 DEF InstallerInv
  <2>4. CASE CollectDone(i)
    BY <2>4 DEF CollectDone, InstallerInv, TypeOK
  <2>5. CASE Wake(i)
    BY <2>5 DEF Wake, InstallerInv, TypeOK
  <2>6. QED
    BY <1>2, <2>1, <2>2, <2>3, <2>4, <2>5 DEF InstallerStep
<1>3. CASE UNCHANGED vars
  BY <1>3 DEF vars, InstallerInv
<1>4. QED
  BY <1>1, <1>2, <1>3 DEF Next

\* Who closes a placeholder's list, and who may still hold its entries.
LEMMA PlaceholderStepInv ==
  ASSUME BaseInv, TypeOK', [Next]_vars PROVE PlaceholderInv'
<1> USE NodeFacts DEF BaseInv, Goto, walkerVars, installerVars, Draining
<1>1. ASSUME NEW w \in Walkers, WalkerStep(w) PROVE PlaceholderInv'
  <2>1. CASE LoadChild(w)
    BY <2>1 DEF LoadChild, PlaceholderInv
  <2>2. CASE CreateChild(w)
    <3>1. /\ UNCHANGED <<closed, list, ipc, old>>
          /\ slot = slot' \/ slot = Null
      BY <2>2 DEF CreateChild
    <3>2. QED
      BY <3>1 DEF PlaceholderInv
  <2>3. CASE Push(w)
    <3>1. /\ node[w] \in Placeholders /\ node[w] \notin closed
          /\ slot = node[w] \/ \E i \in Installers : old[i] = node[w]
      BY <2>3 DEF Push, WalkerInv, Parking
    <3>2. /\ \A n \in Nodes : n # node[w] => list'[n] = list[n]
          /\ UNCHANGED <<slot, closed, ipc, old>>
      BY <2>3 DEF Push, TypeOK
    <3>3. ASSUME NEW i \in Installers, old[i] = node[w] PROVE ipc[i] = "close"
      BY <3>1, <3>3 DEF InstallerInv
    <3>4. QED
      BY <3>1, <3>2, <3>3 DEF PlaceholderInv
  <2>4. CASE Peek(w) \/ SkipDuplicate(w) \/ NotDuplicate(w) \/ LoadHead(w) \/ PushFails(w) \/ Resume(w)
    <3>1. UNCHANGED <<slot, closed, list, ipc, old, out>>
      BY <2>4 DEF Peek, SkipDuplicate, NotDuplicate, LoadHead, PushFails, Resume
    <3>2. QED
      BY <3>1 DEF PlaceholderInv
  <2>5. QED
    BY <1>1, <2>1, <2>2, <2>3, <2>4 DEF WalkerStep
<1>2. ASSUME NEW i \in Installers, InstallerStep(i) PROVE PlaceholderInv'
  <2>1. CASE Publish(i)
    <3>1. /\ ipc' = [ipc EXCEPT ![i] = IF slot = Null THEN "wake" ELSE "close"]
          /\ old' = [old EXCEPT ![i] = slot]
          /\ UNCHANGED <<closed, list>>
          /\ ipc[i] = "building"
          /\ old[i] = Null
      BY <2>1 DEF Publish, InstallerInv
    <3>2. ASSUME NEW j \in Installers, j # i
          PROVE  ipc'[j] = ipc[j] /\ old'[j] = old[j]
      BY <3>1, <3>2 DEF TypeOK
    <3>3. slot # Null => ipc'[i] = "close" /\ old'[i] = slot
      BY <3>1 DEF TypeOK
    <3>4. QED
      BY <3>1, <3>2, <3>3 DEF PlaceholderInv
  <2>2. CASE CloseList(i)
    <3>1. /\ ipc' = [ipc EXCEPT ![i] = IF old[i] \in closed THEN "wake" ELSE "collect"]
          /\ closed' = closed \cup {old[i]}
          /\ UNCHANGED <<slot, list, old>>
          /\ ipc[i] = "close"
      BY <2>2 DEF CloseList
    <3>2. \A j \in Installers : j # i => ipc'[j] = ipc[j]
      BY <3>1 DEF TypeOK
    <3>3. /\ ipc'[i] = IF old[i] \in closed THEN "wake" ELSE "collect"
          /\ old[i] \in Placeholders => old[i] \notin closed
      BY <3>1 DEF TypeOK, InstallerInv
    <3>4. QED
      BY <3>1, <3>2, <3>3 DEF PlaceholderInv
  <2>3. CASE CollectEntry(i)
    <3>1. /\ \A n \in Nodes : n # old[i] => list'[n] = list[n]
          /\ UNCHANGED <<slot, closed, ipc, old>>
          /\ ipc[i] = "collect"
      BY <2>3 DEF CollectEntry, TypeOK
    <3>2. QED
      BY <3>1 DEF PlaceholderInv
  <2>4. CASE CollectDone(i)
    <3>1. /\ ipc' = [ipc EXCEPT ![i] = "wake"]
          /\ UNCHANGED <<slot, closed, list, old>>
          /\ list[old[i]] = << >>
      BY <2>4 DEF CollectDone
    <3>2. \A j \in Installers : j # i => ipc'[j] = ipc[j]
      BY <3>1 DEF TypeOK
    <3>3. ipc'[i] = "wake"
      BY <3>1 DEF TypeOK
    <3>4. QED
      BY <3>1, <3>2, <3>3 DEF PlaceholderInv
  <2>5. CASE Wake(i)
    <3>1. /\ ipc' = [ipc EXCEPT ![i] = "done"] /\ ipc[i] = "wake"
          /\ UNCHANGED <<slot, closed, list, old>>
      BY <2>5 DEF Wake
    <3>2. (\A j \in Installers : j # i => ipc'[j] = ipc[j]) /\ ipc'[i] = "done"
      BY <3>1 DEF TypeOK
    <3>3. QED
      BY <3>1, <3>2 DEF PlaceholderInv
  <2>6. QED
    BY <1>2, <2>1, <2>2, <2>3, <2>4, <2>5 DEF InstallerStep
<1>3. CASE UNCHANGED vars
  BY <1>3 DEF vars, PlaceholderInv
<1>4. QED
  BY <1>1, <1>2, <1>3 DEF Next

\* An assured wake-up stays assured until it is delivered.
LEMMA AssuredStep ==
  ASSUME BaseInv, TypeOK', [Next]_vars, NEW w \in Walkers, Assured(w), ~ Resume(w)
  PROVE  Assured(w)'
<1> USE NodeFacts DEF BaseInv, Goto, walkerVars, installerVars, Draining
<1>1. ASSUME NEW v \in Walkers, WalkerStep(v) PROVE Assured(w)'
  <2>1. /\ UNCHANGED <<ipc, old, out>>
        /\ slot = slot' \/ slot = Null
    BY <1>1 DEF WalkerStep, LoadChild, CreateChild, Peek, SkipDuplicate, NotDuplicate, LoadHead,
                Push, PushFails, Resume
  <2>2. CASE InHand(w)
    BY <2>1, <2>2 DEF InHand, Assured
  <2>3. CASE wakes[w] > 0
    <3>1. wakes' = wakes \/ wakes' = [wakes EXCEPT ![v] = @ + 1] \/ (v # w /\ wakes' = [wakes EXCEPT ![v] = @ - 1])
      BY <1>1 DEF WalkerStep, LoadChild, CreateChild, Peek, SkipDuplicate, NotDuplicate, LoadHead,
                  Push, PushFails, Resume
    <3>2. wakes'[w] > 0
      BY <3>1, <2>3 DEF TypeOK
    <3>3. QED
      BY <3>2 DEF Assured
  <2>4. CASE InList(w)
    <3>1. PICK n \in Nodes : /\ w \in ToSet(list[n])
                             /\ slot = n \/ \E i \in Installers : old[i] = n /\ Draining(i)
      BY <2>4 DEF InList
    <3>2. w \in ToSet(list'[n])
      <4>1. CASE Push(v)
        <5>1. list'[n] = list[n] \/ list'[n] = Append(list[n], v)
          BY <4>1 DEF Push, TypeOK
        <5>2. list[n] \in Seq(Walkers)
          BY DEF TypeOK
        <5>3. QED
          BY <3>1, <5>1, <5>2, AppendElements
      <4>2. CASE ~ Push(v)
        BY <1>1, <3>1, <4>2 DEF WalkerStep, LoadChild, CreateChild, Peek, SkipDuplicate, NotDuplicate,
                                LoadHead, PushFails, Resume
      <4>3. QED
        BY <4>1, <4>2
    <3>3. slot' = n \/ \E i \in Installers : old'[i] = n /\ ipc'[i] \in {"close", "collect"}
      BY <2>1, <3>1
    <3>4. QED
      BY <3>2, <3>3 DEF InList, Assured
  <2>5. QED
    BY <2>2, <2>3, <2>4 DEF Assured
<1>2. ASSUME NEW i \in Installers, InstallerStep(i) PROVE Assured(w)'
  <2>1. CASE wakes[w] > 0
    <3>1. wakes'[w] = wakes[w] \/ wakes'[w] = wakes[w] + 1
      <4>1. CASE Wake(i)
        BY <4>1 DEF Wake
      <4>2. CASE ~ Wake(i)
        BY <1>2, <4>2 DEF InstallerStep, Publish, CloseList, CollectEntry, CollectDone
      <4>3. QED
        BY <4>1, <4>2
    <3>2. wakes'[w] > 0
      BY <2>1, <3>1 DEF TypeOK
    <3>3. QED
      BY <3>2 DEF Assured
  <2>2. CASE InHand(w)
    <3>1. PICK j \in Installers : w \in ToSet(out[j])
      BY <2>2 DEF InHand
    <3>2. CASE j = i /\ Wake(i)
      <4>1. wakes'[w] > 0
        BY <3>1, <3>2 DEF Wake, TypeOK
      <4>2. QED
        BY <4>1 DEF Assured
    <3>3. CASE j = i /\ CollectEntry(i)
      <4>1. /\ out[i] \in Seq(Walkers)
            /\ Last(list[old[i]]) \in Walkers
            /\ out'[i] = Append(out[i], Last(list[old[i]]))
        <5>1. old[i] \in Nodes /\ list[old[i]] # << >>
          BY <3>3 DEF CollectEntry, InstallerInv
        <5>2. Last(list[old[i]]) \in Walkers
          BY <5>1, FrontLastElements DEF TypeOK
        <5>3. QED
          BY <3>3, <5>2 DEF CollectEntry, TypeOK
      <4>2. w \in ToSet(out'[i])
        BY <3>1, <3>3, <4>1, AppendElements
      <4>3. QED
        BY <4>2 DEF InHand, Assured
    <3>4. CASE j # i \/ Publish(i) \/ CloseList(i) \/ CollectDone(i)
      <4>1. out'[j] = out[j]
        BY <1>2, <3>4 DEF InstallerStep, Publish, CloseList, CollectEntry, CollectDone, Wake, TypeOK
      <4>2. QED
        BY <3>1, <4>1 DEF InHand, Assured
    <3>5. QED
      BY <1>2, <3>2, <3>3, <3>4 DEF InstallerStep
  <2>3. CASE InList(w)
    <3>1. PICK n \in Nodes : /\ w \in ToSet(list[n])
                             /\ slot = n \/ \E j \in Installers : old[j] = n /\ Draining(j)
      BY <2>3 DEF InList
    <3>2. list[n] \in Seq(Walkers) /\ list[n] # << >> /\ n \in Placeholders
      <4>1. list[n] \in Seq(Walkers)
        BY DEF TypeOK
      <4>2. list[n] # << >>
        BY <3>1, <4>1, ElementsOf
      <4>3. QED
        BY <4>1, <4>2 DEF InstallerInv
    <3>3. CASE Publish(i)
      <4>1. /\ list' = list
            /\ \A j \in Installers : j # i => old'[j] = old[j] /\ ipc'[j] = ipc[j]
            /\ slot = n => old'[i] = n /\ ipc'[i] = "close"
            /\ ipc[i] = "building"
        BY <3>2, <3>3 DEF Publish, TypeOK
      <4>2. \E j \in Installers : old'[j] = n /\ ipc'[j] \in {"close", "collect"}
        BY <3>1, <4>1
      <4>3. QED
        BY <3>1, <4>1, <4>2 DEF InList, Assured
    <3>4. CASE CloseList(i)
      <4>1. /\ UNCHANGED <<list, slot, old>>
            /\ \A j \in Installers : j # i => ipc'[j] = ipc[j]
            /\ ipc'[i] = IF old[i] \in closed THEN "wake" ELSE "collect"
            /\ ipc[i] = "close"
        BY <3>4 DEF CloseList, TypeOK
      <4>2. old[i] = n => ipc'[i] = "collect"
        BY <3>2, <4>1 DEF InstallerInv
      <4>3. QED
        BY <3>1, <4>1, <4>2 DEF InList, Assured
    <3>5. CASE CollectEntry(i)
      <4>1. /\ UNCHANGED <<slot, old, ipc>>
            /\ out'[i] = Append(out[i], Last(list[old[i]]))
            /\ n # old[i] => list'[n] = list[n]
            /\ n = old[i] => list'[n] = Front(list[n])
            /\ out[i] \in Seq(Walkers)
        BY <3>5 DEF CollectEntry, TypeOK
      <4>2. CASE w \in ToSet(list'[n])
        BY <3>1, <4>1, <4>2 DEF InList, Assured
      <4>3. CASE w \notin ToSet(list'[n])
        <5>1. n = old[i] /\ w = Last(list[n])
          BY <3>1, <3>2, <4>1, <4>3, FrontLastElements
        <5>2. w \in ToSet(out'[i])
          BY <4>1, <5>1, AppendElements
        <5>3. QED
          BY <5>2 DEF InHand, Assured
      <4>4. QED
        BY <4>2, <4>3
    <3>6. CASE CollectDone(i) \/ Wake(i)
      <4>1. /\ UNCHANGED <<list, slot, old>>
            /\ \A j \in Installers : j # i => ipc'[j] = ipc[j]
            /\ old[i] = n => ~ Draining(i)
        BY <3>2, <3>6 DEF CollectDone, Wake, TypeOK
      <4>2. QED
        BY <3>1, <4>1 DEF InList, Assured
    <3>7. QED
      BY <1>2, <3>3, <3>4, <3>5, <3>6 DEF InstallerStep
  <2>4. QED
    BY <2>1, <2>2, <2>3 DEF Assured
<1>3. CASE UNCHANGED vars
  BY <1>3 DEF vars, Assured, InList, InHand
<1>4. QED
  BY <1>1, <1>2, <1>3 DEF Next

\* Once the slot is filled it stays filled.
LEMMA FilledStep ==
  ASSUME BaseInv, [Next]_vars, slot \in Installers PROVE slot' \in Installers
BY NodeFacts
   DEF Next, WalkerStep, InstallerStep, LoadChild, CreateChild, Peek, SkipDuplicate, NotDuplicate,
       LoadHead, Push, PushFails, Resume, Publish, CloseList, CollectEntry, CollectDone, Wake, vars

\* A walker's step leaves every other walker's state alone.
LEMMA OthersKept ==
  ASSUME BaseInv, NEW w \in Walkers, WalkerStep(w), NEW v \in Walkers, v # w
  PROVE  /\ pc'[v] = pc[v] /\ node'[v] = node[v] /\ seen'[v] = seen[v]
         /\ owed'[v] = owed[v] /\ wakes'[v] = wakes[v]
<1> USE DEF BaseInv, TypeOK, walkerVars, Goto
<1>1. CASE LoadChild(w) \/ CreateChild(w)
  <2>1. UNCHANGED <<seen, wakes>>
    BY <1>1 DEF LoadChild, CreateChild
  <2>2. \E l : pc' = [pc EXCEPT ![w] = l]
    BY <1>1 DEF LoadChild, CreateChild, Visit
  <2>3. \/ UNCHANGED <<node, owed>>
        \/ (\E n : node' = [node EXCEPT ![w] = n]) /\ owed' = [owed EXCEPT ![w] = TRUE]
    BY <1>1 DEF LoadChild, CreateChild, Visit
  <2>4. QED
    BY <2>1, <2>2, <2>3
<1>2. CASE Peek(w) \/ SkipDuplicate(w) \/ NotDuplicate(w)
  BY <1>2 DEF Peek, SkipDuplicate, NotDuplicate
<1>3. CASE LoadHead(w)
  BY <1>3 DEF LoadHead
<1>4. CASE Push(w) \/ PushFails(w) \/ Resume(w)
  BY <1>4 DEF Push, PushFails, Resume
<1>5. QED
  BY <1>1, <1>2, <1>3, <1>4 DEF WalkerStep

\* Where a walker is inside park, and when it may be woken.
LEMMA WalkerStepInv ==
  ASSUME BaseInv, TypeOK', [Next]_vars PROVE WalkerInv'
<1> USE NodeFacts DEF BaseInv, Goto, Draining
<1> DEFINE OnIt(v) == slot = node[v] \/ \E i \in Installers : old[i] = node[v]
           Parks(v) == pc[v] \in Parking => node[v] \in Placeholders /\ OnIt(v)
           Woken(v) == wakes[v] > 0 => slot \in Installers
<1>1. \A v \in Walkers : Parks(v) /\ Woken(v)
  BY DEF WalkerInv
<1>2. ASSUME NEW v \in Walkers, OnIt(v), node[v] \in Placeholders, node'[v] = node[v]
      PROVE  OnIt(v)'
  <2>1. CASE UNCHANGED <<slot, old>>
    BY <1>2, <2>1
  <2>2. CASE slot = Null /\ UNCHANGED old
    BY <1>2, <2>2
  <2>3. ASSUME NEW i \in Installers, Publish(i) PROVE OnIt(v)'
    <3>1. old[i] = Null /\ old'[i] = slot /\ \A j \in Installers : j # i => old'[j] = old[j]
      BY <2>3 DEF Publish, InstallerInv, TypeOK
    <3>2. QED
      BY <1>2, <3>1
  <2>4. QED
    BY <2>1, <2>2, <2>3 DEF Next, WalkerStep, InstallerStep, LoadChild, CreateChild, Peek, SkipDuplicate,
         NotDuplicate, LoadHead, Push, PushFails, Resume, CloseList, CollectEntry, CollectDone, Wake, vars,
         installerVars
<1>3. slot \in Installers => slot' \in Installers
  BY FilledStep
<1>4. ASSUME NEW v \in Walkers, pc'[v] = pc[v], node'[v] = node[v] PROVE Parks(v)'
  BY <1>1, <1>2, <1>4
<1>5. ASSUME NEW w \in Walkers, WalkerStep(w) PROVE Parks(w)' /\ Woken(w)'
  <2> USE DEF walkerVars, installerVars
  <2>1. CASE LoadChild(w) \/ CreateChild(w)
    <3>1. /\ UNCHANGED wakes
          /\ \/ pc'[w] = "create"
             \/ pc'[w] = "away"
             \/ pc'[w] = "peek" /\ node'[w] \in Placeholders /\ slot' = node'[w]
      BY <2>1 DEF LoadChild, CreateChild, Visit, TypeOK
    <3>2. QED
      BY <1>1, <1>3, <3>1 DEF Parking
  <2>2. CASE Peek(w) \/ NotDuplicate(w) \/ PushFails(w)
    <3>1. pc[w] \in Parking /\ UNCHANGED <<slot, old, node, wakes>>
      BY <2>2 DEF Peek, NotDuplicate, PushFails, Parking
    <3>2. QED
      BY <1>1, <1>2, <3>1
  <2>3. CASE SkipDuplicate(w) \/ Push(w)
    <3>1. pc'[w] = "away" /\ UNCHANGED <<slot, wakes>>
      BY <2>3 DEF SkipDuplicate, Push, TypeOK
    <3>2. QED
      BY <1>1, <3>1 DEF Parking
  <2>4. CASE LoadHead(w)
    <3>1. node[w] \in Placeholders /\ OnIt(w)
      BY <1>1, <2>4 DEF LoadHead, Parking
    <3>2. UNCHANGED <<slot, old, node>>
      BY <2>4 DEF LoadHead
    <3>3. CASE node[w] \in closed
      <4>1. slot \in Installers
        BY <3>1, <3>3 DEF PlaceholderInv, InstallerInv
      <4>2. QED
        BY <1>2, <3>1, <3>2, <4>1
    <3>4. CASE node[w] \notin closed
      <4>1. wakes' = wakes
        BY <2>4, <3>4 DEF LoadHead
      <4>2. QED
        BY <1>1, <1>2, <3>1, <3>2, <4>1
    <3>5. QED
      BY <3>3, <3>4
  <2>5. CASE Resume(w)
    <3>1. pc'[w] = "away" /\ UNCHANGED slot /\ wakes[w] > 0
      BY <2>5 DEF Resume, TypeOK
    <3>2. QED
      BY <1>1, <3>1 DEF Parking
  <2>6. QED
    BY <1>5, <2>1, <2>2, <2>3, <2>4, <2>5 DEF WalkerStep
<1>6. ASSUME NEW w \in Walkers, WalkerStep(w), NEW v \in Walkers, v # w
      PROVE  Parks(v)' /\ Woken(v)'
  BY <1>1, <1>3, <1>4, <1>6, OthersKept
<1>7. ASSUME NEW i \in Installers, InstallerStep(i), NEW v \in Walkers
      PROVE  Parks(v)' /\ Woken(v)'
  <2>1. UNCHANGED walkerVars
    BY <1>7 DEF InstallerStep, Publish, CloseList, CollectEntry, CollectDone, Wake
  <2>2. wakes'[v] = wakes[v] \/ ipc[i] = "wake"
    BY <1>7 DEF InstallerStep, Publish, CloseList, CollectEntry, CollectDone, Wake
  <2>3. Parks(v)' /\ Woken(v)'
    BY <1>1, <1>3, <1>4, <2>1, <2>2 DEF InstallerInv, walkerVars
  <2>4. QED
    BY <2>3
<1>8. CASE UNCHANGED vars
  BY <1>8 DEF vars, walkerVars, installerVars, WalkerInv
<1>9. ASSUME Next PROVE WalkerInv'
  <2>1. \A v \in Walkers : Parks(v)' /\ Woken(v)'
    BY <1>5, <1>6, <1>7, <1>9 DEF Next
  <2>2. QED
    BY <2>1 DEF WalkerInv
<1>10. QED
  BY <1>8, <1>9

\* What a walker that compares or has left park is owed.  Here the memory of
\* a deleted entry matters: a stale match would let a walker leave unassured.
LEMMA OwedStepInv ==
  ASSUME FreedReads = {}, BaseInv, OwedInv, TypeOK', [Next]_vars PROVE OwedInv'
<1> USE NodeFacts DEF BaseInv, Goto, Draining
<1> DEFINE Compares(v) == pc[v] = "compare" /\ Last(seen[v]) = v => Assured(v)
           Owes(v) == owed[v] /\ pc[v] \in {"away", "create"} => Assured(v)
<1>1. \A v \in Walkers : Compares(v) /\ Owes(v)
  BY DEF OwedInv
<1>2. ASSUME NEW v \in Walkers, ~ Resume(v),
             pc'[v] = pc[v], seen'[v] = seen[v], owed'[v] = owed[v]
      PROVE  Compares(v)' /\ Owes(v)'
  <2>1. Assured(v) => Assured(v)'
    BY <1>2, AssuredStep
  <2>2. QED
    BY <1>1, <1>2, <2>1
<1>3. ASSUME NEW w \in Walkers, WalkerStep(w) PROVE Compares(w)' /\ Owes(w)'
  <2> USE DEF walkerVars, installerVars
  <2>1. ~ Resume(w) => (Assured(w) => Assured(w)')
    BY AssuredStep
  <2>2. CASE LoadChild(w) \/ CreateChild(w)
    <3>1. /\ pc[w] \in {"away", "create"}
          /\ wakes' = wakes
          /\ \/ pc'[w] \in {"away", "create"} /\ owed'[w] = owed[w]
             \/ pc'[w] = "peek"
      BY <2>2 DEF LoadChild, CreateChild, Visit, TypeOK
    <3>2. ~ Resume(w)
      <4>1. CASE Resume(w)
        BY <3>1, <4>1 DEF Resume, TypeOK
      <4>2. QED
        BY <4>1
    <3>3. QED
      BY <1>1, <2>1, <3>1, <3>2
  <2>3. CASE Peek(w)
    <3>1. node[w] \in Placeholders /\ list[node[w]] \in Seq(Walkers)
      BY <2>3 DEF Peek, Parking, WalkerInv, TypeOK
    <3>2. \/ pc'[w] = "load"
          \/ pc'[w] = "compare" /\ seen'[w] = list[node[w]] /\ list[node[w]] # << >>
      BY <2>3 DEF Peek, TypeOK
    <3>3. ASSUME list[node[w]] # << >>, Last(list[node[w]]) = w PROVE Assured(w)
      <4>1. w \in ToSet(list[node[w]])
        BY <3>1, <3>3, FrontLastElements
      <4>2. slot = node[w] \/ \E i \in Installers : old[i] = node[w] /\ Draining(i)
        BY <3>1, <3>3 DEF PlaceholderInv
      <4>3. QED
        BY <3>1, <4>1, <4>2 DEF Assured, InList
    <3>4. ~ Resume(w)
      BY <2>3 DEF Peek, Resume
    <3>5. QED
      BY <2>1, <3>2, <3>3, <3>4
  <2>4. CASE SkipDuplicate(w)
    <3>1. HeadReads(w) = {Last(seen[w])}
      BY DEF HeadReads
    <3>2. pc[w] = "compare" /\ pc'[w] = "away" /\ Last(seen[w]) = w
      BY <2>4, <3>1 DEF SkipDuplicate, TypeOK
    <3>3. ~ Resume(w)
      BY <3>2 DEF Resume
    <3>4. QED
      BY <1>1, <2>1, <3>2, <3>3
  <2>5. CASE NotDuplicate(w) \/ PushFails(w)
    <3>1. pc'[w] = "load"
      BY <2>5 DEF NotDuplicate, PushFails, TypeOK
    <3>2. QED
      BY <3>1
  <2>6. CASE LoadHead(w)
    <3>1. CASE node[w] \in closed
      <4>1. pc'[w] = "away" /\ wakes'[w] = wakes[w] + 1 /\ wakes[w] \in Nat
        BY <2>6, <3>1 DEF LoadHead, TypeOK
      <4>2. wakes'[w] > 0
        BY <4>1
      <4>3. Assured(w)'
        BY <4>2 DEF Assured
      <4>4. QED
        BY <4>1, <4>3
    <3>2. CASE node[w] \notin closed
      <4>1. pc'[w] = "cas"
        BY <2>6, <3>2 DEF LoadHead, TypeOK
      <4>2. QED
        BY <4>1
    <3>3. QED
      BY <3>1, <3>2
  <2>7. CASE Push(w)
    <3>1. /\ node[w] \in Placeholders /\ node[w] \notin closed
          /\ slot = node[w] \/ \E i \in Installers : old[i] = node[w]
      BY <2>7 DEF Push, Parking, WalkerInv
    <3>2. /\ UNCHANGED <<slot, old, ipc>>
          /\ pc'[w] = "away"
          /\ list'[node[w]] = Append(list[node[w]], w)
          /\ list[node[w]] \in Seq(Walkers)
      BY <2>7, <3>1 DEF Push, TypeOK
    <3>3. w \in ToSet(list'[node[w]])
      BY <3>2, AppendElements
    <3>4. slot' = node[w] \/ \E i \in Installers : old'[i] = node[w] /\ ipc'[i] \in {"close", "collect"}
      BY <3>1, <3>2 DEF InstallerInv
    <3>5. Assured(w)'
      BY <3>1, <3>3, <3>4 DEF Assured, InList
    <3>6. QED
      BY <3>2, <3>5
  <2>8. CASE Resume(w)
    <3>1. pc'[w] = "away" /\ owed'[w] = FALSE
      BY <2>8 DEF Resume, TypeOK
    <3>2. QED
      BY <3>1
  <2>9. QED
    BY <1>3, <2>2, <2>3, <2>4, <2>5, <2>6, <2>7, <2>8 DEF WalkerStep
<1>4. ASSUME NEW w \in Walkers, WalkerStep(w), NEW v \in Walkers, v # w
      PROVE  Compares(v)' /\ Owes(v)'
  <2>1. /\ pc'[v] = pc[v] /\ seen'[v] = seen[v] /\ owed'[v] = owed[v] /\ wakes'[v] = wakes[v]
    BY <1>4, OthersKept
  <2>2. CASE ~ Resume(v)
    BY <1>2, <2>1, <2>2
  <2>3. CASE Resume(v)
    <3>1. FALSE
      BY <2>1, <2>3 DEF Resume, TypeOK
    <3>2. QED
      BY <3>1
  <2>4. QED
    BY <2>2, <2>3
<1>5. ASSUME NEW i \in Installers, InstallerStep(i), NEW v \in Walkers
      PROVE  Compares(v)' /\ Owes(v)'
  <2>1. UNCHANGED walkerVars
    BY <1>5 DEF InstallerStep, Publish, CloseList, CollectEntry, CollectDone, Wake
  <2>2. ~ Resume(v)
    BY <1>5 DEF InstallerStep, Publish, CloseList, CollectEntry, CollectDone, Wake, Resume, installerVars, TypeOK
  <2>3. QED
    BY <1>2, <2>1, <2>2 DEF walkerVars
<1>6. CASE UNCHANGED vars
  BY <1>6 DEF vars, walkerVars, installerVars, OwedInv, Assured, InList, InHand
<1>7. ASSUME Next PROVE OwedInv'
  <2>1. \A v \in Walkers : Compares(v)' /\ Owes(v)'
    BY <1>3, <1>4, <1>5, <1>7 DEF Next
  <2>2. QED
    BY <2>1 DEF OwedInv
<1>8. QED
  BY <1>6, <1>7

-----------------------------------------------------------------------------
(* The theorems.                                                           *)

\* What the installers, the placeholders and the walkers inside park rely on
\* holds for any walkers and installers, whatever freed memory reads as.
THEOREM BaseInvariant == Spec => []BaseInv
<1>1. Init => BaseInv
  BY InitInv
<1>2. BaseInv /\ [Next]_vars => BaseInv'
  <2> SUFFICES ASSUME BaseInv, [Next]_vars PROVE BaseInv'
    OBVIOUS
  <2>1. TypeOK'
    BY TypeStep
  <2>2. InstallerInv' /\ PlaceholderInv' /\ WalkerInv'
    BY <2>1, InstallerStepInv, PlaceholderStepInv, WalkerStepInv
  <2>3. QED
    BY <2>1, <2>2 DEF BaseInv
<1>3. QED
  BY <1>1, <1>2, PTL DEF Spec

\* Type correctness of the park / install protocol.
THEOREM TypeCorrect == Spec => []TypeOK
BY BaseInvariant, PTL DEF BaseInv

\* The whole inductive invariant holds as long as the memory of a deleted
\* ParkedEntry never reads as an opaque.
THEOREM Invariant ==
  ASSUME FreedReads = {} PROVE Spec => []IInv
<1>1. Init => IInv
  <2>1. Init => OwedInv
    BY DEF Init, OwedInv
  <2>2. QED
    BY <2>1, InitInv DEF IInv
<1>2. IInv /\ [Next]_vars => IInv'
  <2> SUFFICES ASSUME IInv, [Next]_vars PROVE IInv'
    OBVIOUS
  <2>1. TypeOK'
    BY TypeStep DEF IInv
  <2>2. InstallerInv' /\ PlaceholderInv' /\ WalkerInv'
    BY <2>1, InstallerStepInv, PlaceholderStepInv, WalkerStepInv DEF IInv
  <2>3. OwedInv'
    BY <2>1, OwedStepInv DEF IInv
  <2>4. QED
    BY <2>1, <2>2, <2>3 DEF IInv, BaseInv
<1>3. QED
  BY <1>1, <1>2, PTL DEF Spec

\* park and drainParked lose no wake-up: whoever left park with work recorded
\* is in the list of a node that will be drained, in an installer's hands, or
\* about to be woken.
THEOREM WakeupsKept ==
  ASSUME FreedReads = {} PROVE Spec => []NoLostWakeup
<1>1. IInv => NoLostWakeup
  BY DEF IInv, OwedInv, NoLostWakeup
<1>2. QED
  BY <1>1, Invariant, PTL

\* Nobody is woken before swapIn has published the node.
THEOREM WokenAfterPublish == Spec => []WokenOnData
<1>1. BaseInv => WokenOnData
  <2> SUFFICES ASSUME BaseInv, NEW w \in Walkers, wakes[w] > 0 \/ InHand(w)
               PROVE  slot \in Installers
    BY DEF WokenOnData
  <2>1. CASE wakes[w] > 0
    BY <2>1 DEF BaseInv, WalkerInv
  <2>2. CASE InHand(w)
    <3>1. PICK i \in Installers : w \in ToSet(out[i])
      BY <2>2 DEF InHand
    <3>2. out[i] # << >>
      BY <3>1, ElementsOf DEF BaseInv, TypeOK
    <3>3. QED
      BY <3>2 DEF BaseInv, InstallerInv
  <2>3. QED
    BY <2>1, <2>2
<1>2. QED
  BY <1>1, BaseInvariant, PTL

\* Only a placeholder that has been in the slot ever collects waiters.
THEOREM ParkedOnPublished == Spec => []OnlyPublishedParked
<1>1. BaseInv => OnlyPublishedParked
  BY DEF BaseInv, PlaceholderInv, OnlyPublishedParked
<1>2. QED
  BY <1>1, BaseInvariant, PTL

-----------------------------------------------------------------------------
(* The refinement of the contract.                                         *)

Recorded(w) == InList(w) \/ InHand(w)

\* A walker's steps record nobody but the walker whose compare-and-swap
\* succeeds, and forget nobody.
LEMMA WalkerRecords ==
  ASSUME BaseInv, NEW v \in Walkers, WalkerStep(v), NEW w \in Walkers
  PROVE  Recorded(w)' <=> Recorded(w) \/ (Push(v) /\ w = v)
<1> USE NodeFacts DEF BaseInv, Goto, walkerVars, installerVars, Draining
<1>1. /\ UNCHANGED <<ipc, old, out>>
      /\ slot = slot' \/ (slot = Null /\ slot' = v)
  BY DEF WalkerStep, LoadChild, CreateChild, Peek, SkipDuplicate, NotDuplicate, LoadHead,
         Push, PushFails, Resume
<1>2. InHand(w)' <=> InHand(w)
  BY <1>1 DEF InHand
<1>3. CASE Push(v)
  <2>1. /\ node[v] \in Placeholders /\ node[v] \notin closed
        /\ slot = node[v] \/ \E i \in Installers : old[i] = node[v]
    BY <1>3 DEF Push, WalkerInv, Parking
  <2>2. /\ \A n \in Nodes : n # node[v] => list'[n] = list[n]
        /\ list'[node[v]] = Append(list[node[v]], v)
        /\ list[node[v]] \in Seq(Walkers)
        /\ slot' = slot
    BY <1>3, <2>1 DEF Push, TypeOK
  <2>3. slot = node[v] \/ \E i \in Installers : old[i] = node[v] /\ ipc[i] \in {"close", "collect"}
    BY <2>1 DEF InstallerInv
  <2>4. \A n \in Nodes : w \in ToSet(list'[n]) <=> w \in ToSet(list[n]) \/ (n = node[v] /\ w = v)
    <3>1. w \in ToSet(Append(list[node[v]], v)) <=> w \in ToSet(list[node[v]]) \/ w = v
      BY <2>2, AppendElements
    <3>2. QED
      BY <2>2, <3>1
  <2>5. InList(w)' <=> InList(w) \/ w = v
    BY <1>1, <2>1, <2>2, <2>3, <2>4 DEF InList
  <2>6. QED
    BY <1>2, <1>3, <2>5 DEF Recorded
<1>4. CASE ~ Push(v)
  <2>1. list' = list
    BY <1>4 DEF WalkerStep, LoadChild, CreateChild, Peek, SkipDuplicate, NotDuplicate, LoadHead,
                PushFails, Resume
  <2>2. CASE slot' = slot
    BY <1>1, <1>2, <1>4, <2>1, <2>2 DEF Recorded, InList
  <2>3. CASE slot = Null /\ slot' = v
    <3>1. ASSUME NEW n \in Nodes, w \in ToSet(list[n])
          PROVE  \E i \in Installers : old[i] = n /\ ipc[i] \in {"close", "collect"}
      <4>1. list[n] # << >>
        BY <3>1, ElementsOf DEF TypeOK
      <4>2. n \in Placeholders
        BY <4>1 DEF InstallerInv
      <4>3. QED
        BY <2>3, <4>1, <4>2 DEF PlaceholderInv
    <3>2. InList(w)' <=> InList(w)
      BY <1>1, <2>1, <3>1 DEF InList
    <3>3. QED
      BY <1>2, <1>4, <3>2 DEF Recorded
  <2>4. QED
    BY <1>1, <2>2, <2>3
<1>5. QED
  BY <1>3, <1>4

\* An installer's steps record nobody, and only its wake-ups forget anybody.
LEMMA InstallerRecords ==
  ASSUME BaseInv, NEW i \in Installers, InstallerStep(i), NEW w \in Walkers
  PROVE  /\ Recorded(w)' => Recorded(w)
         /\ Recorded(w) => Recorded(w)' \/ (Wake(i) /\ w \in ToSet(out[i]))
<1> USE NodeFacts DEF BaseInv, walkerVars, installerVars, Draining
<1>1. CASE Publish(i)
  <2>1. /\ list' = list /\ out' = out /\ slot' = i
        /\ \A j \in Installers : j # i => old'[j] = old[j] /\ ipc'[j] = ipc[j]
        /\ old'[i] = slot
        /\ slot # Null => ipc'[i] = "close"
        /\ ipc[i] = "building"
    BY <1>1 DEF Publish, TypeOK
  <2>2. ToSet(list[i]) = {}
    BY ElementsOf DEF InstallerInv, TypeOK
  <2>3. ASSUME NEW n \in Nodes, w \in ToSet(list[n])
        PROVE  \/ slot = n
               \/ \E j \in Installers : old[j] = n /\ ipc[j] \in {"close", "collect"}
        <=>    \/ slot' = n
               \/ \E j \in Installers : old'[j] = n /\ ipc'[j] \in {"close", "collect"}
    <3>1. n # i
      BY <2>2, <2>3
    <3>2. CASE slot = n
      BY <2>1, <3>2
    <3>3. CASE slot # n
      BY <2>1, <3>1, <3>3
    <3>4. QED
      BY <3>2, <3>3
  <2>4. InList(w)' <=> InList(w)
    BY <2>1, <2>3 DEF InList
  <2>5. QED
    BY <2>1, <2>4 DEF Recorded, InHand
<1>2. CASE CloseList(i)
  <2>1. /\ UNCHANGED <<list, slot, old, out>>
        /\ \A j \in Installers : j # i => ipc'[j] = ipc[j]
        /\ ipc'[i] = IF old[i] \in closed THEN "wake" ELSE "collect"
        /\ ipc[i] = "close"
    BY <1>2 DEF CloseList, TypeOK
  <2>2. ASSUME w \in ToSet(list[old[i]]), old[i] \in Nodes PROVE ipc'[i] = "collect"
    <3>1. list[old[i]] # << >>
      BY <2>2, ElementsOf DEF TypeOK
    <3>2. old[i] \in Placeholders
      BY <2>2, <3>1 DEF InstallerInv
    <3>3. QED
      BY <2>1, <3>2 DEF InstallerInv
  <2>3. InList(w)' <=> InList(w)
    BY <2>1, <2>2 DEF InList
  <2>4. QED
    BY <2>1, <2>3 DEF Recorded, InHand
<1>3. CASE CollectEntry(i)
  <2>1. old[i] \in Nodes /\ list[old[i]] # << >> /\ ipc[i] = "collect"
    BY <1>3 DEF CollectEntry, InstallerInv
  <2>2. list[old[i]] \in Seq(Walkers) /\ out[i] \in Seq(Walkers)
    BY <2>1 DEF TypeOK
  <2>3. Last(list[old[i]]) \in Walkers /\ Last(list[old[i]]) \in ToSet(list[old[i]])
    BY <2>1, <2>2, FrontLastElements
  <2>4. /\ UNCHANGED <<slot, old, ipc>>
        /\ \A n \in Nodes : n # old[i] => list'[n] = list[n]
        /\ list'[old[i]] = Front(list[old[i]])
        /\ \A j \in Installers : j # i => out'[j] = out[j]
        /\ out'[i] = Append(out[i], Last(list[old[i]]))
    BY <1>3, <2>1 DEF CollectEntry, TypeOK
  <2>5. /\ w \in ToSet(list'[old[i]]) => w \in ToSet(list[old[i]])
        /\ w \in ToSet(list[old[i]]) => w \in ToSet(list'[old[i]]) \/ w = Last(list[old[i]])
    BY <2>1, <2>2, <2>4, FrontLastElements
  <2>6. w \in ToSet(out'[i]) <=> w \in ToSet(out[i]) \/ w = Last(list[old[i]])
    BY <2>2, <2>3, <2>4, AppendElements
  <2>7. InHand(w)' <=> InHand(w) \/ w = Last(list[old[i]])
    BY <2>4, <2>6 DEF InHand
  <2>8. InList(w)' => InList(w)
    BY <2>4, <2>5 DEF InList
  <2>9. InList(w) => InList(w)' \/ w = Last(list[old[i]])
    BY <2>4, <2>5 DEF InList
  <2>10. w = Last(list[old[i]]) => InList(w)
    BY <2>1, <2>3 DEF InList
  <2>11. QED
    BY <2>7, <2>8, <2>9, <2>10 DEF Recorded
<1>4. CASE CollectDone(i)
  <2>1. /\ UNCHANGED <<list, slot, old, out>>
        /\ \A j \in Installers : j # i => ipc'[j] = ipc[j]
        /\ ipc'[i] = "wake" /\ list[old[i]] = << >>
    BY <1>4 DEF CollectDone, TypeOK
  <2>2. old[i] \in Nodes => ToSet(list[old[i]]) = {}
    BY <2>1, ElementsOf DEF TypeOK
  <2>3. InList(w)' <=> InList(w)
    <3>1. InList(w)' => InList(w)
      BY <2>1 DEF InList
    <3>2. InList(w) => InList(w)'
      BY <2>1, <2>2 DEF InList
    <3>3. QED
      BY <3>1, <3>2
  <2>4. QED
    BY <2>1, <2>3 DEF Recorded, InHand
<1>5. CASE Wake(i)
  <2>1. /\ UNCHANGED <<list, slot, old>>
        /\ \A j \in Installers : j # i => ipc'[j] = ipc[j] /\ out'[j] = out[j]
        /\ ipc'[i] = "done" /\ ipc[i] = "wake" /\ out'[i] = << >>
    BY <1>5 DEF Wake, TypeOK
  <2>2. InList(w)' <=> InList(w)
    BY <2>1 DEF InList
  <2>3. ToSet(out'[i]) = {}
    <3>1. out'[i] \in Seq(Walkers)
      BY <2>1
    <3>2. QED
      BY <2>1, <3>1, ElementsOf
  <2>4. InHand(w)' => InHand(w)
    BY <2>1, <2>3 DEF InHand
  <2>5. InHand(w) => InHand(w)' \/ w \in ToSet(out[i])
    BY <2>1 DEF InHand
  <2>6. QED
    BY <1>5, <2>2, <2>4, <2>5 DEF Recorded
<1>6. QED
  BY <1>1, <1>2, <1>3, <1>4, <1>5 DEF InstallerStep

\* Every step of a walker is a step of the contract or leaves it as it is.
LEMMA WalkerRefines ==
  ASSUME BaseInv, TypeOK', NEW v \in Walkers, WalkerStep(v)
  PROVE  Contract!ContractNext \/ UNCHANGED Contract!contractVars
<1> USE NodeFacts DEF BaseInv
<1>1. debtBar = {w \in Walkers : Recorded(w)} /\ debtBar' = {w \in Walkers : Recorded(w)'}
  BY DEF debtBar, Recorded
<1>2. \A w \in Walkers : Recorded(w)' <=> Recorded(w) \/ (Push(v) /\ w = v)
  BY WalkerRecords
<1>3. (slot \in Installers)' = (slot \in Installers)
  <2>1. slot = slot' \/ (slot = Null /\ slot' = v)
    BY DEF WalkerStep, LoadChild, CreateChild, Peek, SkipDuplicate, NotDuplicate, LoadHead,
           Push, PushFails, Resume, walkerVars, installerVars
  <2>2. v \notin Installers /\ Null \notin Installers
    OBVIOUS
  <2>3. QED
    BY <2>1, <2>2
<1>4. CASE Push(v)
  <2>1. debtBar' = debtBar \cup {v}
    BY <1>1, <1>2, <1>4
  <2>2. awakeBar' = awakeBar
    BY <1>4 DEF Push, awakeBar
  <2>3. Contract!Remember(v)
    BY <1>3, <2>1, <2>2 DEF Contract!Remember
  <2>4. QED
    BY <2>3 DEF Contract!ContractNext
<1>5. CASE LoadHead(v) /\ node[v] \in closed
  <2>1. /\ wakes' = [wakes EXCEPT ![v] = @ + 1]
        /\ wakes[v] \in Nat
        /\ pc[v] = "load"
    BY <1>5 DEF LoadHead, TypeOK
  <2>2. \A w \in Walkers : wakes'[w] > 0 <=> wakes[w] > 0 \/ w = v
    BY <2>1 DEF TypeOK
  <2>3. awakeBar' = awakeBar \cup {v}
    BY <2>2 DEF awakeBar
  <2>4. node[v] \in Placeholders
    BY <2>1 DEF WalkerInv, Parking
  <2>5. slot \in Installers
    BY <1>5, <2>4 DEF PlaceholderInv, InstallerInv
  <2>6. ~ Push(v)
    BY <2>1 DEF Push
  <2>7. debtBar' = debtBar
    BY <1>1, <1>2, <2>6
  <2>8. Contract!WakeSelf(v)
    BY <1>3, <2>3, <2>5, <2>7 DEF Contract!WakeSelf
  <2>9. QED
    BY <2>8 DEF Contract!ContractNext
<1>6. CASE Resume(v)
  <2>1. /\ wakes' = [wakes EXCEPT ![v] = @ - 1]
        /\ wakes[v] \in Nat /\ wakes[v] > 0
        /\ pc[v] = "away"
    BY <1>6 DEF Resume, TypeOK
  <2>2. \A w \in Walkers : w # v => wakes'[w] = wakes[w]
    BY <2>1 DEF TypeOK
  <2>3. awakeBar' = awakeBar \/ awakeBar' = awakeBar \ {v}
    <3>1. CASE wakes'[v] > 0
      BY <2>1, <2>2, <3>1 DEF awakeBar
    <3>2. CASE ~ (wakes'[v] > 0)
      BY <2>1, <2>2, <3>2 DEF awakeBar
    <3>3. QED
      BY <3>1, <3>2
  <2>4. v \in awakeBar
    BY <2>1 DEF awakeBar
  <2>5. ~ Push(v)
    BY <2>1 DEF Push
  <2>6. debtBar' = debtBar
    BY <1>1, <1>2, <2>5
  <2>7. Contract!Deliver(v)
    BY <1>3, <2>3, <2>4, <2>6 DEF Contract!Deliver
  <2>8. QED
    BY <2>7 DEF Contract!ContractNext
<1>7. CASE ~ Push(v) /\ ~ Resume(v) /\ ~ (LoadHead(v) /\ node[v] \in closed)
  <2>1. wakes' = wakes
    BY <1>7 DEF WalkerStep, LoadChild, CreateChild, Peek, SkipDuplicate, NotDuplicate, LoadHead,
                PushFails, installerVars, walkerVars
  <2>2. awakeBar' = awakeBar
    BY <2>1 DEF awakeBar
  <2>3. debtBar' = debtBar
    BY <1>1, <1>2, <1>7
  <2>4. QED
    BY <1>3, <2>2, <2>3 DEF Contract!contractVars
<1>8. QED
  BY <1>4, <1>5, <1>6, <1>7

\* So is every step of an installer.
LEMMA InstallerRefines ==
  ASSUME BaseInv, TypeOK', NEW i \in Installers, InstallerStep(i)
  PROVE  Contract!ContractNext \/ UNCHANGED Contract!contractVars
<1> USE NodeFacts DEF BaseInv
<1>1. debtBar = {w \in Walkers : Recorded(w)} /\ debtBar' = {w \in Walkers : Recorded(w)'}
  BY DEF debtBar, Recorded
<1>2. \A w \in Walkers : /\ Recorded(w)' => Recorded(w)
                         /\ Recorded(w) => Recorded(w)' \/ (Wake(i) /\ w \in ToSet(out[i]))
  BY InstallerRecords
<1>3. CASE Publish(i)
  <2>1. ~ Wake(i)
    BY <1>3 DEF Publish, Wake
  <2>2. debtBar' = debtBar
    BY <1>1, <1>2, <2>1
  <2>3. awakeBar' = awakeBar
    BY <1>3 DEF Publish, awakeBar
  <2>4. (slot \in Installers)' = TRUE
    BY <1>3 DEF Publish
  <2>5. Contract!Fill
    BY <2>2, <2>3, <2>4 DEF Contract!Fill
  <2>6. QED
    BY <2>5 DEF Contract!ContractNext
<1>4. CASE CloseList(i) \/ CollectEntry(i) \/ CollectDone(i)
  <2>1. ~ Wake(i)
    BY <1>4 DEF CloseList, CollectEntry, CollectDone, Wake
  <2>2. debtBar' = debtBar
    BY <1>1, <1>2, <2>1
  <2>3. wakes' = wakes /\ slot' = slot
    BY <1>4 DEF CloseList, CollectEntry, CollectDone
  <2>4. QED
    BY <2>2, <2>3 DEF Contract!contractVars, awakeBar
<1>5. CASE Wake(i)
  <2> DEFINE ws == ToSet(out[i])
  <2>1. /\ out[i] \in Seq(Walkers)
        /\ slot' = slot
        /\ ipc[i] = "wake"
    BY <1>5 DEF Wake, TypeOK
  <2>2. ws \subseteq Walkers
    BY <2>1, ElementsOf
  <2>3. ws \subseteq debtBar
    BY <1>1, <2>2 DEF Recorded, InHand
  <2>4. debtBar' \subseteq debtBar /\ debtBar \ debtBar' \subseteq ws
    BY <1>1, <1>2
  <2>5. \A w \in Walkers : wakes'[w] > 0 <=> wakes[w] > 0 \/ w \in ws
    <3>1. \A w \in Walkers : wakes'[w] = IF w \in ws THEN wakes[w] + 1 ELSE wakes[w]
      BY <1>5 DEF Wake
    <3>2. \A w \in Walkers : wakes[w] \in Nat
      BY DEF TypeOK
    <3>3. QED
      BY <3>1, <3>2
  <2>6. awakeBar' = awakeBar \cup ws
    BY <2>2, <2>5 DEF awakeBar
  <2>7. slot \in Installers
    BY <2>1 DEF InstallerInv
  <2>8. CASE ws = {}
    BY <2>1, <2>4, <2>6, <2>8 DEF Contract!contractVars
  <2>9. CASE ws # {}
    <3>1. Contract!WakeRemembered(ws)
      BY <2>1, <2>3, <2>4, <2>6, <2>7, <2>9 DEF Contract!WakeRemembered
    <3>2. QED
      BY <2>2, <3>1 DEF Contract!ContractNext
  <2>10. QED
    BY <2>8, <2>9
<1>6. QED
  BY <1>3, <1>4, <1>5 DEF InstallerStep

\* Lists, exchanges and collected opaques implement the contract: the slot
\* remembers whoever registers before the installation, wakes at once whoever
\* registers after it, and forgets nobody but by waking them.
THEOREM Refines == Spec => ImplementsContract
<1>1. Init => Contract!ContractInit
  <2> SUFFICES ASSUME Init PROVE Contract!ContractInit
    OBVIOUS
  <2>1. (slot \in Installers) = FALSE
    BY NodeFacts DEF Init, Placeholders
  <2>2. debtBar = {}
    <3>1. SUFFICES ASSUME NEW w \in Walkers, InList(w) \/ InHand(w) PROVE FALSE
      BY DEF debtBar
    <3>2. CASE InList(w)
      <4>1. PICK n \in Nodes : w \in ToSet(list[n])
        BY <3>2 DEF InList
      <4>2. QED
        BY <4>1, InitInv, ElementsOf DEF BaseInv, TypeOK, Init
    <3>3. CASE InHand(w)
      <4>1. PICK i \in Installers : w \in ToSet(out[i])
        BY <3>3 DEF InHand
      <4>2. QED
        BY <4>1, InitInv, ElementsOf DEF BaseInv, TypeOK, Init
    <3>4. QED
      BY <3>1, <3>2, <3>3
  <2>3. awakeBar = {}
    BY DEF Init, awakeBar
  <2>4. QED
    BY <2>1, <2>2, <2>3 DEF Contract!ContractInit
<1>2. BaseInv /\ BaseInv' /\ [Next]_vars => [Contract!ContractNext]_(Contract!contractVars)
  <2> SUFFICES ASSUME BaseInv, BaseInv', [Next]_vars
               PROVE  Contract!ContractNext \/ UNCHANGED Contract!contractVars
    OBVIOUS
  <2>1. TypeOK'
    BY DEF BaseInv
  <2>2. CASE UNCHANGED vars
    BY <2>2 DEF vars, walkerVars, installerVars, Contract!contractVars, debtBar, awakeBar, InList, InHand
  <2>3. QED
    BY <2>1, <2>2, WalkerRefines, InstallerRefines DEF Next
<1>3. QED
  BY <1>1, <1>2, BaseInvariant, PTL DEF Spec, ImplementsContract, Contract!ContractSpec
=============================================================================
