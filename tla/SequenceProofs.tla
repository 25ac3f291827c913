--------------------------- MODULE SequenceProofs ---------------------------
(***************************************************************************)
(* The safety of `sequence` (Sequence.tla) for every finite set of keys,   *)
(* every read graph and every way of grouping the entries.                 *)
(***************************************************************************)
EXTENDS Sequence, ComponentsProofs

-----------------------------------------------------------------------------
(* The groups handed in are finitely many, none empty, each of keys.       *)
LEMMA GroupsAreFinite ==
  ASSUME Inputs
  PROVE  /\ Groups = 1 .. Len(components)
         /\ Len(components) \in Nat
         /\ IsFiniteSet(Groups)
         /\ Cardinality(Groups) = Len(components)
         /\ \A group \in Groups : components[group] \in SUBSET Nat /\ components[group] # {}
<1>1. components \in Seq((SUBSET Placed) \ {{}})
  BY DEF Inputs
<1>2. Groups = 1 .. Len(components) /\ Len(components) \in Nat
  BY <1>1 DEF Groups
<1>3. IsFiniteSet(Groups) /\ Cardinality(Groups) = Len(components)
  <2> DEFINE n == Len(components)
  <2>1. n \in Int /\ 1 \in Int
    BY <1>2
  <2>2. /\ IsFiniteSet(1 .. n)
        /\ Cardinality(1 .. n) = IF 1 > n THEN 0 ELSE n - 1 + 1
    BY <2>1, FS_Interval
  <2>3. (IF 1 > n THEN 0 ELSE n - 1 + 1) = n
    BY <1>2
  <2> QED
    BY <1>2, <2>2, <2>3
<1>4. \A group \in Groups : components[group] \in (SUBSET Placed) \ {{}}
  BY <1>1, <1>2
<1> QED
  BY <1>2, <1>3, <1>4, KeysAssumption

LEMMA ProvidersAreFinite ==
  ASSUME Inputs, NEW group, NEW S
  PROVE  /\ Providers(group) \subseteq Groups
         /\ IsFiniteSet(Providers(group) \ S)
         /\ Cardinality(Providers(group) \ S) \in Nat
         /\ Cardinality(Providers(group) \ S) = 0 <=> Providers(group) \subseteq S
<1>1. Providers(group) \subseteq Groups
  BY DEF Providers
<1>2. IsFiniteSet(Providers(group) \ S)
  BY <1>1, GroupsAreFinite, FS_Subset
<1> QED
  BY <1>1, <1>2, FS_CardinalityType, FS_EmptySet

(* What the heap hands out is the least of what it holds. *)
LEMMA FirstProperties ==
  ASSUME Inputs, NEW groups \in SUBSET Groups, groups # {}
  PROVE  /\ First(groups) \in groups
         /\ \A other \in groups :
              Lowest(components[First(groups)]) <= Lowest(components[other])
<1> DEFINE Lows == {Lowest(components[group]) : group \in groups}
<1>1. Lows \in SUBSET Nat /\ Lows # {}
  BY GroupsAreFinite, LowestIsLeast
<1>2. PICK least \in Lows : \A l \in Lows : least <= l
  BY <1>1, LeastKey
<1>3. PICK group \in groups : least = Lowest(components[group])
  OBVIOUS
<1>4. \A other \in groups : Lowest(components[group]) <= Lowest(components[other])
  BY <1>2, <1>3
<1> QED
  BY <1>4 DEF First

-----------------------------------------------------------------------------
(* Why a passed-over component can only have been waiting: as long as it   *)
(* is not walked, one of its providers is missing from everything walked   *)
(* before the component that passed it over.                               *)
StillWaited ==
  \A p \in 1 .. Len(walked) : \A group \in Groups \ Walked :
    Lowest(components[group]) < Lowest(components[walked[p]])
      => \E provider \in Providers(group) : \A q \in 1 .. p - 1 : walked[q] # provider

VerdictTells ==
  /\ verdict # "running" => ready = {}
  /\ verdict = "ordered" => Len(walked) = Len(components)
  /\ verdict = "refused" => Len(walked) # Len(components)

IInv ==
  /\ TypeOK
  /\ WaitingCounts
  /\ ProviderFirst
  /\ PassedOverOnlyWaiting
  /\ StillWaited
  /\ VerdictTells

LEMMA InitIInv == Init => IInv
<1> SUFFICES ASSUME Init PROVE IInv
  OBVIOUS
<1>1. Inputs /\ walked = <<>> /\ Len(walked) = 0 /\ Walked = {}
  BY DEF Init, Start, Walked
<1>2. TypeOK
  <2>1. \A group \in Groups : Cardinality(Providers(group)) \in Nat
    <3>1. \A group \in Groups : Providers(group) \ {} = Providers(group)
      OBVIOUS
    <3> QED
      BY <1>1, <3>1, ProvidersAreFinite
  <2>2. waiting \in [Groups -> Nat]
    BY <2>1 DEF Init, Start, InitialWaiting
  <2> QED
    BY <1>1, <2>2 DEF Init, Start, TypeOK
<1>3. WaitingCounts
  <2>1. \A group \in Groups : Providers(group) \ Walked = Providers(group)
    BY <1>1
  <2> QED
    BY <1>1, <2>1 DEF Init, Start, WaitingCounts, InitialWaiting
<1>4. ProviderFirst /\ PassedOverOnlyWaiting /\ StillWaited
  BY <1>1 DEF ProviderFirst, PassedOverOnlyWaiting, StillWaited
<1>5. VerdictTells
  BY DEF Init, Start, VerdictTells
<1> QED
  BY <1>2, <1>3, <1>4, <1>5 DEF IInv

(* Walking one more component. *)
LEMMA PopIInv == IInv /\ Pop => IInv'
<1> SUFFICES ASSUME IInv, Pop PROVE IInv'
  OBVIOUS
<1> DEFINE new == First(ready)
           n == Len(walked) + 1
<1>1. Inputs
  BY DEF IInv, TypeOK
<1>2. new \in ready /\ \A other \in ready :
        Lowest(components[new]) <= Lowest(components[other])
  BY <1>1, FirstProperties DEF IInv, TypeOK, Pop
<1>3. new \in Groups /\ new \notin Walked /\ Providers(new) \subseteq Walked
  BY <1>2 DEF IInv, WaitingCounts
<1>4. UNCHANGED <<forward, components, verdict>> /\ verdict = "running"
  BY DEF Pop
<1>5. /\ Groups' = Groups
      /\ \A group : Downstream(group)' = Downstream(group)
      /\ \A group : Providers(group)' = Providers(group)
  BY <1>4 DEF Groups, Downstream, Providers
<1>6. /\ walked \in Seq(Groups) /\ Len(walked) \in Nat
      /\ walked' = Append(walked, new)
      /\ walked' \in Seq(Groups) /\ Len(walked') = n
      /\ walked'[n] = new
      /\ \A p \in 1 .. Len(walked) : walked'[p] = walked[p]
  BY <1>3 DEF IInv, TypeOK, Pop
<1>7. Walked' = Walked \cup {new}
  BY <1>6 DEF Walked
<1>8. \A group \in Groups : group \in Downstream(new) <=> new \in Providers(group)
  BY <1>3 DEF Providers
<1>9. waiting' = Released(new) /\ \A group \in Groups : waiting[group] \in Nat
  BY DEF Pop, IInv, TypeOK
<1>10. \A group \in Groups : waiting'[group] = Cardinality(Providers(group) \ Walked')
  <2> SUFFICES ASSUME NEW group \in Groups
               PROVE  waiting'[group] = Cardinality(Providers(group) \ Walked')
    OBVIOUS
  <2> DEFINE before == Providers(group) \ Walked
  <2>1. waiting[group] = Cardinality(before) /\ IsFiniteSet(before)
    BY <1>1, ProvidersAreFinite DEF IInv, WaitingCounts
  <2>2. Providers(group) \ Walked' = before \ {new}
    BY <1>7
  <2>3. Cardinality(before \ {new}) =
          IF new \in before THEN Cardinality(before) - 1 ELSE Cardinality(before)
    BY <2>1, FS_RemoveElement
  <2>4. new \in before <=> group \in Downstream(new)
    BY <1>3, <1>8
  <2>5. waiting'[group] = IF group \in Downstream(new) THEN waiting[group] - 1
                                                       ELSE waiting[group]
    BY <1>9 DEF Released
  <2> HIDE DEF before, new
  <2> QED
    BY <2>1, <2>2, <2>3, <2>4, <2>5
<1>11. waiting' \in [Groups -> Nat]
  <2>1. \A group \in Groups : Cardinality(Providers(group) \ Walked') \in Nat
    BY <1>1, ProvidersAreFinite
  <2> QED
    BY <1>9, <1>10, <2>1 DEF Released
<1>12. ready' = {group \in Groups \ Walked' : Providers(group) \subseteq Walked'}
  <2>1. ready' = (ready \ {new}) \cup {reader \in Downstream(new) : waiting'[reader] = 0}
    BY <1>9 DEF Pop
  <2>2. ready = {group \in Groups \ Walked : Providers(group) \subseteq Walked}
    BY DEF IInv, WaitingCounts
  <2>3. \A group \in Groups : waiting'[group] = 0 <=> Providers(group) \subseteq Walked'
    BY <1>1, <1>10, ProvidersAreFinite
  <2>4. \A group \in Downstream(new) : group \in Groups \ Walked /\ group # new
    <3> SUFFICES ASSUME NEW group \in Downstream(new), group \in Walked PROVE FALSE
      BY DEF Downstream
    <3>1. group \in Groups /\ new \in Providers(group)
      BY <1>8 DEF Downstream
    <3>2. PICK p \in 1 .. Len(walked) : walked[p] = group
      BY DEF Walked
    <3>3. \E q \in 1 .. p - 1 : walked[q] = new
      BY <3>1, <3>2 DEF IInv, ProviderFirst
    <3>4. new \in Walked
      BY <3>2, <3>3, <1>6 DEF Walked
    <3> QED
      BY <3>4, <1>3
  <2>5. \A group \in Groups \ Walked :
          new \notin Providers(group)
            => (Providers(group) \subseteq Walked' <=> Providers(group) \subseteq Walked)
    BY <1>7
  <2>6. \A group \in Downstream(new) : group \notin ready
    BY <2>2, <1>8, <1>3, <2>4
  <2> HIDE DEF new
  <2> QED
    BY <2>1, <2>2, <2>3, <2>4, <2>5, <2>6, <1>7, <1>8, <1>3
<1>13. TypeOK'
  <2>1. Inputs'
    BY <1>1, <1>4, <1>5 DEF Inputs
  <2> QED
    BY <2>1, <1>4, <1>5, <1>6, <1>11, <1>12 DEF TypeOK
<1>14. WaitingCounts'
  <2>1. \A p, q \in 1 .. Len(walked') : p # q => walked'[p] # walked'[q]
    <3>1. \A p \in 1 .. Len(walked) : walked[p] \in Walked
      BY DEF Walked
    <3>2. \A p, q \in 1 .. Len(walked) : p # q => walked[p] # walked[q]
      BY DEF IInv, WaitingCounts
    <3>3. \A p \in 1 .. Len(walked') : p \in 1 .. Len(walked) \/ p = n
      BY <1>6
    <3> QED
      BY <3>1, <3>2, <3>3, <1>3, <1>6
  <2> QED
    BY <2>1, <1>5, <1>10, <1>12 DEF WaitingCounts
<1>15. ProviderFirst'
  <2> SUFFICES ASSUME NEW p \in 1 .. n, NEW provider \in Providers(walked'[p])
               PROVE  \E q \in 1 .. p - 1 : walked'[q] = provider
    BY <1>5, <1>6 DEF ProviderFirst
  <2>1. CASE p \in 1 .. Len(walked)
    <3>1. PICK q \in 1 .. p - 1 : walked[q] = provider
      BY <2>1, <1>6 DEF IInv, ProviderFirst
    <3> QED
      BY <2>1, <3>1, <1>6
  <2>2. CASE p = n
    <3>1. provider \in Walked
      BY <2>2, <1>3, <1>6
    <3> QED
      BY <2>2, <3>1, <1>6 DEF Walked
  <2> QED
    BY <2>1, <2>2, <1>6
<1>16. PassedOverOnlyWaiting'
  <2> SUFFICES ASSUME NEW p \in 1 .. n, NEW q \in 1 .. n, p < q,
                      Lowest(components[walked'[q]]) < Lowest(components[walked'[p]])
               PROVE  \E between \in p .. q - 1 : walked'[between] \in Providers(walked'[q])
    BY <1>4, <1>5, <1>6 DEF PassedOverOnlyWaiting
  <2>1. CASE q \in 1 .. Len(walked)
    <3>1. PICK between \in p .. q - 1 : walked[between] \in Providers(walked[q])
      BY <2>1, <1>6 DEF IInv, PassedOverOnlyWaiting
    <3> QED
      BY <2>1, <3>1, <1>6
  <2>2. CASE q = n
    <3>1. p \in 1 .. Len(walked) /\ walked'[p] = walked[p] /\ walked'[q] = new
      BY <2>2, <1>6
    <3>2. PICK provider \in Providers(new) : \A r \in 1 .. p - 1 : walked[r] # provider
      BY <3>1, <1>3 DEF IInv, StillWaited
    <3>3. PICK r \in 1 .. Len(walked) : walked[r] = provider
      BY <1>3 DEF Walked
    <3> QED
      BY <2>2, <3>1, <3>2, <3>3, <1>6
  <2> QED
    BY <2>1, <2>2, <1>6
<1>17. StillWaited'
  <2> SUFFICES ASSUME NEW p \in 1 .. n, NEW group \in Groups \ Walked',
                      Lowest(components[group]) < Lowest(components[walked'[p]])
               PROVE  \E provider \in Providers(group) :
                        \A q \in 1 .. p - 1 : walked'[q] # provider
    BY <1>4, <1>5, <1>6 DEF StillWaited
  <2>1. group \in Groups \ Walked /\ group # new
    BY <1>7
  <2>2. CASE p \in 1 .. Len(walked)
    <3>1. PICK provider \in Providers(group) : \A q \in 1 .. p - 1 : walked[q] # provider
      BY <2>1, <2>2, <1>6 DEF IInv, StillWaited
    <3> QED
      BY <2>2, <3>1, <1>6
  <2>3. CASE p = n
    <3>1. Lowest(components[group]) \in Nat /\ Lowest(components[new]) \in Nat
      BY <1>1, <1>3, GroupsAreFinite, LowestIsLeast
    <3>2. group \notin ready
      BY <2>3, <1>2, <1>6, <3>1
    <3>3. PICK provider \in Providers(group) : provider \notin Walked
      BY <2>1, <3>2 DEF IInv, WaitingCounts
    <3> QED
      BY <2>3, <3>3, <1>6 DEF Walked
  <2> QED
    BY <2>2, <2>3, <1>6
<1>18. VerdictTells'
  BY <1>4 DEF VerdictTells
<1> HIDE DEF new, n
<1> QED
  BY <1>13, <1>14, <1>15, <1>16, <1>17, <1>18 DEF IInv

(* What the loop's bookkeeping says, a step that walks nothing leaves so.  *)
LEMMA NothingWalked ==
  ASSUME IInv, UNCHANGED <<forward, components, waiting, ready, walked>>
  PROVE  /\ Inputs' /\ Groups' = Groups
         /\ WaitingCounts' /\ ProviderFirst' /\ PassedOverOnlyWaiting' /\ StillWaited'
<1>1. /\ Groups' = Groups
      /\ \A group : Providers(group)' = Providers(group)
      /\ Walked' = Walked
      /\ Inputs' = Inputs
  BY DEF Groups, Downstream, Providers, Walked, Inputs
<1>2. Inputs' /\ Groups' = Groups
  BY <1>1 DEF IInv, TypeOK
<1>3. WaitingCounts'
  <2>1. \A group \in Groups : Cardinality(Providers(group) \ Walked)'
                                = Cardinality(Providers(group) \ Walked)
    BY <1>1
  <2>2. ready' = {group \in Groups' \ Walked' : Providers(group)' \subseteq Walked'}
    BY <1>1 DEF IInv, WaitingCounts
  <2> QED
    BY <1>1, <2>1, <2>2 DEF IInv, WaitingCounts
<1>4. ProviderFirst'
  BY <1>1 DEF IInv, ProviderFirst
<1>5. PassedOverOnlyWaiting'
  BY <1>1 DEF IInv, PassedOverOnlyWaiting
<1>6. StillWaited'
  BY <1>1 DEF IInv, StillWaited
<1> QED
  BY <1>2, <1>3, <1>4, <1>5, <1>6

(* Leaving the loop, by either door. *)
LEMMA LeaveIInv == IInv /\ (Return \/ Refuse) => IInv'
<1> SUFFICES ASSUME IInv, Return \/ Refuse PROVE IInv'
  OBVIOUS
<1>1. /\ UNCHANGED <<forward, components, waiting, ready, walked>>
      /\ ready = {}
      /\ \/ verdict' = "ordered" /\ Len(walked) = Len(components)
         \/ verdict' = "refused" /\ Len(walked) # Len(components)
  BY DEF Return, Refuse
<1>2. TypeOK' /\ VerdictTells'
  BY <1>1, NothingWalked DEF IInv, TypeOK, VerdictTells
<1> QED
  BY <1>1, <1>2, NothingWalked DEF IInv

LEMMA StutterIInv == IInv /\ UNCHANGED vars => IInv'
<1> SUFFICES ASSUME IInv, UNCHANGED vars PROVE IInv'
  OBVIOUS
<1>1. UNCHANGED <<forward, components, waiting, ready, walked, verdict>>
  BY DEF vars, kahn
<1>2. TypeOK' /\ VerdictTells'
  BY <1>1, NothingWalked DEF IInv, TypeOK, VerdictTells
<1> QED
  BY <1>1, <1>2, NothingWalked DEF IInv

LEMMA SpecIInv == Spec => []IInv
<1>1. IInv /\ [Next]_vars => IInv'
  BY PopIInv, LeaveIInv, StutterIInv DEF Next, Step
<1> QED
  BY InitIInv, <1>1, PTL DEF Spec

-----------------------------------------------------------------------------
(* Because no component is walked twice, counting them tells whether all   *)
(* of them were.                                                           *)
LEMMA CountingTells ==
  ASSUME IInv
  PROVE  Walked = Groups <=> Len(walked) = Len(components)
<1> DEFINE Places == 1 .. Len(walked)
<1>1. walked \in [Places -> Groups] /\ Len(walked) \in Nat
  BY DEF IInv, TypeOK
<1>2. walked \in Injection(Places, Groups)
  <2>1. \A p, q \in Places : walked[p] = walked[q] => p = q
    BY DEF IInv, WaitingCounts
  <2> QED
    BY <1>1, <2>1 DEF Injection, IsInjective
<1>3. /\ IsFiniteSet(Groups) /\ Cardinality(Groups) = Len(components)
      /\ Cardinality(Places) = Len(walked)
  <2>1. \A n \in Nat : Cardinality(1 .. n) = n
    BY FS_Interval
  <2> QED
    BY <1>1, <2>1, GroupsAreFinite DEF IInv, TypeOK
<1>4. Cardinality(Places) = Cardinality(Groups) <=> walked \in Surjection(Places, Groups)
  BY <1>2, <1>3, FS_Injection
<1>5. walked \in Surjection(Places, Groups) <=> Walked = Groups
  BY <1>1 DEF Surjection, Walked
<1> QED
  BY <1>3, <1>4, <1>5

(* A component that can wait for ever is part of a circle: among unwalked  *)
(* components ranked so that reads go up, the lowest waits for nothing.    *)
LEMMA StuckIsCyclic ==
  ASSUME IInv, ready = {}, NEW rank \in Rankings, Ascends(rank)
  PROVE  Walked = Groups
<1>0. Walked \subseteq Groups
  <2>1. walked \in Seq(Groups)
    BY DEF IInv, TypeOK
  <2> QED
    BY <2>1 DEF Walked
<1> SUFFICES ASSUME Groups \ Walked # {} PROVE FALSE
  BY <1>0
<1> DEFINE Unwalked == Groups \ Walked
           Ranks == {rank[group] : group \in Unwalked}
<1>1. Ranks \in SUBSET Nat /\ Ranks # {}
  BY GroupsAreFinite DEF Rankings, IInv, TypeOK
<1>2. PICK least \in Ranks : \A r \in Ranks : least <= r
  BY <1>1, LeastKey
<1>3. PICK group \in Unwalked : rank[group] = least
  OBVIOUS
<1>4. PICK provider \in Providers(group) : provider \notin Walked
  BY <1>3 DEF IInv, WaitingCounts
<1>5. provider \in Unwalked /\ group \in Downstream(provider)
  BY <1>4 DEF Providers
<1>6. rank[provider] < rank[group]
  BY <1>5 DEF Ascends
<1>7. rank[provider] \in Ranks
  BY <1>5
<1> QED
  BY <1>1, <1>2, <1>3, <1>6, <1>7

LEMMA IInvSafety == IInv => ReturnsAll /\ RefusesOnlyCycles
<1> SUFFICES ASSUME IInv PROVE ReturnsAll /\ RefusesOnlyCycles
  OBVIOUS
<1>1. ReturnsAll
  BY CountingTells DEF ReturnsAll, IInv, VerdictTells
<1>2. RefusesOnlyCycles
  <2> SUFFICES ASSUME verdict = "refused", NEW rank \in Rankings, Ascends(rank) PROVE FALSE
    BY DEF RefusesOnlyCycles
  <2>1. ready = {} /\ Len(walked) # Len(components)
    BY DEF IInv, VerdictTells
  <2> QED
    BY <2>1, StuckIsCyclic, CountingTells
<1> QED
  BY <1>1, <1>2

-----------------------------------------------------------------------------
(* The loop of `sequence` keeps its types. *)
THEOREM TypeCorrect == Spec => []TypeOK
BY SpecIInv, PTL DEF IInv

(* Its counters and its heap are exact at every pass: a component is       *)
(* walked once, and waits for precisely the providers not walked.          *)
THEOREM Counting == Spec => []WaitingCounts
BY SpecIInv, PTL DEF IInv

(* A component is never applied before one it reads. *)
THEOREM ProvidersFirst == Spec => []ProviderFirst
BY SpecIInv, PTL DEF IInv

(* The order is the least by plan key that the reads allow: a component is *)
(* passed over only while one of its providers was still to be walked.     *)
THEOREM TieBreak == Spec => []PassedOverOnlyWaiting
BY SpecIInv, PTL DEF IInv

(* A call that returns returns every component it was given. *)
THEOREM Completeness == Spec => []ReturnsAll
BY SpecIInv, IInvSafety, PTL

(* A call refuses only components that read each other in a circle, so     *)
(* strong components, whose condensation has none, are always ordered.     *)
THEOREM Refusal == Spec => []RefusesOnlyCycles
BY SpecIInv, IInvSafety, PTL
=============================================================================
