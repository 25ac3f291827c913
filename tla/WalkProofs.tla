------------------------------ MODULE WalkProofs ------------------------------
(***************************************************************************)
(* `walk` (Walk.tla) on every finite set of keys, every plan and every     *)
(* selection: it never refuses, and the order, the cycles and the reads it *)
(* reports are what the plan says.  The loops it runs are those of         *)
(* ComponentsProofs and SequenceProofs.  Last, the picture made of it      *)
(* (Picture.tla).                                                          *)
(***************************************************************************)
EXTENDS Picture, SequenceProofs

-----------------------------------------------------------------------------
(* Putting sequences one after another: `ends[p]` is how many elements the *)
(* first `p` of them have.                                                 *)
Laid(S, parts, m, ends, whole) ==
  /\ whole \in Seq(S) /\ ends \in [0 .. m -> Nat]
  /\ ends[0] = 0 /\ Len(whole) = ends[m]
  /\ \A p \in 1 .. m : ends[p] = ends[p - 1] + Len(parts[p])
  /\ \A p, q \in 0 .. m : p <= q => ends[p] <= ends[q]
  /\ \A p \in 1 .. m : \A k \in 1 .. Len(parts[p]) : whole[ends[p - 1] + k] = parts[p][k]
  /\ \A i \in 1 .. ends[m] : \E p \in 1 .. m : ends[p - 1] < i /\ i <= ends[p]

LEMMA LaidOneMore ==
  ASSUME NEW S, NEW n \in Nat, NEW parts \in [1 .. n -> Seq(S)], NEW m \in 0 .. n - 1,
         NEW ends, NEW whole, Laid(S, parts, m, ends, whole)
  PROVE  \E longer : Laid(S, parts, m + 1, longer, whole \o parts[m + 1])
<1> DEFINE next == parts[m + 1]
           size == ends[m] + Len(next)
           longer == [p \in 0 .. m + 1 |-> IF p = m + 1 THEN size ELSE ends[p]]
           all == whole \o next
<1>1. /\ whole \in Seq(S) /\ ends \in [0 .. m -> Nat] /\ ends[0] = 0 /\ Len(whole) = ends[m]
      /\ \A p \in 1 .. m : ends[p] = ends[p - 1] + Len(parts[p])
      /\ \A p, q \in 0 .. m : p <= q => ends[p] <= ends[q]
      /\ \A p \in 1 .. m : \A k \in 1 .. Len(parts[p]) : whole[ends[p - 1] + k] = parts[p][k]
      /\ \A i \in 1 .. ends[m] : \E p \in 1 .. m : ends[p - 1] < i /\ i <= ends[p]
  BY DEF Laid
<1>2. m \in Nat /\ m + 1 \in 1 .. n /\ m \in 0 .. m /\ 0 \in 0 .. m
  OBVIOUS
<1>3. next \in Seq(S) /\ Len(next) \in Nat /\ ends[m] \in Nat /\ size \in Nat
  BY <1>1, <1>2
<1>4. /\ all \in Seq(S) /\ Len(all) = Len(whole) + Len(next)
      /\ \A i \in 1 .. Len(whole) + Len(next) :
           all[i] = IF i <= Len(whole) THEN whole[i] ELSE next[i - Len(whole)]
  <2> HIDE DEF next
  <2> QED
    BY <1>1, <1>3, ConcatProperties
<1>5. /\ DOMAIN longer = 0 .. m + 1 /\ longer[m + 1] = size
      /\ \A p \in 0 .. m : longer[p] = ends[p] /\ p # m + 1 /\ p \in 0 .. m + 1
      /\ \A p \in 0 .. m + 1 : p = m + 1 \/ p \in 0 .. m
      /\ \A p \in 1 .. m + 1 : p - 1 \in 0 .. m /\ (p = m + 1 \/ p \in 1 .. m)
  BY <1>2
<1>6. longer \in [0 .. m + 1 -> Nat]
  BY <1>1, <1>3
<1> HIDE DEF longer, all, next
<1>7. longer[0] = 0 /\ Len(all) = longer[m + 1]
  BY <1>1, <1>2, <1>4, <1>5
<1>8. \A p \in 1 .. m + 1 : longer[p] = longer[p - 1] + Len(parts[p])
  <2> SUFFICES ASSUME NEW p \in 1 .. m + 1 PROVE longer[p] = longer[p - 1] + Len(parts[p])
    OBVIOUS
  <2>1. CASE p = m + 1
    BY <1>2, <1>5, <2>1 DEF next
  <2>2. CASE p \in 1 .. m
    BY <1>1, <1>2, <1>5, <2>2
  <2> QED
    BY <1>5, <2>1, <2>2
<1>9. \A p, q \in 0 .. m + 1 : p <= q => longer[p] <= longer[q]
  <2> SUFFICES ASSUME NEW p \in 0 .. m + 1, NEW q \in 0 .. m + 1, p <= q
               PROVE  longer[p] <= longer[q]
    OBVIOUS
  <2>1. CASE q \in 0 .. m
    <3>1. p \in 0 .. m
      BY <1>2, <2>1
    <3> QED
      BY <1>1, <1>5, <2>1, <3>1
  <2>2. CASE q = m + 1 /\ p \in 0 .. m
    <3>1. ends[p] <= ends[m] /\ ends[p] \in Nat
      BY <1>1, <1>2, <2>2
    <3> QED
      BY <1>3, <1>5, <2>2, <3>1
  <2>3. CASE q = m + 1 /\ p = m + 1
    BY <1>3, <1>5, <2>3
  <2> QED
    BY <1>5, <2>1, <2>2, <2>3
<1>10. \A p \in 1 .. m + 1 : \A k \in 1 .. Len(parts[p]) : all[longer[p - 1] + k] = parts[p][k]
  <2> SUFFICES ASSUME NEW p \in 1 .. m + 1, NEW k \in 1 .. Len(parts[p])
               PROVE  all[longer[p - 1] + k] = parts[p][k]
    OBVIOUS
  <2>1. CASE p = m + 1
    <3>1. longer[p - 1] = Len(whole) /\ k \in 1 .. Len(next) /\ Len(whole) \in Nat
      <4>1. longer[p - 1] = ends[m] /\ parts[p] = next
        BY <1>2, <1>5, <2>1 DEF next
      <4> QED
        BY <1>1, <1>3, <4>1
    <3>2. /\ Len(whole) + k \in 1 .. Len(whole) + Len(next) /\ ~(Len(whole) + k <= Len(whole))
          /\ Len(whole) + k - Len(whole) = k
      BY <1>3, <3>1
    <3>3. all[longer[p - 1] + k] = next[k]
      BY <1>4, <3>1, <3>2
    <3> QED
      BY <2>1, <3>3 DEF next
  <2>2. CASE p \in 1 .. m
    <3>1. /\ ends[p] = ends[p - 1] + Len(parts[p]) /\ ends[p] <= ends[m]
          /\ ends[p - 1] \in Nat /\ ends[p] \in Nat /\ longer[p - 1] = ends[p - 1]
      BY <1>1, <1>2, <1>5, <2>2
    <3>2. Len(parts[p]) \in Nat
      BY <1>2
    <3>3. /\ ends[p - 1] + k \in 1 .. Len(whole) + Len(next)
          /\ ends[p - 1] + k <= Len(whole)
      <4>1. k \in Nat /\ 1 <= k /\ k <= Len(parts[p])
        BY <3>2
      <4>2. Len(whole) = ends[m] /\ ends[m] \in Nat /\ Len(next) \in Nat
        BY <1>1, <1>3
      <4>3. ends[p - 1] + k \in Nat /\ 1 <= ends[p - 1] + k
        BY <3>1, <4>1
      <4>4. ends[p - 1] + k <= ends[p]
        BY <3>1, <3>2, <4>1
      <4>5. ends[p - 1] + k <= Len(whole)
        BY <3>1, <4>2, <4>3, <4>4
      <4> QED
        BY <4>2, <4>3, <4>5
    <3>4. all[longer[p - 1] + k] = whole[ends[p - 1] + k]
      BY <1>4, <3>1, <3>3
    <3>5. whole[ends[p - 1] + k] = parts[p][k]
      BY <1>1, <2>2
    <3> QED
      BY <3>4, <3>5
  <2> QED
    BY <1>5, <2>1, <2>2
<1>11. \A i \in 1 .. longer[m + 1] : \E p \in 1 .. m + 1 : longer[p - 1] < i /\ i <= longer[p]
  <2> SUFFICES ASSUME NEW i \in 1 .. longer[m + 1]
               PROVE  \E p \in 1 .. m + 1 : longer[p - 1] < i /\ i <= longer[p]
    OBVIOUS
  <2>1. CASE i <= ends[m]
    <3>1. PICK p \in 1 .. m : ends[p - 1] < i /\ i <= ends[p]
      BY <1>1, <1>3, <2>1
    <3>2. p \in 1 .. m + 1 /\ longer[p - 1] = ends[p - 1] /\ longer[p] = ends[p]
      BY <1>2, <1>5
    <3> QED
      BY <3>1, <3>2
  <2>2. CASE ~(i <= ends[m])
    <3>1. longer[m + 1 - 1] = ends[m] /\ m + 1 \in 1 .. m + 1
      BY <1>2, <1>5
    <3>2. ends[m] < i /\ i <= longer[m + 1]
      BY <1>3, <2>2
    <3> QED
      BY <3>1, <3>2
  <2> QED
    BY <2>1, <2>2
<1>12. Laid(S, parts, m + 1, longer, all)
  BY <1>4, <1>6, <1>7, <1>8, <1>9, <1>10, <1>11 DEF Laid
<1> QED
  BY <1>12 DEF all, next

(* `FlattenSeq` is a recursive function: the equation it solves has a      *)
(* solution, since one for fewer sequences extends to one for more.        *)
Flattens(parts, m, f) ==
  f = [i \in 1 .. m |-> IF i = 1 THEN parts[i] ELSE f[i - 1] \o parts[i]]

LEMMA SomeFlattens ==
  ASSUME NEW n \in Nat, NEW parts
  PROVE  \E f : Flattens(parts, n, f)
<1> DEFINE Failing == {m \in 0 .. n : ~ \E f : Flattens(parts, m, f)}
<1>1. CASE Failing = {}
  BY <1>1
<1>2. CASE Failing # {}
  <2>1. PICK m \in Failing : \A l \in Failing : m <= l
    <3>1. Failing \in SUBSET Nat
      OBVIOUS
    <3> HIDE DEF Failing
    <3> QED
      BY <1>2, <3>1, LeastKey
  <2>2. CASE m = 0
    <3> DEFINE f == [i \in 1 .. 0 |-> parts[i]]
    <3>1. f = [i \in 1 .. 0 |-> IF i = 1 THEN parts[i] ELSE f[i - 1] \o parts[i]]
      OBVIOUS
    <3>2. Flattens(parts, 0, f)
      BY <3>1 DEF Flattens
    <3> QED
      BY <2>2, <3>2
  <2>3. CASE m # 0
    <3>1. m \in Nat /\ m - 1 \in 0 .. n /\ ~(m <= m - 1)
      BY <2>3
    <3>2. PICK f : Flattens(parts, m - 1, f)
      BY <2>1, <3>1
    <3> DEFINE g == [i \in 1 .. m |-> IF i = 1 THEN parts[i] ELSE f[i - 1] \o parts[i]]
    <3>3. \A i \in 1 .. m - 1 : f[i] = IF i = 1 THEN parts[i] ELSE f[i - 1] \o parts[i]
      BY <3>2, Zenon DEF Flattens
    <3>4. \A i \in 1 .. m - 1 : f[i] = g[i]
      <4>1. \A i \in 1 .. m - 1 : i \in 1 .. m
        BY <3>1
      <4>2. \A i \in 1 .. m : g[i] = IF i = 1 THEN parts[i] ELSE f[i - 1] \o parts[i]
        OBVIOUS
      <4> HIDE DEF g
      <4> QED
        BY <3>3, <4>1, <4>2
    <3>5. \A i \in 1 .. m : i = 1 \/ i - 1 \in 1 .. m - 1
      BY <3>1
    <3>6. g = [i \in 1 .. m |-> IF i = 1 THEN parts[i] ELSE g[i - 1] \o parts[i]]
      <4>1. \A i \in 1 .. m : (IF i = 1 THEN parts[i] ELSE f[i - 1] \o parts[i])
                              = (IF i = 1 THEN parts[i] ELSE g[i - 1] \o parts[i])
        <5> HIDE DEF g
        <5> QED
          BY <3>4, <3>5
      <4>2. g = [i \in 1 .. m |-> IF i = 1 THEN parts[i] ELSE f[i - 1] \o parts[i]]
        OBVIOUS
      <4> HIDE DEF g
      <4> QED
        BY <4>1, <4>2, Zenon
    <3>7. Flattens(parts, m, g)
      BY <3>6 DEF Flattens
    <3> QED
      BY <3>7
  <2> QED
    BY <2>2, <2>3
<1> QED
  BY <1>1, <1>2

LEMMA FlattenLaid ==
  ASSUME NEW S, NEW n \in Nat, NEW parts \in [1 .. n -> Seq(S)]
  PROVE  \E ends : Laid(S, parts, n, ends, FlattenSeq(parts))
<1>1. Len(parts) = n /\ parts \in Seq(Seq(S))
  OBVIOUS
<1>2. \E ends : Laid(S, parts, 0, ends, <<>>)
  <2> DEFINE ends == [p \in 0 .. 0 |-> 0]
  <2>1. ends \in [0 .. 0 -> Nat] /\ ends[0] = 0 /\ \A p \in 0 .. 0 : ends[p] = 0
    OBVIOUS
  <2>2. <<>> \in Seq(S) /\ Len(<<>>) = 0 /\ 1 .. 0 = {}
    OBVIOUS
  <2> HIDE DEF ends
  <2>3. Laid(S, parts, 0, ends, <<>>)
    BY <2>1, <2>2 DEF Laid
  <2> QED
    BY <2>3
<1>3. CASE n = 0
  <2>1. FlattenSeq(parts) = <<>>
    BY <1>1, <1>3, EmptySeq DEF FlattenSeq
  <2> QED
    BY <1>2, <1>3, <2>1
<1>4. CASE n # 0
  <2> DEFINE flatten == CHOOSE f : Flattens(parts, n, f)
  <2>1. Flattens(parts, n, flatten)
    BY SomeFlattens
  <2>2. FlattenSeq(parts) = flatten[n]
    BY <1>1, <1>4, Zenon DEF FlattenSeq, Flattens
  <2> HIDE DEF flatten
  <2>3. /\ flatten[1] = parts[1]
        /\ \A m \in 1 .. n : m # 1 => flatten[m] = flatten[m - 1] \o parts[m]
    <3>1. \A i \in 1 .. n : flatten[i] = IF i = 1 THEN parts[i] ELSE flatten[i - 1] \o parts[i]
      BY <2>1, Zenon DEF Flattens
    <3>2. 1 \in 1 .. n
      BY <1>4
    <3> QED
      BY <3>1, <3>2, Zenon
  <2> DEFINE Failing == {m \in 1 .. n : ~ \E ends : Laid(S, parts, m, ends, flatten[m])}
  <2>4. CASE Failing = {}
    <3>1. n \in 1 .. n
      BY <1>4
    <3> QED
      BY <2>2, <2>4, <3>1
  <2>5. CASE Failing # {}
    <3>1. PICK m \in Failing : \A l \in Failing : m <= l
      <4>1. Failing \in SUBSET Nat
        OBVIOUS
      <4> HIDE DEF Failing
      <4> QED
        BY <2>5, <4>1, LeastKey
    <3>2. CASE m = 1
      <4>1. 0 \in 0 .. n - 1 /\ parts[1] \in Seq(S)
        BY <1>4
      <4>2. \E ends : Laid(S, parts, 0 + 1, ends, <<>> \o parts[0 + 1])
        BY <1>2, <4>1, LaidOneMore
      <4>3. <<>> \o parts[1] = parts[1]
        BY <4>1, ConcatEmptySeq
      <4> QED
        BY <2>3, <3>2, <4>2, <4>3
    <3>3. CASE m # 1
      <4>1. /\ m - 1 \in 1 .. n /\ m - 1 \in 0 .. n - 1 /\ m \in 1 .. n
            /\ ~(m <= m - 1) /\ m - 1 + 1 = m
        BY <3>3
      <4>2. PICK ends : Laid(S, parts, m - 1, ends, flatten[m - 1])
        BY <3>1, <4>1
      <4>3. \E longer : Laid(S, parts, m - 1 + 1, longer, flatten[m - 1] \o parts[m - 1 + 1])
        BY <4>1, <4>2, LaidOneMore
      <4>4. flatten[m] = flatten[m - 1] \o parts[m]
        BY <2>3, <3>3, <4>1
      <4>5. \E longer : Laid(S, parts, m, longer, flatten[m])
        BY <4>1, <4>3, <4>4
      <4> QED
        BY <4>1, <4>5
    <3> QED
      BY <3>2, <3>3
  <2> QED
    BY <2>4, <2>5
<1> QED
  BY <1>3, <1>4

-----------------------------------------------------------------------------
(* What the graph of one run is, in the words of the properties.           *)
LEMMA ForwardIsGraph ==
  ASSUME plan \in Plans, selected \subseteq Placed
  PROVE  /\ IsGraph(Forward(plan, selected))
         /\ DOMAIN Forward(plan, selected) = selected
         /\ Readers = Forward(plan, selected)
         /\ \A k \in selected : k \notin Forward(plan, selected)[k]
<1>1. selected \subseteq Nat /\ IsFiniteSet(selected)
  <2>1. selected \subseteq Keys
    BY KeysAssumption
  <2> QED
    BY <2>1, KeysAssumption, FS_Subset
<1> QED
  BY <1>1 DEF IsGraph, Forward, Readers

(* An entry leads to another exactly when it leads there in at least one   *)
(* step, and that is when one of its readers leads there.                  *)
LEMMA ReachedBySteps ==
  ASSUME NEW g, IsGraph(g), NEW a \in DOMAIN g, NEW b \in DOMAIN g
  PROVE  /\ b \in Reached(g, g[a]) <=> \E c \in g[a] : Connected(g, c, b)
         /\ a # b => (b \in Reached(g, g[a]) <=> Connected(g, a, b))
<1>1. g[a] \subseteq DOMAIN g
  BY DEF IsGraph
<1>2. ASSUME NEW c \in g[a], Connected(g, c, b)
      PROVE  b \in Reached(g, g[a])
  BY <1>2 DEF Connected, Reached
<1>3. ASSUME b \in Reached(g, g[a])
      PROVE  \E c \in g[a] : Connected(g, c, b)
  <2> DEFINE S == {x \in DOMAIN g : \E c \in g[a] : Connected(g, c, x)}
  <2>1. g[a] \subseteq S
    BY <1>1, ConnectedProperties
  <2>2. \A l \in S : g[l] \subseteq S
    <3> SUFFICES ASSUME NEW l \in S, NEW x \in g[l] PROVE x \in S
      OBVIOUS
    <3>1. PICK c \in g[a] : Connected(g, c, l)
      OBVIOUS
    <3>2. x \in DOMAIN g /\ Connected(g, l, x) /\ c \in DOMAIN g
      BY <1>1, ConnectedProperties DEF IsGraph
    <3> QED
      BY <3>1, <3>2, ConnectedProperties
  <2>3. S \in SUBSET DOMAIN g
    OBVIOUS
  <2>4. b \in S
    <3> HIDE DEF S
    <3> QED
      BY <1>3, <2>1, <2>2, <2>3 DEF Reached
  <2> QED
    BY <2>4
<1>4. ASSUME a # b, Connected(g, a, b)
      PROVE  b \in Reached(g, g[a])
  <2> DEFINE S == {a} \cup Reached(g, g[a])
  <2>1. S \in SUBSET DOMAIN g /\ {a} \subseteq S
    BY DEF Reached
  <2>2. \A l \in S : g[l] \subseteq S
    <3>1. g[a] \subseteq Reached(g, g[a])
      BY <1>1 DEF Reached
    <3>2. ASSUME NEW l \in Reached(g, g[a]) PROVE g[l] \subseteq Reached(g, g[a])
      BY <3>2 DEF Reached, IsGraph
    <3> QED
      BY <3>1, <3>2
  <2>3. b \in S
    <3> HIDE DEF S
    <3> QED
      BY <1>4, <2>1, <2>2, ConnectedProperties
  <2> QED
    BY <1>4, <2>3
<1>5. ASSUME b \in Reached(g, g[a]) PROVE Connected(g, a, b)
  <2>1. PICK c \in g[a] : Connected(g, c, b)
    BY <1>3, <1>5
  <2> QED
    BY <1>1, <2>1, ConnectedProperties
<1> QED
  BY <1>2, <1>3, <1>4, <1>5

(* A strong component, and whether it has more than the entry itself.      *)
LEMMA StrongByFeeding ==
  ASSUME NEW g, IsGraph(g), NEW a \in DOMAIN g, a \notin g[a]
  PROVE  /\ StrongComponent(g, a)
              = {n \in DOMAIN g : \/ n = a
                                  \/ a \in Reached(g, g[n]) /\ n \in Reached(g, g[a])}
         /\ a \in Reached(g, g[a]) <=> \E c \in g[a] : c \in StrongComponent(g, a)
         /\ a \in Reached(g, g[a]) <=> \E b \in StrongComponent(g, a) : b # a
<1>1. \A b \in DOMAIN g : a # b =>
        /\ b \in Reached(g, g[a]) <=> Connected(g, a, b)
        /\ a \in Reached(g, g[b]) <=> Connected(g, b, a)
  BY ReachedBySteps
<1>2. a \in Reached(g, g[a]) <=> \E c \in g[a] : Connected(g, c, a)
  BY ReachedBySteps
<1>3. \A c \in g[a] : c \in DOMAIN g /\ Connected(g, a, c)
  BY ConnectedProperties DEF IsGraph
<1>4. \A b \in StrongComponent(g, a) : b \in DOMAIN g /\ Connected(g, a, b) /\ Connected(g, b, a)
  BY DEF StrongComponent
<1>5. ASSUME NEW b \in StrongComponent(g, a), b # a
      PROVE  \E c \in g[a] : Connected(g, c, a)
  <2>1. PICK c \in g[a] : Connected(g, c, b)
    BY <1>1, <1>4, <1>5, ReachedBySteps
  <2> QED
    BY <1>3, <1>4, <2>1, ConnectedProperties
<1>6. Connected(g, a, a)
  BY ConnectedProperties
<1> QED
  BY <1>1, <1>2, <1>3, <1>4, <1>5, <1>6 DEF StrongComponent

-----------------------------------------------------------------------------
(* The invariant of the whole call: each loop keeps its own while it runs, *)
(* and what Tarjan's loop closed is what `sequence` is handed.             *)
Phases == {"reading", "unreadable", "grouping", "sequencing", "ordered"}

WalkInv ==
  /\ plan \in Plans
  /\ selected \subseteq Placed
  /\ phase \in Phases
  /\ phase = "reading" => Call
  /\ phase \notin {"reading", "unreadable"} => forward = Forward(plan, selected)
  /\ phase = "grouping" => TarjanInv /\ walked = <<>> /\ verdict = "running"
  /\ phase \in {"sequencing", "ordered"} => /\ IInv
                                            /\ Grouping(forward, components)
  /\ phase = "sequencing" => verdict = "running"
  /\ phase = "ordered" => verdict = "ordered"

LEMMA ReadKeeps == WalkInv /\ Read => WalkInv'
<1> SUFFICES ASSUME WalkInv, Read PROVE WalkInv'
  OBVIOUS
<1>1. /\ plan \in Plans /\ selected \subseteq Placed /\ Call
      /\ forward' = Forward(plan, selected) /\ phase' = "grouping"
      /\ UNCHANGED <<plan, selected, components, index, low, held, work,
                     waiting, ready, walked, verdict>>
  BY DEF WalkInv, Read, tarjan, kahn
<1>2. IsGraph(forward')
  BY <1>1, ForwardIsGraph
<1>3. NothingVisited'
  BY <1>1 DEF Call, NothingVisited
<1>4. (IsGraph(forward) /\ NothingVisited => TarjanInv)'
  BY TarjanInitial, PTL
<1>5. IsGraph(forward)'
  BY <1>2 DEF IsGraph
<1>6. TarjanInv' /\ walked' = <<>> /\ verdict' = "running"
  BY <1>1, <1>3, <1>4, <1>5 DEF Call
<1>7. forward' = Forward(plan', selected')
  BY <1>1
<1> QED
  BY <1>1, <1>6, <1>7 DEF WalkInv, Phases

LEMMA UnreadableKeeps == WalkInv /\ Unreadable => WalkInv'
BY DEF WalkInv, Unreadable, Phases

LEMMA GroupKeeps == WalkInv /\ Group => WalkInv'
<1> SUFFICES ASSUME WalkInv, Group PROVE WalkInv'
  OBVIOUS
<1>1. TarjanInv'
  BY ExploreKeeps DEF WalkInv, Group
<1>2. forward' = forward
  BY DEF Group, Explore, Root, Descend, Close, StayOpen, Ascend
<1>3. phase = "grouping" /\ UNCHANGED <<plan, selected, walked, verdict, phase>>
  BY DEF Group, kahn
<1> QED
  BY <1>1, <1>2, <1>3 DEF WalkInv, Phases

(* The components handed on: all entries, each in one, no way back up.     *)
LEMMA GroupedKeeps == WalkInv /\ Grouped => WalkInv'
<1> SUFFICES ASSUME WalkInv, Grouped PROVE WalkInv'
  OBVIOUS
<1>1. /\ TarjanInv /\ Explored /\ forward = Forward(plan, selected)
      /\ plan \in Plans /\ selected \subseteq Placed
      /\ walked = <<>> /\ verdict = "running"
      /\ UNCHANGED <<plan, selected, forward, components, walked, verdict>>
      /\ waiting' = InitialWaiting
      /\ ready' = {group \in Groups : Providers(group) = {}}
      /\ phase' = "sequencing"
  BY DEF WalkInv, Grouped
<1>2. Grouping(forward, components) /\ IsGraph(forward)
  BY <1>1 DEF TarjanInv, Explored, Tarjan
<1>3. components \in Seq((SUBSET DOMAIN forward) \ {{}}) /\ Groups = 1 .. Len(components)
  BY <1>2 DEF Grouping, Groups
<1>4. UNION {components[i] : i \in Groups} = DOMAIN forward
  <2>1. UNION ToSet(components) = DOMAIN forward
    BY <1>1, TarjanSafe DEF ClosesStrongComponents, Nodes
  <2>2. ToSet(components) = {components[i] : i \in Groups}
    BY DEF ToSet, Groups
  <2> QED
    BY <2>1, <2>2
<1>5. \A i, j \in Groups : i # j => components[i] \cap components[j] = {}
  BY <1>2, <1>3 DEF Grouping
<1>6. DOMAIN forward \subseteq Placed /\ forward \in [DOMAIN forward -> SUBSET DOMAIN forward]
  BY <1>1, <1>2, ForwardIsGraph DEF IsGraph
<1>7. Inputs
  BY <1>3, <1>4, <1>5, <1>6 DEF Inputs
<1>8. Init'
  <2>1. Inputs'
    BY <1>1, <1>7 DEF Inputs, Groups
  <2>2. /\ Groups' = Groups /\ InitialWaiting' = InitialWaiting
        /\ \A group : Providers(group)' = Providers(group)
    BY <1>1 DEF Groups, InitialWaiting, Providers, Downstream
  <2>3. Start'
    BY <1>1, <2>2 DEF Start
  <2> QED
    BY <2>1, <2>3 DEF Init
<1>9. (Init => IInv)'
  BY InitIInv, PTL
<1>10. IInv' /\ verdict' = "running"
  BY <1>1, <1>8, <1>9
<1>11. Grouping(forward', components') /\ forward' = Forward(plan', selected')
  BY <1>1, <1>2
<1> QED
  BY <1>1, <1>10, <1>11 DEF WalkInv, Phases

(* Strong components can always be walked: numbered from the last one      *)
(* closed, every read between two of them goes up.                         *)
LEMMA NeverStuck ==
  ASSUME IInv, Grouping(forward, components), ready = {}
  PROVE  Len(walked) = Len(components)
<1> DEFINE rank == [group \in Groups |-> Len(components) + 1 - group]
<1>1. Groups = 1 .. Len(components) /\ Len(components) \in Nat
  BY GroupsAreFinite DEF IInv, TypeOK
<1>2. rank \in Rankings
  BY <1>1 DEF Rankings
<1>3. Ascends(rank)
  <2> SUFFICES ASSUME NEW group \in Groups, NEW reader \in Downstream(group)
               PROVE  rank[group] < rank[reader]
    BY DEF Ascends
  <2>1. reader \in Groups /\ reader # group
        /\ \E p \in components[group], c \in components[reader] : c \in forward[p]
    BY DEF Downstream
  <2>2. reader <= group
    BY <1>1, <2>1 DEF Grouping
  <2> QED
    BY <1>1, <2>1, <2>2
<1> HIDE DEF rank
<1> QED
  BY <1>2, <1>3, StuckIsCyclic, CountingTells

LEMMA SequencedKeeps == WalkInv /\ Sequenced => WalkInv'
<1> SUFFICES ASSUME WalkInv, Sequenced PROVE WalkInv'
  OBVIOUS
<1>1. /\ IInv /\ Grouping(forward, components) /\ verdict = "running" /\ Step
      /\ forward = Forward(plan, selected)
      /\ plan \in Plans /\ selected \subseteq Placed /\ phase = "sequencing"
      /\ UNCHANGED <<plan, selected>>
      /\ phase' = IF verdict' = "running" THEN phase ELSE verdict'
  BY DEF WalkInv, Sequenced
<1>2. UNCHANGED <<forward, components>>
  BY <1>1 DEF Step, Pop, Return, Refuse
<1>3. IInv'
  BY <1>1, PopIInv, LeaveIInv DEF Step
<1>4. ~Refuse
  BY <1>1, NeverStuck DEF Refuse
<1>5. verdict' \in {"running", "ordered"}
  BY <1>1, <1>4 DEF Step, Pop, Return
<1>6. Grouping(forward', components') /\ forward' = Forward(plan', selected')
  BY <1>1, <1>2
<1> QED
  BY <1>1, <1>3, <1>5, <1>6 DEF WalkInv, Phases

LEMMA WalkStutterKeeps == WalkInv /\ UNCHANGED walk => WalkInv'
<1> SUFFICES ASSUME WalkInv, UNCHANGED walk PROVE WalkInv'
  OBVIOUS
<1>1. UNCHANGED <<plan, selected, phase, forward, components, index, low, held, work,
                  waiting, ready, walked, verdict>>
  BY DEF walk, tarjan, kahn
<1>2. TarjanInv => TarjanInv'
  BY <1>1, TarjanKept DEF tarjan
<1>3. IInv => IInv'
  BY <1>1, StutterIInv DEF vars, kahn
<1>4. Call => Call'
  BY <1>1 DEF Call, NothingVisited
<1>5. Forward(plan', selected') = Forward(plan, selected)
      /\ (Grouping(forward, components) => Grouping(forward', components'))
  BY <1>1
<1> QED
  BY <1>1, <1>2, <1>3, <1>4, <1>5 DEF WalkInv

LEMMA SpecWalkInv == WalkSpec => []WalkInv
<1>1. WalkInit => WalkInv
  BY DEF WalkInit, Call, WalkInv, Phases
<1>2. WalkInv /\ [WalkNext]_walk => WalkInv'
  BY ReadKeeps, UnreadableKeeps, GroupKeeps, GroupedKeeps, SequencedKeeps, WalkStutterKeeps
     DEF WalkNext, WalkStep
<1> QED
  BY <1>1, <1>2, PTL DEF WalkSpec

-----------------------------------------------------------------------------
(* The sequence `walk` returns: one component after another, so an entry   *)
(* of a component walked earlier stands before one of a component walked   *)
(* later, and every entry has one place.                                   *)
Finished ==
  /\ IInv
  /\ IsGraph(forward)
  /\ Grouping(forward, components)
  /\ Walked = Groups

Placing ==
  /\ Order \in Seq(Nodes)
  /\ \A a \in Nodes : At(a) \in 1 .. Len(Order) /\ Order[At(a)] = a
  /\ \A i \in 1 .. Len(Order) : At(Order[i]) = i
  /\ \A p, q \in 1 .. Len(walked) : p < q =>
       \A a \in components[walked[p]], b \in components[walked[q]] : At(a) < At(b)

LEMMA ComponentsSorted ==
  ASSUME Finished, NEW p \in 1 .. Len(walked)
  PROVE  LET group == components[walked[p]] sorted == Ascending(group)
         IN /\ walked[p] \in Groups /\ group \subseteq Nodes
            /\ sorted \in Seq(Nodes) /\ Len(sorted) \in Nat
            /\ \A k \in 1 .. Len(sorted) : sorted[k] \in group
            /\ \A a \in group : \E k \in 1 .. Len(sorted) : sorted[k] = a
            /\ \A k, l \in 1 .. Len(sorted) : k < l => sorted[k] < sorted[l]
            /\ \A k \in 1 .. Len(sorted) : sorted[k] \in Nat
<1> DEFINE group == components[walked[p]]
           sorted == Ascending(group)
<1>1. walked[p] \in Groups
  BY DEF Finished, IInv, TypeOK
<1>2. group \in SUBSET DOMAIN forward
  BY <1>1 DEF Finished, IInv, TypeOK, Inputs, Groups
<1>3. group \in SUBSET Nat /\ IsFiniteSet(group)
  BY <1>2, FS_Subset DEF Finished, IsGraph
<1> HIDE DEF group
<1>4. /\ Cardinality(group) \in Nat
      /\ sorted \in [1 .. Cardinality(group) -> group]
      /\ Len(sorted) = Cardinality(group)
      /\ \A k \in group : \E i \in 1 .. Cardinality(group) : sorted[i] = k
      /\ \A i, j \in 1 .. Cardinality(group) : i < j => sorted[i] < sorted[j]
  BY <1>3, AscendingSorts
<1> HIDE DEF sorted
<1>5. sorted \in Seq(Nodes)
  <2>1. sorted \in [1 .. Cardinality(group) -> Nodes]
    BY <1>2, <1>4 DEF Nodes
  <2> QED
    BY <1>4, <2>1
<1>6. \A k \in 1 .. Len(sorted) : sorted[k] \in group /\ sorted[k] \in Nat
  BY <1>3, <1>4
<1>7. group \subseteq Nodes
  BY <1>2 DEF Nodes
<1> QED
  BY <1>1, <1>4, <1>5, <1>6, <1>7 DEF group, sorted

(* Where `walked` has an entry: in one component, at one place of it.      *)
LEMMA OnePlace ==
  ASSUME Finished
  PROVE  /\ Len(walked) \in Nat
         /\ \A a \in Nodes : \E p \in 1 .. Len(walked) : a \in components[walked[p]]
         /\ \A p, q \in 1 .. Len(walked) : p # q =>
              components[walked[p]] \cap components[walked[q]] = {}
<1>1. walked \in Seq(Groups) /\ Inputs
  BY DEF Finished, IInv, TypeOK
<1>2. \A a \in Nodes : \E i \in Groups : a \in components[i]
  BY <1>1 DEF Inputs, Nodes
<1>3. \A i \in Groups : \E p \in 1 .. Len(walked) : walked[p] = i
  BY DEF Finished, Walked
<1>4. \A p, q \in 1 .. Len(walked) : p # q =>
        walked[p] \in Groups /\ walked[q] \in Groups /\ walked[p] # walked[q]
  BY <1>1 DEF Finished, IInv, WaitingCounts
<1>5. \A i, j \in Groups : i # j => components[i] \cap components[j] = {}
  BY <1>1 DEF Inputs
<1>6. \A p, q \in 1 .. Len(walked) : p # q =>
        components[walked[p]] \cap components[walked[q]] = {}
  BY <1>4, <1>5
<1>7. \A a \in Nodes : \E p \in 1 .. Len(walked) : a \in components[walked[p]]
  BY <1>2, <1>3
<1>8. Len(walked) \in Nat
  BY <1>1
<1> QED
  BY <1>6, <1>7, <1>8

LEMMA OrderIsPlacing == Finished => Placing
<1> SUFFICES ASSUME Finished PROVE Placing
  OBVIOUS
<1> DEFINE n == Len(walked)
           parts == [p \in 1 .. n |-> Ascending(components[walked[p]])]
<1>1. n \in Nat
  BY OnePlace
<1>2. parts \in [1 .. n -> Seq(Nodes)]
  BY ComponentsSorted
<1>3. Order = FlattenSeq(parts)
  BY DEF Order
<1>4. \A p \in 1 .. n : /\ parts[p] = Ascending(components[walked[p]])
                        /\ Len(parts[p]) \in Nat
                        /\ \A k \in 1 .. Len(parts[p]) : parts[p][k] \in components[walked[p]]
  BY ComponentsSorted
<1>5. \A p \in 1 .. n : \A a \in components[walked[p]] :
        \E k \in 1 .. Len(parts[p]) : parts[p][k] = a
  BY ComponentsSorted
<1>6. \A p \in 1 .. n : \A k, l \in 1 .. Len(parts[p]) : k # l => parts[p][k] # parts[p][l]
  <2> SUFFICES ASSUME NEW p \in 1 .. n, NEW k \in 1 .. Len(parts[p]), NEW l \in 1 .. Len(parts[p]),
                      k # l
               PROVE  parts[p][k] # parts[p][l]
    OBVIOUS
  <2>1. /\ \A i, j \in 1 .. Len(parts[p]) : i < j => parts[p][i] < parts[p][j]
        /\ \A i \in 1 .. Len(parts[p]) : parts[p][i] \in Nat
    BY ComponentsSorted
  <2>2. Len(parts[p]) \in Nat
    BY <1>4
  <2> HIDE DEF parts
  <2>3. k < l \/ l < k
    BY <2>2
  <2>4. parts[p][k] \in Nat /\ parts[p][l] \in Nat
    BY <2>1
  <2>5. k < l => parts[p][k] < parts[p][l]
    BY <2>1
  <2>6. l < k => parts[p][l] < parts[p][k]
    BY <2>1
  <2> QED
    BY <2>3, <2>4, <2>5, <2>6
<1> HIDE DEF parts, n
<1>7. PICK ends : Laid(Nodes, parts, n, ends, Order)
  BY <1>1, <1>2, <1>3, FlattenLaid
<1>8. /\ Order \in Seq(Nodes) /\ ends \in [0 .. n -> Nat]
      /\ Len(Order) = ends[n] /\ ends[0] = 0
      /\ \A p \in 1 .. n : ends[p] = ends[p - 1] + Len(parts[p])
      /\ \A p, q \in 0 .. n : p <= q => ends[p] <= ends[q]
      /\ \A p \in 1 .. n : \A k \in 1 .. Len(parts[p]) : Order[ends[p - 1] + k] = parts[p][k]
      /\ \A i \in 1 .. ends[n] : \E p \in 1 .. n : ends[p - 1] < i /\ i <= ends[p]
  BY <1>7 DEF Laid
<1>9. \A p \in 1 .. n : /\ p - 1 \in 0 .. n /\ p \in 0 .. n /\ n \in 0 .. n
                        /\ ends[p - 1] \in Nat /\ ends[p] \in Nat /\ ends[p] <= ends[n]
                        /\ ends[n] \in Nat
  <2> SUFFICES ASSUME NEW p \in 1 .. n
               PROVE  /\ p - 1 \in 0 .. n /\ p \in 0 .. n /\ n \in 0 .. n
                      /\ ends[p - 1] \in Nat /\ ends[p] \in Nat /\ ends[p] <= ends[n]
                      /\ ends[n] \in Nat
    OBVIOUS
  <2>1. p - 1 \in 0 .. n /\ p \in 0 .. n /\ n \in 0 .. n /\ p <= n
    BY <1>1
  <2> QED
    BY <1>8, <2>1
(* Each place of the order, and the component it is in.                    *)
<1> DEFINE In(i, p) == ends[p - 1] < i /\ i <= ends[p]
<1>10. \A i \in 1 .. Len(Order) : \E p \in 1 .. n : In(i, p)
  BY <1>8
<1>11. ASSUME NEW i \in 1 .. Len(Order), NEW p \in 1 .. n, In(i, p)
       PROVE  /\ i - ends[p - 1] \in 1 .. Len(parts[p])
              /\ Order[i] = parts[p][i - ends[p - 1]]
              /\ Order[i] \in components[walked[p]]
  <2>1. /\ ends[p - 1] \in Nat /\ ends[p] \in Nat /\ ends[p] = ends[p - 1] + Len(parts[p])
        /\ Len(parts[p]) \in Nat /\ i \in Nat
    BY <1>4, <1>8, <1>9
  <2>2. i - ends[p - 1] \in 1 .. Len(parts[p]) /\ ends[p - 1] + (i - ends[p - 1]) = i
    BY <1>11, <2>1
  <2>3. Order[ends[p - 1] + (i - ends[p - 1])] = parts[p][i - ends[p - 1]]
    BY <1>8, <2>2
  <2>4. Order[i] = parts[p][i - ends[p - 1]]
    BY <2>2, <2>3
  <2> QED
    BY <1>4, <2>2, <2>4
<1>12. ASSUME NEW a \in Nodes, NEW p \in 1 .. n, a \in components[walked[p]]
       PROVE  \E i \in 1 .. Len(Order) : In(i, p) /\ Order[i] = a
  <2>1. PICK k \in 1 .. Len(parts[p]) : parts[p][k] = a
    BY <1>5, <1>12
  <2>2. /\ ends[p - 1] \in Nat /\ ends[p] \in Nat /\ ends[p] = ends[p - 1] + Len(parts[p])
        /\ Len(parts[p]) \in Nat /\ ends[p] <= ends[n] /\ ends[n] \in Nat
    BY <1>4, <1>8, <1>9
  <2>3. ends[p - 1] + k \in 1 .. ends[n] /\ In(ends[p - 1] + k, p)
    <3>1. k \in Nat /\ 1 <= k /\ k <= Len(parts[p])
      BY <2>2
    <3> QED
      BY <2>2, <3>1
  <2>4. Order[ends[p - 1] + k] = a
    BY <1>8, <2>1
  <2> QED
    BY <1>8, <2>3, <2>4
<1>13. ASSUME NEW i \in 1 .. Len(Order), NEW j \in 1 .. Len(Order), Order[i] = Order[j]
       PROVE  i = j
  <2>1. PICK p \in 1 .. n : In(i, p)
    BY <1>10
  <2>2. PICK q \in 1 .. n : In(j, q)
    BY <1>10
  <2>3. Order[i] \in components[walked[p]] /\ Order[j] \in components[walked[q]]
    BY <1>11, <2>1, <2>2
  <2>4. p = q
    BY <1>13, <2>3, OnePlace DEF n
  <2>5. /\ i - ends[p - 1] \in 1 .. Len(parts[p]) /\ j - ends[p - 1] \in 1 .. Len(parts[p])
        /\ parts[p][i - ends[p - 1]] = parts[p][j - ends[p - 1]]
    BY <1>11, <1>13, <2>1, <2>2, <2>4
  <2>6. i - ends[p - 1] = j - ends[p - 1]
    BY <1>6, <2>5
  <2>7. i \in Int /\ j \in Int /\ ends[p - 1] \in Int
    BY <1>9
  <2> QED
    BY <2>6, <2>7
<1>14. \A a \in Nodes : At(a) \in 1 .. Len(Order) /\ Order[At(a)] = a
  <2> SUFFICES ASSUME NEW a \in Nodes PROVE At(a) \in 1 .. Len(Order) /\ Order[At(a)] = a
    OBVIOUS
  <2>1. \E i \in 1 .. Len(Order) : Order[i] = a
    BY <1>12, OnePlace DEF n
  <2> QED
    BY <2>1 DEF At
<1>15. \A i \in 1 .. Len(Order) : At(Order[i]) = i
  <2> SUFFICES ASSUME NEW i \in 1 .. Len(Order) PROVE At(Order[i]) = i
    OBVIOUS
  <2>1. At(Order[i]) \in 1 .. Len(Order) /\ Order[At(Order[i])] = Order[i]
    BY DEF At
  <2> QED
    BY <1>13, <2>1
<1>16. ASSUME NEW p \in 1 .. n, NEW q \in 1 .. n, p < q,
              NEW a \in components[walked[p]], NEW b \in components[walked[q]]
       PROVE  At(a) < At(b)
  <2>1. a \in Nodes /\ b \in Nodes
    BY ComponentsSorted DEF n
  <2>2. PICK i \in 1 .. Len(Order) : In(i, p) /\ Order[i] = a
    BY <1>12, <2>1
  <2>3. PICK j \in 1 .. Len(Order) : In(j, q) /\ Order[j] = b
    BY <1>12, <2>1
  <2>4. At(a) = i /\ At(b) = j
    BY <1>15, <2>2, <2>3
  <2>5. p \in 0 .. n /\ q - 1 \in 0 .. n /\ p <= q - 1
    BY <1>1, <1>16
  <2>6. ends[p] <= ends[q - 1] /\ ends[p] \in Nat /\ ends[q - 1] \in Nat
    BY <1>8, <2>5
  <2>7. i <= ends[p] /\ ends[q - 1] < j /\ i \in Int /\ j \in Int
    BY <2>2, <2>3
  <2> QED
    BY <2>4, <2>6, <2>7
<1> QED
  BY <1>8, <1>14, <1>15, <1>16 DEF Placing, n

-----------------------------------------------------------------------------
(* What a read says of the two places: one component, or the provider's    *)
(* before the consumer's.                                                  *)
LEMMA ReadsGoUp ==
  ASSUME Finished, NEW p \in 1 .. Len(walked), NEW q \in 1 .. Len(walked),
         NEW a \in components[walked[p]], NEW b \in components[walked[q]],
         b \in forward[a]
  PROVE  p <= q
<1>1. CASE walked[p] = walked[q]
  BY <1>1 DEF Finished, IInv, WaitingCounts
<1>2. CASE walked[p] # walked[q]
  <2>1. walked[p] \in Groups /\ walked[q] \in Groups
    BY ComponentsSorted
  <2>2. walked[p] \in Providers(walked[q])
    BY <1>2, <2>1 DEF Providers, Downstream
  <2>3. PICK r \in 1 .. q - 1 : walked[r] = walked[p]
    BY <2>2 DEF Finished, IInv, ProviderFirst
  <2>4. Len(walked) \in Nat
    BY OnePlace
  <2>5. r \in 1 .. Len(walked) /\ r <= q
    BY <2>4
  <2>6. r = p
    BY <2>3, <2>5 DEF Finished, IInv, WaitingCounts
  <2> QED
    BY <2>5, <2>6
<1> QED
  BY <1>1, <1>2

LEMMA SameComponent ==
  ASSUME Finished, NEW p \in 1 .. Len(walked), NEW a \in components[walked[p]]
  PROVE  /\ a \in Nodes
         /\ components[walked[p]] = StrongComponent(forward, a)
<1>1. walked[p] \in Groups /\ components[walked[p]] \subseteq Nodes
  BY ComponentsSorted
<1>2. walked[p] \in 1 .. Len(components)
  BY <1>1, GroupsAreFinite DEF Finished, IInv, TypeOK
<1> QED
  BY <1>1, <1>2 DEF Finished, Grouping

(* If one entry leads to another, it stands in the same component or in    *)
(* one walked earlier.                                                     *)
LEMMA WaysGoUp ==
  ASSUME Finished, NEW p \in 1 .. Len(walked), NEW q \in 1 .. Len(walked),
         NEW a \in components[walked[p]], NEW b \in components[walked[q]],
         Connected(forward, a, b)
  PROVE  p <= q
<1> DEFINE S == {x \in Nodes : \E r \in 1 .. Len(walked) : p <= r /\ x \in components[walked[r]]}
<1>0. Len(walked) \in Nat
  BY OnePlace
<1>1. a \in S
  BY SameComponent
<1>2. \A l \in S : forward[l] \subseteq S
  <2> SUFFICES ASSUME NEW l \in S, NEW x \in forward[l] PROVE x \in S
    OBVIOUS
  <2>1. PICK r \in 1 .. Len(walked) : p <= r /\ l \in components[walked[r]]
    OBVIOUS
  <2>2. x \in Nodes
    BY DEF Finished, IsGraph, Nodes
  <2>3. PICK s \in 1 .. Len(walked) : x \in components[walked[s]]
    BY <2>2, OnePlace
  <2>4. r <= s
    BY <2>1, <2>3, ReadsGoUp
  <2>5. p <= s
    BY <1>0, <2>1, <2>4
  <2> QED
    BY <2>2, <2>3, <2>5
<1>3. b \in S
  <2>1. S \in SUBSET DOMAIN forward
    BY DEF Nodes
  <2> HIDE DEF S
  <2> QED
    BY <1>1, <1>2, <2>1, ConnectedProperties DEF Finished
<1>4. PICK r \in 1 .. Len(walked) : p <= r /\ b \in components[walked[r]]
  BY <1>3
<1>5. r = q
  BY <1>4, OnePlace
<1> QED
  BY <1>4, <1>5

LEMMA EachPlacedOnce ==
  ASSUME Placing, IsFiniteSet(Nodes)
  PROVE  ToSet(Order) = Nodes /\ Len(Order) = Cardinality(Nodes)
<1>1. /\ Order \in Seq(Nodes) /\ Len(Order) \in Nat
      /\ Order \in [1 .. Len(Order) -> Nodes]
      /\ DOMAIN Order = 1 .. Len(Order)
  BY DEF Placing
<1>2. \A a \in Nodes : \E i \in 1 .. Len(Order) : Order[i] = a
  BY DEF Placing
<1>3. \A i, j \in 1 .. Len(Order) : Order[i] = Order[j] => i = j
  BY DEF Placing
<1>4. ToSet(Order) = Nodes
  BY <1>1, <1>2 DEF ToSet
<1>5. Order \in Bijection(1 .. Len(Order), Nodes)
  BY <1>1, <1>2, <1>3 DEF Bijection, Injection, Surjection, IsInjective
<1>6. IsFiniteSet(1 .. Len(Order)) /\ Cardinality(1 .. Len(Order)) = Len(Order)
  BY <1>1, FS_Interval
<1>7. Cardinality(1 .. Len(Order)) = Cardinality(Nodes)
  <2>1. ExistsBijection(1 .. Len(Order), Nodes)
    BY <1>5 DEF ExistsBijection
  <2> QED
    BY <1>6, <2>1, FS_Bijection
<1> QED
  BY <1>4, <1>6, <1>7

LEMMA OrderedIsFinished ==
  ASSUME WalkInv, phase = "ordered"
  PROVE  /\ Finished /\ Placing
         /\ Nodes = selected /\ IsFiniteSet(selected)
         /\ Readers = forward /\ forward = Forward(plan, selected)
         /\ \A k \in Nodes : k \notin forward[k]
<1>1. /\ plan \in Plans /\ selected \subseteq Placed /\ forward = Forward(plan, selected)
      /\ IInv /\ Grouping(forward, components) /\ verdict = "ordered"
  BY DEF WalkInv
<1>2. /\ IsGraph(forward) /\ DOMAIN forward = selected /\ Readers = forward
      /\ \A k \in selected : k \notin forward[k]
  BY <1>1, ForwardIsGraph
<1>3. Finished
  BY <1>1, <1>2, IInvSafety DEF Finished, ReturnsAll
<1> QED
  BY <1>1, <1>2, <1>3, OrderIsPlacing DEF Nodes, IsGraph

LEMMA HonoursReads == WalkInv => OrderHonoursReads
<1> SUFFICES ASSUME WalkInv, phase = "ordered"
             PROVE  /\ ToSet(Order) = selected /\ Len(Order) = Cardinality(selected)
                    /\ \A consumer, provider \in selected :
                         Feeds(provider, consumer) /\ ~Feeds(consumer, provider)
                           => At(provider) < At(consumer)
  BY DEF OrderHonoursReads
<1>1. /\ Finished /\ Placing /\ Nodes = selected /\ IsFiniteSet(selected) /\ Readers = forward
      /\ IsGraph(forward) /\ DOMAIN forward = selected
  BY OrderedIsFinished DEF Finished, Nodes
<1>2. ToSet(Order) = selected /\ Len(Order) = Cardinality(selected)
  BY <1>1, EachPlacedOnce
<1>3. ASSUME NEW consumer \in selected, NEW provider \in selected,
             Feeds(provider, consumer), ~Feeds(consumer, provider)
      PROVE  At(provider) < At(consumer)
  <2>1. consumer # provider
    BY <1>3
  <2>2. Connected(forward, provider, consumer) /\ ~Connected(forward, consumer, provider)
    BY <1>1, <1>3, <2>1, ReachedBySteps DEF Feeds
  <2>3. PICK p \in 1 .. Len(walked) : provider \in components[walked[p]]
    BY <1>1, OnePlace
  <2>4. PICK q \in 1 .. Len(walked) : consumer \in components[walked[q]]
    BY <1>1, OnePlace
  <2>5. p <= q
    BY <1>1, <2>2, <2>3, <2>4, WaysGoUp
  <2>6. p # q
    <3>1. provider \in StrongComponent(forward, provider)
          /\ components[walked[p]] = StrongComponent(forward, provider)
      BY <1>1, <2>3, SameComponent, StrongComponentShared, ConnectedProperties DEF StrongComponent
    <3> QED
      BY <2>2, <2>4, <3>1 DEF StrongComponent
  <2>7. Len(walked) \in Nat
    BY <1>1, OnePlace
  <2>8. p < q
    BY <2>5, <2>6, <2>7
  <2> QED
    BY <1>1, <2>3, <2>4, <2>8 DEF Placing
<1> QED
  BY <1>2, <1>3

(* More than one entry: at least two different ones.                       *)
LEMMA SeveralEntries ==
  ASSUME NEW S, IsFiniteSet(S), NEW a \in S
  PROVE  Cardinality(S) > 1 <=> \E b \in S : b # a
<1>1. IsFiniteSet(S \ {a}) /\ Cardinality(S \ {a}) = Cardinality(S) - 1
  BY FS_RemoveElement
<1>2. Cardinality(S) \in Nat /\ Cardinality(S \ {a}) \in Nat
  BY <1>1, FS_CardinalityType
<1>3. Cardinality(S \ {a}) = 0 <=> S \ {a} = {}
  BY <1>1, FS_EmptySet
<1>4. Cardinality(S) > 1 <=> Cardinality(S \ {a}) # 0
  BY <1>1, <1>2
<1> QED
  BY <1>3, <1>4

(* The cycles are the strong components of the entries that feed           *)
(* themselves.                                                             *)
Circle(k) == {n \in selected : n = k \/ (Feeds(n, k) /\ Feeds(k, n))}

LEMMA CyclesAreCircles ==
  ASSUME WalkInv, phase = "ordered"
  PROVE  /\ \A k \in selected : /\ Circle(k) = StrongComponent(forward, k)
                                /\ Feeds(k, k) <=> \E c \in forward[k] : c \in Circle(k)
                                /\ Feeds(k, k) <=> Circle(k) \in Cycles
                                /\ k \in Circle(k)
         /\ \A cycle \in Cycles : /\ cycle # {} /\ cycle \subseteq selected
                                  /\ \A k \in cycle : cycle = Circle(k)
         /\ \A p \in 1 .. Len(walked) : \A k \in components[walked[p]] :
              components[walked[p]] = Circle(k)
<1>1. /\ Finished /\ Placing /\ Nodes = selected /\ IsFiniteSet(selected) /\ Readers = forward
      /\ IsGraph(forward) /\ DOMAIN forward = selected
      /\ \A k \in selected : k \notin forward[k]
  BY OrderedIsFinished DEF Finished, Nodes
<1>2. ASSUME NEW k \in selected
      PROVE  /\ Circle(k) = StrongComponent(forward, k)
             /\ Feeds(k, k) <=> \E c \in forward[k] : c \in Circle(k)
             /\ Feeds(k, k) <=> \E b \in Circle(k) : b # k
             /\ k \in Circle(k)
  <2>1. /\ StrongComponent(forward, k)
             = {n \in DOMAIN forward :
                  \/ n = k
                  \/ k \in Reached(forward, forward[n]) /\ n \in Reached(forward, forward[k])}
        /\ k \in Reached(forward, forward[k])
             <=> \E c \in forward[k] : c \in StrongComponent(forward, k)
        /\ k \in Reached(forward, forward[k])
             <=> \E b \in StrongComponent(forward, k) : b # k
    BY <1>1, <1>2, StrongByFeeding
  <2>2. Circle(k) = StrongComponent(forward, k)
    BY <1>1, <2>1 DEF Circle, Feeds
  <2> QED
    BY <1>1, <2>1, <2>2 DEF Feeds, Circle
<1>3. ASSUME NEW p \in 1 .. Len(walked), NEW k \in components[walked[p]]
      PROVE  k \in selected /\ components[walked[p]] = Circle(k)
  BY <1>1, <1>2, <1>3, SameComponent
<1>4. ASSUME NEW group \in ToSet(components)
      PROVE  \E p \in 1 .. Len(walked) : group = components[walked[p]]
  <2>1. PICK i \in Groups : group = components[i]
    BY DEF ToSet, Groups
  <2>2. PICK p \in 1 .. Len(walked) : walked[p] = i
    BY <1>1 DEF Finished, Walked
  <2> QED
    BY <2>1, <2>2
<1>5. ASSUME NEW p \in 1 .. Len(walked)
      PROVE  components[walked[p]] \in ToSet(components) /\ components[walked[p]] # {}
  <2>1. walked[p] \in Groups
    BY <1>1, ComponentsSorted
  <2> QED
    BY <1>1, <2>1, GroupsAreFinite DEF ToSet, Groups, Finished, IInv, TypeOK
<1>6. ASSUME NEW k \in selected
      PROVE  Feeds(k, k) <=> Circle(k) \in Cycles
  <2>1. PICK p \in 1 .. Len(walked) : k \in components[walked[p]]
    BY <1>1, OnePlace
  <2>2. Circle(k) \in ToSet(components)
    BY <1>3, <1>5, <2>1
  <2>3. IsFiniteSet(Circle(k)) /\ k \in Circle(k)
    <3>1. Circle(k) \subseteq selected
      BY DEF Circle
    <3> QED
      BY <1>1, <1>2, <3>1, FS_Subset
  <2>4. Cardinality(Circle(k)) > 1 <=> \E b \in Circle(k) : b # k
    BY <2>3, SeveralEntries
  <2> QED
    BY <1>2, <2>2, <2>4 DEF Cycles
<1>7. ASSUME NEW cycle \in Cycles
      PROVE  /\ cycle # {} /\ cycle \subseteq selected
             /\ \A k \in cycle : cycle = Circle(k)
  <2>1. PICK p \in 1 .. Len(walked) : cycle = components[walked[p]]
    BY <1>4 DEF Cycles
  <2> QED
    BY <1>3, <1>5, <2>1
<1> QED
  BY <1>2, <1>3, <1>6, <1>7

(* The entry of a cycle that stands last is read by another of the cycle,  *)
(* so the order contradicts a read inside it.                              *)
LEMMA CycleBreaks ==
  ASSUME WalkInv, phase = "ordered", NEW cycle \in Cycles
  PROVE  \E edge \in Broken : edge[1] \in cycle /\ edge[2] \in cycle
<1>1. /\ Finished /\ Placing /\ Nodes = selected /\ DOMAIN forward = selected
      /\ IsGraph(forward) /\ \A k \in selected : k \notin forward[k]
  BY OrderedIsFinished DEF Finished, Nodes
<1>2. cycle # {} /\ cycle \subseteq selected /\ \A k \in cycle : cycle = Circle(k)
  BY CyclesAreCircles
<1>3. \A k \in selected : At(k) \in 1 .. Len(Order) /\ Order[At(k)] = k
  BY <1>1 DEF Placing
<1>4. Len(Order) \in Nat
  BY <1>1 DEF Placing
<1> DEFINE After == {Len(Order) - At(k) : k \in cycle}
<1>5. After \in SUBSET Nat /\ After # {}
  <2>1. \A k \in cycle : Len(Order) - At(k) \in Nat
    BY <1>2, <1>3, <1>4
  <2> QED
    BY <1>2, <2>1
<1>6. PICK least \in After : \A n \in After : least <= n
  <2> HIDE DEF After
  <2> QED
    BY <1>5, LeastKey
<1>7. PICK last \in cycle : least = Len(Order) - At(last)
  OBVIOUS
<1>8. \A k \in cycle : At(k) <= At(last)
  <2> SUFFICES ASSUME NEW k \in cycle PROVE At(k) <= At(last)
    OBVIOUS
  <2>1. Len(Order) - At(last) <= Len(Order) - At(k)
    BY <1>6, <1>7
  <2>2. At(k) \in Int /\ At(last) \in Int
    BY <1>2, <1>3
  <2> QED
    BY <1>4, <2>1, <2>2
<1>9. last \in selected /\ Feeds(last, last)
  BY <1>2, CyclesAreCircles
<1>10. PICK c \in forward[last] : c \in cycle
  BY <1>2, <1>9, CyclesAreCircles
<1>11. c \in selected /\ c # last /\ At(c) # At(last)
  BY <1>1, <1>2, <1>3, <1>9, <1>10
<1>12. At(last) > At(c)
  BY <1>2, <1>3, <1>8, <1>9, <1>10, <1>11
<1>13. <<last, c>> \in EdgesOf(forward)
  BY <1>1, <1>9, <1>10, <1>11 DEF EdgesOf
<1>14. <<last, c>> \in Broken
  BY <1>12, <1>13 DEF Broken
<1> QED
  BY <1>7, <1>10, <1>14

(* A read the order contradicts is inside one component, and that one has  *)
(* both its entries.                                                       *)
LEMMA BreakInCycle ==
  ASSUME WalkInv, phase = "ordered", NEW edge \in Broken
  PROVE  \E cycle \in Cycles : edge[1] \in cycle /\ edge[2] \in cycle
<1>1. /\ Finished /\ Placing /\ Nodes = selected /\ DOMAIN forward = selected
      /\ IsGraph(forward) /\ \A k \in selected : k \notin forward[k]
  BY OrderedIsFinished DEF Finished, Nodes
<1>2. PICK a \in selected, b \in selected :
        edge[1] = a /\ edge[2] = b /\ b \in forward[a] /\ At(a) > At(b)
  BY <1>1 DEF Broken, EdgesOf
<1>3. PICK p \in 1 .. Len(walked) : a \in components[walked[p]]
  BY <1>1, OnePlace
<1>4. PICK q \in 1 .. Len(walked) : b \in components[walked[q]]
  BY <1>1, OnePlace
<1>5. p <= q
  BY <1>1, <1>2, <1>3, <1>4, ReadsGoUp
<1>6. ~(p < q)
  <2>1. p < q => At(a) < At(b)
    BY <1>1, <1>3, <1>4 DEF Placing
  <2>2. At(a) \in Nat /\ At(b) \in Nat
    <3>1. At(a) \in 1 .. Len(Order) /\ At(b) \in 1 .. Len(Order)
      BY <1>1 DEF Placing
    <3> QED
      BY <3>1
  <2> QED
    BY <1>2, <2>1, <2>2
<1>7. Len(walked) \in Nat
  BY <1>1, OnePlace
<1>8. p = q
  BY <1>5, <1>6, <1>7
<1>9. a \in Circle(a) /\ b \in Circle(a)
  BY <1>3, <1>4, <1>8, CyclesAreCircles
<1>10. Feeds(a, a)
  BY <1>2, <1>9, CyclesAreCircles
<1>11. Circle(a) \in Cycles
  BY <1>10, CyclesAreCircles
<1> QED
  BY <1>2, <1>9, <1>11

LEMMA Announces == WalkInv => AnnouncesExactly
<1> SUFFICES ASSUME WalkInv, phase = "ordered"
             PROVE  /\ Cycles = {Circle(k) : k \in {k \in selected : Feeds(k, k)}}
                    /\ \A cycle \in Cycles : \E edge \in Broken :
                         edge[1] \in cycle /\ edge[2] \in cycle
                    /\ \A edge \in Broken : \E cycle \in Cycles :
                         edge[1] \in cycle /\ edge[2] \in cycle
  BY DEF AnnouncesExactly, Circle
<1>1. Cycles \subseteq {Circle(k) : k \in {k \in selected : Feeds(k, k)}}
  <2> SUFFICES ASSUME NEW cycle \in Cycles
               PROVE  \E k \in selected : Feeds(k, k) /\ cycle = Circle(k)
    OBVIOUS
  <2>1. PICK k \in cycle : cycle = Circle(k) /\ k \in selected
    BY CyclesAreCircles
  <2> QED
    BY <2>1, CyclesAreCircles
<1>2. {Circle(k) : k \in {k \in selected : Feeds(k, k)}} \subseteq Cycles
  BY CyclesAreCircles
<1> QED
  BY <1>1, <1>2, CycleBreaks, BreakInCycle

LEMMA NothingUnaccounted == WalkInv => NoReadUnaccounted
<1> SUFFICES ASSUME WalkInv, phase = "ordered",
                    NEW read \in Reading(plan, selected), read[2] \in Placed, read[1] # read[2],
                    read \notin Unsatisfied(plan, selected)
             PROVE  read[2] \in selected /\ read[1] \in forward[read[2]]
  BY DEF NoReadUnaccounted
<1>1. forward = Forward(plan, selected)
  BY DEF WalkInv
<1>2. PICK a \in selected, b \in Keys : read = <<a, b>>
  BY DEF Reading
<1>3. b \in selected
  BY <1>2 DEF Unsatisfied
<1> QED
  BY <1>1, <1>2, <1>3 DEF Forward

-----------------------------------------------------------------------------
(* At every pass of Tarjan's loop the groups closed are whole strong       *)
(* components in reverse topological order, and when it ends they hold     *)
(* every entry.                                                            *)
THEOREM StrongComponents == WalkSpec => []ComponentsFound
<1>1. WalkInv => ComponentsFound
  BY TarjanSafe DEF WalkInv, ComponentsFound
<1> QED
  BY <1>1, SpecWalkInv, PTL

(* The order a call returns has every entry once, each after what it reads *)
(* unless the two read each other, however indirectly.                     *)
THEOREM OrderedByReads == WalkSpec => []OrderHonoursReads
BY SpecWalkInv, HonoursReads, PTL

(* The cycles announced are the circles of reads there are, and the reads  *)
(* the order contradicts are inside them, one at least in each.            *)
THEOREM CyclesAnnounced == WalkSpec => []AnnouncesExactly
BY SpecWalkInv, Announces, PTL

(* Each resolved read of a selected entry onto a placed entry is in the    *)
(* graph, is listed as unsatisfied, or is of the entry itself.             *)
THEOREM ReadsAccounted == WalkSpec => []NoReadUnaccounted
BY SpecWalkInv, NothingUnaccounted, PTL

(* `sequence` never refuses the components `_components` hands it: the     *)
(* `raise` at the end of its loop is never reached from `walk`.            *)
THEOREM NeverRefused == WalkSpec => [](phase # "refused")
<1>1. WalkInv => phase # "refused"
  BY DEF WalkInv, Phases
<1> QED
  BY <1>1, SpecWalkInv, PTL

-----------------------------------------------------------------------------
(* The columns of the picture.  A column begins at the first place of a    *)
(* component, so the column of an entry is the place its component was     *)
(* walked at.                                                              *)
Leader(p) == Lowest({At(a) : a \in components[walked[p]]})

LEMMA HeadIsFirst ==
  ASSUME Finished, Placing, NEW p \in 1 .. Len(walked)
  PROVE  /\ Leader(p) \in 1 .. Len(Order) /\ Len(Order) \in Nat
         /\ \E a \in components[walked[p]] : Leader(p) = At(a)
         /\ \A a \in components[walked[p]] : Leader(p) <= At(a)
<1> DEFINE Places == {At(a) : a \in components[walked[p]]}
<1>1. walked[p] \in Groups /\ components[walked[p]] \subseteq Nodes
  BY ComponentsSorted
<1>2. components[walked[p]] # {}
  BY <1>1, GroupsAreFinite DEF Finished, IInv, TypeOK
<1>3. Len(Order) \in Nat
  BY DEF Placing
<1>4. \A a \in components[walked[p]] : At(a) \in 1 .. Len(Order)
  BY <1>1 DEF Placing
<1>5. Places \in SUBSET Nat /\ Places # {}
  BY <1>2, <1>3, <1>4
<1>6. Lowest(Places) \in Places /\ \A m \in Places : Lowest(Places) <= m
  <2> HIDE DEF Places
  <2> QED
    BY <1>5, LowestIsLeast
<1>7. Leader(p) = Lowest(Places)
  BY DEF Leader
<1> QED
  BY <1>3, <1>4, <1>6, <1>7

LEMMA HeadsAscend ==
  ASSUME Finished, Placing, NEW p \in 1 .. Len(walked), NEW a \in components[walked[p]],
         NEW r \in 1 .. Len(walked)
  PROVE  /\ Leader(r) <= At(a) <=> r <= p
         /\ Leader(r) = Leader(p) => r = p
<1>1. PICK b \in components[walked[r]] : Leader(r) = At(b)
  BY HeadIsFirst
<1>2. PICK c \in components[walked[p]] : Leader(p) = At(c)
  BY HeadIsFirst
<1>3. /\ r < p => At(b) < At(a) /\ At(b) < At(c)
      /\ p < r => At(a) < At(b) /\ At(c) < At(b)
  BY DEF Placing
<1>4. r = p => At(b) <= At(a)
  BY <1>1, HeadIsFirst
<1>5. At(a) \in Nat /\ At(b) \in Nat /\ At(c) \in Nat
  <2>1. a \in Nodes /\ b \in Nodes /\ c \in Nodes
    BY ComponentsSorted
  <2>2. /\ At(a) \in 1 .. Len(Order) /\ At(b) \in 1 .. Len(Order) /\ At(c) \in 1 .. Len(Order)
        /\ Len(Order) \in Nat
    BY <2>1 DEF Placing
  <2> QED
    BY <2>2
<1>6. Len(walked) \in Nat
  BY OnePlace
<1>7. r < p \/ r = p \/ p < r
  BY <1>6
<1>8. (r < p => r <= p) /\ (r = p => r <= p) /\ (p < r => ~(r <= p)) /\ (r < p => r # p)
      /\ (p < r => r # p)
  BY <1>6
<1> QED
  BY <1>1, <1>2, <1>3, <1>4, <1>5, <1>7, <1>8

LEMMA BeginsAreHeads ==
  ASSUME WalkInv, phase = "ordered"
  PROVE  Begins(Order, Cycles) = {Leader(p) : p \in 1 .. Len(walked)}
<1>1. /\ Finished /\ Placing /\ Nodes = selected /\ IsFiniteSet(selected)
  BY OrderedIsFinished
<1>2. Len(Order) \in Nat /\ Order \in Seq(Nodes)
  BY <1>1 DEF Placing
<1>3. ASSUME NEW i \in Begins(Order, Cycles)
      PROVE  \E p \in 1 .. Len(walked) : i = Leader(p)
  <2> DEFINE a == Order[i]
  <2>1. i \in 1 .. Len(Order) /\ a \in Nodes /\ At(a) = i
    BY <1>1, <1>2 DEF Begins, Placing
  <2>2. PICK p \in 1 .. Len(walked) : a \in components[walked[p]]
    BY <1>1, <2>1, OnePlace
  <2>3. PICK b \in components[walked[p]] : Leader(p) = At(b)
    BY <1>1, HeadIsFirst
  <2>4. Leader(p) <= i /\ Leader(p) \in 1 .. Len(Order)
    BY <1>1, <2>1, <2>2, HeadIsFirst
  <2>5. Order[Leader(p)] = b
    <3>1. b \in Nodes
      BY <1>1, ComponentsSorted
    <3> QED
      BY <1>1, <2>3, <3>1 DEF Placing
  <2>6. CASE Feeds(a, a)
    <3>1. components[walked[p]] \in Cycles
      BY <1>1, <2>1, <2>2, <2>6, CyclesAreCircles
    <3>2. \A q \in 1 .. i - 1 : Order[q] \notin components[walked[p]]
      BY <2>2, <3>1 DEF Begins
    <3>3. Leader(p) \notin 1 .. i - 1
      BY <2>5, <3>2
    <3>4. Leader(p) = i
      BY <1>2, <2>1, <2>4, <3>3
    <3> QED
      BY <3>4
  <2>7. CASE ~Feeds(a, a)
    <3>1. Circle(a) = components[walked[p]]
      BY <2>2, CyclesAreCircles
    <3>2. a = b
      <4>1. b \in Circle(a)
        BY <3>1
      <4>2. Circle(a) = StrongComponent(forward, a) /\ a \notin forward[a]
            /\ Readers = forward /\ IsGraph(forward) /\ DOMAIN forward = selected
        BY <1>1, <2>1, OrderedIsFinished, CyclesAreCircles DEF Nodes, Finished
      <4>3. a \in Reached(forward, forward[a]) <=> \E x \in StrongComponent(forward, a) : x # a
        BY <1>1, <2>1, <4>2, StrongByFeeding
      <4> QED
        BY <2>7, <4>1, <4>2, <4>3 DEF Feeds
    <3> QED
      BY <2>1, <2>3, <3>2
  <2> QED
    BY <2>6, <2>7
<1>4. ASSUME NEW p \in 1 .. Len(walked)
      PROVE  Leader(p) \in Begins(Order, Cycles)
  <2>1. PICK a \in components[walked[p]] : Leader(p) = At(a)
    BY <1>1, HeadIsFirst
  <2>2. Leader(p) \in 1 .. Len(Order) /\ \A b \in components[walked[p]] : Leader(p) <= At(b)
    BY <1>1, HeadIsFirst
  <2>3. Order[Leader(p)] = a
    <3>1. a \in Nodes
      BY <1>1, ComponentsSorted
    <3> QED
      BY <1>1, <2>1, <3>1 DEF Placing
  <2>4. ASSUME NEW cycle \in Cycles, a \in cycle, NEW q \in 1 .. Leader(p) - 1
        PROVE  Order[q] \notin cycle
    <3>1. cycle = components[walked[p]]
      BY <2>4, CyclesAreCircles
    <3>2. q \in 1 .. Len(Order) /\ ~(Leader(p) <= q)
      BY <1>2, <2>2
    <3>3. At(Order[q]) = q
      BY <1>1, <3>2 DEF Placing
    <3> QED
      BY <2>2, <3>1, <3>2, <3>3
  <2> QED
    BY <2>2, <2>3, <2>4 DEF Begins
<1> QED
  BY <1>3, <1>4

LEMMA ColumnIsPlace ==
  ASSUME WalkInv, phase = "ordered", selected = Placed,
         NEW p \in 1 .. Len(walked), NEW a \in components[walked[p]]
  PROVE  Columns(Order, Cycles)[a] = p - 1
<1>1. /\ Finished /\ Placing /\ Nodes = Placed
  BY OrderedIsFinished
<1>2. a \in Placed /\ At(a) \in 1 .. Len(Order) /\ Order[At(a)] = a /\ Len(Order) \in Nat
      /\ Len(walked) \in Nat
  <2>1. a \in Nodes
    BY <1>1, ComponentsSorted
  <2> QED
    BY <1>1, <2>1, OnePlace DEF Placing
<1> DEFINE starts == {i \in Begins(Order, Cycles) : \E q \in i .. Len(Order) : Order[q] = a}
           upto == {Leader(r) : r \in 1 .. p}
<1>3. \A i \in 1 .. Len(Order) : (\E q \in i .. Len(Order) : Order[q] = a) <=> i <= At(a)
  <2> SUFFICES ASSUME NEW i \in 1 .. Len(Order)
               PROVE  (\E q \in i .. Len(Order) : Order[q] = a) <=> i <= At(a)
    OBVIOUS
  <2>1. ASSUME NEW q \in i .. Len(Order), Order[q] = a PROVE i <= At(a)
    <3>1. q \in 1 .. Len(Order) /\ i <= q
      BY <1>2, <2>1
    <3>2. At(a) = q
      BY <1>1, <2>1, <3>1 DEF Placing
    <3> QED
      BY <3>1, <3>2
  <2>2. ASSUME i <= At(a) PROVE \E q \in i .. Len(Order) : Order[q] = a
    <3>1. At(a) \in i .. Len(Order)
      BY <1>2, <2>2
    <3> QED
      BY <1>2, <3>1
  <2> QED
    BY <2>1, <2>2
<1>4. starts = upto
  <2>1. \A r \in 1 .. Len(walked) :
          Leader(r) \in 1 .. Len(Order) /\ (Leader(r) <= At(a) <=> r <= p)
    BY <1>1, HeadIsFirst, HeadsAscend
  <2>2. starts = {i \in {Leader(r) : r \in 1 .. Len(walked)} : i <= At(a)}
    <3>1. \A i \in {Leader(r) : r \in 1 .. Len(walked)} :
            (\E q \in i .. Len(Order) : Order[q] = a) <=> i <= At(a)
      BY <1>3, <2>1
    <3> QED
      BY <3>1, BeginsAreHeads
  <2>3. \A r \in 1 .. p : r \in 1 .. Len(walked) /\ r <= p
    BY <1>2
  <2>4. \A r \in 1 .. Len(walked) : r <= p => r \in 1 .. p
    BY <1>2
  <2> HIDE DEF starts
  <2> QED
    BY <2>1, <2>2, <2>3, <2>4
<1>5. Cardinality(upto) = p
  <2> DEFINE f == [r \in 1 .. p |-> Leader(r)]
  <2>1. \A r, s \in 1 .. p : Leader(r) = Leader(s) => r = s
    <3> SUFFICES ASSUME NEW r \in 1 .. p, NEW s \in 1 .. p, Leader(r) = Leader(s) PROVE r = s
      OBVIOUS
    <3>1. r \in 1 .. Len(walked) /\ s \in 1 .. Len(walked)
      BY <1>2
    <3>2. \E b : b \in components[walked[s]]
      BY <1>1, <3>1, HeadIsFirst
    <3> QED
      BY <1>1, <3>1, <3>2, HeadsAscend
  <2>2. f \in Bijection(1 .. p, upto)
    BY <2>1 DEF Bijection, Injection, Surjection, IsInjective
  <2>3. p \in Nat /\ 1 \in Int /\ p \in Int /\ ~(1 > p)
    BY <1>2
  <2>4. IsFiniteSet(1 .. p) /\ Cardinality(1 .. p) = p
    <3>1. IsFiniteSet(1 .. p) /\ Cardinality(1 .. p) = IF 1 > p THEN 0 ELSE p - 1 + 1
      BY <2>3, FS_Interval
    <3> QED
      BY <2>3, <3>1
  <2>5. ExistsBijection(1 .. p, upto)
    BY <2>2 DEF ExistsBijection
  <2> QED
    BY <2>4, <2>5, FS_Bijection
<1>6. Columns(Order, Cycles)[a] = Cardinality(starts) - 1
  BY <1>2 DEF Columns
<1> HIDE DEF starts, upto
<1> QED
  BY <1>4, <1>5, <1>6

-----------------------------------------------------------------------------
(* What the columns are once the entries are arranged.                     *)
Arranged ==
  /\ EdgesOf(forward) \subseteq Placed \X Placed
  /\ columns \in [Placed -> Nat]
  /\ \A a, b \in Placed :
       columns[a] = columns[b] <=> (a = b \/ \E cycle \in result.cycles : {a, b} \subseteq cycle)
  /\ \A edge \in EdgesOf(forward) : columns[edge[1]] <= columns[edge[2]]
  /\ result.broken \subseteq EdgesOf(forward)
  /\ \A edge \in result.broken : columns[edge[1]] = columns[edge[2]]

LEMMA ArrangeArranges ==
  ASSUME WalkInv, Arrange
  PROVE  Arranged'
<1>1. /\ phase = "ordered" /\ selected = Placed /\ UNCHANGED forward
      /\ columns' = Columns(Order, Cycles)
      /\ result'.cycles = Cycles /\ result'.broken = Broken
  BY DEF Arrange
<1>2. /\ Finished /\ Placing /\ Nodes = Placed /\ DOMAIN forward = Placed
      /\ IsGraph(forward) /\ Len(walked) \in Nat
  BY <1>1, OrderedIsFinished, OnePlace DEF Nodes, Finished
<1>3. \A p \in 1 .. Len(walked) : \A a \in components[walked[p]] : columns'[a] = p - 1
  BY <1>1, ColumnIsPlace
<1>4. \A a \in Placed : \E p \in 1 .. Len(walked) : a \in components[walked[p]]
  BY <1>2, OnePlace
<1>5. columns' \in [Placed -> Nat]
  <2>1. \A a \in Placed : columns'[a] \in Nat
    <3> SUFFICES ASSUME NEW a \in Placed PROVE columns'[a] \in Nat
      OBVIOUS
    <3>1. PICK p \in 1 .. Len(walked) : a \in components[walked[p]]
      BY <1>4
    <3>2. p - 1 \in Nat
      BY <1>2
    <3> QED
      BY <1>3, <3>1, <3>2
  <2>2. columns' = [a \in Placed |-> columns'[a]]
    BY <1>1 DEF Columns
  <2> QED
    BY <2>1, <2>2
<1>6. EdgesOf(forward) \subseteq Placed \X Placed /\ EdgesOf(forward)' = EdgesOf(forward)
  BY <1>1, <1>2 DEF EdgesOf
<1>7. ASSUME NEW a \in Placed, NEW b \in Placed
      PROVE  columns'[a] = columns'[b]
               <=> (a = b \/ \E cycle \in Cycles : {a, b} \subseteq cycle)
  <2>1. PICK p \in 1 .. Len(walked) : a \in components[walked[p]]
    BY <1>4
  <2>2. PICK q \in 1 .. Len(walked) : b \in components[walked[q]]
    BY <1>4
  <2>3. columns'[a] = columns'[b] <=> p = q
    <3>1. columns'[a] = p - 1 /\ columns'[b] = q - 1
      BY <1>3, <2>1, <2>2
    <3>2. p \in Int /\ q \in Int
      OBVIOUS
    <3> QED
      BY <3>1, <3>2
  <2>4. ASSUME p = q, a # b PROVE \E cycle \in Cycles : {a, b} \subseteq cycle
    <3>1. b \in Circle(a) /\ a \in Circle(a) /\ Circle(a) = StrongComponent(forward, a)
      BY <1>1, <1>2, <2>1, <2>2, <2>4, CyclesAreCircles
    <3>2. a \notin forward[a] /\ Readers = forward
      BY <1>1, <1>2, OrderedIsFinished
    <3>3. Feeds(a, a)
      BY <1>2, <2>4, <3>1, <3>2, StrongByFeeding DEF Feeds
    <3>4. Circle(a) \in Cycles
      BY <1>1, <3>3, CyclesAreCircles
    <3> QED
      BY <3>1, <3>4
  <2>5. ASSUME NEW cycle \in Cycles, {a, b} \subseteq cycle PROVE p = q
    <3>1. cycle = Circle(a) /\ cycle = Circle(b)
      BY <1>1, <2>5, CyclesAreCircles
    <3>2. components[walked[p]] = Circle(a)
      BY <1>1, <2>1, CyclesAreCircles
    <3>3. components[walked[q]] = Circle(b)
      BY <1>1, <2>2, CyclesAreCircles
    <3> QED
      BY <1>2, <2>1, <2>2, <3>1, <3>2, <3>3, OnePlace
  <2>6. a = b => p = q
    BY <1>2, <2>1, <2>2, OnePlace
  <2> QED
    BY <2>3, <2>4, <2>5, <2>6
<1>8. ASSUME NEW edge \in EdgesOf(forward)
      PROVE  columns'[edge[1]] <= columns'[edge[2]]
  <2>1. PICK a \in Placed, b \in Placed : edge[1] = a /\ edge[2] = b /\ b \in forward[a]
    BY <1>2 DEF EdgesOf
  <2>2. PICK p \in 1 .. Len(walked) : a \in components[walked[p]]
    BY <1>4
  <2>3. PICK q \in 1 .. Len(walked) : b \in components[walked[q]]
    BY <1>4
  <2>4. p <= q
    BY <1>2, <2>1, <2>2, <2>3, ReadsGoUp
  <2>5. columns'[a] = p - 1 /\ columns'[b] = q - 1
    BY <1>3, <2>2, <2>3
  <2> QED
    BY <1>2, <2>1, <2>4, <2>5
<1>9. ASSUME NEW edge \in Broken
      PROVE  columns'[edge[1]] = columns'[edge[2]]
  <2>1. PICK a \in Placed, b \in Placed : edge[1] = a /\ edge[2] = b
    BY <1>2 DEF Broken, EdgesOf
  <2>2. \E cycle \in Cycles : {a, b} \subseteq cycle
    BY <1>1, <2>1, BreakInCycle
  <2> QED
    BY <1>7, <2>1, <2>2
<1>10. Broken \subseteq EdgesOf(forward)
  BY DEF Broken
<1> QED
  BY <1>1, <1>5, <1>6, <1>7, <1>8, <1>9, <1>10 DEF Arranged

(* A set of numbers none of which is below -1 has a least.                 *)
LEMMA LeastColumn ==
  ASSUME NEW S \in SUBSET Int, S # {}, \A c \in S : c >= -1
  PROVE  Lowest(S) \in S /\ \A c \in S : Lowest(S) <= c
<1> DEFINE moved == {c + 1 : c \in S}
<1>1. moved \in SUBSET Nat /\ moved # {}
  <2>1. \A c \in S : c + 1 \in Nat
    <3> SUFFICES ASSUME NEW c \in S PROVE c + 1 \in Nat
      OBVIOUS
    <3>1. c \in Int /\ c >= -1
      OBVIOUS
    <3> QED
      BY <3>1
  <2> QED
    BY <2>1
<1>2. PICK m \in moved : \A l \in moved : m <= l
  <2> HIDE DEF moved
  <2> QED
    BY <1>1, LeastKey
<1>3. PICK least \in S : m = least + 1
  OBVIOUS
<1>4. \A c \in S : least <= c
  <2> SUFFICES ASSUME NEW c \in S PROVE least <= c
    OBVIOUS
  <2>1. m <= c + 1
    BY <1>2
  <2> QED
    BY <1>3, <2>1
<1> QED
  BY <1>4 DEF Lowest

(* Drawing: what the cells are, from the columns.                          *)
LEMMA BeforeReaders ==
  ASSUME Arranged, NEW into \in SUBSET Placed
  PROVE  /\ Before(into) \in Int /\ Before(into) >= -1
         /\ \A r \in into : Before(into) < columns[r]
<1> DEFINE cols == {columns[r] : r \in into}
<1>1. CASE into = {}
  BY <1>1 DEF Before
<1>2. CASE into # {}
  <2>1. cols \in SUBSET Nat /\ cols # {}
    BY <1>2 DEF Arranged
  <2>2. Lowest(cols) \in cols /\ \A c \in cols : Lowest(cols) <= c
    <3> HIDE DEF cols
    <3> QED
      BY <2>1, LowestIsLeast
  <2>3. Before(into) = Lowest(cols) - 1
    BY <1>2 DEF Before
  <2>4. \A r \in into : columns[r] \in cols /\ columns[r] \in Nat
    BY <2>1
  <2> HIDE DEF cols
  <2>5. Lowest(cols) \in Nat
    BY <2>1, <2>2
  <2>6. Before(into) \in Int /\ Before(into) >= -1
    BY <2>3, <2>5
  <2>7. ASSUME NEW r \in into PROVE Before(into) < columns[r]
    <3>1. Lowest(cols) <= columns[r] /\ columns[r] \in Nat
      BY <2>2, <2>4, <2>7
    <3> QED
      BY <2>3, <2>5, <3>1
  <2> QED
    BY <2>6, <2>7
<1> QED
  BY <1>1, <1>2

LEMMA ShownFinite == IsFiniteSet(Shown) /\ Shown \subseteq Nat /\ Placed \cap ValueKeys = {}
<1>1. IsFiniteSet(Placed)
  BY KeysAssumption, FS_Subset
<1> QED
  BY <1>1, KeysAssumption, ValuesAssumption, FS_Union DEF Shown

(* No two keys of one column have the same number of keys before them.     *)
LEMMA RowsDiffer ==
  ASSUME NEW at, NEW key \in Shown, NEW other \in Shown, key # other, at[key] = at[other]
  PROVE  Cardinality({k \in Shown : k < key /\ at[k] = at[key]})
           # Cardinality({k \in Shown : k < other /\ at[k] = at[other]})
<1> DEFINE below(x) == {k \in Shown : k < x /\ at[k] = at[x]}
<1>1. ASSUME NEW a \in Shown, NEW b \in Shown, a < b, at[a] = at[b]
      PROVE  Cardinality(below(a)) # Cardinality(below(b))
  <2>0. \A k \in Shown : k \in Nat
    BY ShownFinite
  <2>1. below(a) \subseteq below(b)
    <3> SUFFICES ASSUME NEW k \in Shown, k < a, at[k] = at[a] PROVE k < b /\ at[k] = at[b]
      OBVIOUS
    <3>1. k \in Nat /\ a \in Nat /\ b \in Nat
      BY <2>0
    <3> QED
      BY <1>1, <3>1
  <2>2. a \in below(b) /\ a \notin below(a)
    BY <1>1, <2>0
  <2>3. IsFiniteSet(below(b))
    BY ShownFinite, FS_Subset
  <2>4. Cardinality(below(a)) = Cardinality(below(b)) => below(a) = below(b)
    <3> HIDE DEF below
    <3> QED
      BY <2>1, <2>3, FS_Subset
  <2> QED
    BY <2>2, <2>4
<1>2. key < other \/ other < key
  BY ShownFinite
<1> QED
  BY <1>1, <1>2

LEMMA DrawLegible ==
  ASSUME Arranged, Draw
  PROVE  Legible'
<1> DEFINE at == [key \in Shown |->
                    IF key \in Placed THEN columns[key] ELSE Before(readers'[key])]
           first == Lowest({at[key] : key \in Shown})
           row(key) == Cardinality({other \in Shown : other < key /\ at[other] = at[key]})
<1>1. /\ UNCHANGED <<forward, result, columns>>
      /\ readers' \in [ValueKeys -> SUBSET Placed]
      /\ cells' = [key \in Shown |-> [column |-> at[key] - first, row |-> row(key)]]
  BY ValuesAssumption DEF Draw
<1>2. \A key \in Placed : key \in Shown /\ at[key] = columns[key] /\ columns[key] \in Nat
  BY DEF Arranged, Shown
<1>3. \A key \in ValueKeys : /\ key \in Shown /\ at[key] = Before(readers'[key])
                             /\ readers'[key] \in SUBSET Placed
  BY <1>1, ShownFinite DEF Shown
<1>4. \A key \in Shown : key \in Placed \/ key \in ValueKeys
  BY DEF Shown
<1>5. \A key \in Shown : cells'[key].column = at[key] - first /\ cells'[key].row = row(key)
  BY <1>1
<1>6. \A key, other \in Shown : key # other /\ at[key] = at[other] => row(key) # row(other)
  <2> HIDE DEF at
  <2> QED
    BY RowsDiffer
<1> HIDE DEF at, row
<1>7. \A key \in Shown : at[key] \in Int /\ at[key] >= -1
  <2> SUFFICES ASSUME NEW key \in Shown PROVE at[key] \in Int /\ at[key] >= -1
    OBVIOUS
  <2>1. CASE key \in Placed
    BY <1>2, <2>1
  <2>2. CASE key \in ValueKeys
    BY <1>3, <2>2, BeforeReaders
  <2> QED
    BY <1>4, <2>1, <2>2
<1>8. Shown # {} => /\ first \in Int
                    /\ \A key \in Shown : first <= at[key]
                    /\ \E key \in Shown : first = at[key]
  <2> DEFINE S == {at[key] : key \in Shown}
  <2>1. S \in SUBSET Int /\ \A c \in S : c >= -1
    BY <1>7
  <2>2. Shown # {} => S # {}
    OBVIOUS
  <2>3. \A key \in Shown : at[key] \in S
    OBVIOUS
  <2>4. S # {} => Lowest(S) \in S /\ \A c \in S : Lowest(S) <= c
    <3> HIDE DEF S
    <3> QED
      BY <2>1, LeastColumn
  <2>5. first = Lowest(S)
    OBVIOUS
  <2>6. Lowest(S) \in S => \E key \in Shown : Lowest(S) = at[key]
    OBVIOUS
  <2> HIDE DEF S, first
  <2> QED
    BY <2>1, <2>2, <2>3, <2>4, <2>5, <2>6
<1> HIDE DEF first
<1>9. ASSUME NEW a \in Shown, NEW b \in Shown
      PROVE  /\ cells'[a].column = cells'[b].column <=> at[a] = at[b]
             /\ cells'[a].column <= cells'[b].column <=> at[a] <= at[b]
             /\ cells'[a].column < cells'[b].column <=> at[a] < at[b]
  <2>1. at[a] \in Int /\ at[b] \in Int /\ first \in Int
    BY <1>7, <1>8
  <2>2. cells'[a].column = at[a] - first /\ cells'[b].column = at[b] - first
    BY <1>5
  <2> QED
    BY <2>1, <2>2
<1>10. \A key, other \in Shown : cells'[key] = cells'[other] => key = other
  <2> SUFFICES ASSUME NEW key \in Shown, NEW other \in Shown, cells'[key] = cells'[other],
                      key # other
               PROVE  FALSE
    OBVIOUS
  <2>1. cells'[key].column = cells'[other].column /\ row(key) = row(other)
    BY <1>5
  <2> QED
    BY <1>6, <1>9, <2>1
<1>11. \A key \in Shown : cells'[key].column >= 0
  <2> SUFFICES ASSUME NEW key \in Shown PROVE cells'[key].column >= 0
    OBVIOUS
  <2>1. first \in Int /\ at[key] \in Int /\ first <= at[key]
    BY <1>7, <1>8
  <2>2. cells'[key].column = at[key] - first
    BY <1>5
  <2> QED
    BY <2>1, <2>2
<1>12. Shown # {} => \E key \in Shown : cells'[key].column = 0
  <2> SUFFICES ASSUME Shown # {} PROVE \E key \in Shown : cells'[key].column = 0
    OBVIOUS
  <2>1. PICK key \in Shown : first = at[key]
    BY <1>8
  <2>2. cells'[key].column = at[key] - first /\ first \in Int
    BY <1>5, <1>8
  <2>3. cells'[key].column = 0
    BY <2>1, <2>2
  <2> QED
    BY <2>3
<1>13. \A a, b \in Placed : cells'[a].column = cells'[b].column
         <=> (a = b \/ \E cycle \in result.cycles : {a, b} \subseteq cycle)
  <2> SUFFICES ASSUME NEW a \in Placed, NEW b \in Placed
               PROVE  cells'[a].column = cells'[b].column
                        <=> (a = b \/ \E cycle \in result.cycles : {a, b} \subseteq cycle)
    OBVIOUS
  <2>1. cells'[a].column = cells'[b].column <=> columns[a] = columns[b]
    BY <1>2, <1>9
  <2>2. columns[a] = columns[b]
          <=> (a = b \/ \E cycle \in result.cycles : {a, b} \subseteq cycle)
    BY DEF Arranged
  <2> QED
    BY <2>1, <2>2
<1>14. ASSUME NEW edge \in EdgesOf(forward)
       PROVE  cells'[edge[1]].column <= cells'[edge[2]].column
  <2>1. edge[1] \in Placed /\ edge[2] \in Placed /\ columns[edge[1]] <= columns[edge[2]]
    BY DEF Arranged
  <2> QED
    BY <1>2, <1>9, <2>1
<1>15. ASSUME NEW edge \in result.broken
       PROVE  cells'[edge[1]].column = cells'[edge[2]].column
  <2>1. edge[1] \in Placed /\ edge[2] \in Placed /\ columns[edge[1]] = columns[edge[2]]
    BY DEF Arranged
  <2> QED
    BY <1>2, <1>9, <2>1
<1>16. ASSUME NEW value \in ValueKeys, NEW reader \in readers'[value]
       PROVE  cells'[value].column < cells'[reader].column
  <2>1. reader \in Placed /\ Before(readers'[value]) < columns[reader]
    BY <1>3, BeforeReaders
  <2>2. at[value] < at[reader] /\ value \in Shown /\ reader \in Shown
    BY <1>2, <1>3, <2>1
  <2> QED
    BY <1>9, <2>2
<1>17. EdgesOf(forward)' = EdgesOf(forward)
  BY <1>1 DEF EdgesOf
<1> QED
  BY <1>1, <1>10, <1>11, <1>12, <1>13, <1>14, <1>15, <1>16, <1>17 DEF Legible

(* The picture's invariant: the walk's, then the columns, then the cells.  *)
PictureInv ==
  /\ phase \in Phases \cup {"arranged", "drawn"}
  /\ phase \in Phases => WalkInv
  /\ phase \in {"arranged", "drawn"} => Arranged
  /\ Legible

LEMMA PictureKept == PictureInv /\ [PictureNext]_<<walk, picture>> => PictureInv'
<1> SUFFICES ASSUME PictureInv, [PictureNext]_<<walk, picture>> PROVE PictureInv'
  OBVIOUS
<1>1. CASE WalkStep
  <2>1. phase \in Phases
    BY <1>1 DEF WalkStep, Read, Unreadable, Group, Grouped, Sequenced, Phases
  <2>2. WalkInv'
    BY <1>1, <2>1, ReadKeeps, UnreadableKeeps, GroupKeeps, GroupedKeeps, SequencedKeeps
       DEF PictureInv, WalkStep
  <2>3. phase' \in Phases
    BY <2>2 DEF WalkInv
  <2>4. phase' \notin {"arranged", "drawn"}
    BY <2>3 DEF Phases
  <2> QED
    BY <2>2, <2>3, <2>4 DEF PictureInv, Legible
<1>2. CASE Arrange
  <2>1. WalkInv
    BY <1>2 DEF Arrange, PictureInv, Phases
  <2>2. Arranged' /\ phase' = "arranged"
    BY <1>2, <2>1, ArrangeArranges DEF Arrange
  <2> QED
    BY <2>2 DEF PictureInv, Phases, Legible
<1>3. CASE Draw
  <2>1. Arranged /\ phase' = "drawn" /\ UNCHANGED <<forward, result, columns>>
    BY <1>3 DEF Draw, PictureInv
  <2>2. Arranged'
    BY <2>1 DEF Arranged, EdgesOf
  <2>3. Legible'
    BY <1>3, <2>1, DrawLegible
  <2> QED
    BY <2>1, <2>2, <2>3 DEF PictureInv, Phases
<1>4. CASE UNCHANGED <<walk, picture>>
  <2>1. UNCHANGED walk /\ UNCHANGED <<phase, forward, result, columns, readers, cells>>
    BY <1>4 DEF walk, picture
  <2>2. WalkInv => WalkInv'
    BY <2>1, WalkStutterKeeps
  <2>3. (Arranged => Arranged') /\ (Legible => Legible')
    BY <2>1 DEF Arranged, EdgesOf, Legible
  <2> QED
    BY <2>1, <2>2, <2>3 DEF PictureInv
<1> QED
  BY <1>1, <1>2, <1>3, <1>4 DEF PictureNext

(* Whoever reads which value, the picture drawn can be read: every cell    *)
(* has its own place, an arrow points right or stays inside a cycle, and a *)
(* value stands left of its readers.                                       *)
THEOREM PictureLegible == PictureSpec => []Legible
<1>1. WalkInit /\ PictureInit => PictureInv
  BY DEF WalkInit, Call, WalkInv, Phases, PictureInv, Legible
<1>2. PictureInv => Legible
  BY DEF PictureInv
<1> QED
  BY <1>1, <1>2, PictureKept, PTL DEF PictureSpec
=============================================================================
