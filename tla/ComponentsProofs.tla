-------------------------- MODULE ComponentsProofs --------------------------
(***************************************************************************)
(* Tarjan's loop (Components.tla) on every finite graph: what it keeps     *)
(* true of its numbers, its stacks and the components it has closed.       *)
(*                                                                         *)
(* What an entry leads to is the least set closed under the arrows, so a   *)
(* statement about all paths is one about a closed set, and needs no       *)
(* induction on their length.                                              *)
(***************************************************************************)
EXTENDS Components, FiniteSetTheorems, SequenceTheorems, TLAPS

IsGraph(g) ==
  /\ DOMAIN g \subseteq Nat
  /\ IsFiniteSet(DOMAIN g)
  /\ g \in [DOMAIN g -> SUBSET DOMAIN g]

-----------------------------------------------------------------------------
(* Keys are compared as numbers, so any group of entries has a least one.  *)
LEMMA LeastKey ==
  ASSUME NEW S \in SUBSET Nat, S # {}
  PROVE  \E n \in S : \A m \in S : n <= m
<1>1. \E n \in S : \A m \in S : ~(<<m, n>> \in OpToRel(<, Nat))
  BY NatLessThanWellFounded, WFMin
<1>2. \A m, n \in Nat : m < n => <<m, n>> \in OpToRel(<, Nat)
  BY Zenon DEF OpToRel
<1>3. \E n \in S : \A m \in S : ~(m < n)
  <2> DEFINE R == OpToRel(<, Nat)
  <2>1. \E n \in S : \A m \in S : ~(<<m, n>> \in R)
    BY <1>1
  <2>2. \A m, n \in S : m < n => <<m, n>> \in R
    BY <1>2
  <2> HIDE DEF R
  <2> QED
    BY <2>1, <2>2
<1> QED
  BY <1>3

LEMMA LowestIsLeast ==
  ASSUME NEW S \in SUBSET Nat, S # {}
  PROVE  /\ Lowest(S) \in S
         /\ \A m \in S : Lowest(S) <= m
BY LeastKey DEF Lowest

(* Sorting a set of keys: a key has the place of the number of keys up to  *)
(* it, and no two keys have the same.                                      *)
LEMMA AscendingSorts ==
  ASSUME NEW S \in SUBSET Nat, IsFiniteSet(S)
  PROVE  /\ Cardinality(S) \in Nat
         /\ Ascending(S) \in [1 .. Cardinality(S) -> S]
         /\ Len(Ascending(S)) = Cardinality(S)
         /\ \A k \in S : \E p \in 1 .. Cardinality(S) : Ascending(S)[p] = k
         /\ \A p, q \in 1 .. Cardinality(S) : p < q => Ascending(S)[p] < Ascending(S)[q]
<1> DEFINE n == Cardinality(S)
           UpTo(k) == {l \in S : l <= k}
           place == [k \in S |-> Cardinality(UpTo(k))]
<1>1. n \in Nat
  BY FS_CardinalityType
<1>2. \A k \in S : IsFiniteSet(UpTo(k)) /\ Cardinality(UpTo(k)) \in 1 .. n
  <2> SUFFICES ASSUME NEW k \in S PROVE IsFiniteSet(UpTo(k)) /\ Cardinality(UpTo(k)) \in 1 .. n
    OBVIOUS
  <2>1. UpTo(k) \subseteq S /\ k \in UpTo(k)
    OBVIOUS
  <2>2. IsFiniteSet(UpTo(k)) /\ Cardinality(UpTo(k)) <= n
    BY <2>1, FS_Subset
  <2>3. Cardinality(UpTo(k)) \in Nat /\ Cardinality(UpTo(k)) # 0
    BY <2>1, <2>2, FS_CardinalityType, FS_EmptySet
  <2> HIDE DEF UpTo, n
  <2> QED
    BY <1>1, <2>2, <2>3
<1>3. \A k, l \in S : k < l => Cardinality(UpTo(k)) < Cardinality(UpTo(l))
  <2> SUFFICES ASSUME NEW k \in S, NEW l \in S, k < l
               PROVE  Cardinality(UpTo(k)) < Cardinality(UpTo(l))
    OBVIOUS
  <2>0. \A m \in S : m \in Nat
    OBVIOUS
  <2>1. UpTo(k) \subseteq UpTo(l) /\ l \in UpTo(l) /\ l \notin UpTo(k)
    <3>1. \A m \in S : m <= k => m <= l
      BY <2>0
    <3>2. l <= l /\ ~(l <= k)
      BY <2>0
    <3> QED
      BY <3>1, <3>2
  <2>2. UpTo(k) # UpTo(l)
    BY <2>1
  <2>3. Cardinality(UpTo(k)) <= Cardinality(UpTo(l))
        /\ (Cardinality(UpTo(k)) = Cardinality(UpTo(l)) => UpTo(k) = UpTo(l))
    BY <1>2, <2>1, FS_Subset
  <2> HIDE DEF UpTo
  <2> QED
    BY <1>1, <1>2, <2>2, <2>3
<1>4. place \in Injection(S, 1 .. n)
  <2>1. place \in [S -> 1 .. n]
    BY <1>2
  <2>2. \A k, l \in S : place[k] = place[l] => k = l
    <3> SUFFICES ASSUME NEW k \in S, NEW l \in S, k # l PROVE place[k] # place[l]
      OBVIOUS
    <3>1. k < l \/ l < k
      OBVIOUS
    <3>2. place[k] \in Nat /\ place[l] \in Nat
      BY <1>1, <2>1
    <3>3. k < l => place[k] < place[l]
      BY <1>3
    <3>4. l < k => place[l] < place[k]
      BY <1>3
    <3> HIDE DEF place
    <3> QED
      BY <3>1, <3>2, <3>3, <3>4
  <2> HIDE DEF place
  <2> QED
    BY <2>1, <2>2 DEF Injection, IsInjective
<1>5. IsFiniteSet(1 .. n) /\ Cardinality(1 .. n) = n
  BY <1>1, FS_Interval
<1>6. place \in Surjection(S, 1 .. n)
  <2> HIDE DEF place, n
  <2> QED
    BY <1>4, <1>5, FS_Injection DEF n
<1>7. \A p \in 1 .. n : \E k \in S : Cardinality(UpTo(k)) = p
  BY <1>6 DEF Surjection
<1>8. /\ Ascending(S) = [p \in 1 .. n |-> Ascending(S)[p]]
      /\ \A p \in 1 .. n : Ascending(S)[p] \in S /\ Cardinality(UpTo(Ascending(S)[p])) = p
  <2>1. Ascending(S) = [p \in 1 .. n |-> CHOOSE k \in S : Cardinality(UpTo(k)) = p]
    BY Zenon DEF Ascending
  <2> QED
    BY <1>7, <2>1, Zenon
<1>9. Ascending(S) \in [1 .. n -> S] /\ Len(Ascending(S)) = n
  <2> HIDE DEF n, UpTo
  <2> QED
    BY <1>1, <1>8
<1>10. \A k \in S : \E p \in 1 .. n : Ascending(S)[p] = k
  <2> SUFFICES ASSUME NEW k \in S PROVE Ascending(S)[place[k]] = k /\ place[k] \in 1 .. n
    OBVIOUS
  <2>1. place[k] \in 1 .. n /\ place[k] = Cardinality(UpTo(k))
    BY <1>2
  <2>2. Ascending(S)[place[k]] \in S
        /\ place[Ascending(S)[place[k]]] = place[k]
    BY <1>8, <2>1
  <2> HIDE DEF place
  <2> QED
    BY <1>4, <2>1, <2>2 DEF Injection, IsInjective
<1>11. \A p, q \in 1 .. n : p < q => Ascending(S)[p] < Ascending(S)[q]
  <2> SUFFICES ASSUME NEW p \in 1 .. n, NEW q \in 1 .. n, p < q,
                      ~(Ascending(S)[p] < Ascending(S)[q])
               PROVE  FALSE
    OBVIOUS
  <2>1. PICK a, b \in S : /\ a = Ascending(S)[p] /\ b = Ascending(S)[q]
                          /\ Cardinality(UpTo(a)) = p /\ Cardinality(UpTo(b)) = q
    BY <1>8, Zenon
  <2>2. a = b \/ b < a
    BY <2>1
  <2> HIDE DEF UpTo
  <2> QED
    BY <1>1, <1>3, <2>1, <2>2
<1> QED
  BY <1>1, <1>9, <1>10, <1>11

-----------------------------------------------------------------------------
(* Connections. *)
LEMMA ConnectedProperties ==
  ASSUME NEW g, IsGraph(g)
  PROVE  /\ \A a \in DOMAIN g : Connected(g, a, a)
         /\ \A a \in DOMAIN g : \A b \in g[a] : Connected(g, a, b)
         /\ \A a, b, c \in DOMAIN g :
              Connected(g, a, b) /\ Connected(g, b, c) => Connected(g, a, c)
         /\ \A S \in SUBSET DOMAIN g : (\A l \in S : g[l] \subseteq S)
              => \A a \in S : \A b : Connected(g, a, b) => b \in S
<1>1. \A a \in DOMAIN g : Connected(g, a, a)
  BY DEF Connected, Reached
<1>2. \A a \in DOMAIN g : \A b \in g[a] : Connected(g, a, b)
  BY DEF Connected, Reached, IsGraph
<1>3. \A S \in SUBSET DOMAIN g : (\A l \in S : g[l] \subseteq S)
        => \A a \in S : \A b : Connected(g, a, b) => b \in S
  BY DEF Connected, Reached
<1>4. \A a, b, c \in DOMAIN g :
        Connected(g, a, b) /\ Connected(g, b, c) => Connected(g, a, c)
  BY DEF Connected, Reached
<1> QED
  BY <1>1, <1>2, <1>3, <1>4

(* A strong component is the strong component of each entry it has. *)
LEMMA StrongComponentShared ==
  ASSUME NEW g, IsGraph(g), NEW a \in DOMAIN g, NEW b \in StrongComponent(g, a)
  PROVE  /\ b \in DOMAIN g
         /\ a \in StrongComponent(g, a)
         /\ StrongComponent(g, b) = StrongComponent(g, a)
BY ConnectedProperties DEF StrongComponent

-----------------------------------------------------------------------------
(* The invariant, on a graph `g`, the numbers `idx` and `lo`, the set `H`  *)
(* of held entries, the closed components `cs` and the stack `w`.          *)
Settled(cs) == UNION ToSet(cs)

(* The consumers an entry of the stack has still to answer for: those not  *)
(* scanned, and the one that was entered from it.                          *)
Left(g, w, i) ==
  LET all == Ascending(g[w[i][1]])
  IN {all[p] : p \in (IF i = Len(w) THEN w[i][2] + 1 ELSE w[i][2]) .. Len(all)}

(* Every visited entry is numbered, and is held or in a closed component.  *)
Numbers(g, idx, lo, H, cs) ==
  /\ DOMAIN idx \subseteq DOMAIN g
  /\ idx \in [DOMAIN idx -> Nat]
  /\ lo \in [DOMAIN idx -> Nat]
  /\ \A n \in DOMAIN idx : idx[n] < Cardinality(DOMAIN idx)
  /\ DOMAIN idx = H \cup Settled(cs)
  /\ H \cap Settled(cs) = {}

(* The stack is a path of held entries, in the order they were visited.    *)
OnPath(g, idx, H, w) ==
  /\ Len(w) \in Nat
  /\ \A i \in 1 .. Len(w) :
       w[i][1] \in H /\ w[i][2] \in Nat /\ w[i][2] <= Len(Ascending(g[w[i][1]]))
  /\ \A i, j \in 1 .. Len(w) : i < j => idx[w[i][1]] < idx[w[j][1]]
  /\ \A i \in 1 .. Len(w) - 1 : /\ w[i][2] >= 1
                                /\ Ascending(g[w[i][1]])[w[i][2]] = w[i + 1][1]

(* A consumer that was not visited is still to be scanned by an entry of   *)
(* the stack, and what reads a closed entry is closed.                     *)
Seen(g, idx, cs, w) ==
  /\ \A z \in DOMAIN idx : \A c \in g[z] :
       c \in DOMAIN idx \/ \E i \in 1 .. Len(w) : z = w[i][1] /\ c \in Left(g, w, i)
  /\ \A z \in Settled(cs) : g[z] \subseteq Settled(cs)

(* A low index is that of an entry there is a way to, and held entries     *)
(* lead to an entry of the stack below them and are led to from all those  *)
(* below them.                                                             *)
Linked(g, idx, lo, H, w) ==
  /\ \A z \in H : lo[z] <= idx[z] /\ \E y \in H : idx[y] = lo[z] /\ Connected(g, z, y)
  /\ \A z \in H : \E i \in 1 .. Len(w) : idx[w[i][1]] <= idx[z] /\ Connected(g, z, w[i][1])
  /\ \A i \in 1 .. Len(w) : \A z \in H :
       idx[w[i][1]] <= idx[z] => Connected(g, w[i][1], z)

(* Of the held entries between an entry of the stack and the next one, all *)
(* arrows scanned so far lead to nothing held below the low index.         *)
Lowered(g, idx, lo, H, w) ==
  \A i \in 1 .. Len(w) : \A z \in H : \A c \in g[z] \cap H :
    /\ idx[w[i][1]] <= idx[z]
    /\ i < Len(w) => idx[z] < idx[w[i + 1][1]]
    /\ z = w[i][1] => c \notin Left(g, w, i)
    => lo[w[i][1]] <= idx[c]

(* What is closed are strong components, in reverse topological order. *)
Grouping(g, cs) ==
  /\ cs \in Seq((SUBSET DOMAIN g) \ {{}})
  /\ \A i \in 1 .. Len(cs) : \A n \in cs[i] : cs[i] = StrongComponent(g, n)
  /\ \A i, j \in 1 .. Len(cs) : i # j => cs[i] \cap cs[j] = {}
  /\ \A i, j \in 1 .. Len(cs) : (\E p \in cs[i], c \in cs[j] : c \in g[p]) => j <= i

Tarjan(g, idx, lo, H, cs, w) ==
  /\ Numbers(g, idx, lo, H, cs)
  /\ OnPath(g, idx, H, w)
  /\ Seen(g, idx, cs, w)
  /\ Linked(g, idx, lo, H, w)
  /\ Lowered(g, idx, lo, H, w)
  /\ Grouping(g, cs)

(* The stack of held entries, in the order they were visited. *)
Stacked(idx, hd) ==
  /\ hd \in Seq(DOMAIN idx)
  /\ \A p, q \in 1 .. Len(hd) : p < q => idx[hd[p]] < idx[hd[q]]

TarjanInv ==
  /\ IsGraph(forward)
  /\ work \in Seq(Nodes \X Nat)
  /\ work = <<>> => /\ Tarjan(forward, index, low, ToSet(held), components, work)
                    /\ Stacked(index, held)
  /\ work # <<>> => /\ Tarjan(forward, Index, Low, ToSet(Held), components, work)
                    /\ Stacked(Index, Held)
                    /\ Entering => Top[1] \notin DOMAIN index

-----------------------------------------------------------------------------
LEMMA ConsumersListed ==
  ASSUME NEW g, IsGraph(g), NEW n \in DOMAIN g
  PROVE  /\ Len(Ascending(g[n])) \in Nat
         /\ \A p \in 1 .. Len(Ascending(g[n])) : Ascending(g[n])[p] \in g[n]
         /\ \A c \in g[n] : \E p \in 1 .. Len(Ascending(g[n])) : Ascending(g[n])[p] = c
<1>1. g[n] \in SUBSET Nat /\ IsFiniteSet(g[n])
  BY FS_Subset DEF IsGraph
<1> QED
  BY <1>1, AscendingSorts

LEMMA NumbersFresh ==
  ASSUME NEW g, IsGraph(g), NEW idx, NEW lo, NEW H, NEW cs, Numbers(g, idx, lo, H, cs),
         NEW child \in DOMAIN g \ DOMAIN idx
  PROVE  /\ Cardinality(DOMAIN idx) \in Nat
         /\ Cardinality(DOMAIN idx \cup {child}) = Cardinality(DOMAIN idx) + 1
<1>1. IsFiniteSet(DOMAIN idx)
  BY FS_Subset DEF IsGraph, Numbers
<1> QED
  BY <1>1, FS_CardinalityType, FS_AddElement

(* Entering an entry, a root or a consumer not visited before.             *)
NumberedNext(numbers, child, N) ==
  [n \in DOMAIN numbers \cup {child} |-> IF n = child THEN N ELSE numbers[n]]

Enters(g, w, child, w2) ==
  LET m == Len(w)
  IN /\ Len(w2) = m + 1 /\ w2[m + 1][1] = child /\ w2[m + 1][2] = 0
     /\ \A i \in 1 .. m : /\ w2[i][1] = w[i][1]
                          /\ w2[i][2] = IF i = m THEN w[i][2] + 1 ELSE w[i][2]
     /\ m > 0 => LET all == Ascending(g[w[m][1]])
                 IN w[m][2] < Len(all) /\ all[w[m][2] + 1] = child

LEMMA EnterKeeps ==
  ASSUME NEW g, IsGraph(g), NEW idx, NEW lo, NEW H, NEW cs, NEW w,
         Tarjan(g, idx, lo, H, cs, w),
         NEW child \in DOMAIN g \ DOMAIN idx,
         NEW w2, Enters(g, w, child, w2),
         NEW idx2, idx2 = NumberedNext(idx, child, Cardinality(DOMAIN idx)),
         NEW lo2, lo2 = NumberedNext(lo, child, Cardinality(DOMAIN idx))
  PROVE  Tarjan(g, idx2, lo2, H \cup {child}, cs, w2)
<1> DEFINE N == Cardinality(DOMAIN idx)
           V == DOMAIN idx
           H2 == H \cup {child}
           V2 == DOMAIN idx \cup {child}
           m == Len(w)
<1> USE DEF Enters, NumberedNext
<1>1. /\ Numbers(g, idx, lo, H, cs) /\ OnPath(g, idx, H, w) /\ Seen(g, idx, cs, w)
      /\ Linked(g, idx, lo, H, w) /\ Lowered(g, idx, lo, H, w) /\ Grouping(g, cs)
  BY DEF Tarjan
<1>2. N \in Nat /\ Cardinality(V2) = N + 1
  BY <1>1, NumbersFresh
<1>3. /\ DOMAIN idx2 = V2 /\ DOMAIN lo2 = V2
      /\ idx2[child] = N /\ lo2[child] = N
      /\ \A n \in V : n # child /\ idx2[n] = idx[n] /\ lo2[n] = lo[n]
      /\ idx2 = [n \in V2 |-> IF n = child THEN N ELSE idx[n]]
      /\ lo2 = [n \in V2 |-> IF n = child THEN N ELSE lo[n]]
  <2>1. DOMAIN lo = V
    BY <1>1 DEF Numbers
  <2> QED
    BY <2>1
<1>4. /\ V \subseteq DOMAIN g /\ H \subseteq V /\ child \notin H /\ child \notin Settled(cs)
      /\ \A n \in V : idx[n] \in Nat /\ lo[n] \in Nat /\ idx[n] < N
  BY <1>1 DEF Numbers
<1>5. /\ m \in Nat
      /\ \A i \in 1 .. m : w[i][1] \in H /\ w[i][2] \in Nat
  BY <1>1 DEF OnPath
<1>6. /\ \A i \in 1 .. m : w2[i][1] = w[i][1]
      /\ \A i \in 1 .. m - 1 : w2[i][2] = w[i][2]
      /\ m > 0 => w2[m][2] = w[m][2] + 1
      /\ w2[m + 1][1] = child /\ w2[m + 1][2] = 0
      /\ Len(w2) = m + 1
  BY <1>5
<1>7. \A i \in 1 .. m : Left(g, w2, i) = Left(g, w, i)
  <2> SUFFICES ASSUME NEW i \in 1 .. m PROVE Left(g, w2, i) = Left(g, w, i)
    OBVIOUS
  <2> DEFINE start == IF i = m THEN w[i][2] + 1 ELSE w[i][2]
  <2>1. (IF i = Len(w2) THEN w2[i][2] + 1 ELSE w2[i][2]) = start
    BY <1>5, <1>6
  <2> HIDE DEF start
  <2> QED
    BY <1>6, <2>1 DEF Left, start
<1>8. \A c \in g[child] : c \in Left(g, w2, m + 1)
  <2> SUFFICES ASSUME NEW c \in g[child] PROVE c \in Left(g, w2, m + 1)
    OBVIOUS
  <2>1. PICK p \in 1 .. Len(Ascending(g[child])) : Ascending(g[child])[p] = c
    BY ConsumersListed
  <2> QED
    BY <1>6, <2>1 DEF Left
<1>9. \A c : m > 0 /\ c = child => c \in g[w[m][1]]
  BY <1>4, <1>5, ConsumersListed
<1>10. Numbers(g, idx2, lo2, H2, cs)
  <2>1. idx2 \in [V2 -> Nat] /\ lo2 \in [V2 -> Nat]
    BY <1>2, <1>3, <1>4
  <2>2. \A n \in V2 : idx2[n] < N + 1
    BY <1>2, <1>3, <1>4
  <2>3. V2 = H2 \cup Settled(cs) /\ H2 \cap Settled(cs) = {}
    BY <1>1, <1>4 DEF Numbers
  <2> QED
    BY <1>2, <1>3, <1>4, <2>1, <2>2, <2>3 DEF Numbers
<1>11. OnPath(g, idx2, H2, w2)
  <2>1. \A i \in 1 .. m + 1 : w2[i][1] \in H2 /\ w2[i][2] \in Nat
    BY <1>5, <1>6
  <2>2. \A i \in 1 .. m + 1 : w2[i][2] <= Len(Ascending(g[w2[i][1]]))
    <3>1. ASSUME NEW i \in 1 .. m, i # m PROVE w2[i][2] <= Len(Ascending(g[w2[i][1]]))
      <4>1. w2[i][1] = w[i][1] /\ w2[i][2] = w[i][2]
        BY <1>5, <1>6, <3>1
      <4>2. w[i][2] <= Len(Ascending(g[w[i][1]]))
        BY <1>1 DEF OnPath
      <4> QED
        BY <4>1, <4>2
    <3>2. m > 0 => w2[m][2] <= Len(Ascending(g[w2[m][1]]))
      <4> SUFFICES ASSUME m > 0 PROVE w2[m][2] <= Len(Ascending(g[w2[m][1]]))
        OBVIOUS
      <4>1. w[m][1] \in DOMAIN g /\ w[m][2] \in Nat
        BY <1>4, <1>5
      <4>2. Len(Ascending(g[w[m][1]])) \in Nat
        BY <4>1, ConsumersListed
      <4> QED
        BY <1>5, <1>6, <4>1, <4>2
    <3>3. w2[m + 1][2] <= Len(Ascending(g[w2[m + 1][1]]))
      <4>1. Len(Ascending(g[child])) \in Nat
        BY ConsumersListed
      <4> QED
        BY <1>6, <4>1
    <3>4. \A i \in 1 .. m + 1 : i \in 1 .. m \/ i = m + 1
      BY <1>5
    <3>5. \A i \in 1 .. m : m > 0
      BY <1>5
    <3> QED
      BY <3>1, <3>2, <3>3, <3>4, <3>5
  <2>3. \A i, j \in 1 .. m + 1 : i < j => idx2[w2[i][1]] < idx2[w2[j][1]]
    <3> SUFFICES ASSUME NEW i \in 1 .. m + 1, NEW j \in 1 .. m + 1, i < j
                 PROVE  idx2[w2[i][1]] < idx2[w2[j][1]]
      OBVIOUS
    <3>1. i \in 1 .. m /\ idx2[w2[i][1]] = idx[w[i][1]] /\ idx[w[i][1]] < N
      <4>1. i \in 1 .. m
        BY <1>5
      <4>2. w[i][1] \in V /\ w2[i][1] = w[i][1]
        BY <1>4, <1>5, <1>6, <4>1
      <4>3. idx2[w[i][1]] = idx[w[i][1]] /\ idx[w[i][1]] < N
        BY <1>3, <1>4, <4>2
      <4> QED
        BY <4>1, <4>2, <4>3
    <3>2. CASE j = m + 1
      <4>1. idx2[w2[j][1]] = N
        BY <1>3, <1>6, <3>2
      <4> QED
        BY <3>1, <4>1
    <3>3. CASE j \in 1 .. m
      <4>1. idx2[w2[j][1]] = idx[w[j][1]]
        BY <1>3, <1>4, <1>5, <1>6, <3>3
      <4>2. idx[w[i][1]] < idx[w[j][1]]
        BY <1>1, <3>1, <3>3 DEF OnPath
      <4> QED
        BY <3>1, <4>1, <4>2
    <3>4. j = m + 1 \/ j \in 1 .. m
      BY <1>5
    <3> QED
      BY <3>2, <3>3, <3>4, Zenon
  <2>4. \A i \in 1 .. m : w2[i][2] >= 1 /\ Ascending(g[w2[i][1]])[w2[i][2]] = w2[i + 1][1]
    <3> SUFFICES ASSUME NEW i \in 1 .. m
                 PROVE  w2[i][2] >= 1 /\ Ascending(g[w2[i][1]])[w2[i][2]] = w2[i + 1][1]
      OBVIOUS
    <3>1. CASE i = m
      BY <1>5, <1>6, <3>1
    <3>2. CASE i \in 1 .. m - 1
      <4>1. /\ w2[i][1] = w[i][1] /\ w2[i][2] = w[i][2]
            /\ w2[i + 1][1] = w[i + 1][1]
        BY <1>5, <1>6, <3>2
      <4>2. w[i][2] >= 1 /\ Ascending(g[w[i][1]])[w[i][2]] = w[i + 1][1]
        BY <1>1, <3>2 DEF OnPath
      <4> QED
        BY <4>1, <4>2
    <3> QED
      BY <1>5, <3>1, <3>2
  <2>5. 1 .. Len(w2) = 1 .. m + 1 /\ 1 .. Len(w2) - 1 = 1 .. m /\ Len(w2) \in Nat
    BY <1>5, <1>6
  <2> HIDE DEF m, H2
  <2> QED
    BY <2>1, <2>2, <2>3, <2>4, <2>5, Zenon DEF OnPath
<1>12. Seen(g, idx2, cs, w2)
  <2>1. ASSUME NEW z \in V2, NEW c \in g[z], c \notin V2
        PROVE  \E i \in 1 .. m + 1 : z = w2[i][1] /\ c \in Left(g, w2, i)
    <3>1. CASE z = child
      BY <1>5, <1>6, <1>8, <3>1
    <3>2. CASE z \in V
      <4>1. PICK i \in 1 .. m : z = w[i][1] /\ c \in Left(g, w, i)
        BY <1>1, <2>1, <3>2 DEF Seen
      <4>2. i \in 1 .. m + 1 /\ z = w2[i][1] /\ c \in Left(g, w2, i)
        BY <1>5, <1>6, <1>7, <4>1
      <4> QED
        BY <4>2
    <3> QED
      BY <3>1, <3>2
  <2> QED
    BY <1>1, <1>3, <1>6, <2>1 DEF Seen
<1>13. Linked(g, idx2, lo2, H2, w2)
  <2>1. \A z \in H2 : lo2[z] <= idx2[z] /\ \E y \in H2 : idx2[y] = lo2[z] /\ Connected(g, z, y)
    <3> SUFFICES ASSUME NEW z \in H2
                 PROVE  lo2[z] <= idx2[z] /\ \E y \in H2 : idx2[y] = lo2[z] /\ Connected(g, z, y)
      OBVIOUS
    <3>1. CASE z = child
      BY <1>2, <1>3, <3>1, ConnectedProperties
    <3>2. CASE z \in H
      <4>1. lo[z] <= idx[z] /\ \E y \in H : idx[y] = lo[z] /\ Connected(g, z, y)
        BY <1>1, <3>2 DEF Linked
      <4> QED
        BY <1>3, <1>4, <3>2, <4>1
    <3> QED
      BY <3>1, <3>2
  <2>2. \A z \in H2 : \E i \in 1 .. m + 1 :
          idx2[w2[i][1]] <= idx2[z] /\ Connected(g, z, w2[i][1])
    <3> SUFFICES ASSUME NEW z \in H2
                 PROVE  \E i \in 1 .. m + 1 :
                          idx2[w2[i][1]] <= idx2[z] /\ Connected(g, z, w2[i][1])
      OBVIOUS
    <3>1. CASE z = child
      BY <1>2, <1>3, <1>5, <1>6, <3>1, ConnectedProperties
    <3>2. CASE z \in H
      <4>1. PICK i \in 1 .. m : idx[w[i][1]] <= idx[z] /\ Connected(g, z, w[i][1])
        BY <1>1, <3>2 DEF Linked
      <4>2. /\ i \in 1 .. m + 1 /\ w2[i][1] = w[i][1]
            /\ idx2[w2[i][1]] = idx[w[i][1]] /\ idx2[z] = idx[z]
        BY <1>3, <1>4, <1>5, <1>6, <3>2
      <4> QED
        BY <4>1, <4>2
    <3> QED
      BY <3>1, <3>2
  <2>3. \A i \in 1 .. m : Connected(g, w[i][1], child)
    <3> SUFFICES ASSUME NEW i \in 1 .. m PROVE Connected(g, w[i][1], child)
      OBVIOUS
    <3>1. w[m][1] \in H /\ w[i][1] \in H /\ m \in 1 .. m
      BY <1>5
    <3>2. idx[w[i][1]] <= idx[w[m][1]]
      <4>1. i = m \/ i < m
        BY <1>5
      <4>2. idx[w[i][1]] \in Nat /\ idx[w[m][1]] \in Nat
        BY <1>4, <3>1
      <4>3. i < m => idx[w[i][1]] < idx[w[m][1]]
        BY <1>1, <3>1 DEF OnPath
      <4> QED
        BY <4>1, <4>2, <4>3
    <3>3. Connected(g, w[i][1], w[m][1])
      BY <1>1, <3>1, <3>2 DEF Linked
    <3>4. Connected(g, w[m][1], child)
      BY <1>4, <1>5, <1>9, <3>1, ConnectedProperties
    <3> QED
      BY <1>4, <3>1, <3>3, <3>4, ConnectedProperties
  <2>4. \A i \in 1 .. m + 1 : \A z \in H2 :
          idx2[w2[i][1]] <= idx2[z] => Connected(g, w2[i][1], z)
    <3> SUFFICES ASSUME NEW i \in 1 .. m + 1, NEW z \in H2, idx2[w2[i][1]] <= idx2[z]
                 PROVE  Connected(g, w2[i][1], z)
      OBVIOUS
    <3>1. CASE i = m + 1
      <4>1. z = child
        BY <1>2, <1>3, <1>4, <1>6, <3>1
      <4> QED
        BY <1>6, <3>1, <4>1, ConnectedProperties
    <3>2. CASE i \in 1 .. m /\ z = child
      BY <1>6, <2>3, <3>2
    <3>3. CASE i \in 1 .. m /\ z \in H
      <4>1. idx[w[i][1]] <= idx[z]
        BY <1>3, <1>4, <1>5, <1>6, <3>3
      <4> QED
        BY <1>1, <1>6, <3>3, <4>1 DEF Linked
    <3> QED
      BY <1>5, <3>1, <3>2, <3>3
  <2> QED
    BY <1>6, <2>1, <2>2, <2>4 DEF Linked
<1>14. Lowered(g, idx2, lo2, H2, w2)
  <2> SUFFICES ASSUME NEW i \in 1 .. m + 1, NEW z \in H2, NEW c \in g[z] \cap H2,
                      idx2[w2[i][1]] <= idx2[z],
                      i < m + 1 => idx2[z] < idx2[w2[i + 1][1]],
                      z = w2[i][1] => c \notin Left(g, w2, i)
               PROVE  lo2[w2[i][1]] <= idx2[c]
    <3>1. Len(w2) = m + 1
      BY <1>6
    <3> HIDE DEF m, H2
    <3> QED
      BY <3>1, Zenon DEF Lowered
  <2>1. CASE i = m + 1
    <3>1. z = child
      BY <1>2, <1>3, <1>4, <1>6, <2>1
    <3> QED
      BY <1>6, <1>8, <2>1, <3>1
  <2>2. CASE i \in 1 .. m
    <3>1. w2[i][1] = w[i][1] /\ w[i][1] \in H /\ w[i][1] \in V
      BY <1>4, <1>5, <1>6, <2>2
    <3>2. z # child
      <4> SUFFICES ASSUME z = child PROVE FALSE
        OBVIOUS
      <4>1. idx2[w2[i + 1][1]] <= N
        <5>1. CASE i = m
          BY <1>2, <1>3, <1>6, <5>1
        <5>2. CASE i + 1 \in 1 .. m
          <6>1. w2[i + 1][1] = w[i + 1][1] /\ w[i + 1][1] \in V
            BY <1>4, <1>5, <1>6, <5>2
          <6> QED
            BY <1>2, <1>3, <1>4, <6>1
        <5> QED
          BY <1>5, <2>2, <5>1, <5>2
      <4>2. idx2[w2[i + 1][1]] \in Nat
        <5>1. CASE i = m
          BY <1>2, <1>3, <1>6, <5>1
        <5>2. CASE i + 1 \in 1 .. m
          <6>1. w2[i + 1][1] = w[i + 1][1] /\ w[i + 1][1] \in V
            BY <1>4, <1>5, <1>6, <5>2
          <6> QED
            BY <1>2, <1>3, <1>4, <6>1
        <5> QED
          BY <1>5, <2>2, <5>1, <5>2
      <4> QED
        BY <1>2, <1>3, <1>5, <2>2, <4>1, <4>2
    <3>3. z \in H /\ idx2[z] = idx[z] /\ idx[w[i][1]] <= idx[z]
      BY <1>3, <1>4, <3>1, <3>2
    <3>4. c = child => lo2[w2[i][1]] <= idx2[c]
      <4>1. lo[w[i][1]] <= idx[w[i][1]] /\ idx[w[i][1]] < N
            /\ lo[w[i][1]] \in Nat /\ idx[w[i][1]] \in Nat
        BY <1>1, <1>4, <3>1 DEF Linked
      <4> QED
        BY <1>2, <1>3, <3>1, <4>1
    <3>5. CASE c \in H
      <4>1. i < m => idx[z] < idx[w[i + 1][1]]
        <5> SUFFICES ASSUME i < m PROVE idx[z] < idx[w[i + 1][1]]
          OBVIOUS
        <5>1. i + 1 \in 1 .. m /\ w2[i + 1][1] = w[i + 1][1] /\ w[i + 1][1] \in V
          BY <1>4, <1>5, <1>6, <2>2
        <5> QED
          BY <1>3, <1>5, <2>2, <3>3, <5>1
      <4>2. z = w[i][1] => c \notin Left(g, w, i)
        BY <1>7, <2>2, <3>1
      <4>3. lo[w[i][1]] <= idx[c]
        BY <1>1, <2>2, <3>3, <3>5, <4>1, <4>2 DEF Lowered
      <4> QED
        BY <1>3, <1>4, <3>1, <3>5, <4>3
    <3> QED
      BY <3>4, <3>5
  <2> QED
    BY <1>5, <2>1, <2>2
<1> QED
  BY <1>1, <1>10, <1>11, <1>12, <1>13, <1>14 DEF Tarjan

(* Scanning some more consumers of the entry on top, all visited before:   *)
(* its low index is lowered to those that are held.                        *)
Scans(g, idx, lo, H, w, stop, lo2, w2) ==
  LET x == w[Len(w)][1]
      from == w[Len(w)][2] + 1
      all == Ascending(g[x])
  IN /\ Len(w) > 0 /\ stop \in from .. Len(all) + 1
     /\ \A p \in from .. stop - 1 : all[p] \in DOMAIN idx
     /\ lo2 \in [DOMAIN idx -> Nat] /\ \A n \in DOMAIN idx : n # x => lo2[n] = lo[n]
     /\ lo2[x] <= lo[x]
     /\ \A p \in from .. stop - 1 : all[p] \in H => lo2[x] <= idx[all[p]]
     /\ \/ lo2[x] = lo[x]
        \/ \E p \in from .. stop - 1 : all[p] \in H /\ lo2[x] = idx[all[p]]
     /\ Len(w2) = Len(w)
     /\ \A i \in 1 .. Len(w) : /\ w2[i][1] = w[i][1]
                               /\ w2[i][2] = IF i = Len(w) THEN stop - 1 ELSE w[i][2]

LEMMA ScanKeeps ==
  ASSUME NEW g, IsGraph(g), NEW idx, NEW lo, NEW H, NEW cs, NEW w,
         Tarjan(g, idx, lo, H, cs, w),
         NEW stop, NEW lo2, NEW w2, Scans(g, idx, lo, H, w, stop, lo2, w2)
  PROVE  Tarjan(g, idx, lo2, H, cs, w2)
<1> DEFINE m == Len(w)
           x == w[m][1]
           all == Ascending(g[x])
           V == DOMAIN idx
<1> USE DEF Scans
<1>1. /\ Numbers(g, idx, lo, H, cs) /\ OnPath(g, idx, H, w) /\ Seen(g, idx, cs, w)
      /\ Linked(g, idx, lo, H, w) /\ Lowered(g, idx, lo, H, w) /\ Grouping(g, cs)
  BY DEF Tarjan
<1>2. /\ V \subseteq DOMAIN g /\ H \subseteq V
      /\ \A n \in V : idx[n] \in Nat /\ lo[n] \in Nat /\ lo2[n] \in Nat
  BY <1>1 DEF Numbers
<1>3. /\ m \in Nat /\ m \in 1 .. m
      /\ \A i \in 1 .. m : w[i][1] \in H /\ w[i][2] \in Nat
  <2>1. m \in Nat /\ \A i \in 1 .. m : w[i][1] \in H /\ w[i][2] \in Nat
    BY <1>1 DEF OnPath
  <2>2. m > 0
    OBVIOUS
  <2> HIDE DEF m, Scans
  <2>3. m \in 1 .. m
    BY <2>1, <2>2
  <2> QED
    BY <2>1, <2>3
<1>4. /\ x \in H /\ x \in V /\ x \in DOMAIN g
      /\ Len(all) \in Nat
      /\ \A p \in 1 .. Len(all) : all[p] \in g[x]
  <2>1. x \in H /\ x \in V /\ x \in DOMAIN g
    BY <1>2, <1>3
  <2> HIDE DEF x
  <2>2. Len(all) \in Nat /\ \A p \in 1 .. Len(all) : all[p] \in g[x]
    BY <2>1, ConsumersListed
  <2> QED
    BY <2>1, <2>2
<1>5. /\ stop \in Nat /\ stop - 1 \in Nat /\ w2[m][2] = stop - 1 /\ stop - 1 <= Len(all)
      /\ \A i \in 1 .. m : i # m => w2[i][2] = w[i][2]
  BY <1>3, <1>4
<1>6. \A i \in 1 .. m : i # m => Left(g, w2, i) = Left(g, w, i)
  BY <1>3, <1>5 DEF Left
<1>7. \A c \in Left(g, w, m) : \/ c \in Left(g, w2, m)
                               \/ \E p \in w[m][2] + 1 .. stop - 1 : all[p] = c
  <2> SUFFICES ASSUME NEW c \in Left(g, w, m)
               PROVE  \/ c \in Left(g, w2, m)
                      \/ \E p \in w[m][2] + 1 .. stop - 1 : all[p] = c
    OBVIOUS
  <2>1. PICK p \in w[m][2] + 1 .. Len(all) : all[p] = c
    BY <1>3 DEF Left
  <2>2. CASE p <= stop - 1
    BY <1>3, <1>4, <1>5, <2>1, <2>2
  <2>3. CASE p >= stop
    <3>1. p \in w2[m][2] + 1 .. Len(Ascending(g[w2[m][1]]))
      BY <1>3, <1>4, <1>5, <2>1, <2>3
    <3> QED
      BY <1>3, <2>1, <3>1 DEF Left
  <2> QED
    BY <1>3, <1>4, <1>5, <2>1, <2>2, <2>3
<1>8. \A i \in 1 .. m : i # m => w[i][1] # x /\ idx[w[i][1]] < idx[x]
  <2> SUFFICES ASSUME NEW i \in 1 .. m, i # m PROVE w[i][1] # x /\ idx[w[i][1]] < idx[x]
    OBVIOUS
  <2>1. i < m
    BY <1>3
  <2>2. idx[w[i][1]] < idx[w[m][1]]
    BY <1>1, <1>3, <2>1 DEF OnPath
  <2> QED
    BY <1>2, <1>3, <1>4, <2>2
<1>9. Numbers(g, idx, lo2, H, cs)
  BY <1>1 DEF Numbers
<1>10. OnPath(g, idx, H, w2)
  <2>1. \A i \in 1 .. m : /\ w2[i][1] \in H /\ w2[i][2] \in Nat
                          /\ w2[i][2] <= Len(Ascending(g[w2[i][1]]))
    <3> SUFFICES ASSUME NEW i \in 1 .. m
                 PROVE  /\ w2[i][1] \in H /\ w2[i][2] \in Nat
                        /\ w2[i][2] <= Len(Ascending(g[w2[i][1]]))
      OBVIOUS
    <3>1. CASE i = m
      BY <1>3, <1>5, <3>1
    <3>2. CASE i # m
      <4>1. w2[i][1] = w[i][1] /\ w2[i][2] = w[i][2]
        BY <1>5, <3>2
      <4>2. w[i][2] <= Len(Ascending(g[w[i][1]]))
        BY <1>1 DEF OnPath
      <4> QED
        BY <1>3, <4>1, <4>2
    <3> QED
      BY <3>1, <3>2
  <2>2. \A i, j \in 1 .. m : i < j => idx[w2[i][1]] < idx[w2[j][1]]
    BY <1>1 DEF OnPath
  <2>3. \A i \in 1 .. m - 1 : w2[i][2] >= 1 /\ Ascending(g[w2[i][1]])[w2[i][2]] = w2[i + 1][1]
    <3> SUFFICES ASSUME NEW i \in 1 .. m - 1
                 PROVE  w2[i][2] >= 1 /\ Ascending(g[w2[i][1]])[w2[i][2]] = w2[i + 1][1]
      OBVIOUS
    <3>1. /\ w2[i][1] = w[i][1] /\ w2[i][2] = w[i][2]
          /\ w2[i + 1][1] = w[i + 1][1]
      BY <1>3, <1>5
    <3>2. w[i][2] >= 1 /\ Ascending(g[w[i][1]])[w[i][2]] = w[i + 1][1]
      BY <1>1 DEF OnPath
    <3> QED
      BY <3>1, <3>2
  <2> QED
    BY <1>3, <2>1, <2>2, <2>3, Zenon DEF OnPath
<1>11. Seen(g, idx, cs, w2)
  <2>1. ASSUME NEW z \in V, NEW c \in g[z], c \notin V
        PROVE  \E i \in 1 .. m : z = w2[i][1] /\ c \in Left(g, w2, i)
    <3>1. PICK i \in 1 .. m : z = w[i][1] /\ c \in Left(g, w, i)
      BY <1>1, <2>1 DEF Seen
    <3>2. c \in Left(g, w2, i)
      BY <1>6, <1>7, <2>1, <3>1
    <3> QED
      BY <3>1, <3>2
  <2> QED
    BY <1>1, <2>1 DEF Seen
<1>12. Linked(g, idx, lo2, H, w2)
  <2>1. \A z \in H : lo2[z] <= idx[z] /\ \E y \in H : idx[y] = lo2[z] /\ Connected(g, z, y)
    <3> SUFFICES ASSUME NEW z \in H
                 PROVE  lo2[z] <= idx[z] /\ \E y \in H : idx[y] = lo2[z] /\ Connected(g, z, y)
      OBVIOUS
    <3>1. lo[z] <= idx[z] /\ \E y \in H : idx[y] = lo[z] /\ Connected(g, z, y)
      BY <1>1 DEF Linked
    <3>2. CASE lo2[z] = lo[z]
      BY <3>1, <3>2
    <3>3. CASE z = x /\ lo2[x] # lo[x]
      <4>1. PICK p \in w[m][2] + 1 .. stop - 1 : all[p] \in H /\ lo2[x] = idx[all[p]]
        BY <3>3
      <4>2. all[p] \in g[x]
        BY <1>3, <1>4, <1>5
      <4>3. Connected(g, x, all[p])
        BY <1>4, <4>2, ConnectedProperties
      <4>4. lo2[x] <= idx[x]
        <5>1. lo2[x] <= lo[x] /\ lo[x] <= idx[x]
          BY <3>1, <3>3
        <5>2. lo2[x] \in Nat /\ lo[x] \in Nat /\ idx[x] \in Nat
          BY <1>2, <1>4
        <5> HIDE DEF x
        <5> QED
          BY <5>1, <5>2
      <4> QED
        BY <3>3, <4>1, <4>3, <4>4
    <3> QED
      BY <1>2, <3>2, <3>3
  <2>2. \A z \in H : \E i \in 1 .. m :
          idx[w2[i][1]] <= idx[z] /\ Connected(g, z, w2[i][1])
    <3> SUFFICES ASSUME NEW z \in H
                 PROVE  \E i \in 1 .. m : idx[w2[i][1]] <= idx[z] /\ Connected(g, z, w2[i][1])
      OBVIOUS
    <3>1. PICK i \in 1 .. m : idx[w[i][1]] <= idx[z] /\ Connected(g, z, w[i][1])
      BY <1>1 DEF Linked
    <3>2. w2[i][1] = w[i][1]
      OBVIOUS
    <3> QED
      BY <3>1, <3>2, Zenon
  <2>3. \A i \in 1 .. m : \A z \in H :
          idx[w2[i][1]] <= idx[z] => Connected(g, w2[i][1], z)
    <3> SUFFICES ASSUME NEW i \in 1 .. m, NEW z \in H, idx[w2[i][1]] <= idx[z]
                 PROVE  Connected(g, w2[i][1], z)
      OBVIOUS
    <3>1. w2[i][1] = w[i][1]
      OBVIOUS
    <3> QED
      BY <1>1, <3>1 DEF Linked
  <2> QED
    BY <2>1, <2>2, <2>3, Zenon DEF Linked
<1>13. Lowered(g, idx, lo2, H, w2)
  <2> SUFFICES ASSUME NEW i \in 1 .. m, NEW z \in H, NEW c \in g[z] \cap H,
                      idx[w2[i][1]] <= idx[z],
                      i < m => idx[z] < idx[w2[i + 1][1]],
                      z = w2[i][1] => c \notin Left(g, w2, i)
               PROVE  lo2[w2[i][1]] <= idx[c]
    BY Zenon DEF Lowered
  <2>1. idx[w[i][1]] <= idx[z] /\ w2[i][1] = w[i][1]
    OBVIOUS
  <2>2. i < m => idx[z] < idx[w[i + 1][1]]
    BY <1>3
  <2>3. CASE i # m
    <3>1. z = w[i][1] => c \notin Left(g, w, i)
      BY <1>6, <2>1, <2>3
    <3>2. lo[w[i][1]] <= idx[c]
      BY <1>1, <2>1, <2>2, <3>1 DEF Lowered
    <3> QED
      BY <1>2, <1>3, <1>8, <2>1, <2>3, <3>2
  <2>4. CASE i = m
    <3>1. CASE z = x => c \notin Left(g, w, m)
      <4>1. lo[x] <= idx[c]
        BY <1>1, <2>1, <2>2, <2>4, <3>1 DEF Lowered
      <4>2. lo2[x] <= lo[x] /\ w2[i][1] = x
        BY <2>1, <2>4
      <4>3. lo2[x] \in Nat /\ lo[x] \in Nat /\ idx[c] \in Nat
        BY <1>2, <1>4
      <4> HIDE DEF x, V
      <4> QED
        BY <4>1, <4>2, <4>3
    <3>2. CASE z = x /\ c \in Left(g, w, m)
      <4>1. PICK p \in w[m][2] + 1 .. stop - 1 : all[p] = c
        BY <1>7, <2>1, <2>4, <3>2
      <4> QED
        BY <2>1, <2>4, <4>1
    <3> QED
      BY <3>1, <3>2
  <2> QED
    BY <2>3, <2>4
<1> QED
  BY <1>1, <1>9, <1>10, <1>11, <1>12, <1>13 DEF Tarjan

(* Taking the entry on top off the stack, all its consumers scanned, and   *)
(* handing its low index to the entry it was entered from.                 *)
AllScanned(g, w) == Len(w) > 0 /\ w[Len(w)][2] = Len(Ascending(g[w[Len(w)][1]]))

Popped(w, w2) ==
  /\ Len(w2) = Len(w) - 1
  /\ \A i \in 1 .. Len(w) - 1 : w2[i][1] = w[i][1] /\ w2[i][2] = w[i][2]

HandedUp(idx, lo, lo2, w) ==
  /\ lo2 \in [DOMAIN idx -> Nat]
  /\ LET child == w[Len(w)][1]
         parent == w[Len(w) - 1][1]
     IN /\ \A n \in DOMAIN idx : Len(w) = 1 \/ n # parent => lo2[n] = lo[n]
        /\ Len(w) > 1 => /\ lo2[parent] <= lo[parent] /\ lo2[parent] <= lo[child]
                         /\ lo2[parent] \in {lo[parent], lo[child]}

(* What holds when all consumers of the entry on top have been scanned.    *)
LEMMA TopFacts ==
  ASSUME NEW g, IsGraph(g), NEW idx, NEW lo, NEW H, NEW cs, NEW w,
         Tarjan(g, idx, lo, H, cs, w),
         AllScanned(g, w), NEW m, m = Len(w)
  PROVE  /\ DOMAIN idx \subseteq DOMAIN g /\ H \subseteq DOMAIN idx
         /\ \A n \in DOMAIN idx : idx[n] \in Nat /\ lo[n] \in Nat
         /\ m \in Nat /\ m \in 1 .. m
         /\ \A i \in 1 .. m : w[i][1] \in H /\ w[i][2] \in Nat
         /\ Left(g, w, m) = {}
         /\ \A i \in 1 .. m : i # m => idx[w[i][1]] < idx[w[m][1]] /\ w[i][1] # w[m][1]
         /\ m > 1 => m - 1 \in 1 .. m /\ w[m][1] \in g[w[m - 1][1]]
<1> USE DEF AllScanned
<1>1. Numbers(g, idx, lo, H, cs) /\ OnPath(g, idx, H, w)
  BY DEF Tarjan
<1>2. /\ DOMAIN idx \subseteq DOMAIN g /\ H \subseteq DOMAIN idx
      /\ \A n \in DOMAIN idx : idx[n] \in Nat /\ lo[n] \in Nat
  BY <1>1 DEF Numbers
<1>3. /\ m \in Nat /\ m \in 1 .. m
      /\ \A i \in 1 .. m : w[i][1] \in H /\ w[i][2] \in Nat
  BY <1>1 DEF OnPath
<1>4. Left(g, w, m) = {}
  BY <1>3 DEF Left
<1>5. \A i \in 1 .. m : i # m => idx[w[i][1]] < idx[w[m][1]] /\ w[i][1] # w[m][1]
  <2> SUFFICES ASSUME NEW i \in 1 .. m, i # m
               PROVE  idx[w[i][1]] < idx[w[m][1]] /\ w[i][1] # w[m][1]
    OBVIOUS
  <2>1. i < m
    BY <1>3
  <2>2. idx[w[i][1]] < idx[w[m][1]]
    BY <1>1, <1>3, <2>1 DEF OnPath
  <2> QED
    BY <1>2, <1>3, <2>2
<1>6. m > 1 => m - 1 \in 1 .. m /\ w[m][1] \in g[w[m - 1][1]]
  <2> SUFFICES ASSUME m > 1 PROVE m - 1 \in 1 .. m /\ w[m][1] \in g[w[m - 1][1]]
    OBVIOUS
  <2>1. m - 1 \in 1 .. m /\ m - 1 \in 1 .. m - 1 /\ m - 1 + 1 = m
    BY <1>3
  <2>2. /\ w[m - 1][2] >= 1 /\ w[m - 1][2] <= Len(Ascending(g[w[m - 1][1]]))
        /\ Ascending(g[w[m - 1][1]])[w[m - 1][2]] = w[m][1]
    BY <1>1, <2>1 DEF OnPath
  <2>3. w[m - 1][1] \in DOMAIN g /\ w[m - 1][2] \in Nat
    BY <1>2, <1>3, <2>1
  <2>4. /\ Len(Ascending(g[w[m - 1][1]])) \in Nat
        /\ \A p \in 1 .. Len(Ascending(g[w[m - 1][1]])) :
             Ascending(g[w[m - 1][1]])[p] \in g[w[m - 1][1]]
    BY <2>3, ConsumersListed
  <2> QED
    BY <2>1, <2>2, <2>3, <2>4
<1> QED
  BY <1>2, <1>3, <1>4, <1>5, <1>6

(* Taking an entry off the stack, what is left to scan below it is what    *)
(* was, but for the entry itself.                                          *)
LEMMA LeftBelow ==
  ASSUME NEW g, IsGraph(g), NEW idx, NEW lo, NEW H, NEW cs, NEW w,
         Tarjan(g, idx, lo, H, cs, w),
         AllScanned(g, w), NEW m, m = Len(w),
         NEW w2, Popped(w, w2)
  PROVE  /\ \A i \in 1 .. m - 1 : i # m - 1 => Left(g, w2, i) = Left(g, w, i)
         /\ m > 1 => \A c \in Left(g, w, m - 1) : c \in Left(g, w2, m - 1) \/ c = w[m][1]
         /\ OnPath(g, idx, H, w2)
<1>1. OnPath(g, idx, H, w)
  BY DEF Tarjan
<1>2. /\ m \in Nat
      /\ \A i \in 1 .. m : w[i][1] \in H /\ w[i][2] \in Nat
      /\ \A i \in 1 .. m - 1 : i \in 1 .. m /\ i # m
  BY TopFacts
<1> USE DEF AllScanned, Popped
<1>3. \A i \in 1 .. m - 1 : i # m - 1 => Left(g, w2, i) = Left(g, w, i)
  <2> SUFFICES ASSUME NEW i \in 1 .. m - 1, i # m - 1 PROVE Left(g, w2, i) = Left(g, w, i)
    OBVIOUS
  <2>1. w2[i][1] = w[i][1] /\ w2[i][2] = w[i][2]
    OBVIOUS
  <2>2. (IF i = Len(w2) THEN w2[i][2] + 1 ELSE w2[i][2])
          = (IF i = Len(w) THEN w[i][2] + 1 ELSE w[i][2])
    BY <1>2, <2>1
  <2> QED
    BY <2>1, <2>2, Zenon DEF Left
<1>4. m > 1 => \A c \in Left(g, w, m - 1) : c \in Left(g, w2, m - 1) \/ c = w[m][1]
  <2> SUFFICES ASSUME m > 1, NEW c \in Left(g, w, m - 1), c # w[m][1]
               PROVE  c \in Left(g, w2, m - 1)
    OBVIOUS
  <2> DEFINE all == Ascending(g[w[m - 1][1]])
  <2>1. m - 1 \in 1 .. m - 1 /\ m - 1 # m /\ m - 1 + 1 = m
    BY <1>2
  <2>2. PICK p \in w[m - 1][2] .. Len(all) : all[p] = c
    BY <2>1 DEF Left
  <2>3. all[w[m - 1][2]] = w[m][1] /\ w[m - 1][2] \in Nat
    BY <1>1, <1>2, <2>1 DEF OnPath
  <2>4. p \in w[m - 1][2] + 1 .. Len(all)
    BY <2>2, <2>3
  <2>5. w2[m - 1][1] = w[m - 1][1] /\ w2[m - 1][2] = w[m - 1][2]
    BY <2>1
  <2> QED
    BY <2>2, <2>4, <2>5 DEF Left
<1>5. OnPath(g, idx, H, w2)
  <2>1. \A i \in 1 .. m - 1 : /\ w2[i][1] \in H /\ w2[i][2] \in Nat
                              /\ w2[i][2] <= Len(Ascending(g[w2[i][1]]))
    <3> SUFFICES ASSUME NEW i \in 1 .. m - 1
                 PROVE  /\ w2[i][1] \in H /\ w2[i][2] \in Nat
                        /\ w2[i][2] <= Len(Ascending(g[w2[i][1]]))
      OBVIOUS
    <3>1. w2[i][1] = w[i][1] /\ w2[i][2] = w[i][2] /\ i \in 1 .. m
      BY <1>2
    <3>2. w[i][2] <= Len(Ascending(g[w[i][1]]))
      BY <1>1, <3>1 DEF OnPath
    <3> QED
      BY <1>2, <3>1, <3>2
  <2>2. \A i, j \in 1 .. m - 1 : i < j => idx[w2[i][1]] < idx[w2[j][1]]
    BY <1>1, <1>2 DEF OnPath
  <2>3. \A i \in 1 .. m - 2 : w2[i][2] >= 1 /\ Ascending(g[w2[i][1]])[w2[i][2]] = w2[i + 1][1]
    <3> SUFFICES ASSUME NEW i \in 1 .. m - 2
                 PROVE  w2[i][2] >= 1 /\ Ascending(g[w2[i][1]])[w2[i][2]] = w2[i + 1][1]
      OBVIOUS
    <3>1. i \in 1 .. m - 1 /\ i + 1 \in 1 .. m - 1
      BY <1>2
    <3>2. /\ w2[i][1] = w[i][1] /\ w2[i][2] = w[i][2]
          /\ w2[i + 1][1] = w[i + 1][1]
      BY <3>1
    <3>3. w[i][2] >= 1 /\ Ascending(g[w[i][1]])[w[i][2]] = w[i + 1][1]
      BY <1>1, <3>1 DEF OnPath
    <3> QED
      BY <3>2, <3>3
  <2>4. 1 .. Len(w2) = 1 .. m - 1 /\ 1 .. Len(w2) - 1 = 1 .. m - 2 /\ Len(w2) \in Nat
    BY <1>2
  <2> QED
    BY <2>1, <2>2, <2>3, <2>4, Zenon DEF OnPath
<1> QED
  BY <1>3, <1>4, <1>5

(* Leaving an entry that leads to one held below it: it stays held.        *)
LEMMA StayKeeps ==
  ASSUME NEW g, IsGraph(g), NEW idx, NEW lo, NEW H, NEW cs, NEW w,
         Tarjan(g, idx, lo, H, cs, w),
         AllScanned(g, w), NEW m, m = Len(w),
         lo[w[m][1]] # idx[w[m][1]],
         NEW w2, Popped(w, w2),
         NEW lo2, HandedUp(idx, lo, lo2, w)
  PROVE  Tarjan(g, idx, lo2, H, cs, w2)
<1> DEFINE x == w[m][1]
           V == DOMAIN idx
           parent == w[m - 1][1]
<1>9. /\ \A i \in 1 .. m - 1 : i # m - 1 => Left(g, w2, i) = Left(g, w, i)
      /\ m > 1 => \A c \in Left(g, w, m - 1) : c \in Left(g, w2, m - 1) \/ c = x
      /\ OnPath(g, idx, H, w2)
  BY LeftBelow
<1>0. /\ Len(w2) = m - 1
      /\ \A i \in 1 .. m - 1 : w2[i][1] = w[i][1] /\ w2[i][2] = w[i][2]
      /\ lo2 \in [DOMAIN idx -> Nat]
  BY DEF Popped, HandedUp
<1> USE <1>0
<1>1. /\ Numbers(g, idx, lo, H, cs) /\ OnPath(g, idx, H, w) /\ Seen(g, idx, cs, w)
      /\ Linked(g, idx, lo, H, w) /\ Lowered(g, idx, lo, H, w) /\ Grouping(g, cs)
  BY DEF Tarjan
<1>2. /\ V \subseteq DOMAIN g /\ H \subseteq V
      /\ \A n \in V : idx[n] \in Nat /\ lo[n] \in Nat /\ lo2[n] \in Nat
      /\ m \in Nat /\ m \in 1 .. m
      /\ \A i \in 1 .. m : w[i][1] \in H /\ w[i][2] \in Nat
      /\ Left(g, w, m) = {}
      /\ \A i \in 1 .. m : i # m => idx[w[i][1]] < idx[x] /\ w[i][1] # x
      /\ m > 1 => m - 1 \in 1 .. m /\ x \in g[parent]
  <2>1. /\ V \subseteq DOMAIN g /\ H \subseteq V
        /\ \A n \in V : idx[n] \in Nat /\ lo[n] \in Nat
        /\ m \in Nat /\ m \in 1 .. m
        /\ \A i \in 1 .. m : w[i][1] \in H /\ w[i][2] \in Nat
    BY TopFacts
  <2>3. Left(g, w, m) = {}
    BY TopFacts
  <2>4. \A i \in 1 .. m : i # m => idx[w[i][1]] < idx[w[m][1]] /\ w[i][1] # w[m][1]
    BY TopFacts
  <2>5. m > 1 => m - 1 \in 1 .. m /\ w[m][1] \in g[w[m - 1][1]]
    BY TopFacts
  <2>2. \A n \in V : lo2[n] \in Nat
    BY DEF HandedUp
  <2> HIDE DEF V
  <2> QED
    BY <2>1, <2>2, <2>3, <2>4, <2>5
<1>15. /\ \A i \in 1 .. m : i = m \/ (i \in 1 .. m - 1 /\ i < m)
       /\ \A i \in 1 .. m - 1 : i = m - 1 \/ (i < m - 1 /\ i + 1 \in 1 .. m - 1)
  BY <1>2
<1>3. x \in H /\ x \in V /\ lo[x] < idx[x]
  <2>1. x \in H /\ lo[x] <= idx[x]
    BY <1>1, <1>2 DEF Linked
  <2> QED
    BY <1>2, <2>1
<1>4. PICK below \in H : idx[below] = lo[x] /\ Connected(g, x, below)
  BY <1>1, <1>3 DEF Linked
<1>5. PICK b \in 1 .. m : idx[w[b][1]] <= idx[below] /\ Connected(g, below, w[b][1])
  BY <1>1 DEF Linked
<1>6. b # m /\ b \in 1 .. m - 1 /\ m > 1 /\ Connected(g, x, w[b][1]) /\ idx[w[b][1]] < idx[x]
  <2>1. idx[w[b][1]] \in Nat /\ idx[below] \in Nat /\ idx[x] \in Nat /\ lo[x] \in Nat
    BY <1>2, <1>3
  <2>2. idx[w[b][1]] < idx[x]
    BY <1>3, <1>4, <1>5, <2>1
  <2>3. b # m
    BY <2>1, <2>2
  <2>4. b \in 1 .. m - 1 /\ m > 1
    BY <1>2, <2>3
  <2>5. Connected(g, x, w[b][1])
    <3>1. x \in DOMAIN g /\ below \in DOMAIN g /\ w[b][1] \in DOMAIN g
      BY <1>2, <1>3
    <3> QED
      BY <1>4, <1>5, <3>1, ConnectedProperties
  <2> QED
    BY <2>2, <2>3, <2>4, <2>5
<1>7. /\ parent \in H /\ parent \in V /\ m - 1 \in 1 .. m - 1 /\ m - 1 # m
      /\ \A i \in 1 .. m - 1 : i \in 1 .. m /\ i # m
      /\ \A n \in V : n # parent => lo2[n] = lo[n]
      /\ lo2[parent] <= lo[parent] /\ lo2[parent] <= lo[x]
      /\ lo2[parent] \in {lo[parent], lo[x]}
  <2> HIDE DEF x, V, parent
  <2>1. m - 1 \in 1 .. m - 1 /\ m - 1 # m /\ \A i \in 1 .. m - 1 : i \in 1 .. m /\ i # m
    BY <1>2, <1>6
  <2>2. parent \in H /\ parent \in V
    BY <1>2, <1>6 DEF parent
  <2>3. /\ \A n \in V : n # parent => lo2[n] = lo[n]
        /\ lo2[parent] <= lo[parent] /\ lo2[parent] <= lo[x]
        /\ lo2[parent] \in {lo[parent], lo[x]}
    BY <1>6 DEF HandedUp, parent, V, x
  <2> QED
    BY <2>1, <2>2, <2>3
<1>8. \A i \in 1 .. m - 1 : i # m - 1 => w[i][1] # parent
  <2> SUFFICES ASSUME NEW i \in 1 .. m - 1, i # m - 1 PROVE w[i][1] # parent
    OBVIOUS
  <2>1. i < m - 1 /\ i \in 1 .. m /\ m - 1 \in 1 .. m
    BY <1>2, <1>6, <1>7, <1>15
  <2>2. idx[w[i][1]] < idx[parent]
    BY <1>1, <2>1 DEF OnPath
  <2>3. idx[w[i][1]] \in Nat
    BY <1>2, <2>1
  <2> HIDE DEF parent
  <2> QED
    BY <2>2, <2>3
<1>10. Numbers(g, idx, lo2, H, cs)
  BY <1>1 DEF Numbers
<1>11. Seen(g, idx, cs, w2)
  <2>1. ASSUME NEW z \in V, NEW c \in g[z], c \notin V
        PROVE  \E i \in 1 .. m - 1 : z = w2[i][1] /\ c \in Left(g, w2, i)
    <3>1. PICK i \in 1 .. m : z = w[i][1] /\ c \in Left(g, w, i)
      BY <1>1, <2>1 DEF Seen
    <3>2. i # m
      BY <1>2, <3>1
    <3>3. i \in 1 .. m - 1 /\ w2[i][1] = w[i][1]
      BY <1>2, <3>2
    <3>4. c \in Left(g, w2, i)
      BY <1>3, <1>9, <2>1, <3>1, <3>3
    <3> QED
      BY <3>1, <3>3, <3>4, Zenon
  <2> QED
    BY <1>1, <2>1 DEF Seen
<1>12. Linked(g, idx, lo2, H, w2)
  <2>1. \A z \in H : lo2[z] <= idx[z] /\ \E y \in H : idx[y] = lo2[z] /\ Connected(g, z, y)
    <3> SUFFICES ASSUME NEW z \in H
                 PROVE  lo2[z] <= idx[z] /\ \E y \in H : idx[y] = lo2[z] /\ Connected(g, z, y)
      OBVIOUS
    <3>1. lo[z] <= idx[z] /\ \E y \in H : idx[y] = lo[z] /\ Connected(g, z, y)
      BY <1>1 DEF Linked
    <3>2. CASE lo2[z] = lo[z]
      BY <3>1, <3>2
    <3>3. CASE z = parent /\ lo2[parent] = lo[x]
      <4>1. Connected(g, parent, below)
        <5>1. parent \in DOMAIN g /\ x \in DOMAIN g /\ below \in DOMAIN g /\ x \in g[parent]
          BY <1>2, <1>3, <1>6, <1>7
        <5>2. Connected(g, parent, x)
          BY <5>1, ConnectedProperties
        <5> QED
          BY <1>4, <5>1, <5>2, ConnectedProperties
      <4>2. lo2[parent] <= idx[parent]
        <5>1. lo2[parent] \in Nat /\ lo[parent] \in Nat /\ idx[parent] \in Nat
          BY <1>2, <1>7
        <5>2. lo2[parent] <= lo[parent]
          BY <1>7
        <5>3. lo[parent] <= idx[parent]
          BY <3>1, <3>3
        <5> HIDE DEF parent, x, V
        <5> QED
          BY <5>1, <5>2, <5>3
      <4> QED
        BY <1>4, <3>3, <4>1, <4>2
    <3> QED
      BY <1>2, <1>7, <3>2, <3>3
  <2>2. \A z \in H : \E i \in 1 .. m - 1 :
          idx[w2[i][1]] <= idx[z] /\ Connected(g, z, w2[i][1])
    <3> SUFFICES ASSUME NEW z \in H
                 PROVE  \E i \in 1 .. m - 1 : idx[w2[i][1]] <= idx[z] /\ Connected(g, z, w2[i][1])
      OBVIOUS
    <3>1. PICK i \in 1 .. m : idx[w[i][1]] <= idx[z] /\ Connected(g, z, w[i][1])
      BY <1>1 DEF Linked
    <3>2. CASE i # m
      <4>1. i \in 1 .. m - 1 /\ w2[i][1] = w[i][1]
        BY <1>15, <3>2
      <4> QED
        BY <3>1, <4>1, Zenon
    <3>3. CASE i = m
      <4>1. z \in DOMAIN g /\ x \in DOMAIN g /\ w[b][1] \in DOMAIN g
        BY <1>2, <1>3
      <4>2. Connected(g, z, w[b][1])
        BY <1>6, <3>1, <3>3, <4>1, ConnectedProperties
      <4>3. idx[w[b][1]] <= idx[z]
        <5>1. idx[w[b][1]] \in Nat /\ idx[x] \in Nat /\ idx[z] \in Nat
          BY <1>2, <1>3
        <5> QED
          BY <1>6, <3>1, <3>3, <5>1
      <4>4. w2[b][1] = w[b][1]
        BY <1>6
      <4> QED
        BY <1>6, <4>2, <4>3, <4>4, Zenon
    <3> QED
      BY <3>2, <3>3
  <2>3. \A i \in 1 .. m - 1 : \A z \in H :
          idx[w2[i][1]] <= idx[z] => Connected(g, w2[i][1], z)
    <3> SUFFICES ASSUME NEW i \in 1 .. m - 1, NEW z \in H, idx[w2[i][1]] <= idx[z]
                 PROVE  Connected(g, w2[i][1], z)
      OBVIOUS
    <3>1. w2[i][1] = w[i][1] /\ i \in 1 .. m
      BY <1>7
    <3> QED
      BY <1>1, <3>1 DEF Linked
  <2> QED
    BY <2>1, <2>2, <2>3, Zenon DEF Linked
<1>13. Lowered(g, idx, lo2, H, w2)
  <2> SUFFICES ASSUME NEW i \in 1 .. m - 1, NEW z \in H, NEW c \in g[z] \cap H,
                      idx[w2[i][1]] <= idx[z],
                      i < m - 1 => idx[z] < idx[w2[i + 1][1]],
                      z = w2[i][1] => c \notin Left(g, w2, i)
               PROVE  lo2[w2[i][1]] <= idx[c]
    BY Zenon DEF Lowered
  <2>1. idx[w[i][1]] <= idx[z] /\ w2[i][1] = w[i][1] /\ i \in 1 .. m
    BY <1>7
  <2>2. CASE i # m - 1
    <3>1. i < m /\ i < m - 1 /\ i + 1 \in 1 .. m - 1
      BY <1>15, <2>1, <2>2
    <3>2. idx[z] < idx[w[i + 1][1]]
      BY <3>1
    <3>3. z = w[i][1] => c \notin Left(g, w, i)
      BY <1>9, <2>1, <2>2
    <3>4. lo[w[i][1]] <= idx[c]
      BY <1>1, <2>1, <3>2, <3>3 DEF Lowered
    <3>5. lo2[w[i][1]] = lo[w[i][1]]
      BY <1>2, <1>7, <1>8, <2>1, <2>2
    <3> QED
      BY <2>1, <3>4, <3>5
  <2>3. CASE i = m - 1
    <3>1. c \in H /\ idx[c] \in Nat /\ idx[z] \in Nat /\ idx[x] \in Nat
          /\ lo[x] \in Nat /\ lo[parent] \in Nat /\ lo2[parent] \in Nat
      BY <1>2, <1>3, <1>7
    <3>2. CASE idx[z] < idx[x] /\ (z = parent => c \notin Left(g, w, m - 1))
      <4>1. m - 1 + 1 = m /\ m - 1 \in 1 .. m
        BY <1>2, <1>7
      <4>2. lo[parent] <= idx[c]
        BY <1>1, <2>1, <2>3, <3>2, <4>1 DEF Lowered
      <4>3. lo2[parent] <= lo[parent] /\ w2[i][1] = parent
        BY <1>7, <2>1, <2>3
      <4> HIDE DEF x, parent
      <4> QED
        BY <3>1, <4>2, <4>3
    <3>3. CASE z = parent /\ c \in Left(g, w, m - 1)
      <4>1. c = x
        BY <1>6, <1>9, <2>1, <2>3, <3>3
      <4>2. lo2[parent] <= lo[x] /\ lo[x] < idx[x] /\ w2[i][1] = parent
        BY <1>3, <1>7, <2>1, <2>3
      <4> HIDE DEF x, parent
      <4> QED
        BY <3>1, <4>1, <4>2
    <3>4. CASE ~(idx[z] < idx[x])
      <4>1. idx[w[m][1]] <= idx[z] /\ m \in 1 .. Len(w) /\ ~(m < Len(w))
        <5>1. ~(m < m) /\ m \in 1 .. m
          BY <1>2
        <5>2. idx[x] <= idx[z]
          <6> HIDE DEF x
          <6> QED
            BY <3>1, <3>4
        <5> QED
          BY <5>1, <5>2
      <4>2. c \notin Left(g, w, m) /\ c \in g[z] \cap H
        BY <1>2
      <4>3. lo[w[m][1]] <= idx[c]
        <5> HIDE DEF x, V, parent
        <5> QED
          BY <1>1, <4>1, <4>2, Zenon DEF Lowered
      <4> QED
        <5>1. idx[c] \in Nat /\ lo[x] <= idx[c] /\ lo2[parent] <= lo[x]
          BY <1>7, <3>1, <4>3
        <5>2. lo2[parent] <= idx[c]
          <6> HIDE DEF x, parent
          <6> QED
            BY <3>1, <5>1
        <5> QED
          BY <2>1, <2>3, <5>2
    <3> HIDE DEF x, parent
    <3> QED
      BY <3>2, <3>3, <3>4
  <2> QED
    BY <2>2, <2>3
<1> QED
  BY <1>1, <1>9, <1>10, <1>11, <1>12, <1>13 DEF Tarjan

LEMMA SettledAppend ==
  ASSUME NEW U, NEW cs \in Seq(SUBSET U), NEW C \in SUBSET U
  PROVE  Settled(Append(cs, C)) = Settled(cs) \cup C
<1>1. /\ Len(cs) \in Nat /\ DOMAIN cs = 1 .. Len(cs)
      /\ DOMAIN Append(cs, C) = 1 .. Len(cs) + 1
      /\ \A i \in 1 .. Len(cs) : Append(cs, C)[i] = cs[i]
      /\ Append(cs, C)[Len(cs) + 1] = C
  OBVIOUS
<1>2. ToSet(Append(cs, C)) = ToSet(cs) \cup {C}
  <2>1. \A S \in ToSet(Append(cs, C)) : S \in ToSet(cs) \/ S = C
    BY <1>1 DEF ToSet
  <2>2. \A S \in ToSet(cs) : S \in ToSet(Append(cs, C))
    BY <1>1 DEF ToSet
  <2>3. C \in ToSet(Append(cs, C))
    BY <1>1 DEF ToSet
  <2> QED
    BY <2>1, <2>2, <2>3
<1> QED
  BY <1>2 DEF Settled

(* An entry whose low index is its own: what is held from it up leads to   *)
(* itself and to closed components only, and is a strong component.        *)
LEMMA HeldIsStrong ==
  ASSUME NEW g, IsGraph(g), NEW idx, NEW lo, NEW H, NEW cs, NEW w,
         Tarjan(g, idx, lo, H, cs, w),
         AllScanned(g, w), NEW m, m = Len(w), NEW x, x = w[m][1],
         lo[x] = idx[x],
         NEW C, C = {z \in H : idx[x] <= idx[z]}
  PROVE  /\ \A z \in C : g[z] \subseteq Settled(cs) \cup C
         /\ \A n \in C : C = StrongComponent(g, n)
<1>1. /\ Numbers(g, idx, lo, H, cs) /\ OnPath(g, idx, H, w) /\ Seen(g, idx, cs, w)
      /\ Linked(g, idx, lo, H, w) /\ Lowered(g, idx, lo, H, w)
  BY DEF Tarjan
<1>2. /\ DOMAIN idx \subseteq DOMAIN g /\ H \subseteq DOMAIN idx
      /\ \A n \in DOMAIN idx : idx[n] \in Nat
      /\ m \in Nat /\ m \in 1 .. m
      /\ \A i \in 1 .. m : w[i][1] \in H
  BY TopFacts
<1>3. Left(g, w, m) = {}
  BY TopFacts
<1>4. \A i \in 1 .. m : i # m => idx[w[i][1]] < idx[x]
  BY TopFacts
<1>5. /\ DOMAIN idx = H \cup Settled(cs) /\ H \cap Settled(cs) = {}
      /\ Settled(cs) \subseteq DOMAIN g /\ C \subseteq H /\ C \subseteq DOMAIN g
      /\ x \in C /\ idx[x] \in Nat
  <2>1. DOMAIN idx = H \cup Settled(cs) /\ H \cap Settled(cs) = {}
    BY <1>1 DEF Numbers
  <2>2. x \in H /\ idx[x] \in Nat
    BY <1>2
  <2> QED
    BY <1>2, <2>1, <2>2
<1>6. \A z \in C : g[z] \subseteq Settled(cs) \cup C
  <2> SUFFICES ASSUME NEW z \in C, NEW c \in g[z] PROVE c \in Settled(cs) \cup C
    OBVIOUS
  <2>1. z \in H /\ z \in DOMAIN idx /\ idx[x] <= idx[z] /\ idx[z] \in Nat
    BY <1>2
  <2>2. c \in DOMAIN idx
    <3> SUFFICES ASSUME c \notin DOMAIN idx PROVE FALSE
      OBVIOUS
    <3>1. PICK i \in 1 .. m : z = w[i][1] /\ c \in Left(g, w, i)
      BY <1>1, <2>1 DEF Seen
    <3>2. i # m
      BY <1>3, <3>1
    <3> QED
      BY <1>4, <1>5, <2>1, <3>1, <3>2
  <2>3. c \in H => c \in C
    <3> SUFFICES ASSUME c \in H PROVE c \in C
      OBVIOUS
    <3>1. /\ idx[w[m][1]] <= idx[z] /\ m \in 1 .. Len(w) /\ ~(m < Len(w))
          /\ c \in g[z] \cap H /\ c \notin Left(g, w, m)
      <4>1. ~(m < m)
        BY <1>2
      <4> QED
        BY <1>2, <1>3, <2>1, <4>1
    <3>2. lo[w[m][1]] <= idx[c]
      BY <1>1, <2>1, <3>1, Zenon DEF Lowered
    <3> QED
      BY <3>2
  <2> QED
    BY <1>5, <2>2, <2>3
<1>7. \A z \in C : Connected(g, x, z) /\ Connected(g, z, x)
  <2> SUFFICES ASSUME NEW z \in C PROVE Connected(g, x, z) /\ Connected(g, z, x)
    OBVIOUS
  <2>1. z \in H /\ idx[w[m][1]] <= idx[z] /\ m \in 1 .. Len(w)
    BY <1>2
  <2>2. Connected(g, x, z)
    BY <1>1, <2>1 DEF Linked
  <2>3. PICK i \in 1 .. m : Connected(g, z, w[i][1])
    BY <1>1, <2>1 DEF Linked
  <2>4. idx[w[i][1]] <= idx[x]
    <3>1. idx[w[i][1]] \in Nat
      BY <1>2
    <3>2. CASE i = m
      BY <1>5, <3>2
    <3>3. CASE i # m
      BY <1>4, <1>5, <3>1, <3>3
    <3> QED
      BY <3>2, <3>3
  <2>5. Connected(g, w[i][1], x)
    BY <1>1, <1>5, <2>4 DEF Linked
  <2>6. z \in DOMAIN g /\ x \in DOMAIN g /\ w[i][1] \in DOMAIN g
    BY <1>2, <1>5, <2>1
  <2> QED
    BY <2>2, <2>3, <2>5, <2>6, ConnectedProperties
<1>8. \A n \in C : C = StrongComponent(g, n)
  <2> SUFFICES ASSUME NEW n \in C PROVE C = StrongComponent(g, n)
    OBVIOUS
  <2>1. \A k \in C : k \in StrongComponent(g, n)
    <3> SUFFICES ASSUME NEW k \in C PROVE k \in StrongComponent(g, n)
      OBVIOUS
    <3>1. k \in DOMAIN g /\ n \in DOMAIN g /\ x \in DOMAIN g
      BY <1>5
    <3>2. Connected(g, n, k) /\ Connected(g, k, n)
      BY <1>7, <3>1, ConnectedProperties
    <3> QED
      BY <3>1, <3>2 DEF StrongComponent
  <2>2. ASSUME NEW k \in StrongComponent(g, n) PROVE k \in C
    <3>1. Connected(g, n, k) /\ Connected(g, k, n)
      BY <2>2 DEF StrongComponent
    <3>2. \A l \in Settled(cs) \cup C : g[l] \subseteq Settled(cs) \cup C
      BY <1>1, <1>6 DEF Seen
    <3>3. Settled(cs) \cup C \in SUBSET DOMAIN g /\ n \in Settled(cs) \cup C
      BY <1>5
    <3>4. k \in Settled(cs) \cup C
      BY <3>1, <3>2, <3>3, ConnectedProperties
    <3>5. \A l \in Settled(cs) : g[l] \subseteq Settled(cs)
      BY <1>1 DEF Seen
    <3>6. k \in Settled(cs) => n \in Settled(cs)
      BY <1>5, <3>1, <3>5, ConnectedProperties
    <3>7. n \notin Settled(cs)
      BY <1>5
    <3> QED
      BY <3>4, <3>6, <3>7
  <2> QED
    BY <2>1, <2>2
<1> QED
  BY <1>6, <1>8

(* Leaving an entry whose low index is its own: what is held from it up is *)
(* closed.                                                                 *)
LEMMA CloseKeeps ==
  ASSUME NEW g, IsGraph(g), NEW idx, NEW lo, NEW H, NEW cs, NEW w,
         Tarjan(g, idx, lo, H, cs, w),
         AllScanned(g, w), NEW m, m = Len(w), NEW x, x = w[m][1],
         lo[x] = idx[x],
         NEW w2, Popped(w, w2),
         NEW lo2, HandedUp(idx, lo, lo2, w),
         NEW C, C = {z \in H : idx[x] <= idx[z]}
  PROVE  Tarjan(g, idx, lo2, H \ C, Append(cs, C), w2)
<1> DEFINE V == DOMAIN idx
           H2 == H \ C
           cs2 == Append(cs, C)
           parent == w[m - 1][1]
<1>1. /\ Numbers(g, idx, lo, H, cs) /\ OnPath(g, idx, H, w) /\ Seen(g, idx, cs, w)
      /\ Linked(g, idx, lo, H, w) /\ Lowered(g, idx, lo, H, w) /\ Grouping(g, cs)
  BY DEF Tarjan
<1>2. /\ V \subseteq DOMAIN g /\ H \subseteq V
      /\ \A n \in V : idx[n] \in Nat /\ lo[n] \in Nat
      /\ m \in Nat /\ m \in 1 .. m
      /\ \A i \in 1 .. m : w[i][1] \in H /\ w[i][2] \in Nat
  BY TopFacts
<1>3. Left(g, w, m) = {}
  BY TopFacts
<1>4. \A i \in 1 .. m : i # m => idx[w[i][1]] < idx[x] /\ w[i][1] # x
  BY TopFacts
<1>5. /\ \A z \in C : g[z] \subseteq Settled(cs) \cup C
      /\ \A n \in C : C = StrongComponent(g, n)
  BY HeldIsStrong
<1>6. /\ \A i \in 1 .. m - 1 : i # m - 1 => Left(g, w2, i) = Left(g, w, i)
      /\ m > 1 => \A c \in Left(g, w, m - 1) : c \in Left(g, w2, m - 1) \/ c = w[m][1]
      /\ OnPath(g, idx, H, w2)
  BY LeftBelow
<1>7. /\ V = H \cup Settled(cs) /\ H \cap Settled(cs) = {}
      /\ x \in C /\ x \in H /\ x \in V /\ idx[x] \in Nat /\ C \subseteq H
  <2>1. V = H \cup Settled(cs) /\ H \cap Settled(cs) = {}
    BY <1>1 DEF Numbers
  <2>2. x \in H /\ x \in V /\ idx[x] \in Nat
    BY <1>2
  <2> HIDE DEF V
  <2> QED
    BY <2>1, <2>2
<1>8. /\ \A i \in 1 .. m : i = m \/ (i \in 1 .. m - 1 /\ i < m)
      /\ \A i \in 1 .. m - 1 : i \in 1 .. m /\ i # m /\ i < m
                              /\ (i = m - 1 \/ (i < m - 1 /\ i + 1 \in 1 .. m - 1))
  BY <1>2
<1>9. /\ cs \in Seq(SUBSET DOMAIN g) /\ C \in SUBSET DOMAIN g
      /\ Settled(cs2) = Settled(cs) \cup C
  <2>1. cs \in Seq(SUBSET DOMAIN g)
    BY <1>1 DEF Grouping
  <2>2. C \in SUBSET DOMAIN g
    BY <1>2, <1>7
  <2> QED
    BY <2>1, <2>2, SettledAppend
<1>10. \A z \in H2 : z \in H /\ idx[z] < idx[x] /\ idx[z] \in Nat
  BY <1>2, <1>7
<1>11. \A z \in H : idx[z] < idx[x] => z \in H2
  BY <1>2, <1>7
<1>12. /\ Len(w2) = m - 1
       /\ \A i \in 1 .. m - 1 : /\ w2[i][1] = w[i][1] /\ w2[i][2] = w[i][2]
                               /\ w2[i][1] \in H2
  <2>1. /\ Len(w2) = m - 1
        /\ \A i \in 1 .. m - 1 : w2[i][1] = w[i][1] /\ w2[i][2] = w[i][2]
    BY DEF Popped
  <2>2. \A i \in 1 .. m - 1 : w[i][1] \in H2
    BY <1>2, <1>4, <1>8, <1>11
  <2> QED
    BY <2>1, <2>2
<1>13. \A n \in V : lo2[n] = lo[n] /\ lo2 \in [V -> Nat]
  <2>1. /\ lo2 \in [V -> Nat]
        /\ \A n \in V : m = 1 \/ n # parent => lo2[n] = lo[n]
        /\ m > 1 => lo2[parent] <= lo[parent] /\ lo2[parent] \in {lo[parent], lo[x]}
    BY DEF HandedUp
  <2>2. m > 1 => /\ lo[parent] <= idx[parent] /\ idx[parent] < idx[x]
                 /\ lo[parent] \in Nat /\ idx[parent] \in Nat
    <3> SUFFICES ASSUME m > 1
                 PROVE  /\ lo[parent] <= idx[parent] /\ idx[parent] < idx[x]
                        /\ lo[parent] \in Nat /\ idx[parent] \in Nat
      OBVIOUS
    <3>1. m - 1 \in 1 .. m /\ m - 1 # m
      BY <1>2
    <3>2. parent \in H /\ parent \in V /\ idx[parent] < idx[x]
      BY <1>2, <1>4, <3>1
    <3>3. lo[parent] <= idx[parent]
      BY <1>1, <3>2 DEF Linked
    <3> QED
      BY <1>2, <3>2, <3>3
  <2>3. m > 1 => lo2[parent] = lo[parent]
    <3> HIDE DEF parent
    <3> QED
      BY <1>7, <2>1, <2>2
  <2>4. m = 1 \/ m > 1
    BY <1>2
  <2> HIDE DEF V
  <2> QED
    BY <2>1, <2>3, <2>4
<1> HIDE DEF V, H2, cs2, parent
<1>14. Numbers(g, idx, lo2, H2, cs2)
  BY <1>1, <1>2, <1>7, <1>9, <1>13 DEF Numbers, V, H2
<1>15. OnPath(g, idx, H2, w2)
  BY <1>6, <1>12 DEF OnPath
<1>16. Seen(g, idx, cs2, w2)
  <2>1. ASSUME NEW z \in V, NEW c \in g[z], c \notin V
        PROVE  \E i \in 1 .. Len(w2) : z = w2[i][1] /\ c \in Left(g, w2, i)
    <3>1. PICK i \in 1 .. m : z = w[i][1] /\ c \in Left(g, w, i)
      BY <1>1, <2>1 DEF Seen, V
    <3>2. i # m
      BY <1>3, <3>1
    <3>3. i \in 1 .. m - 1 /\ w2[i][1] = w[i][1] /\ i \in 1 .. Len(w2)
      BY <1>8, <1>12, <3>2
    <3>4. c # x
      BY <1>7, <2>1
    <3>5. c \in Left(g, w2, i)
      <4>1. CASE i # m - 1
        BY <1>6, <3>1, <3>3, <4>1
      <4>2. CASE i = m - 1
        <5>1. m > 1
          BY <1>2, <3>3, <4>2
        <5> QED
          BY <1>6, <3>1, <3>4, <4>2, <5>1
      <4> QED
        BY <4>1, <4>2
    <3> QED
      BY <3>1, <3>3, <3>5, Zenon
  <2>2. \A z \in Settled(cs2) : g[z] \subseteq Settled(cs2)
    BY <1>1, <1>5, <1>9 DEF Seen
  <2> QED
    BY <2>1, <2>2, Zenon DEF Seen, V
<1>17. Linked(g, idx, lo2, H2, w2)
  <2>1. \A z \in H2 : lo2[z] <= idx[z] /\ \E y \in H2 : idx[y] = lo2[z] /\ Connected(g, z, y)
    <3> SUFFICES ASSUME NEW z \in H2
                 PROVE  lo2[z] <= idx[z] /\ \E y \in H2 : idx[y] = lo2[z] /\ Connected(g, z, y)
      OBVIOUS
    <3>1. z \in H /\ idx[z] < idx[x] /\ idx[z] \in Nat
      BY <1>10
    <3>2. lo[z] <= idx[z] /\ lo[z] \in Nat /\ lo2[z] = lo[z]
      BY <1>1, <1>2, <1>13, <3>1 DEF Linked
    <3>3. PICK y \in H : idx[y] = lo[z] /\ Connected(g, z, y)
      BY <1>1, <3>1 DEF Linked
    <3>4. y \in H2
      BY <1>7, <1>11, <3>1, <3>2, <3>3
    <3> QED
      BY <3>2, <3>3, <3>4
  <2>2. \A z \in H2 : \E i \in 1 .. Len(w2) :
          idx[w2[i][1]] <= idx[z] /\ Connected(g, z, w2[i][1])
    <3> SUFFICES ASSUME NEW z \in H2
                 PROVE  \E i \in 1 .. Len(w2) :
                          idx[w2[i][1]] <= idx[z] /\ Connected(g, z, w2[i][1])
      OBVIOUS
    <3>1. z \in H /\ idx[z] < idx[x] /\ idx[z] \in Nat
      BY <1>10
    <3>2. PICK i \in 1 .. m : idx[w[i][1]] <= idx[z] /\ Connected(g, z, w[i][1])
      BY <1>1, <3>1 DEF Linked
    <3>3. i # m
      BY <1>7, <3>1, <3>2
    <3>4. i \in 1 .. Len(w2) /\ w2[i][1] = w[i][1]
      BY <1>8, <1>12, <3>3
    <3> QED
      BY <3>2, <3>4, Zenon
  <2>3. \A i \in 1 .. Len(w2) : \A z \in H2 :
          idx[w2[i][1]] <= idx[z] => Connected(g, w2[i][1], z)
    <3> SUFFICES ASSUME NEW i \in 1 .. Len(w2), NEW z \in H2, idx[w2[i][1]] <= idx[z]
                 PROVE  Connected(g, w2[i][1], z)
      OBVIOUS
    <3>1. w2[i][1] = w[i][1] /\ i \in 1 .. m /\ z \in H
      BY <1>8, <1>10, <1>12
    <3> QED
      BY <1>1, <3>1 DEF Linked
  <2> QED
    BY <2>1, <2>2, <2>3, Zenon DEF Linked
<1>18. Lowered(g, idx, lo2, H2, w2)
  <2> SUFFICES ASSUME NEW i \in 1 .. m - 1, NEW z \in H2, NEW c \in g[z] \cap H2,
                      idx[w2[i][1]] <= idx[z],
                      i < m - 1 => idx[z] < idx[w2[i + 1][1]],
                      z = w2[i][1] => c \notin Left(g, w2, i)
               PROVE  lo2[w2[i][1]] <= idx[c]
    BY <1>12, Zenon DEF Lowered
  <2>1. /\ idx[w[i][1]] <= idx[z] /\ w2[i][1] = w[i][1] /\ i \in 1 .. m /\ i < m
        /\ z \in H /\ c \in g[z] \cap H /\ c # x /\ idx[z] < idx[x]
        /\ lo2[w2[i][1]] = lo[w[i][1]]
    <3>1. w2[i][1] = w[i][1] /\ i \in 1 .. m /\ i < m
      BY <1>8, <1>12
    <3>2. z \in H /\ idx[z] < idx[x] /\ c \in g[z] \cap H /\ c # x
      BY <1>7, <1>10
    <3>3. w[i][1] \in V
      BY <1>2, <3>1
    <3> QED
      BY <1>13, <3>1, <3>2, <3>3
  <2>2. CASE i # m - 1
    <3>1. i < m - 1 /\ i + 1 \in 1 .. m - 1
      BY <1>8, <2>2
    <3>2. idx[z] < idx[w[i + 1][1]]
      BY <1>12, <3>1
    <3>3. z = w[i][1] => c \notin Left(g, w, i)
      BY <1>6, <2>1, <2>2
    <3>4. lo[w[i][1]] <= idx[c]
      BY <1>1, <2>1, <3>2, <3>3 DEF Lowered
    <3> QED
      BY <2>1, <3>4
  <2>3. CASE i = m - 1
    <3>1. i + 1 = m /\ m > 1
      BY <1>2, <2>1, <2>3
    <3>2. idx[z] < idx[w[i + 1][1]]
      BY <2>1, <3>1
    <3>3. z = w[i][1] => c \notin Left(g, w, i)
      BY <1>6, <2>1, <2>3, <3>1
    <3>4. lo[w[i][1]] <= idx[c]
      BY <1>1, <2>1, <3>2, <3>3 DEF Lowered
    <3> QED
      BY <2>1, <3>4
  <2> QED
    BY <2>2, <2>3
<1>19. Grouping(g, cs2)
  <2> DEFINE k == Len(cs)
  <2>1. /\ k \in Nat /\ Len(cs2) = k + 1
        /\ \A i \in 1 .. k : cs2[i] = cs[i] /\ cs[i] \subseteq Settled(cs)
        /\ cs2[k + 1] = C
    BY <1>9 DEF cs2, Settled, ToSet
  <2>2. cs2 \in Seq((SUBSET DOMAIN g) \ {{}})
    BY <1>1, <1>7, <1>9 DEF Grouping, cs2
  <2>3. \A i \in 1 .. k + 1 : i \in 1 .. k \/ i = k + 1
    BY <2>1
  <2>4. /\ \A i \in 1 .. k : \A n \in cs[i] : cs[i] = StrongComponent(g, n)
        /\ \A i, j \in 1 .. k : i # j => cs[i] \cap cs[j] = {}
        /\ \A i, j \in 1 .. k : (\E p \in cs[i], c \in cs[j] : c \in g[p]) => j <= i
    BY <1>1 DEF Grouping
  <2> HIDE DEF k
  <2>5. \A i \in 1 .. k + 1 : \A n \in cs2[i] : cs2[i] = StrongComponent(g, n)
    BY <1>5, <2>1, <2>3, <2>4
  <2>6. \A i, j \in 1 .. k + 1 : i # j => cs2[i] \cap cs2[j] = {}
    BY <1>7, <2>1, <2>3, <2>4
  <2>7. \A i, j \in 1 .. k + 1 : (\E p \in cs2[i], c \in cs2[j] : c \in g[p]) => j <= i
    <3> SUFFICES ASSUME NEW i \in 1 .. k + 1, NEW j \in 1 .. k + 1,
                        NEW p \in cs2[i], NEW c \in cs2[j], c \in g[p]
                 PROVE  j <= i
      BY Zenon
    <3>1. CASE i = k + 1
      BY <2>1, <3>1
    <3>2. CASE i \in 1 .. k
      <4>1. p \in Settled(cs)
        BY <2>1, <3>2
      <4>2. c \in Settled(cs)
        BY <1>1, <4>1 DEF Seen
      <4>3. j # k + 1
        BY <1>7, <2>1, <4>2
      <4> QED
        BY <2>1, <2>3, <2>4, <3>2, <4>3
    <3> QED
      BY <2>3, <3>1, <3>2
  <2> QED
    BY <2>1, <2>2, <2>5, <2>6, <2>7, Zenon DEF Grouping
<1> QED
  BY <1>14, <1>15, <1>16, <1>17, <1>18, <1>19 DEF Tarjan, H2, cs2

-----------------------------------------------------------------------------
(* The invariant on the variables of the loop.                             *)
LEMMA TarjanInitial ==
  ASSUME IsGraph(forward), NothingVisited
  PROVE  TarjanInv
<1>1. /\ DOMAIN index = {} /\ DOMAIN low = {} /\ index \in [{} -> Nat] /\ low \in [{} -> Nat]
      /\ ToSet(held) = {} /\ Settled(components) = {} /\ Len(work) = 0 /\ Len(components) = 0
      /\ work \in Seq(Nodes \X Nat) /\ components \in Seq((SUBSET DOMAIN forward) \ {{}})
      /\ held \in Seq({}) /\ Len(held) = 0
  BY DEF NothingVisited, ToSet, Settled
<1>2. 1 .. 0 = {} /\ 1 .. 0 - 1 = {}
  OBVIOUS
<1>3. Numbers(forward, index, low, ToSet(held), components)
  BY <1>1 DEF Numbers
<1>4. OnPath(forward, index, ToSet(held), work)
  BY <1>1, <1>2 DEF OnPath
<1>5. Seen(forward, index, components, work) /\ Linked(forward, index, low, ToSet(held), work)
      /\ Lowered(forward, index, low, ToSet(held), work)
  BY <1>1, <1>2 DEF Seen, Linked, Lowered
<1>6. Grouping(forward, components)
  BY <1>1, <1>2 DEF Grouping
<1>7. Stacked(index, held)
  BY <1>1, <1>2 DEF Stacked
<1> QED
  BY <1>1, <1>3, <1>4, <1>5, <1>6, <1>7 DEF TarjanInv, Tarjan, NothingVisited

LEMMA StackedAppend ==
  ASSUME NEW idx, NEW hd, Stacked(idx, hd), NEW child, child \notin DOMAIN idx,
         NEW N \in Nat, \A n \in DOMAIN idx : idx[n] \in Nat /\ idx[n] < N,
         NEW idx2, idx2 = NumberedNext(idx, child, N)
  PROVE  /\ Stacked(idx2, Append(hd, child))
         /\ ToSet(Append(hd, child)) = ToSet(hd) \cup {child}
<1> USE DEF NumberedNext
<1>1. /\ hd \in Seq(DOMAIN idx) /\ Len(hd) \in Nat
      /\ Append(hd, child) \in Seq(DOMAIN idx \cup {child})
      /\ Len(Append(hd, child)) = Len(hd) + 1
      /\ \A p \in 1 .. Len(hd) : Append(hd, child)[p] = hd[p] /\ hd[p] \in DOMAIN idx
      /\ Append(hd, child)[Len(hd) + 1] = child
      /\ DOMAIN hd = 1 .. Len(hd) /\ DOMAIN Append(hd, child) = 1 .. Len(hd) + 1
  BY DEF Stacked
<1>2. \A p, q \in 1 .. Len(hd) : p < q => idx[hd[p]] < idx[hd[q]]
  BY DEF Stacked
<1>3. \A p, q \in 1 .. Len(hd) + 1 :
        p < q => idx2[Append(hd, child)[p]] < idx2[Append(hd, child)[q]]
  <2> SUFFICES ASSUME NEW p \in 1 .. Len(hd) + 1, NEW q \in 1 .. Len(hd) + 1, p < q
               PROVE  idx2[Append(hd, child)[p]] < idx2[Append(hd, child)[q]]
    OBVIOUS
  <2>1. p \in 1 .. Len(hd) /\ (q = Len(hd) + 1 \/ q \in 1 .. Len(hd))
    BY <1>1
  <2>2. idx2[Append(hd, child)[p]] = idx[hd[p]] /\ idx[hd[p]] < N
    BY <1>1, <2>1
  <2>3. q = Len(hd) + 1 => idx2[Append(hd, child)[q]] = N
    BY <1>1
  <2>4. q \in 1 .. Len(hd) => idx2[Append(hd, child)[q]] = idx[hd[q]]
    BY <1>1
  <2> QED
    BY <1>2, <2>1, <2>2, <2>3, <2>4
<1>4. ToSet(Append(hd, child)) = ToSet(hd) \cup {child}
  <2>1. \A z \in ToSet(hd) : z \in ToSet(Append(hd, child))
    BY <1>1 DEF ToSet
  <2>2. \A z \in ToSet(Append(hd, child)) : z \in ToSet(hd) \/ z = child
    BY <1>1 DEF ToSet
  <2>3. child \in ToSet(Append(hd, child))
    BY <1>1 DEF ToSet
  <2> QED
    BY <2>1, <2>2, <2>3
<1>5. DOMAIN idx2 = DOMAIN idx \cup {child}
  OBVIOUS
<1> QED
  BY <1>1, <1>3, <1>4, <1>5 DEF Stacked

LEMMA SuffixProperties ==
  ASSUME NEW S, NEW seq \in Seq(S), NEW at \in 1 .. Len(seq)
  PROVE  /\ SubSeq(seq, at, Len(seq)) \in Seq(S)
         /\ Len(SubSeq(seq, at, Len(seq))) = Len(seq) - at + 1
         /\ \A q \in 1 .. Len(seq) - at + 1 : SubSeq(seq, at, Len(seq))[q] = seq[at + q - 1]
<1>1. Len(seq) \in Nat
  OBVIOUS
<1>2. SubSeq(seq, at, Len(seq)) \in Seq(S)
  BY <1>1
<1>3. Len(SubSeq(seq, at, Len(seq))) = Len(seq) - at + 1
  BY <1>1
<1>4. \A q \in 1 .. Len(seq) - at + 1 : SubSeq(seq, at, Len(seq))[q] = seq[at + q - 1]
  BY <1>1
<1> QED
  BY <1>2, <1>3, <1>4

(* Cutting the stack of held entries where an entry is.                    *)
LEMMA StackedCut ==
  ASSUME NEW idx, \A n \in DOMAIN idx : idx[n] \in Nat,
         NEW hd, Stacked(idx, hd), NEW x \in ToSet(hd),
         NEW at, at = CHOOSE p \in 1 .. Len(hd) : hd[p] = x
  PROVE  /\ ToSet(SubSeq(hd, at, Len(hd))) = {z \in ToSet(hd) : idx[x] <= idx[z]}
         /\ ToSet(SubSeq(hd, 1, at - 1))
              = ToSet(hd) \ {z \in ToSet(hd) : idx[x] <= idx[z]}
         /\ Stacked(idx, SubSeq(hd, 1, at - 1))
<1> DEFINE up == SubSeq(hd, at, Len(hd))
           under == SubSeq(hd, 1, at - 1)
<1>1. /\ hd \in Seq(DOMAIN idx) /\ Len(hd) \in Nat /\ DOMAIN hd = 1 .. Len(hd)
      /\ \A p \in 1 .. Len(hd) : hd[p] \in DOMAIN idx /\ idx[hd[p]] \in Nat
      /\ \A p, q \in 1 .. Len(hd) : p < q => idx[hd[p]] < idx[hd[q]]
  BY DEF Stacked
<1>2. at \in 1 .. Len(hd) /\ hd[at] = x
  BY <1>1 DEF ToSet
<1>3. /\ Len(up) = Len(hd) - at + 1 /\ DOMAIN up = 1 .. Len(hd) - at + 1
      /\ \A q \in 1 .. Len(hd) - at + 1 : up[q] = hd[at + q - 1]
  <2>1. up \in Seq(DOMAIN idx) /\ Len(up) = Len(hd) - at + 1
    BY <1>1, <1>2, SuffixProperties
  <2>2. \A q \in 1 .. Len(hd) - at + 1 : up[q] = hd[at + q - 1]
    BY <1>1, <1>2, SuffixProperties
  <2> HIDE DEF up
  <2> QED
    BY <2>1, <2>2
<1>4. /\ Len(under) = at - 1 /\ DOMAIN under = 1 .. at - 1
      /\ \A q \in 1 .. at - 1 : under[q] = hd[q]
      /\ under \in Seq(DOMAIN idx)
  BY <1>1, <1>2
<1>5. \A p \in 1 .. Len(hd) : idx[x] <= idx[hd[p]] <=> at <= p
  <2> SUFFICES ASSUME NEW p \in 1 .. Len(hd) PROVE idx[x] <= idx[hd[p]] <=> at <= p
    OBVIOUS
  <2>1. idx[x] \in Nat /\ idx[hd[p]] \in Nat
    BY <1>1, <1>2
  <2>2. p < at => idx[hd[p]] < idx[x]
    BY <1>1, <1>2
  <2>3. at < p => idx[x] < idx[hd[p]]
    BY <1>1, <1>2
  <2>4. p < at \/ p = at \/ at < p
    BY <1>1, <1>2
  <2> QED
    BY <1>1, <1>2, <2>1, <2>2, <2>3, <2>4
<1> HIDE DEF up, under
<1>6. ToSet(up) = {z \in ToSet(hd) : idx[x] <= idx[z]}
  <2>1. ASSUME NEW z \in ToSet(up) PROVE z \in ToSet(hd) /\ idx[x] <= idx[z]
    <3>1. PICK q \in 1 .. Len(hd) - at + 1 : up[q] = z
      BY <1>3 DEF ToSet
    <3>2. at + q - 1 \in 1 .. Len(hd) /\ at <= at + q - 1 /\ hd[at + q - 1] = z
      <4>1. at \in Nat /\ q \in Nat /\ 1 <= q /\ 1 <= at /\ q <= Len(hd) - at + 1
        BY <1>1, <1>2
      <4>2. up[q] = hd[at + q - 1]
        BY <1>3
      <4> QED
        BY <1>1, <3>1, <4>1, <4>2
    <3> QED
      BY <1>1, <1>5, <3>2 DEF ToSet
  <2>2. ASSUME NEW z \in ToSet(hd), idx[x] <= idx[z] PROVE z \in ToSet(up)
    <3>1. PICK p \in 1 .. Len(hd) : hd[p] = z
      BY <1>1 DEF ToSet
    <3>2. at <= p
      BY <1>5, <2>2, <3>1
    <3>3. p - at + 1 \in 1 .. Len(hd) - at + 1 /\ at + (p - at + 1) - 1 = p
      BY <1>1, <1>2, <3>2
    <3>4. up[p - at + 1] = z
      BY <1>3, <3>1, <3>3
    <3> QED
      BY <1>3, <3>3, <3>4 DEF ToSet
  <2> QED
    BY <2>1, <2>2
<1>7. ToSet(under) = ToSet(hd) \ {z \in ToSet(hd) : idx[x] <= idx[z]}
  <2>1. ASSUME NEW z \in ToSet(under) PROVE z \in ToSet(hd) /\ ~(idx[x] <= idx[z])
    <3>1. PICK q \in 1 .. at - 1 : under[q] = z
      BY <1>4 DEF ToSet
    <3>2. q \in 1 .. Len(hd) /\ ~(at <= q) /\ hd[q] = z
      BY <1>1, <1>2, <1>4, <3>1
    <3> QED
      BY <1>1, <1>5, <3>2 DEF ToSet
  <2>2. ASSUME NEW z \in ToSet(hd), ~(idx[x] <= idx[z]) PROVE z \in ToSet(under)
    <3>1. PICK p \in 1 .. Len(hd) : hd[p] = z
      BY <1>1 DEF ToSet
    <3>2. ~(at <= p)
      BY <1>5, <2>2, <3>1
    <3>3. p \in 1 .. at - 1
      BY <1>1, <1>2, <3>2
    <3> QED
      BY <1>4, <3>1, <3>3 DEF ToSet
  <2> QED
    BY <2>1, <2>2
<1>8. Stacked(idx, under)
  <2>1. \A q \in 1 .. at - 1 : q \in 1 .. Len(hd)
    BY <1>1, <1>2
  <2> QED
    BY <1>1, <1>4, <2>1 DEF Stacked
<1> QED
  BY <1>6, <1>7, <1>8 DEF up, under

(* The entry on top of the stack, and where its scan stops.                *)
LEMMA TopOfStack ==
  ASSUME TarjanInv, work # <<>>
  PROVE  /\ Len(work) \in Nat /\ Len(work) > 0
         /\ Top = work[Len(work)] /\ Top[1] = work[Len(work)][1]
         /\ Tarjan(forward, Index, Low, ToSet(Held), components, work)
         /\ Stacked(Index, Held) /\ IsGraph(forward)
         /\ DOMAIN Index \subseteq Nodes /\ Low \in [DOMAIN Index -> Nat]
         /\ \A n \in DOMAIN Index : Index[n] \in Nat
         /\ ToSet(Held) \subseteq DOMAIN Index /\ Top[1] \in ToSet(Held)
         /\ Top[2] \in Nat /\ Top[2] <= Len(Consumers(Top[1]))
         /\ Len(Consumers(Top[1])) \in Nat
         /\ \A p \in 1 .. Len(Consumers(Top[1])) : Consumers(Top[1])[p] \in forward[Top[1]]
<1>1. work \in Seq(Nodes \X Nat) /\ IsGraph(forward)
  BY DEF TarjanInv
<1>2. Len(work) \in Nat /\ Len(work) > 0
  BY <1>1
<1>3. Top = work[Len(work)]
  BY DEF Top, Last
<1>4. Tarjan(forward, Index, Low, ToSet(Held), components, work) /\ Stacked(Index, Held)
  BY DEF TarjanInv
<1>5. /\ DOMAIN Index \subseteq Nodes /\ Low \in [DOMAIN Index -> Nat]
      /\ \A n \in DOMAIN Index : Index[n] \in Nat
      /\ ToSet(Held) \subseteq DOMAIN Index
  BY <1>4 DEF Tarjan, Numbers, Nodes
<1>6. /\ Top[1] \in ToSet(Held) /\ Top[2] \in Nat /\ Top[2] <= Len(Consumers(Top[1]))
  <2>1. OnPath(forward, Index, ToSet(Held), work) /\ Len(work) \in 1 .. Len(work)
    BY <1>2, <1>4 DEF Tarjan
  <2> QED
    BY <1>3, <2>1 DEF OnPath, Consumers
<1>7. /\ Len(Consumers(Top[1])) \in Nat
      /\ \A p \in 1 .. Len(Consumers(Top[1])) : Consumers(Top[1])[p] \in forward[Top[1]]
  BY <1>1, <1>5, <1>6, ConsumersListed DEF Consumers, Nodes
<1> QED
  BY <1>1, <1>2, <1>3, <1>4, <1>5, <1>6, <1>7

LEMMA StopFacts ==
  ASSUME TarjanInv, work # <<>>
  PROVE  /\ Stop \in Top[2] + 1 .. Len(Consumers(Top[1])) + 1
         /\ \A p \in Top[2] + 1 .. Stop - 1 : Consumers(Top[1])[p] \in DOMAIN Index
         /\ Stop <= Len(Consumers(Top[1])) =>
              Consumers(Top[1])[Stop] \in Nodes \ DOMAIN Index
<1> DEFINE all == Consumers(Top[1])
           fresh == {p \in Top[2] + 1 .. Len(all) : all[p] \notin DOMAIN Index}
<1>1. /\ Top[2] \in Nat /\ Top[2] <= Len(all) /\ Len(all) \in Nat
      /\ \A p \in 1 .. Len(all) : all[p] \in forward[Top[1]]
      /\ Top[1] \in DOMAIN forward /\ IsGraph(forward)
  BY TopOfStack DEF Nodes
<1>2. Stop = IF fresh = {} THEN Len(all) + 1 ELSE Lowest(fresh)
  BY DEF Stop
<1> HIDE DEF all
<1>3. fresh \in SUBSET Nat
  BY <1>1
<1>4. CASE fresh = {}
  BY <1>1, <1>2, <1>4 DEF all
<1>5. CASE fresh # {}
  <2>1. Stop \in fresh /\ \A p \in fresh : Stop <= p
    <3>1. Lowest(fresh) \in fresh /\ \A p \in fresh : Lowest(fresh) <= p
      BY <1>3, <1>5, LowestIsLeast
    <3> HIDE DEF fresh
    <3> QED
      BY <1>2, <1>5, <3>1
  <2>2. Stop \in Top[2] + 1 .. Len(all) /\ all[Stop] \notin DOMAIN Index /\ Stop \in Nat
    BY <1>1, <2>1
  <2>3. \A p \in Top[2] + 1 .. Stop - 1 : all[p] \in DOMAIN Index
    <3> SUFFICES ASSUME NEW p \in Top[2] + 1 .. Stop - 1 PROVE all[p] \in DOMAIN Index
      OBVIOUS
    <3>1. p \in Top[2] + 1 .. Len(all) /\ ~(Stop <= p)
      BY <1>1, <2>2
    <3> QED
      BY <2>1, <3>1
  <2>4. all[Stop] \in Nodes
    <3>1. Stop \in 1 .. Len(all)
      BY <1>1, <2>2
    <3> QED
      BY <1>1, <3>1 DEF IsGraph, Nodes
  <2>5. Stop \in Top[2] + 1 .. Len(all) + 1
    BY <1>1, <2>2
  <2> QED
    BY <2>2, <2>3, <2>4, <2>5 DEF all
<1> QED
  BY <1>4, <1>5

LEMMA ScannedFacts ==
  ASSUME TarjanInv, work # <<>>
  PROVE  /\ Scanned \in [DOMAIN Index -> Nat]
         /\ \A n \in DOMAIN Index : n # Top[1] => Scanned[n] = Low[n]
         /\ Scanned[Top[1]] <= Low[Top[1]]
         /\ \A p \in Top[2] + 1 .. Stop - 1 : Consumers(Top[1])[p] \in ToSet(Held) =>
              Scanned[Top[1]] <= Index[Consumers(Top[1])[p]]
         /\ \/ Scanned[Top[1]] = Low[Top[1]]
            \/ \E p \in Top[2] + 1 .. Stop - 1 :
                 /\ Consumers(Top[1])[p] \in ToSet(Held)
                 /\ Scanned[Top[1]] = Index[Consumers(Top[1])[p]]
<1> DEFINE all == Consumers(Top[1])
           back == {Index[all[p]] : p \in {q \in Top[2] + 1 .. Stop - 1 :
                                             all[q] \in ToSet(Held)}}
           candidates == {Low[Top[1]]} \cup back
<1>1. /\ Low \in [DOMAIN Index -> Nat] /\ \A n \in DOMAIN Index : Index[n] \in Nat
      /\ ToSet(Held) \subseteq DOMAIN Index /\ Top[1] \in ToSet(Held)
  BY TopOfStack
<1>2. Scanned = [Low EXCEPT ![Top[1]] = Lowest(candidates)]
  BY DEF Scanned
<1>3. candidates \in SUBSET Nat /\ candidates # {}
  BY <1>1
<1>4. Lowest(candidates) \in candidates /\ \A c \in candidates : Lowest(candidates) <= c
  <2> HIDE DEF candidates
  <2> QED
    BY <1>3, LowestIsLeast
<1>5. Scanned[Top[1]] = Lowest(candidates) /\ Lowest(candidates) \in Nat
  <2> HIDE DEF candidates
  <2> QED
    BY <1>1, <1>2, <1>3, <1>4
<1>6. /\ Scanned \in [DOMAIN Index -> Nat]
      /\ \A n \in DOMAIN Index : n # Top[1] => Scanned[n] = Low[n]
  <2> HIDE DEF candidates
  <2> QED
    BY <1>1, <1>2, <1>5
<1>7. \A p \in Top[2] + 1 .. Stop - 1 : all[p] \in ToSet(Held) => Index[all[p]] \in candidates
  OBVIOUS
<1>8. \/ Lowest(candidates) = Low[Top[1]]
      \/ \E p \in Top[2] + 1 .. Stop - 1 :
           all[p] \in ToSet(Held) /\ Lowest(candidates) = Index[all[p]]
  BY <1>4
<1>9. Low[Top[1]] \in candidates
  OBVIOUS
<1> HIDE DEF candidates, all
<1>10. \/ Scanned[Top[1]] = Low[Top[1]]
       \/ \E p \in Top[2] + 1 .. Stop - 1 :
            /\ all[p] \in ToSet(Held)
            /\ Scanned[Top[1]] = Index[all[p]]
  BY <1>5, <1>8
<1>11. /\ Scanned[Top[1]] <= Low[Top[1]]
       /\ \A p \in Top[2] + 1 .. Stop - 1 : all[p] \in ToSet(Held) =>
            Scanned[Top[1]] <= Index[all[p]]
  BY <1>4, <1>5, <1>7, <1>9
<1> QED
  BY <1>6, <1>10, <1>11 DEF all

(* After the scan the stack holds the entry with the consumers scanned.    *)
LEMMA ScanTop ==
  ASSUME TarjanInv, work # <<>>,
         NEW w2, Len(w2) = Len(work),
         \A i \in 1 .. Len(work) :
           /\ w2[i][1] = work[i][1]
           /\ w2[i][2] = IF i = Len(work) THEN Stop - 1 ELSE work[i][2]
  PROVE  Tarjan(forward, Index, Scanned, ToSet(Held), components, w2)
<1>1. /\ Len(work) > 0 /\ Top = work[Len(work)] /\ IsGraph(forward)
      /\ Tarjan(forward, Index, Low, ToSet(Held), components, work)
  BY TopOfStack
<1>2. Scans(forward, Index, Low, ToSet(Held), work, Stop, Scanned, w2)
  BY <1>1, StopFacts, ScannedFacts, Zenon DEF Scans, Consumers
<1> QED
  BY <1>1, <1>2, ScanKeeps

-----------------------------------------------------------------------------
(* Each pass of the loop keeps the invariant.                              *)
LEMMA UpToLast ==
  \A m \in Nat : \A i \in 1 .. m : i = m \/ (i # m /\ i \in 1 .. m - 1)
OBVIOUS

Pair(S, seq, a, b, longer) ==
  /\ longer \in Seq(S) /\ Len(longer) = Len(seq) + 2
  /\ \A i \in 1 .. Len(seq) : longer[i] = seq[i]
  /\ longer[Len(seq) + 1] = a /\ longer[Len(seq) + 2] = b

LEMMA PairAppended ==
  ASSUME NEW S, NEW seq \in Seq(S), NEW a \in S, NEW b \in S
  PROVE  Pair(S, seq, a, b, seq \o <<a, b>>)
<1> DEFINE pair == <<a, b>>
<1>1. Len(seq) \in Nat
  OBVIOUS
<1>2. pair \in Seq(S) /\ Len(pair) = 2 /\ pair[1] = a /\ pair[2] = b
  OBVIOUS
<1> HIDE DEF pair
<1>3. /\ seq \o pair \in Seq(S) /\ Len(seq \o pair) = Len(seq) + Len(pair)
      /\ \A i \in 1 .. Len(seq) + Len(pair) :
           (seq \o pair)[i] = IF i <= Len(seq) THEN seq[i] ELSE pair[i - Len(seq)]
  BY <1>2, ConcatProperties, Zenon
<1>4. \A i \in 1 .. Len(seq) : (seq \o pair)[i] = seq[i]
  BY <1>1, <1>2, <1>3
<1>5. (seq \o pair)[Len(seq) + 1] = pair[1]
  <2>1. /\ Len(seq) + 1 \in 1 .. Len(seq) + Len(pair) /\ ~(Len(seq) + 1 <= Len(seq))
        /\ Len(seq) + 1 - Len(seq) = 1
    BY <1>1, <1>2
  <2> QED
    BY <1>3, <2>1
<1>6. (seq \o pair)[Len(seq) + 2] = pair[2]
  <2>1. /\ Len(seq) + 2 \in 1 .. Len(seq) + Len(pair) /\ ~(Len(seq) + 2 <= Len(seq))
        /\ Len(seq) + 2 - Len(seq) = 2
    BY <1>1, <1>2
  <2> QED
    BY <1>3, <2>1
<1> QED
  BY <1>2, <1>3, <1>4, <1>5, <1>6 DEF Pair, pair

LEMMA FrontProperties ==
  ASSUME NEW S, NEW seq \in Seq(S), Len(seq) > 0
  PROVE  /\ Len(seq) \in Nat /\ Front(seq) \in Seq(S) /\ Len(Front(seq)) = Len(seq) - 1
         /\ \A i \in 1 .. Len(seq) - 1 : Front(seq)[i] = seq[i]
<1>1. Len(seq) \in Nat
  OBVIOUS
<1>2. Front(seq) \in Seq(S)
  BY <1>1 DEF Front
<1>3. Len(Front(seq)) = Len(seq) - 1
  <2>1. \A n \in 0 .. Len(seq) : Len(SubSeq(seq, 1, n)) = n
    BY <1>1
  <2>2. Len(seq) - 1 \in 0 .. Len(seq)
    BY <1>1
  <2> QED
    BY <2>1, <2>2 DEF Front
<1>4. \A i \in 1 .. Len(seq) - 1 : Front(seq)[i] = seq[i]
  BY <1>1 DEF Front
<1> QED
  BY <1>1, <1>2, <1>3, <1>4

OnTopOf(S, seq, a, b, longer) ==
  /\ longer \in Seq(S) /\ Len(longer) = Len(seq) + 1
  /\ \A i \in 1 .. Len(seq) - 1 : longer[i] = seq[i]
  /\ longer[Len(seq)] = a /\ longer[Len(seq) + 1] = b

LEMMA TopReplaced ==
  ASSUME NEW S, NEW seq \in Seq(S), Len(seq) > 0, NEW a \in S, NEW b \in S
  PROVE  OnTopOf(S, seq, a, b, Front(seq) \o <<a, b>>)
<1> DEFINE front == Front(seq)
           longer == front \o <<a, b>>
<1>1. /\ Len(seq) \in Nat /\ front \in Seq(S) /\ Len(front) = Len(seq) - 1
      /\ \A i \in 1 .. Len(seq) - 1 : front[i] = seq[i]
  BY FrontProperties
<1> HIDE DEF front
<1>2. Pair(S, front, a, b, longer)
  BY <1>1, PairAppended
<1>3. Len(front) + 1 = Len(seq) /\ Len(front) + 2 = Len(seq) + 1
  BY <1>1
<1> HIDE DEF longer
<1>4. OnTopOf(S, seq, a, b, longer)
  BY <1>1, <1>2, <1>3 DEF Pair, OnTopOf
<1> QED
  BY <1>4 DEF longer, front

(* What entering a new entry makes of the state.                           *)
LEMMA EnteredState ==
  ASSUME NEW idx, NEW lo, NEW hd, NEW child, NEW w, Len(w) \in Nat, Len(w) > 0,
         w[Len(w)] = <<child, 0>>,
         work' = w, index' = idx, low' = lo, held' = hd, DOMAIN lo = DOMAIN idx
  PROVE  /\ Top'[1] = child /\ Entering'
         /\ Index' = NumberedNext(idx, child, Cardinality(DOMAIN idx))
         /\ Low' = NumberedNext(lo, child, Cardinality(DOMAIN idx))
         /\ Held' = Append(hd, child)
<1>1. Top' = <<child, 0>>
  BY DEF Top, Last
<1>2. Top'[1] = child /\ Entering'
  BY <1>1 DEF Entering
<1> QED
  BY <1>2 DEF Index, Low, Held, Numbered, NumberedNext

LEMMA RootKeeps == TarjanInv /\ Root => TarjanInv'
<1> SUFFICES ASSUME TarjanInv, Root PROVE TarjanInv'
  OBVIOUS
<1> DEFINE child == Lowest(Unvisited)
<1>1. /\ work = <<>> /\ Unvisited # {} /\ work' = << <<child, 0>> >>
      /\ forward' = forward /\ components' = components
      /\ index' = index /\ low' = low /\ held' = held
  BY DEF Root
<1>2. /\ IsGraph(forward) /\ Stacked(index, held)
      /\ Tarjan(forward, index, low, ToSet(held), components, work)
  BY <1>1 DEF TarjanInv
<1>3. child \in Nodes \ DOMAIN index
  BY <1>1, <1>2, LowestIsLeast DEF Unvisited, Nodes, IsGraph
<1> HIDE DEF child
<1>4. /\ Numbers(forward, index, low, ToSet(held), components)
      /\ DOMAIN low = DOMAIN index /\ \A n \in DOMAIN index : index[n] \in Nat
      /\ \A n \in DOMAIN index : index[n] < Cardinality(DOMAIN index)
  BY <1>2 DEF Tarjan, Numbers
<1>5. /\ Top'[1] = child /\ Entering'
      /\ Index' = NumberedNext(index, child, Cardinality(DOMAIN index))
      /\ Low' = NumberedNext(low, child, Cardinality(DOMAIN index))
      /\ Held' = Append(held, child)
  <2> DEFINE w == << <<child, 0>> >>
  <2>1. Len(w) = 1 /\ w[Len(w)] = <<child, 0>>
    OBVIOUS
  <2> HIDE DEF w
  <2> QED
    BY <1>1, <1>4, <2>1, EnteredState DEF w
<1>6. Cardinality(DOMAIN index) \in Nat
  BY <1>2, <1>3, <1>4, NumbersFresh DEF Nodes
<1>7. Stacked(Index', Held') /\ ToSet(Held') = ToSet(held) \cup {child}
  BY <1>2, <1>3, <1>4, <1>5, <1>6, StackedAppend
<1>8. Enters(forward, work, child, work')
  BY <1>1 DEF Enters
<1>9. Tarjan(forward, Index', Low', ToSet(held) \cup {child}, components, work')
  BY <1>2, <1>3, <1>5, <1>8, EnterKeeps DEF Nodes
<1>10. work' \in Seq(Nodes \X Nat) /\ work' # <<>> /\ Nodes' = Nodes
  BY <1>1, <1>3 DEF Nodes
<1>11. Top'[1] \notin DOMAIN index'
  BY <1>1, <1>3, <1>5
<1> QED
  BY <1>1, <1>2, <1>5, <1>7, <1>9, <1>10, <1>11 DEF TarjanInv

(* The stack once the entry on top is scanned up to `Stop`.                *)
ScannedTo == [work EXCEPT ![Len(work)] = <<Top[1], Stop - 1>>]

LEMMA ScannedToFacts ==
  ASSUME TarjanInv, work # <<>>
  PROVE  /\ Len(ScannedTo) = Len(work) /\ Len(work) \in Nat /\ Len(work) > 0
         /\ \A i \in 1 .. Len(work) - 1 : ScannedTo[i] = work[i]
         /\ ScannedTo[Len(work)][1] = Top[1] /\ ScannedTo[Len(work)][2] = Stop - 1
         /\ Tarjan(forward, Index, Scanned, ToSet(Held), components, ScannedTo)
<1>1. /\ Len(work) \in Nat /\ Len(work) > 0 /\ Top[1] = work[Len(work)][1]
      /\ DOMAIN work = 1 .. Len(work) /\ work \in Seq(Nodes \X Nat)
  BY TopOfStack DEF TarjanInv
<1>2. /\ Len(ScannedTo) = Len(work) /\ DOMAIN ScannedTo = DOMAIN work
      /\ \A i \in 1 .. Len(work) - 1 : ScannedTo[i] = work[i]
      /\ ScannedTo[Len(work)][1] = Top[1] /\ ScannedTo[Len(work)][2] = Stop - 1
  BY <1>1 DEF ScannedTo
<1>3. \A i \in 1 .. Len(work) :
        /\ ScannedTo[i][1] = work[i][1]
        /\ ScannedTo[i][2] = IF i = Len(work) THEN Stop - 1 ELSE work[i][2]
  <2>1. \A i \in 1 .. Len(work) : i = Len(work) \/ i \in 1 .. Len(work) - 1
    BY <1>1, UpToLast
  <2>2. Len(work) \notin 1 .. Len(work) - 1
    BY <1>1
  <2> QED
    BY <1>1, <1>2, <2>1, <2>2
<1>4. Tarjan(forward, Index, Scanned, ToSet(Held), components, ScannedTo)
  BY <1>2, <1>3, ScanTop
<1> QED
  BY <1>1, <1>2, <1>4

LEMMA DescendKeeps == TarjanInv /\ Descend => TarjanInv'
<1> SUFFICES ASSUME TarjanInv, Descend PROVE TarjanInv'
  OBVIOUS
<1> DEFINE x == Top[1]
           m == Len(work)
           child == Consumers(x)[Stop]
<1>1. /\ work # <<>> /\ Stop <= Len(Consumers(x))
      /\ work' = Front(work) \o << <<x, Stop>>, <<child, 0>> >>
      /\ forward' = forward /\ components' = components
      /\ index' = Index /\ low' = Scanned /\ held' = Held
  BY DEF Descend
<1>2. /\ IsGraph(forward) /\ Stacked(Index, Held) /\ work \in Seq(Nodes \X Nat)
      /\ Len(work) > 0 /\ x \in Nodes
      /\ \A n \in DOMAIN Index : Index[n] \in Nat
      /\ Len(Consumers(x)) \in Nat
  BY <1>1, TopOfStack DEF TarjanInv
<1>3. /\ Stop \in Nat /\ child \in Nodes \ DOMAIN Index
  <2>1. Top[2] \in Nat /\ Stop \in Top[2] + 1 .. Len(Consumers(x)) + 1
    BY <1>1, StopFacts, TopOfStack
  <2> QED
    BY <1>1, <1>2, <2>1, StopFacts
<1>4. /\ Len(ScannedTo) = m /\ m \in Nat
      /\ \A i \in 1 .. m - 1 : ScannedTo[i] = work[i]
      /\ ScannedTo[m][1] = x /\ ScannedTo[m][2] = Stop - 1
      /\ Tarjan(forward, Index, Scanned, ToSet(Held), components, ScannedTo)
  BY <1>1, ScannedToFacts
<1> HIDE DEF child, x
<1>5. /\ work' \in Seq(Nodes \X Nat) /\ Len(work') = m + 1
      /\ \A i \in 1 .. m - 1 : work'[i] = work[i]
      /\ work'[m] = <<x, Stop>> /\ work'[m + 1] = <<child, 0>>
  <2>1. <<x, Stop>> \in Nodes \X Nat /\ <<child, 0>> \in Nodes \X Nat
    BY <1>2, <1>3
  <2>2. work \in Seq(Nodes \X Nat) /\ m \in Nat /\ m = Len(work) /\ m > 0
    BY <1>2, <1>4
  <2> DEFINE S == Nodes \X Nat
             a == <<x, Stop>>
             b == <<child, 0>>
  <2> HIDE DEF S, a, b
  <2>3. OnTopOf(S, work, a, b, Front(work) \o <<a, b>>)
    <3>1. a \in S /\ b \in S /\ work \in Seq(S) /\ Len(work) > 0
      BY <2>1, <2>2 DEF S, a, b
    <3> QED
      BY <3>1, TopReplaced
  <2>4. OnTopOf(S, work, a, b, work')
    BY <1>1, <2>3 DEF a, b
  <2> QED
    BY <2>4 DEF OnTopOf, S, a, b
<1>6. /\ Numbers(forward, Index, Scanned, ToSet(Held), components)
      /\ DOMAIN Scanned = DOMAIN Index
      /\ \A n \in DOMAIN Index : Index[n] < Cardinality(DOMAIN Index)
  BY <1>4 DEF Tarjan, Numbers
<1>7. /\ Top'[1] = child /\ Entering'
      /\ Index' = NumberedNext(Index, child, Cardinality(DOMAIN Index))
      /\ Low' = NumberedNext(Scanned, child, Cardinality(DOMAIN Index))
      /\ Held' = Append(Held, child)
  <2>1. Len(work') \in Nat /\ Len(work') > 0 /\ work'[Len(work')] = <<child, 0>>
    BY <1>4, <1>5
  <2> QED
    BY <1>1, <1>6, <2>1, EnteredState
<1>8. Cardinality(DOMAIN Index) \in Nat
  BY <1>2, <1>3, <1>6, NumbersFresh DEF Nodes
<1>9. Stacked(Index', Held') /\ ToSet(Held') = ToSet(Held) \cup {child}
  BY <1>2, <1>3, <1>6, <1>7, <1>8, StackedAppend
<1>10. Enters(forward, ScannedTo, child, work')
  <2>1. \A i \in 1 .. m : i = m \/ (i # m /\ i \in 1 .. m - 1)
    BY <1>4
  <2>2. work'[m][1] = x /\ work'[m][2] = ScannedTo[m][2] + 1
    BY <1>3, <1>4, <1>5
  <2>3. \A i \in 1 .. m :
          /\ work'[i][1] = ScannedTo[i][1]
          /\ work'[i][2] = IF i = m THEN ScannedTo[i][2] + 1 ELSE ScannedTo[i][2]
    BY <1>4, <1>5, <2>1, <2>2
  <2>4. /\ ScannedTo[m][2] < Len(Ascending(forward[ScannedTo[m][1]]))
        /\ Ascending(forward[ScannedTo[m][1]])[ScannedTo[m][2] + 1] = child
    <3>1. Stop - 1 + 1 = Stop /\ Stop - 1 < Len(Consumers(x))
      BY <1>1, <1>2, <1>3
    <3> QED
      BY <1>4, <3>1 DEF Consumers, child
  <2> QED
    BY <1>4, <1>5, <2>3, <2>4 DEF Enters
<1>11. Tarjan(forward, Index', Low', ToSet(Held) \cup {child}, components, work')
  BY <1>2, <1>3, <1>4, <1>7, <1>10, EnterKeeps DEF Nodes
<1>12. work' # <<>> /\ Nodes' = Nodes
  BY <1>1, <1>4, <1>5 DEF Nodes
<1>13. Top'[1] \notin DOMAIN index'
  BY <1>1, <1>3, <1>7
<1> QED
  BY <1>1, <1>2, <1>5, <1>7, <1>9, <1>11, <1>12, <1>13 DEF TarjanInv

(* Leaving an entry: its consumers are all scanned, and its low index goes *)
(* to the entry below it on the stack.                                     *)
LEMMA AscendFacts ==
  ASSUME TarjanInv, Ascend
  PROVE  /\ work # <<>> /\ IsGraph(forward) /\ forward' = forward /\ index' = Index
         /\ Tarjan(forward, Index, Scanned, ToSet(Held), components, ScannedTo)
         /\ AllScanned(forward, ScannedTo) /\ ScannedTo[Len(ScannedTo)][1] = Top[1]
         /\ Popped(ScannedTo, work') /\ HandedUp(Index, Scanned, low', ScannedTo)
         /\ work' \in Seq(Nodes \X Nat) /\ Nodes' = Nodes
<1> DEFINE m == Len(work)
<1>1. /\ work # <<>> /\ Stop > Len(Consumers(Top[1])) /\ work' = Front(work)
      /\ index' = Index /\ forward' = forward
      /\ low' = IF m = 1 THEN Scanned
                ELSE [Scanned EXCEPT ![work[m - 1][1]]
                        = Lowest({Scanned[work[m - 1][1]], Scanned[Top[1]]})]
  BY DEF Ascend
<1>2. /\ IsGraph(forward) /\ Top[2] \in Nat /\ Top[1] \in ToSet(Held)
      /\ ToSet(Held) \subseteq DOMAIN Index
      /\ Len(Consumers(Top[1])) \in Nat
      /\ work \in Seq(Nodes \X Nat)
  BY <1>1, TopOfStack DEF TarjanInv
<1>3. Stop = Len(Consumers(Top[1])) + 1
  <2>1. Stop \in Top[2] + 1 .. Len(Consumers(Top[1])) + 1
    BY <1>1, StopFacts
  <2> QED
    BY <1>1, <1>2, <2>1
<1>4. /\ Len(ScannedTo) = m /\ m \in Nat /\ m > 0
      /\ \A i \in 1 .. m - 1 : ScannedTo[i] = work[i]
      /\ ScannedTo[m][1] = Top[1] /\ ScannedTo[m][2] = Stop - 1
      /\ Tarjan(forward, Index, Scanned, ToSet(Held), components, ScannedTo)
  BY <1>1, ScannedToFacts
<1>5. AllScanned(forward, ScannedTo)
  BY <1>2, <1>3, <1>4 DEF AllScanned, Consumers
<1>6. /\ work' \in Seq(Nodes \X Nat) /\ Len(work') = m - 1
      /\ \A i \in 1 .. m - 1 : work'[i] = work[i]
  BY <1>1, <1>2, <1>4, FrontProperties
<1>7. Popped(ScannedTo, work')
  BY <1>4, <1>6 DEF Popped
<1>8. HandedUp(Index, Scanned, low', ScannedTo)
  <2>1. Scanned \in [DOMAIN Index -> Nat]
    BY <1>1, ScannedFacts
  <2>2. CASE m = 1
    <3>1. Len(ScannedTo) = 1 /\ ~(Len(ScannedTo) > 1) /\ low' = Scanned
      BY <1>1, <1>4, <2>2
    <3> QED
      BY <2>1, <3>1, Zenon DEF HandedUp
  <2>3. CASE m # 1
    <3> DEFINE parent == work[m - 1][1]
               pair == {Scanned[parent], Scanned[Top[1]]}
    <3>1. m - 1 \in 1 .. m - 1 /\ m - 1 \in 1 .. m /\ m > 1
      BY <1>4, <2>3
    <3>2. ScannedTo[m - 1][1] = parent
      BY <1>4, <3>1
    <3>3. parent \in DOMAIN Index
      <4>1. OnPath(forward, Index, ToSet(Held), ScannedTo)
        BY <1>4 DEF Tarjan
      <4>2. ScannedTo[m - 1][1] \in ToSet(Held)
        BY <1>4, <3>1, <4>1 DEF OnPath
      <4> QED
        BY <1>2, <3>2, <4>2
    <3>4. pair \in SUBSET Nat /\ pair # {}
      BY <1>2, <2>1, <3>3
    <3>5. Lowest(pair) \in pair /\ \A c \in pair : Lowest(pair) <= c
      <4> HIDE DEF pair
      <4> QED
        BY <3>4, LowestIsLeast
    <3>6. /\ Lowest(pair) \in Nat /\ Lowest(pair) <= Scanned[parent]
          /\ Lowest(pair) <= Scanned[Top[1]]
          /\ Lowest(pair) \in {Scanned[parent], Scanned[Top[1]]}
      BY <3>4, <3>5
    <3>7. low' = [Scanned EXCEPT ![parent] = Lowest(pair)]
      BY <1>1, <2>3
    <3> HIDE DEF parent, pair
    <3>8. /\ low' \in [DOMAIN Index -> Nat] /\ low'[parent] = Lowest(pair)
          /\ \A n \in DOMAIN Index : n # parent => low'[n] = Scanned[n]
      BY <2>1, <3>3, <3>6, <3>7
    <3>9. /\ ScannedTo[Len(ScannedTo)][1] = Top[1]
          /\ ScannedTo[Len(ScannedTo) - 1][1] = parent
      BY <1>4, <3>2
    <3> DEFINE child == Top[1]
    <3>10. /\ \A n \in DOMAIN Index : Len(ScannedTo) = 1 \/ n # parent => low'[n] = Scanned[n]
           /\ low'[parent] <= Scanned[parent] /\ low'[parent] <= Scanned[child]
           /\ low'[parent] \in {Scanned[parent], Scanned[child]}
      BY <1>4, <2>3, <3>6, <3>8
    <3> HIDE DEF child
    <3> QED
      BY <3>8, <3>9, <3>10, Zenon DEF HandedUp, child
  <2> QED
    BY <2>2, <2>3
<1> QED
  BY <1>1, <1>2, <1>4, <1>5, <1>6, <1>7, <1>8 DEF Nodes

(* The entry below the one that was left has been entered before.          *)
LEMMA AscendedState ==
  ASSUME TarjanInv, Ascend,
         Tarjan(forward, Index, low', ToSet(held'), components', work'),
         Stacked(Index, held')
  PROVE  TarjanInv'
<1>1. /\ IsGraph(forward') /\ work' \in Seq(Nodes' \X Nat)
      /\ forward' = forward /\ index' = Index
  BY AscendFacts, Zenon
<1>2. ASSUME work' # <<>> PROVE ~Entering'
  <2>1. /\ OnPath(forward, Index, ToSet(Held), ScannedTo) /\ Popped(ScannedTo, work')
    BY AscendFacts DEF Tarjan
  <2> DEFINE k == Len(work')
  <2>2. k \in Nat /\ k \in 1 .. k
    BY <1>1, <1>2
  <2>3. /\ k = Len(ScannedTo) - 1 /\ work'[k][2] = ScannedTo[k][2]
    BY <2>1, <2>2 DEF Popped
  <2>4. ScannedTo[k][2] >= 1
    BY <2>1, <2>2, <2>3 DEF OnPath
  <2> QED
    BY <2>3, <2>4 DEF Entering, Top, Last
<1>3. work' # <<>> => Index' = index' /\ Low' = low' /\ Held' = held'
  BY <1>2 DEF Index, Low, Held
<1> QED
  BY <1>1, <1>2, <1>3 DEF TarjanInv

LEMMA StayOpenKeeps == TarjanInv /\ StayOpen => TarjanInv'
<1> SUFFICES ASSUME TarjanInv, StayOpen PROVE TarjanInv'
  OBVIOUS
<1>1. Ascend /\ Scanned[Top[1]] # Index[Top[1]] /\ components' = components /\ held' = Held
  BY DEF StayOpen
<1>2. Tarjan(forward, Index, low', ToSet(Held), components, work')
  BY <1>1, AscendFacts, StayKeeps
<1>3. Stacked(Index, Held)
  BY <1>1, AscendFacts, TopOfStack
<1> QED
  BY <1>1, <1>2, <1>3, AscendedState

LEMMA CloseComponentKeeps == TarjanInv /\ Close => TarjanInv'
<1> SUFFICES ASSUME TarjanInv, Close PROVE TarjanInv'
  OBVIOUS
<1> DEFINE at == CHOOSE p \in 1 .. Len(Held) : Held[p] = Top[1]
           C == {z \in ToSet(Held) : Index[Top[1]] <= Index[z]}
<1>1. /\ Ascend /\ Scanned[Top[1]] = Index[Top[1]]
      /\ components' = Append(components, ToSet(SubSeq(Held, at, Len(Held))))
      /\ held' = SubSeq(Held, 1, at - 1)
  BY DEF Close
<1>2. /\ Stacked(Index, Held) /\ \A n \in DOMAIN Index : Index[n] \in Nat
      /\ Top[1] \in ToSet(Held)
  BY <1>1, AscendFacts, TopOfStack
<1>3. /\ ToSet(SubSeq(Held, at, Len(Held))) = C
      /\ ToSet(SubSeq(Held, 1, at - 1)) = ToSet(Held) \ C
      /\ Stacked(Index, SubSeq(Held, 1, at - 1))
  <2> DEFINE idx == Index
             hd == Held
             x == Top[1]
             up == {z \in ToSet(hd) : idx[x] <= idx[z]}
  <2>1. /\ Stacked(idx, hd) /\ \A n \in DOMAIN idx : idx[n] \in Nat
        /\ x \in ToSet(hd) /\ at = CHOOSE p \in 1 .. Len(hd) : hd[p] = x
    BY <1>2
  <2> HIDE DEF idx, hd, x, at
  <2>2. /\ ToSet(SubSeq(hd, at, Len(hd))) = up
        /\ ToSet(SubSeq(hd, 1, at - 1)) = ToSet(hd) \ up
        /\ Stacked(idx, SubSeq(hd, 1, at - 1))
    BY <2>1, StackedCut
  <2> HIDE DEF up
  <2> QED
    BY <2>2 DEF idx, hd, x, up
<1> HIDE DEF at
<1>4. Tarjan(forward, Index, low', ToSet(Held) \ C, Append(components, C), work')
  BY <1>1, AscendFacts, CloseKeeps
<1> QED
  BY <1>1, <1>3, <1>4, AscendedState

LEMMA ExploreKeeps == TarjanInv /\ Explore => TarjanInv'
BY RootKeeps, DescendKeeps, CloseComponentKeeps, StayOpenKeeps DEF Explore

LEMMA TarjanKept == TarjanInv /\ UNCHANGED <<forward, components, tarjan>> => TarjanInv'
BY DEF TarjanInv, tarjan, Nodes, Index, Low, Held, Numbered, Entering, Top

(* What the loop promises of the groups it closes.                         *)
LEMMA TarjanSafe == TarjanInv => ClosesStrongComponents /\ ReverseTopological
<1> SUFFICES ASSUME TarjanInv PROVE ClosesStrongComponents /\ ReverseTopological
  OBVIOUS
<1>1. Grouping(forward, components)
  BY TopOfStack DEF TarjanInv, Tarjan
<1>2. DOMAIN components = 1 .. Len(components)
  BY <1>1 DEF Grouping
<1>3. ASSUME Explored PROVE UNION ToSet(components) = Nodes
  <2>1. work = <<>> /\ Unvisited = {} /\ Len(work) = 0 /\ 1 .. 0 = {}
    BY <1>3 DEF Explored
  <2>2. /\ Numbers(forward, index, low, ToSet(held), components)
        /\ Linked(forward, index, low, ToSet(held), work)
    BY <2>1 DEF TarjanInv, Tarjan
  <2>3. ToSet(held) = {}
    BY <2>1, <2>2 DEF Linked
  <2> QED
    BY <2>1, <2>2, <2>3 DEF Numbers, Settled, Unvisited, Nodes
<1> QED
  BY <1>1, <1>2, <1>3 DEF Grouping, ClosesStrongComponents, ReverseTopological
=============================================================================
