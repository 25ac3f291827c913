----------------------------- MODULE Components -----------------------------
(***************************************************************************)
(* `_components` of src/cli/order.py: Tarjan's strong components, made     *)
(* iterative with an explicit stack of (entry, consumers already scanned). *)
(* One step is one pass of the `while work` loop.  `components` is what    *)
(* the function calls `found`: the components closed so far.               *)
(***************************************************************************)
EXTENDS ReadGraph, SequencesExt

VARIABLES
  index,    \* the order entries were first visited in
  low,      \* the lowest index known to be reachable through held entries
  held,     \* the entries of components that are still open, as a stack
  work      \* the stack of <<entry, consumers already scanned>>

tarjan == <<index, low, held, work>>

Nodes == DOMAIN forward
Unvisited == Nodes \ DOMAIN index

(* `forward[node]` is a list in key order, because `edges` is sorted. *)
Consumers(node) == Ascending(forward[node])

NothingVisited ==
  /\ index = <<>>
  /\ low = <<>>
  /\ held = <<>>
  /\ components = <<>>
  /\ work = <<>>

(* `for root in nodes`: the nodes are sorted and the visited are skipped. *)
Root ==
  /\ work = <<>>
  /\ Unvisited # {}
  /\ work' = << <<Lowest(Unvisited), 0>> >>
  /\ UNCHANGED <<forward, components, index, low, held>>

(* The state a pass works in once `at == 0` has entered a new entry. *)
Top == Last(work)
Entering == Top[2] = 0
Numbered(numbers) ==
  [node \in DOMAIN numbers \cup {Top[1]} |->
     IF node = Top[1] THEN Cardinality(DOMAIN index) ELSE numbers[node]]
Index == IF Entering THEN Numbered(index) ELSE index
Held == IF Entering THEN Append(held, Top[1]) ELSE held
Low == IF Entering THEN Numbered(low) ELSE low

(* The first consumer past `at` that was never visited, or one past them.  *)
Stop ==
  LET all == Consumers(Top[1])
      fresh == {p \in Top[2] + 1 .. Len(all) : all[p] \notin DOMAIN Index}
  IN IF fresh = {} THEN Len(all) + 1 ELSE Lowest(fresh)

(* Mutant: the test `consumer in held` is gone.                            *)
ScannedAnyVisited ==
  LET all == Consumers(Top[1])
      back == {Index[all[p]] : p \in Top[2] + 1 .. Stop - 1}
  IN [Low EXCEPT ![Top[1]] = Lowest({@} \cup back)]

(* Scanning the consumers up to `Stop` lowers the entry to those held.     *)
Scanned ==
  LET all == Consumers(Top[1])
      back == {Index[all[p]] : p \in {q \in Top[2] + 1 .. Stop - 1 :
                                        all[q] \in ToSet(Held)}}
  IN [Low EXCEPT ![Top[1]] = Lowest({@} \cup back)]

Descend ==
  /\ work # <<>>
  /\ Stop <= Len(Consumers(Top[1]))
  /\ work' = Front(work) \o << <<Top[1], Stop>>, <<Consumers(Top[1])[Stop], 0>> >>
  /\ index' = Index
  /\ held' = Held
  /\ low' = Scanned
  /\ UNCHANGED <<forward, components>>

(* Popping an entry hands its low index to the one it was entered from.    *)
Ascend ==
  /\ work # <<>>
  /\ Stop > Len(Consumers(Top[1]))
  /\ work' = Front(work)
  /\ index' = Index
  /\ low' = IF Len(work) = 1 THEN Scanned
            ELSE LET parent == work[Len(work) - 1][1]
                 IN [Scanned EXCEPT ![parent] = Lowest({@, Scanned[Top[1]]})]
  /\ UNCHANGED forward

(* `_close`: the component is what is held from its root up.               *)
Close ==
  /\ Ascend
  /\ Scanned[Top[1]] = Index[Top[1]]
  /\ LET at == CHOOSE p \in 1 .. Len(Held) : Held[p] = Top[1]
     IN /\ components' = Append(components, ToSet(SubSeq(Held, at, Len(Held))))
        /\ held' = SubSeq(Held, 1, at - 1)

StayOpen ==
  /\ Ascend
  /\ Scanned[Top[1]] # Index[Top[1]]
  /\ components' = components
  /\ held' = Held

Explore == Root \/ Descend \/ Close \/ StayOpen

Explored == work = <<>> /\ Unvisited = {}

-----------------------------------------------------------------------------
(* Every component the loop closes is a whole strong component, and when   *)
(* it ends no entry is in none: two entries that read each other, directly *)
(* or not, are never split between two groups, and no entry is grouped     *)
(* with one it does not read back.                                         *)
ClosesStrongComponents ==
  /\ \A i \in DOMAIN components : \A node \in components[i] :
       components[i] = StrongComponent(forward, node)
  /\ Explored => UNION ToSet(components) = Nodes

(* The components come out in the reverse topological order of the         *)
(* condensation, as the docstring of `_components` says: whatever reads    *)
(* into a component that is closed was closed no later.                    *)
ReverseTopological ==
  \A i, j \in DOMAIN components :
    (\E p \in components[i], c \in components[j] : c \in forward[p]) => j <= i
=============================================================================
