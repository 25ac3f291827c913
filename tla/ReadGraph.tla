----------------------------- MODULE ReadGraph -----------------------------
(***************************************************************************)
(* The read relation of a resolved plan and the graph `apply` orders by    *)
(* (src/cli/order.py).                                                     *)
(*                                                                         *)
(* A plan key is a string the program only ever compares, so a key is a    *)
(* natural number and `sorted` is `<`.  An entry reads other entries       *)
(* through slots, each recorded in one of the shapes `_read` tells apart.  *)
(***************************************************************************)
EXTENDS Integers, FiniteSets, Sequences

CONSTANTS
  Keys,     \* every key of the plan
  Placed    \* the keys the deployment places on a machine

VARIABLES
  forward,    \* the graph: [entry |-> the entries that read it]
  components  \* the groups its entries are put in, in a sequence

ASSUME KeysAssumption ==
  /\ Keys \subseteq Nat
  /\ IsFiniteSet(Keys)
  /\ Placed \subseteq Keys

(* One slot names one provider, one per machine of a fleet, none because   *)
(* the planner did not deliver it, or is in a shape of no known kind.      *)
Slots ==
  [shape : {"entry"}, providers : {{k} : k \in Keys}]
    \cup [shape : {"entries"}, providers : SUBSET Keys]
    \cup [shape : {"undelivered", "unknown"}, providers : {{}}]

Plans == [Keys -> SUBSET Slots]

Recognised(plan, keys) ==
  \A k \in keys : \A slot \in plan[k] : slot.shape # "unknown"

(* `_reading`: the resolved reads of some consumers, consumer first. *)
Reading(plan, keys) ==
  {read \in keys \X Keys : \E slot \in plan[read[1]] : read[2] \in slot.providers}

(* Mutant: a slot that names a fleet is not followed.                      *)
ForwardOfSingles(plan, keys) ==
  [provider \in keys |->
     {consumer \in keys \ {provider} :
        \E slot \in plan[consumer] : slot.shape = "entry" /\ provider \in slot.providers}]

(* `edges` and the adjacency `walk` builds from them: a read of an entry   *)
(* outside `keys`, or of the entry itself, is no edge.                     *)
Forward(plan, keys) ==
  [provider \in keys |->
     {consumer \in keys \ {provider} : <<consumer, provider>> \in Reading(plan, keys)}]

(* Mutant: a read is listed only if the reader reads nothing else.         *)
UnsatisfiedAlone(plan, keys) ==
  {read \in Reading(plan, keys) :
     read[2] \in Placed \ keys /\ \A slot \in plan[read[1]] : slot.providers = {read[2]}}

(* `unsatisfied`: the reads whose provider is placed and is not applied. *)
Unsatisfied(plan, keys) ==
  {read \in Reading(plan, keys) : read[2] \in Placed \ keys}

EdgesOf(graph) ==
  {edge \in (DOMAIN graph) \X (DOMAIN graph) : edge[2] \in graph[edge[1]]}

Lowest(group) == CHOOSE k \in group : \A l \in group : k <= l

(* `sorted` of a set of keys: at each place the key with so many below it. *)
Ascending(keys) ==
  [p \in 1 .. Cardinality(keys) |->
     CHOOSE k \in keys : Cardinality({l \in keys : l <= k}) = p]

-----------------------------------------------------------------------------
(* What a graph is asked, without an algorithm.  The entries some entries  *)
(* lead to lie in every set that has them and, with an entry, the entries  *)
(* its arrows lead to.                                                     *)
Reached(graph, from) ==
  {k \in DOMAIN graph : \A S \in SUBSET DOMAIN graph :
     (from \subseteq S /\ \A l \in S : graph[l] \subseteq S) => k \in S}

Connected(graph, a, b) == b \in Reached(graph, {a})

StrongComponent(graph, entry) ==
  {k \in DOMAIN graph : Connected(graph, entry, k) /\ Connected(graph, k, entry)}
============================================================================
