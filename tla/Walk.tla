-------------------------------- MODULE Walk --------------------------------
(***************************************************************************)
(* `walk` of src/cli/order.py: the reads of the selected entries become a  *)
(* graph, Tarjan's loop (Components) finds its strong components, and the  *)
(* heap loop (Sequence) puts the components in application order.          *)
(***************************************************************************)
EXTENDS Components, Sequence

VARIABLES
  plan,      \* the resolved plan, fixed
  selected,  \* the entries this run applies, fixed
  phase      \* where the call stands

walk == <<plan, selected, forward, components, tarjan, kahn, phase>>

Call ==
  /\ phase = "reading"
  /\ forward = <<>>
  /\ NothingVisited
  /\ waiting = <<>> /\ ready = {} /\ walked = <<>> /\ verdict = "running"

WalkInit ==
  /\ plan \in Plans
  /\ selected \in SUBSET Placed
  /\ Call

Read ==
  /\ phase = "reading"
  /\ Recognised(plan, selected)
  /\ forward' = Forward(plan, selected)
  /\ phase' = "grouping"
  /\ UNCHANGED <<plan, selected, components, tarjan, kahn>>

(* `_read` raises on a slot of no known shape. *)
Unreadable ==
  /\ phase = "reading"
  /\ ~Recognised(plan, selected)
  /\ phase' = "unreadable"
  /\ UNCHANGED <<plan, selected, forward, components, tarjan, kahn>>

Group ==
  /\ phase = "grouping"
  /\ Explore
  /\ UNCHANGED <<plan, selected, kahn, phase>>

Grouped ==
  /\ phase = "grouping"
  /\ Explored
  /\ waiting' = InitialWaiting
  /\ ready' = {group \in Groups : Providers(group) = {}}
  /\ phase' = "sequencing"
  /\ UNCHANGED <<plan, selected, forward, components, tarjan, walked, verdict>>

Sequenced ==
  /\ phase = "sequencing"
  /\ Step
  /\ phase' = IF verdict' = "running" THEN phase ELSE verdict'
  /\ UNCHANGED <<plan, selected, tarjan>>

WalkStep == Read \/ Unreadable \/ Group \/ Grouped \/ Sequenced

Returned == phase \in {"unreadable", "ordered", "refused"}

WalkNext == WalkStep \/ (Returned /\ UNCHANGED walk)

WalkSpec == WalkInit /\ [][WalkNext]_walk /\ WF_walk(WalkStep)

-----------------------------------------------------------------------------
(* The result `walk` returns. *)
Order == FlattenSeq([p \in 1 .. Len(walked) |-> Ascending(components[walked[p]])])

At(entry) == CHOOSE p \in 1 .. Len(Order) : Order[p] = entry

Broken == {edge \in EdgesOf(forward) : At(edge[1]) > At(edge[2])}

(* Mutant: two entries that read each other are no cycle.                  *)
CyclesOfThree == {group \in ToSet(components) : Cardinality(group) > 2}

Cycles == {group \in ToSet(components) : Cardinality(group) > 1}

-----------------------------------------------------------------------------
(* Which selected entries feed which, through selected entries only.       *)
Readers ==
  [provider \in selected |->
     {consumer \in selected : consumer # provider /\ <<consumer, provider>> \in Reading(plan, selected)}]

Feeds(provider, consumer) == consumer \in Reached(Readers, Readers[provider])

(* An entry is applied after every selected entry it reads, unless the two *)
(* read each other, however indirectly: no other read is contradicted, and *)
(* no entry is applied twice or left out.                                  *)
OrderHonoursReads ==
  phase = "ordered" =>
    /\ ToSet(Order) = selected /\ Len(Order) = Cardinality(selected)
    /\ \A consumer, provider \in selected :
         Feeds(provider, consumer) /\ ~Feeds(consumer, provider)
           => At(provider) < At(consumer)

(* What the run announces before it starts is exact: the cycles are the    *)
(* circles of reads there are, each contradicts at least one read, and     *)
(* every contradicted read lies inside one.                                *)
AnnouncesExactly ==
  phase = "ordered" =>
    /\ Cycles = {{n \in selected : n = k \/ (Feeds(n, k) /\ Feeds(k, n))} :
                   k \in {k \in selected : Feeds(k, k)}}
    /\ \A cycle \in Cycles : \E edge \in Broken : edge[1] \in cycle /\ edge[2] \in cycle
    /\ \A edge \in Broken : \E cycle \in Cycles : edge[1] \in cycle /\ edge[2] \in cycle

(* What Tarjan's loop closes are whole strong components, each whatever    *)
(* reads into it is closed no later, and when it ends no entry is in none. *)
ComponentsFound ==
  phase = "grouping" => ClosesStrongComponents /\ ReverseTopological

(* A selection can hide a read from the order, never from the user: of the *)
(* resolved reads of the selected entries, each one onto an entry the      *)
(* deployment places is an edge of the graph, or is listed as unsatisfied, *)
(* or is of the entry itself.                                              *)
NoReadUnaccounted ==
  phase = "ordered" =>
    \A read \in Reading(plan, selected) :
      read[2] \in Placed =>
        \/ read[1] = read[2]
        \/ read \in Unsatisfied(plan, selected)
        \/ /\ read[2] \in selected /\ read[1] \in forward[read[2]]
           /\ read \notin Unsatisfied(plan, selected)

(* The call ends on every plan, and never in the refusal of a cycle: the   *)
(* components `_components` hands `sequence` can always be walked, as its  *)
(* docstring argues (src/cli/order.py:118).                                *)
Terminates == <>(phase \in {"unreadable", "ordered"})
=============================================================================
