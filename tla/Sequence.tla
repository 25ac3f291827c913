------------------------------ MODULE Sequence ------------------------------
(***************************************************************************)
(* `sequence` of src/cli/order.py: the components of the read graph in     *)
(* application order, provider component first, the one with the lowest    *)
(* plan key among those that wait for nothing.  One step is one pass of    *)
(* the `while ready` loop.  The components are whatever the caller hands   *)
(* in: any partition of the entries, in any order.                         *)
(***************************************************************************)
EXTENDS ReadGraph

VARIABLES
  waiting,     \* per component, how many unwalked components it reads
  ready,       \* the components that wait for nothing, a heap on their lowest key
  walked,      \* the components walked, in order
  verdict      \* "running", then "ordered" or "refused"

kahn == <<waiting, ready, walked, verdict>>
vars == <<forward, components, kahn>>

Groups == DOMAIN components

(* Mutant: a component may read into itself.                               *)
DownstreamOfItself(group) ==
  {reader \in Groups :
     \E provider \in components[group] :
       \E consumer \in forward[provider] : consumer \in components[reader]}

(* `downstream`: the other components that read into one, each once. *)
Downstream(group) ==
  {reader \in Groups \ {group} :
     \E provider \in components[group] :
       \E consumer \in forward[provider] : consumer \in components[reader]}

Providers(reader) == {group \in Groups : reader \in Downstream(group)}

Walked == {walked[p] : p \in 1 .. Len(walked)}

ReadsBetween(group, reader) ==
  {edge \in EdgesOf(forward) : edge[1] \in components[group] /\ edge[2] \in components[reader]}

(* Mutant: every read is counted, not every component that is read.        *)
InitialWaitingPerRead ==
  [reader \in Groups |->
     Cardinality(UNION {ReadsBetween(group, reader) : group \in Groups \ {reader}})]

InitialWaiting == [reader \in Groups |-> Cardinality(Providers(reader))]

Start ==
  /\ waiting = InitialWaiting
  /\ ready = {group \in Groups : Providers(group) = {}}
  /\ walked = <<>>
  /\ verdict = "running"

(* Mutant: the heap hands out its highest key.                             *)
FirstHighest(groups) ==
  CHOOSE group \in groups :
    \A other \in groups : Lowest(components[other]) <= Lowest(components[group])

(* `heapq.heappop`: no two components share their lowest key. *)
First(groups) ==
  CHOOSE group \in groups :
    \A other \in groups : Lowest(components[group]) <= Lowest(components[other])

Released(group) ==
  [reader \in Groups |->
     IF reader \in Downstream(group) THEN waiting[reader] - 1 ELSE waiting[reader]]

(* Mutant: a reader is ready as soon as one provider is walked.            *)
PopEager ==
  /\ verdict = "running"
  /\ ready # {}
  /\ LET group == First(ready)
     IN /\ walked' = Append(walked, group)
        /\ waiting' = Released(group)
        /\ ready' = ((ready \ {group}) \cup Downstream(group)) \ Walked
  /\ UNCHANGED <<forward, components, verdict>>

Pop ==
  /\ verdict = "running"
  /\ ready # {}
  /\ LET group == First(ready)
     IN /\ walked' = Append(walked, group)
        /\ waiting' = Released(group)
        /\ ready' = (ready \ {group})
                      \cup {reader \in Downstream(group) : Released(group)[reader] = 0}
  /\ UNCHANGED <<forward, components, verdict>>

Return ==
  /\ verdict = "running"
  /\ ready = {}
  /\ Len(walked) = Len(components)
  /\ verdict' = "ordered"
  /\ UNCHANGED <<forward, components, waiting, ready, walked>>

Refuse ==
  /\ verdict = "running"
  /\ ready = {}
  /\ Len(walked) # Len(components)
  /\ verdict' = "refused"
  /\ UNCHANGED <<forward, components, waiting, ready, walked>>

Step == Pop \/ Return \/ Refuse

(* A call that has returned or raised takes no step ever again. *)
Next == Step \/ (verdict # "running" /\ UNCHANGED vars)

(* The calls: any graph of reads among placed entries, and any sequence of *)
(* disjoint groups of entries that together hold them all.                 *)
Inputs ==
  /\ DOMAIN forward \subseteq Placed
  /\ forward \in [DOMAIN forward -> SUBSET DOMAIN forward]
  /\ components \in Seq((SUBSET DOMAIN forward) \ {{}})
  /\ UNION {components[i] : i \in Groups} = DOMAIN forward
  /\ \A i, j \in Groups : i # j => components[i] \cap components[j] = {}

Init == Inputs /\ Start

Spec == Init /\ [][Next]_vars

-----------------------------------------------------------------------------
TypeOK ==
  /\ Inputs
  /\ waiting \in [Groups -> Nat]
  /\ ready \subseteq Groups
  /\ walked \in Seq(Groups)
  /\ verdict \in {"running", "ordered", "refused"}

(* Bookkeeping the loop lives on: a component is walked once, `waiting` is *)
(* exactly how many of its providers are not walked yet, and the heap      *)
(* holds exactly the unwalked components for which that is none.           *)
WaitingCounts ==
  /\ \A p, q \in 1 .. Len(walked) : p # q => walked[p] # walked[q]
  /\ \A group \in Groups : waiting[group] = Cardinality(Providers(group) \ Walked)
  /\ ready = {group \in Groups \ Walked : Providers(group) \subseteq Walked}

(* No component is applied before a component it reads: when it is walked, *)
(* every provider stands before it.                                        *)
ProviderFirst ==
  \A p \in 1 .. Len(walked) : \A provider \in Providers(walked[p]) :
    \E q \in 1 .. p - 1 : walked[q] = provider

(* The order the reads leave open is settled by plan key: a component is   *)
(* passed over by one with a higher lowest key only while a provider of    *)
(* its own was still waiting to be walked, at that place or after it.      *)
PassedOverOnlyWaiting ==
  \A p, q \in 1 .. Len(walked) :
    (p < q /\ Lowest(components[walked[q]]) < Lowest(components[walked[p]]))
      => \E between \in p .. q - 1 : walked[between] \in Providers(walked[q])

(* A return has walked every component. *)
ReturnsAll == verdict = "ordered" => Walked = Groups

(* The components can be numbered so that every read goes up: there is no  *)
(* cycle among them.                                                       *)
Rankings == [Groups -> 1 .. Len(components)]
Ascends(rank) ==
  \A group \in Groups : \A reader \in Downstream(group) : rank[group] < rank[reader]

(* Only components that read each other in a circle are refused. *)
RefusesOnlyCycles ==
  verdict = "refused" => \A rank \in Rankings : ~Ascends(rank)
=============================================================================
