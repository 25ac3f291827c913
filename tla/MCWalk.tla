------------------------------- MODULE MCWalk -------------------------------
(* Every plan in which each of three placed entries reads through one      *)
(* slot, of any shape, and every selection of them; a slot may also name   *)
(* entry 5, which no machine is placed on and which reads nothing.  And    *)
(* every graph of reads among four placed entries, all of them selected.   *)
EXTENDS Picture

MCKeys == 1 .. 5
MCPlaced == 1 .. 4
MCValueKeys == {0, 6}
MCReaderSets == {{}, {3}, {1, 2}, {2, 4}}

Named == {1, 2, 3, 5}
Odd == {slot \in Slots : slot.providers \subseteq Named}
OddPlans == {p \in [Keys -> {{slot} : slot \in Odd} \cup {{}}] :
               \A k \in Keys : k \in 1 .. 3 <=> p[k] # {}}

Fleet(providers) == {[shape |-> "entries", providers |-> providers]}
WholePlans == {p \in [Keys -> {Fleet(providers) : providers \in SUBSET Placed} \cup {{}}] :
                 /\ p[5] = {}
                 /\ \A k \in Placed : p[k] # {} /\ \A slot \in p[k] : k \notin slot.providers}

MCInit ==
  /\ \/ plan \in OddPlans /\ selected \in SUBSET (1 .. 3)
     \/ plan \in WholePlans /\ selected = Placed
  /\ Call
  /\ PictureInit

MCSpec == MCInit /\ [][PictureNext]_<<walk, picture>> /\ WF_walk(WalkStep)
=============================================================================
