----------------------------- MODULE MCSequence -----------------------------
(* Every read graph over `Size` entries, grouped in every way and handed   *)
(* in in every order.                                                      *)
EXTENDS Sequence

CONSTANT Size    \* how many entries

MCKeys == 1 .. Size

NoSelfReads == {g \in [Placed -> SUBSET Placed] : \A k \in Placed : k \notin g[k]}

OrderedPartitions ==
  UNION {{p \in [1 .. n -> (SUBSET Placed) \ {{}}] :
            /\ UNION {p[i] : i \in 1 .. n} = Placed
            /\ \A i, j \in 1 .. n : i # j => p[i] \cap p[j] = {}} : n \in 0 .. Size}

MCInit ==
  /\ forward \in NoSelfReads
  /\ components \in OrderedPartitions
  /\ Start

MCSpec == MCInit /\ [][Next]_vars
=============================================================================
