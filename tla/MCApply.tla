------------------------------ MODULE MCApply ------------------------------
(* Two machines and one value delivered to both.  Machine 1 keeps no       *)
(* sealed copies and holds entry 1, a flakelet; machine 2 is in user scope *)
(* and keeps them, and holds entry 2, an image, which the second build     *)
(* renames to entry 3.  The second build also moves entry 1's artifact.    *)
(* Entry 4 declares no unit and is on machine 1.                           *)
EXTENDS Apply

MCMachines == {1, 2}
MCEntries == {1, 2, 3, 4}
MCValues == {1}
MCOn == <<1, 2, 2, 1>>
MCReads == <<{1}, {1}, {1}, {}>>
MCDelivery == <<{1, 2}>>
MCSealing == {2}
MCUserScope == {2}
MCFlakelet == {1}
MCUnitless == {4}
MCArtifact == << <<1, 1, 0, 1>>, <<2, 0, 1, 0>> >>
MCAt == << <<2, 1, 3, 4>>, <<1, 2, 3, 4>> >>

FaultsOf(cut, reboot, stop, break) ==
  [cut |-> cut, reboot |-> reboot, stop |-> stop, break |-> break]
SomeFaults == FaultsOf(1, 1, 0, 1)
ByHand == FaultsOf(0, 1, 1, 1)
OneBreak == FaultsOf(0, 0, 0, 1)

(* An operator who never restricts a run. *)
WholeSpec == Init /\ [][Unrestricted]_vars
============================================================================
