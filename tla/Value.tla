------------------------------- MODULE Value -------------------------------
(***************************************************************************)
(* What a machine that seals promises of one value: its copy only moves    *)
(* forward, the plaintext is only ever made what the copy is, and only a   *)
(* reboot takes it away.  Once a connection was cut nothing is promised.   *)
(***************************************************************************)
EXTENDS Naturals

VARIABLES
  plain, copy,   \* the generation of the plaintext and of its copy, 0 for none
  latest,        \* the generation in the operator's directory
  boots,         \* reboots still to come
  cut            \* whether a connection was cut

Init ==
  /\ plain = 0 /\ copy = 0 /\ latest = 1
  /\ boots \in Nat /\ cut = FALSE

(* The operator puts new bytes in the directory. *)
Rotate == latest' = latest + 1 /\ UNCHANGED <<plain, copy, boots, cut>>

(* A run seals what the directory had when it began. *)
Seal ==
  /\ copy' \in copy + 1 .. latest
  /\ UNCHANGED <<plain, latest, boots, cut>>

(* A run writes what it sealed, or a boot restores it. *)
Place ==
  /\ copy # 0 /\ plain' = copy
  /\ UNCHANGED <<copy, latest, boots, cut>>

Reboot ==
  /\ boots > 0 /\ boots' = boots - 1
  /\ plain' = 0
  /\ UNCHANGED <<copy, latest, cut>>

Cut == cut' = TRUE

Next == Rotate \/ Seal \/ Place \/ Reboot \/ Cut

promise == <<plain, copy, latest, boots, cut>>

Spec == Init /\ [][Next]_promise
=============================================================================
