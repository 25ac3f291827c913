------------------------------ MODULE MCReport ------------------------------
(* Machine 1 is addressed, seals, and is given entry 1 (a flakelet) and    *)
(* entry 2 (an image), and value 1 of two files; entry 3, an image, and    *)
(* entry 4, a flakelet, are of an earlier build of it.  Machine 2 is in a  *)
(* scope only images realise, seals nothing, and is given entry 5, an      *)
(* image, and value 2; machine 3 declares no address, and has entry 6;     *)
(* entry 7 declares no unit and is on machine 2.  Entry 3's name begins    *)
(* with entry 2's and an underscore.                                       *)
EXTENDS Report

MCMachines == 1 .. 3
MCEntries == 1 .. 7
MCValues == {1, 2}
MCFiles == {1, 2, 3}
MCOn == <<1, 1, 1, 1, 2, 3, 2>>
MCRealiserOf == <<"flakelet", "image", "image", "flakelet", "image", "flakelet", "flakelet">>
MCNamed == {1, 2, 5, 6, 7}
MCRealised == {1, 2, 5, 6}
MCAddressed == {1, 2}
MCFilesOf == <<{1, 2}, {3}>>
MCDelivery == <<{1}, {2}>>
MCSealing == {1}
MCReaches == <<{"flakelet", "image"}, {"image"}, {"flakelet", "image"}>>
MCBegins == [e \in MCEntries |-> IF e = 2 THEN {2, 3} ELSE {e}]

Tools == {[flakelet |-> f, image |-> i] : f, i \in {"works", "fails", "missing"}}
Works == [flakelet |-> "works", image |-> "works"]
Gone == [f \in MCFiles |-> "absent"]
Open == [f \in MCFiles |-> "opens"]

Stuff(holds, shown, present, copies, unsealer) ==
  [holds |-> holds, shown |-> shown, present |-> present, copies |-> copies, unsealer |-> unsealer]

(* What machines are found with: nothing; this build; an earlier one, with *)
(* what it names and this one does not; both images at once; a file gone.  *)
MCStuff ==
  {Stuff({}, {}, {}, Gone, FALSE),
   Stuff({<<1, "this">>, <<2, "this">>, <<5, "this">>}, {2, 5}, MCFiles, Open, TRUE),
   Stuff({<<1, "earlier">>, <<2, "earlier">>, <<3, "earlier">>, <<4, "earlier">>, <<5, "earlier">>},
         {}, {1}, [Open EXCEPT ![2] = "unreadable"], TRUE),
   Stuff({<<2, "this">>, <<2, "earlier">>, <<5, "this">>}, {}, {2, 3}, [Gone EXCEPT ![1] = "opens"], TRUE)}

State(up, tool, stuff) ==
  [up |-> up, tool |-> tool, holds |-> stuff.holds, shown |-> stuff.shown,
   present |-> stuff.present, copies |-> stuff.copies, unsealer |-> stuff.unsealer]

MCMachineStates ==
  {State(TRUE, tool, stuff) : tool \in Tools, stuff \in MCStuff}
    \cup {State(FALSE, Works, stuff) : stuff \in MCStuff}

(* Machine 3 is never reached, so what it is does not matter. *)
MCInit == Init /\ machine[3] = State(TRUE, Works, Stuff({}, {}, {}, Gone, FALSE))
MCSpec == MCInit /\ [][Next]_vars
=============================================================================
