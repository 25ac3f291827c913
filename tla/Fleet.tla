------------------------------- MODULE Fleet -------------------------------
(***************************************************************************)
(* The machines `apply` writes to, and what happens to them while nobody   *)
(* runs it: the state each keeps, what a reboot costs, and what the        *)
(* operator publishes next.                                                *)
(*                                                                         *)
(* Bytes are counted: the n-th bytes generated for a value are n, and 0 is *)
(* no file.  A value is one file.  An artifact is counted in the same way  *)
(* and 0 is an entry the build does not name.                              *)
(***************************************************************************)
EXTENDS Naturals, FiniteSets

CONSTANTS
  Machines, Entries, Values,    \* numbered in plan-key order
  On,         \* [Entries -> Machines], the machine in an entry's key
  Reads,      \* [Entries -> SUBSET Values], the files its units open
  Delivery,   \* [Values -> SUBSET Machines], the delivery set of each value
  Sealing,    \* the machines whose record says their copies are sealed
  UserScope,  \* the machines in user scope
  Flakelet,   \* the entries realised by flakelet; the others are images
  Unitless,   \* the entries that declare no unit, realised into nothing
  Artifact,   \* per build, [Entries -> Nat]
  MaxBytes,   \* bound: generations of each value
  Faults      \* bound: how often each kind of fault may happen

Builds == DOMAIN Artifact
Bytes == 0 .. MaxBytes
FaultKinds == {"cut", "reboot", "stop", "break"}

ASSUME FleetAssumption ==
  /\ Machines \subseteq Nat /\ Entries \subseteq Nat /\ Values \subseteq Nat
  /\ On \in [Entries -> Machines]
  /\ Reads \in [Entries -> SUBSET Values]
  /\ Delivery \in [Values -> SUBSET Machines]
  /\ \A e \in Entries : \A v \in Reads[e] : On[e] \in Delivery[v]
  /\ Sealing \subseteq Machines /\ UserScope \subseteq Machines
  /\ Flakelet \subseteq Entries /\ Unitless \subseteq Entries
  /\ Builds \subseteq Nat /\ 1 \in Builds
  /\ Artifact \in [Builds -> [Entries -> Nat]]
  /\ MaxBytes \in Nat \ {0}
  /\ Faults \in [FaultKinds -> Nat]

VARIABLES
  up,        \* the machines that answer
  fit,       \* the user-scope machines whose account passes the preflight
  plain,     \* per machine and value, the plaintext under /run
  sealed,    \* per machine and value, the sealed copy under /var/lib
  unsealer,  \* the machines whose manager runs planner-unseal at boot
  held,      \* per entry, the artifact its machine holds
  running,   \* the entries whose units run
  opened,    \* per entry, the bytes its processes opened when they started
  latest,    \* the generation of each value in the operator's directory
  build,     \* the build the operator has
  faults     \* how many faults of each kind are still to come

machines == <<up, fit, plain, sealed, unsealer, held, running, opened>>
fleet == <<machines, latest, build, faults>>

Nothing == [v \in Values |-> 0]
Named(b) == {e \in Entries : Artifact[b][e] # 0}
Here(m) == {e \in Entries : On[e] = m}

(* A process that starts opens the files that are there, and one whose     *)
(* file is not there fails.                                                *)
Starts(e, files) == \A v \in Reads[e] : files[v] # 0
Opening(e, files) == [v \in Values |-> IF v \in Reads[e] THEN files[v] ELSE 0]

Spend(kind) == /\ faults[kind] > 0
               /\ faults' = [faults EXCEPT ![kind] = @ - 1]

FleetInit ==
  /\ up = Machines
  /\ fit \in SUBSET UserScope
  /\ plain = [m \in Machines |-> Nothing]
  /\ sealed = [m \in Machines |-> Nothing]
  /\ unsealer = {}
  /\ held = [e \in Entries |-> 0]
  /\ running = {}
  /\ opened = [e \in Entries |-> Nothing]
  /\ latest = [v \in Values |-> 1]
  /\ build = 1
  /\ faults = Faults

-----------------------------------------------------------------------------
(* What the operator does between runs, or during one. *)

Rotate(v) ==
  /\ latest[v] < MaxBytes
  /\ latest' = [latest EXCEPT ![v] = @ + 1]
  /\ UNCHANGED <<machines, build, faults>>

Publish ==
  /\ build + 1 \in Builds
  /\ build' = build + 1
  /\ UNCHANGED <<machines, latest, faults>>

Repair(m) ==
  /\ m \in UserScope \ fit
  /\ fit' = fit \cup {m}
  /\ UNCHANGED <<up, plain, sealed, unsealer, held, running, opened, latest, build, faults>>

(* What the world does. *)

Cut(m) ==
  /\ m \in up
  /\ Spend("cut")
  /\ up' = up \ {m}
  /\ UNCHANGED <<fit, plain, sealed, unsealer, held, running, opened, latest, build>>

Mend(m) ==
  /\ m \in Machines \ up
  /\ up' = up \cup {m}
  /\ UNCHANGED <<fit, plain, sealed, unsealer, held, running, opened, latest, build, faults>>

(* /run is a tmpfs, so a reboot empties it.  planner-unseal puts back what *)
(* has a copy before any reader starts; the endpoint starts its entries,   *)
(* and an image's units carry no [Install] and stay stopped.               *)
Restored(m) == IF m \in unsealer THEN sealed[m] ELSE Nothing
BackUp(m) == {e \in Flakelet \cap Here(m) : held[e] # 0 /\ Starts(e, Restored(m))}

Reboot(m) ==
  /\ Spend("reboot")
  /\ plain' = [plain EXCEPT ![m] = Restored(m)]
  /\ running' = (running \ Here(m)) \cup BackUp(m)
  /\ opened' = [e \in Entries |->
                  IF e \in BackUp(m) THEN Opening(e, Restored(m))
                  ELSE IF e \in Here(m) THEN Nothing ELSE opened[e]]
  /\ UNCHANGED <<up, fit, sealed, unsealer, held, latest, build>>

(* An operator stops a unit by hand, or it dies; and starts it again. *)
Stop(e) ==
  /\ e \in running
  /\ Spend("stop")
  /\ running' = running \ {e}
  /\ opened' = [opened EXCEPT ![e] = Nothing]
  /\ UNCHANGED <<up, fit, plain, sealed, unsealer, held, latest, build>>

StartByHand(e) ==
  /\ e \notin running /\ held[e] # 0
  /\ Starts(e, plain[On[e]])
  /\ running' = running \cup {e}
  /\ opened' = [opened EXCEPT ![e] = Opening(e, plain[On[e]])]
  /\ UNCHANGED <<up, fit, plain, sealed, unsealer, held, latest, build, faults>>

World ==
  \/ \E v \in Values : Rotate(v)
  \/ Publish
  \/ \E m \in Machines : Repair(m) \/ Cut(m) \/ Mend(m)
  \/ \E e \in Entries : Stop(e) \/ StartByHand(e)

FleetTypeOK ==
  /\ up \subseteq Machines
  /\ fit \subseteq UserScope
  /\ plain \in [Machines -> [Values -> Bytes]]
  /\ sealed \in [Machines -> [Values -> Bytes]]
  /\ unsealer \subseteq Machines
  /\ held \in [Entries -> Nat]
  /\ running \subseteq Entries
  /\ opened \in [Entries -> [Values -> Bytes]]
  /\ latest \in [Values -> 1 .. MaxBytes]
  /\ build \in Builds
  /\ faults \in [FaultKinds -> Nat]
============================================================================
