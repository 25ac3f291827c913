------------------------------- MODULE Record -------------------------------
(***************************************************************************)
(* The record of a built deployment and what src/cli/manifest.py takes of  *)
(* it.  A build writes manifest.json and plan.json, and a directory handed *)
(* in by name may hold anything, so every field is one of the words its    *)
(* readers tell apart: a text is "given" or "missing" (absent, empty, or   *)
(* not a text), a path of the build is "none", "inside", "outside" or      *)
(* "unusable", a scope is its name, "none" where none is stated, "other".  *)
(*                                                                         *)
(* Each operator holds where the function of that name returns; where it   *)
(* does not, the function raises and the command refuses.                  *)
(***************************************************************************)
EXTENDS Naturals, FiniteSets

Scopes == {"system", "user"}
Endpoints == {"flakelet", "image"}    \* what the command knows how to activate

Stated(scope) == scope \in Scopes \cup {"none"}
ScopeOf(scope) == IF scope = "none" THEN "system" ELSE scope

-----------------------------------------------------------------------------
(* `read`: what is refused before anything is asked of the record.         *)
ReadsEntry(entry) ==
  /\ entry.words = "given"           \* its realiser, machine, units, digest, profile
  /\ entry.address # "unusable"
  /\ entry.path \in {"none", "inside"}

ReadsValue(value) == value.words = "given" /\ value.program # "unusable"

ReadsMachine(machine) ==
  /\ machine.sealed \in {"sealed", "plain"}
  /\ machine.path \in {"none", "inside"}
  /\ machine.sealed = "sealed" => machine.path = "inside"
  /\ Stated(machine.scope)

Publishes(realiser) == realiser.scopes # {} /\ realiser.holdings # "none"

(* The two documents are records, of this version and this store.          *)
Shaped(r) ==
  /\ r.documents = "given"
  /\ r.version = "ours" /\ r.store = "ours"
  /\ r.tables = {"entries", "realisers", "machines"}

Readable(r) ==
  /\ Shaped(r)
  /\ \A e \in DOMAIN r.entries : ReadsEntry(r.entries[e])
  /\ \A v \in DOMAIN r.values : ReadsValue(r.values[v])
  /\ \A m \in DOMAIN r.machines : ReadsMachine(r.machines[m])
  /\ \A name \in DOMAIN r.realisers : Publishes(r.realisers[name])
  /\ r.rows # "unusable"
  /\ r.coordination.words # "missing"

Errors(r) == r.rows = "error"

-----------------------------------------------------------------------------
(* What the commands read of it later, each at its own moment.             *)
AddressOf(r, e) == r.entries[e].address = "given"

MachineAddress(r, m) == r.plan[m].record = "given" /\ r.plan[m].address = "given"

MachineRecipient(r, m) == r.plan[m].record = "given" /\ r.plan[m].recipient = "given"

MachineOf(r, m) == m \in DOMAIN r.machines

MachineScope(r, m) == r.plan[m].record = "given" => Stated(r.plan[m].scope)

InUserScope(r, m) == r.plan[m].record = "given" /\ r.plan[m].scope = "user"

EntryScope(r, e) ==
  LET entry == r.entries[e]
  IN /\ Stated(entry.target)
     /\ entry.realiser \in DOMAIN r.realisers
     /\ ScopeOf(entry.target) \in r.realisers[entry.realiser].scopes

ArtifactOf(r, e) == r.entries[e].path = "inside"

(* `service_name` and `image_file`: what the artifact's own file names.    *)
Declared(r, e) == ArtifactOf(r, e) /\ r.entries[e].names = "given"

Activation(r, e) ==
  CASE r.entries[e].realiser = "flakelet" -> Declared(r, e)
    [] r.entries[e].realiser = "image"    -> ArtifactOf(r, e)
    [] OTHER                              -> FALSE

(* `Realiser.text` and `Realiser.number`, of every field of the holdings.  *)
Attributes(r, name) == r.realisers[name].holdings = "whole"

(* The realisers a machine is asked about: those that realise its scope.   *)
Reach(r, m) ==
  {name \in (DOMAIN r.realisers) \cap Endpoints :
     (IF InUserScope(r, m) THEN "user" ELSE "system") \in r.realisers[name].scopes}
=============================================================================
