------------------------------- MODULE Source -------------------------------
(***************************************************************************)
(* The value source of src/cli/values.py: the directory of bytes an        *)
(* operator holds, laid out <entry key>/<file>, checked against the record *)
(* before anything is dialled.  A file in it is a pair of the two, and     *)
(* `at` says which minting each one there is of, 0 for bytes the operator  *)
(* put there.                                                              *)
(***************************************************************************)
EXTENDS Record

(* Mutant: a value is measured whether or not some machine receives it.    *)
DeliveredOrNot(r) == DOMAIN r.values

Delivered(r) == {v \in DOMAIN r.values : r.values[v].delivery # {}}

(* `reaching`: the values a run must hold bytes for, and where each goes.  *)
Reaching(r, machines, named) ==
  LET answerable == {v \in Delivered(r) : v \in named \/ r.values[v].delivery \cap machines # {}}
  IN [v \in answerable |->
        IF v \in named THEN r.values[v].delivery ELSE r.values[v].delivery \cap machines]

FilesOf(r, keys) == UNION {{v} \X r.values[v].files : v \in keys}

Required(r, keys) == FilesOf(r, {v \in keys \cap Delivered(r) : r.values[v].program = "none"})

Generated(r) == FilesOf(r, {v \in Delivered(r) : r.values[v].program # "none"})

(* `held`: every file under the directory of one of those values.          *)
Held(source, keys) == {path \in DOMAIN source.at : path[1] \in keys}

(* `check`: nothing missing that this run writes, nothing the generator    *)
(* delivers, and nothing no delivered value declares.                      *)
Check(r, source, keys) ==
  LET present == IF source.named THEN Held(source, Delivered(r)) ELSE {}
  IN /\ source.named => source.directory
     /\ Required(r, keys) \subseteq present
     /\ present \cap Generated(r) = {}
     /\ present \subseteq Required(r, Delivered(r))

(* The machines a run seals for, where the record can say which they are.  *)
Written(r, reaching) == UNION {reaching[path[1]] : path \in Required(r, DOMAIN reaching)}

Sealing(r, reaching) ==
  {m \in Written(r, reaching) : MachineOf(r, m) /\ r.machines[m].sealed = "sealed"}

(* `sealing`, `sealer` and `writes`: whether they return.  The sealing     *)
(* program is the command's own: it works, refuses, or is not there.       *)
Seals(r, reaching, program) ==
  /\ \A m \in Written(r, reaching) : MachineOf(r, m) /\ MachineAddress(r, m)
  /\ Sealing(r, reaching) # {} =>
       /\ program = "works"
       /\ \A m \in Sealing(r, reaching) : MachineRecipient(r, m)
=============================================================================
