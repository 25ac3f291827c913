------------------------------ MODULE MCCommand ------------------------------
(* Three records a build could have written, and each with one thing in it *)
(* changed by hand.  Entry 1 is a flakelet on machine 1, entry 2 an image  *)
(* on machine 2, an account's that seals, entry 3 declares no unit; value  *)
(* 4 is the operator's, and value 5 the credential.                        *)
EXTENDS Command

Entry(realiser, machine, path, target) ==
  [words |-> "given", realiser |-> realiser, machine |-> machine, path |-> path,
   address |-> "given", target |-> target, names |-> "given", reads |-> "known"]

Value(delivery, program, files) ==
  [words |-> "given", delivery |-> delivery, program |-> program, files |-> files]

Machine(scope) == [record |-> "given", address |-> "given", recipient |-> "given", scope |-> scope]

Base ==
  [documents |-> "given", version |-> "ours", store |-> "ours",
   tables |-> {"entries", "realisers", "machines"}, rows |-> "warning",
   entries |-> <<Entry("flakelet", 1, "inside", "none"), Entry("image", 2, "inside", "user"),
                 Entry("flakelet", 1, "none", "none")>>,
   values |-> [v \in {4, 5} |-> IF v = 4 THEN Value({1, 2}, "none", {"a"})
                                ELSE Value({}, "given", {"a", "b"})],
   machines |-> <<[sealed |-> "plain", path |-> "none", scope |-> "none"],
                  [sealed |-> "sealed", path |-> "inside", scope |-> "user"]>>,
   realisers |-> [name \in Endpoints |->
                    [scopes |-> IF name = "image" THEN Scopes ELSE {"system"}, holdings |-> "whole"]],
   coordination |-> [words |-> "given", entry |-> 1, credential |-> 5],
   plan |-> <<Machine("none"), Machine("user")>>]

(* The credential delivered too; two images, and no statement of a hub.    *)
Bases ==
  {Base,
   [Base EXCEPT !.values[5].delivery = {2}],
   [Base EXCEPT !.entries[1] = Entry("image", 1, "inside", "system"), !.coordination.words = "none"]}

Words(field, words) == {field} \X words

EntryWords ==
  Words("words", {"missing"}) \cup Words("address", {"none", "unusable"})
    \cup Words("path", {"none", "outside", "unusable"}) \cup Words("names", {"missing"})
    \cup Words("realiser", {"flakelet", "image", "other"}) \cup Words("reads", {"unknown"})
    \cup Words("target", {"system", "user", "other"})
ValueWords == Words("words", {"missing"}) \cup Words("program", {"none", "empty", "unusable"})
MachineWords ==
  Words("sealed", {"sealed", "plain", "unusable"}) \cup Words("scope", {"other"})
    \cup Words("path", {"none", "outside", "unusable"})
PlanWords ==
  Words("record", {"missing"}) \cup Words("address", {"missing"})
    \cup Words("recipient", {"missing"}) \cup Words("scope", {"user", "system", "other"})
RecordWords ==
  Words("documents", {"missing"}) \cup Words("version", {"other"}) \cup Words("store", {"other"})
    \cup Words("rows", {"none", "error", "unusable"})

Without(f, x) == [y \in DOMAIN f \ {x} |-> f[y]]

Deviations(r) ==
  {[r EXCEPT !.entries[e][w[1]] = w[2]] : e \in 1 .. 3, w \in EntryWords}
    \cup {[r EXCEPT !.values[v][w[1]] = w[2]] : v \in {4, 5}, w \in ValueWords}
    \cup {[r EXCEPT !.machines[m][w[1]] = w[2]] : m \in {1, 2}, w \in MachineWords}
    \cup {[r EXCEPT !.plan[m][w[1]] = w[2]] : m \in {1, 2}, w \in PlanWords}
    \cup {[r EXCEPT ![w[1]] = w[2]] : w \in RecordWords}
    \cup {[r EXCEPT !.tables = @ \ {t}] : t \in r.tables}
    \cup {[r EXCEPT !.machines = Without(@, m)] : m \in {1, 2}}
    \cup {[r EXCEPT !.realisers = Without(@, name)] : name \in Endpoints}
    \cup {[r EXCEPT !.realisers[name].holdings = w] : name \in Endpoints, w \in {"partial", "none"}}
    \cup {[r EXCEPT !.realisers[name].scopes = s] : name \in Endpoints, s \in SUBSET Scopes}
    \cup {[r EXCEPT !.values[5].files = {}], [r EXCEPT !.coordination.words = "missing"],
          [r EXCEPT !.coordination.entry = 9], [r EXCEPT !.coordination.credential = 4],
          [r EXCEPT !.coordination.credential = 9]}

MCRecords == UNION {{r} \cup Deviations(r) : r \in Bases}

(* Nothing named; something that is no directory; a directory that lacks   *)
(* what it needs, has it, or has a file more.                              *)
Holding(paths) == [named |-> TRUE, directory |-> TRUE, at |-> [path \in paths |-> 0]]

MCSources ==
  {[named |-> FALSE, directory |-> FALSE, at |-> [path \in {} |-> 0]],
   [named |-> TRUE, directory |-> FALSE, at |-> [path \in {} |-> 0]],
   Holding({}), Holding({<<4, "a">>}), Holding({<<4, "a">>, <<5, "a">>}),
   Holding({<<4, "a">>, <<4, "stray">>})}

MCMachines == {1, 2}
MCSelections == {{}, {1}, {2}, {4}, {5}, {9}, {1, 4}}
=============================================================================
