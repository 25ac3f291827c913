------------------------------- MODULE Apply -------------------------------
(***************************************************************************)
(* `apply` of src/cli/apply.py against a fleet whose machines reboot, stop *)
(* answering and are worked on by hand, and an operator who runs it again. *)
(* One step of a run is one line of its log: one command on one machine.   *)
(***************************************************************************)
EXTENDS Fleet

CONSTANTS
  At,        \* per build, [Entries -> Nat]: the place `order.walk` gives an entry
  MaxOnly    \* bound: keys that `--only` names in one run

ASSUME WalkAssumption ==
  /\ At \in [Builds -> [Entries -> Nat]]
  /\ \A b \in Builds : \A e, f \in Entries : At[b][e] = At[b][f] => e = f

ASSUME BoundAssumption == MaxOnly \in Nat

VARIABLES
  phase,     \* the loop of `apply` the run is in, "idle" for no run
  todo,      \* what that loop has left to go through
  run,       \* what the run decided before it dialled anything
  holds,     \* the holdings the machines answered with that the build does not name
  skipped,   \* the machines that did not answer that question
  moved,     \* the values whose write answered "changed", with the machine
  half,      \* whether the write under way has put its sealed copy in place
  rebooted   \* the machines that rebooted during the run (history)

operator == <<phase, todo, run, holds, skipped, moved, half, rebooted>>
vars == <<fleet, operator>>

(* Mutants: the loops in an order the code does not run them in.           *)
AfterWritingFirst ==
  [ask |-> "preflight", preflight |-> "retire", retire |-> "write",
   write |-> "unseal", unseal |-> "activate", activate |-> "restart", restart |-> "done"]
AfterActivatingFirst ==
  [ask |-> "preflight", preflight |-> "retire", retire |-> "unseal",
   unseal |-> "activate", activate |-> "write", write |-> "restart", restart |-> "done"]
AfterRetiringLast ==
  [ask |-> "preflight", preflight |-> "unseal", unseal |-> "write",
   write |-> "activate", activate |-> "restart", restart |-> "retire", retire |-> "done"]
AfterUnsealingUnchecked ==
  [ask |-> "retire", retire |-> "unseal", unseal |-> "preflight",
   preflight |-> "write", write |-> "activate", activate |-> "restart", restart |-> "done"]

(* The loops of `apply`, in the order it runs them. *)
After == [ask |-> "preflight", preflight |-> "retire", retire |-> "unseal",
          unseal |-> "write", write |-> "activate", activate |-> "restart",
          restart |-> "done"]
Looping == phase \in DOMAIN After

(* `bytes` is read and sealed before the first dial, `wanted` are values   *)
(* that `--only` named.  `behind` is what the run does not know: the       *)
(* entries that had other bytes open when it began (history).              *)
NoRun == [build |-> 1, bytes |-> Nothing, keys |-> {}, wanted |-> {}, retire |-> FALSE,
          behind |-> {}]

Behind == {e \in running : \E v \in Reads[e] : opened[e][v] # plain[On[e]][v]}

(* The entries steps are taken for, and the machines they are taken on. *)
Taken == run.keys \ Unitless
MachinesOf(keys) == {On[e] : e \in keys}

(* `values.reaching`: a value named goes to its whole delivery set, any    *)
(* other to the machines of it that the run selected.                      *)
Planned ==
  {w \in Values \X Machines :
     /\ w[2] \in Delivery[w[1]]
     /\ w[1] \in run.wanted \/ w[2] \in MachinesOf(run.keys)}
Written == {w[2] : w \in Planned}

(* `rotations`: the entries of the run that read a value that moved where  *)
(* they are.                                                               *)
Rotations ==
  {r \in Values \X Taken : r[1] \in Reads[r[2]] /\ <<r[1], On[r[2]]>> \in moved}

(* What each loop of `apply` goes through, and in which order. *)
Work(p) ==
  CASE p = "ask"       -> MachinesOf(Taken)
    [] p = "preflight" -> UserScope \cap (Written \cup MachinesOf(Taken))
    [] p = "retire"    -> IF run.retire THEN holds ELSE {}
    [] p = "unseal"    -> Sealing \cap Written
    [] p = "write"     -> Planned
    [] p = "activate"  -> Taken
    [] p = "restart"   -> Rotations
    [] OTHER           -> {}

Lexicographic(a, b) == a[1] < b[1] \/ (a[1] = b[1] /\ a[2] < b[2])

(* Mutant: entries are activated in plan-key order.                        *)
EarlierByKey(a, b) ==
  CASE phase \in {"ask", "preflight", "unseal", "activate"} -> a < b
    [] phase = "retire"               -> Lexicographic(<<On[a], a>>, <<On[b], b>>)
    [] phase \in {"write", "restart"} -> Lexicographic(a, b)

Earlier(a, b) ==
  CASE phase \in {"ask", "preflight", "unseal"} -> a < b
    [] phase = "retire"                         -> Lexicographic(<<On[a], a>>, <<On[b], b>>)
    [] phase \in {"write", "restart"}           -> Lexicographic(a, b)
    [] phase = "activate"                       -> At[run.build][a] < At[run.build][b]

(* One step against one machine: it is the loop's next, and it answers.    *)
Turn(p, item, machine) ==
  /\ phase = p
  /\ item \in todo
  /\ \A other \in todo \ {item} : Earlier(item, other)
  /\ machine \in up

Done(item) == todo' = todo \ {item}

Init ==
  /\ FleetInit
  /\ phase = "idle" /\ todo = {} /\ run = NoRun
  /\ holds = {} /\ skipped = {} /\ moved = {} /\ half = FALSE /\ rebooted = {}

-----------------------------------------------------------------------------
(* Everything `apply` decides before it dials. *)
Begin(keys, wanted, retire) ==
  /\ phase = "idle"
  /\ run' = [build |-> build, bytes |-> latest, keys |-> keys, wanted |-> wanted,
             retire |-> retire, behind |-> Behind]
  /\ phase' = "ask"
  /\ todo' = MachinesOf(keys \ Unitless)
  /\ UNCHANGED <<fleet, holds, skipped, moved, half, rebooted>>

BeginWhole(retire) == Begin(Named(build), {}, retire)

(* `--only` may be repeated, and names entries and values alike.           *)
BeginOnly(retire) ==
  \E keys \in SUBSET Named(build), wanted \in SUBSET Values :
    /\ Cardinality(keys) + Cardinality(wanted) \in 1 .. MaxOnly
    /\ Begin(keys, wanted, retire)

(* The question of what a machine holds; one that cannot be reached is     *)
(* left alone and the run goes on.                                         *)
Ask(m) ==
  /\ phase = "ask" /\ m \in todo
  /\ \A other \in todo \ {m} : Earlier(m, other)
  /\ Done(m)
  /\ \/ /\ m \in up
        /\ holds' = holds \cup {e \in Here(m) \ Named(run.build) : held[e] # 0}
        /\ UNCHANGED skipped
     \/ /\ m \notin up
        /\ skipped' = skipped \cup {m}
        /\ UNCHANGED holds
  /\ UNCHANGED <<fleet, phase, run, moved, half, rebooted>>

Preflight(m) ==
  /\ Turn("preflight", m, m)
  /\ m \in fit
  /\ Done(m)
  /\ UNCHANGED <<fleet, phase, run, holds, skipped, moved, half, rebooted>>

Retire(e) ==
  /\ Turn("retire", e, On[e])
  /\ Done(e)
  /\ held' = [held EXCEPT ![e] = 0]
  /\ running' = running \ {e}
  /\ opened' = [opened EXCEPT ![e] = Nothing]
  /\ UNCHANGED <<up, fit, plain, sealed, unsealer, latest, build, faults>>
  /\ UNCHANGED <<phase, run, holds, skipped, moved, half, rebooted>>

Unseal(m) ==
  /\ Turn("unseal", m, m)
  /\ Done(m)
  /\ unsealer' = unsealer \cup {m}
  /\ UNCHANGED <<up, fit, plain, sealed, held, running, opened, latest, build, faults>>
  /\ UNCHANGED <<phase, run, holds, skipped, moved, half, rebooted>>

(* The sealed copy first, on every apply. *)
Seal(v, m) ==
  /\ Turn("write", <<v, m>>, m)
  /\ m \in Sealing /\ ~half
  /\ sealed' = [sealed EXCEPT ![m][v] = run.bytes[v]]
  /\ half' = TRUE
  /\ UNCHANGED <<up, fit, plain, unsealer, held, running, opened, latest, build, faults>>
  /\ UNCHANGED <<phase, todo, run, holds, skipped, moved, rebooted>>

WriteBut(v, m, written, changed) ==
  /\ Turn("write", <<v, m>>, m)
  /\ m \in Sealing => half
  /\ Done(<<v, m>>)
  /\ plain' = [plain EXCEPT ![m][v] = written]
  /\ moved' = moved \cup changed
  /\ half' = FALSE
  /\ UNCHANGED <<up, fit, sealed, unsealer, held, running, opened, latest, build, faults>>
  /\ UNCHANGED <<phase, run, holds, skipped, rebooted>>

(* Mutants: the pair is recorded the wrong way round; only a file that was *)
(* missing counts as moved; the plaintext does not wait for the copy.      *)
WriteSwapped(v, m) == WriteBut(v, m, run.bytes[v], {<<m, v>>})
WriteMovedIfMissing(v, m) ==
  WriteBut(v, m, run.bytes[v], IF plain[m][v] = 0 THEN {<<v, m>>} ELSE {})
WriteUnsealed(v, m) ==
  /\ Turn("write", <<v, m>>, m)
  /\ Done(<<v, m>>)
  /\ plain' = [plain EXCEPT ![m][v] = run.bytes[v]]
  /\ moved' = moved \cup {<<v, m>>}
  /\ half' = FALSE
  /\ UNCHANGED <<up, fit, sealed, unsealer, held, running, opened, latest, build, faults>>
  /\ UNCHANGED <<phase, run, holds, skipped, rebooted>>

Write(v, m) ==
  /\ Turn("write", <<v, m>>, m)
  /\ m \in Sealing => half
  /\ Done(<<v, m>>)
  /\ plain' = [plain EXCEPT ![m][v] = run.bytes[v]]
  /\ moved' = IF plain[m][v] # run.bytes[v] THEN moved \cup {<<v, m>>} ELSE moved
  /\ half' = FALSE
  /\ UNCHANGED <<up, fit, sealed, unsealer, held, running, opened, latest, build, faults>>
  /\ UNCHANGED <<phase, run, holds, skipped, rebooted>>

(* An activation puts the artifact in place of the one that is held and    *)
(* starts it.  Over the artifact already held, attaching starts nothing,   *)
(* and the endpoint may leave the units be or bring up what is down.       *)
Started(e) ==
  /\ running' = IF Starts(e, plain[On[e]]) THEN running \cup {e} ELSE running \ {e}
  /\ opened' = [opened EXCEPT ![e] = IF Starts(e, plain[On[e]]) THEN Opening(e, plain[On[e]])
                                                                ELSE Nothing]

Activate(e) ==
  /\ Turn("activate", e, On[e])
  /\ Done(e)
  /\ held' = [held EXCEPT ![e] = Artifact[run.build][e]]
  /\ \/ held[e] # Artifact[run.build][e] /\ Started(e)
     \/ held[e] = Artifact[run.build][e] /\ UNCHANGED <<running, opened>>
     \/ held[e] = Artifact[run.build][e] /\ e \in Flakelet \ running /\ Started(e)
  /\ UNCHANGED <<up, fit, plain, sealed, unsealer, latest, build, faults>>
  /\ UNCHANGED <<phase, run, holds, skipped, moved, half, rebooted>>

(* `systemctl try-restart`: a unit that is not running stays stopped. *)
Restart(v, e) ==
  /\ Turn("restart", <<v, e>>, On[e])
  /\ Done(<<v, e>>)
  /\ IF e \in running THEN Started(e) ELSE UNCHANGED <<running, opened>>
  /\ UNCHANGED <<up, fit, plain, sealed, unsealer, held, latest, build, faults>>
  /\ UNCHANGED <<phase, run, holds, skipped, moved, half, rebooted>>

(* The end of one `for` loop and the start of the next. *)
Loop ==
  /\ Looping /\ todo = {}
  /\ phase' = After[phase]
  /\ todo' = Work(After[phase])
  /\ UNCHANGED <<fleet, run, holds, skipped, moved, half, rebooted>>

Forget ==
  /\ phase' = "idle" /\ todo' = {} /\ run' = NoRun
  /\ holds' = {} /\ skipped' = {} /\ moved' = {} /\ half' = FALSE /\ rebooted' = {}

Return ==
  /\ phase = "done"
  /\ Forget
  /\ UNCHANGED fleet

(* Mutant: a step that fails is passed over and the run goes on.           *)
BreakPassedOver ==
  /\ Looping
  /\ Spend("break")
  /\ \E item \in todo : Done(item)
  /\ UNCHANGED <<machines, latest, build, phase, run, holds, skipped, moved, half, rebooted>>

(* The first step that fails ends the run, whatever made it fail: the      *)
(* machine, the network or the operator's own keyboard.                    *)
Break ==
  /\ Looping /\ todo # {}
  /\ Spend("break")
  /\ Forget
  /\ UNCHANGED <<machines, latest, build>>

(* Mutant: the preflight asks for the program that only the loop after it  *)
(* installs.                                                               *)
RefuseBare ==
  /\ phase = "preflight"
  /\ \E m \in todo : Turn("preflight", m, m) /\ m \notin fit \cap unsealer
  /\ Forget
  /\ UNCHANGED fleet

(* A machine whose account fails the preflight ends the run as well. *)
RefuseUnfit ==
  /\ phase = "preflight"
  /\ \E m \in todo : Turn("preflight", m, m) /\ m \notin fit
  /\ Forget
  /\ UNCHANGED fleet

(* An attach script cut off part way has detached what was there and       *)
(* attached nothing, or has attached and started nothing.                  *)
BreakAttach(e) ==
  /\ Turn("activate", e, On[e])
  /\ e \notin Flakelet
  /\ held[e] # Artifact[run.build][e]
  /\ Spend("break")
  /\ held' \in {[held EXCEPT ![e] = 0], [held EXCEPT ![e] = Artifact[run.build][e]]}
  /\ running' = running \ {e}
  /\ opened' = [opened EXCEPT ![e] = Nothing]
  /\ Forget
  /\ UNCHANGED <<up, fit, plain, sealed, unsealer, latest, build>>

(* The machine the loop's next step is taken on. *)
Target(item) ==
  CASE phase \in {"ask", "preflight", "unseal"} -> item
    [] phase \in {"retire", "activate"}         -> On[item]
    [] phase = "write"                          -> item[2]
    [] phase = "restart"                        -> On[item[2]]

(* A step against a machine that does not answer fails, and ends the run.  *)
Unreachable ==
  /\ Looping /\ phase # "ask"
  /\ \E item \in todo : /\ \A other \in todo \ {item} : Earlier(item, other)
                        /\ Target(item) \notin up
  /\ Forget
  /\ UNCHANGED fleet

RebootNow(m) ==
  /\ Reboot(m)
  /\ rebooted' = IF phase = "idle" THEN {} ELSE rebooted \cup {m}
  /\ UNCHANGED <<phase, todo, run, holds, skipped, moved, half>>

Step ==
  \/ \E m \in Machines : Ask(m) \/ Preflight(m) \/ Unseal(m)
  \/ \E e \in Entries : Retire(e) \/ Activate(e)
  \/ \E v \in Values, m \in Machines : Seal(v, m) \/ Write(v, m)
  \/ \E v \in Values, e \in Entries : Restart(v, e)
  \/ Loop \/ Return \/ RefuseUnfit \/ Unreachable

Unrestricted ==
  \/ \E retire \in BOOLEAN : BeginWhole(retire)
  \/ Step
  \/ Break
  \/ \E e \in Entries : BreakAttach(e)
  \/ \E m \in Machines : RebootNow(m)
  \/ World /\ UNCHANGED operator

Next == Unrestricted \/ \E retire \in BOOLEAN : BeginOnly(retire)

(* A run that has begun goes on; a machine that stopped answering and an   *)
(* account that fails the preflight are seen to; and the operator keeps    *)
(* applying the whole deployment, which is the recovery the manual names.  *)
Fairness ==
  /\ WF_vars(Step)
  /\ \A m \in Machines : WF_vars(Mend(m) /\ UNCHANGED operator)
  /\ \A m \in Machines : WF_vars(Repair(m) /\ UNCHANGED operator)
  /\ SF_vars(\E retire \in BOOLEAN : BeginWhole(retire))

Spec == Init /\ [][Next]_vars /\ Fairness

-----------------------------------------------------------------------------
TypeOK ==
  /\ FleetTypeOK
  /\ phase \in {"idle", "done"} \cup DOMAIN After
  /\ run \in [build : Builds, bytes : [Values -> Bytes], keys : SUBSET Entries,
              wanted : SUBSET Values, retire : BOOLEAN, behind : SUBSET Entries]
  /\ holds \subseteq Entries /\ skipped \subseteq Machines
  /\ moved \subseteq Values \X Machines
  /\ half \in BOOLEAN /\ rebooted \subseteq Machines

(* "An interrupted run never leaves a machine whose copy is older than the *)
(* plaintext beside it" (src/cli/apply.py:545), wherever it is interrupted *)
(* and whatever reboots in between.                                        *)
SealedNotOlder ==
  \A m \in Sealing : \A v \in Values : plain[m][v] <= sealed[m][v]

(* "An interrupted run then leaves a machine that can open whatever it     *)
(* already holds" (src/cli/apply.py:528).                                  *)
OpensWhatItHolds ==
  \A m \in Machines : \A v \in Values : sealed[m][v] # 0 => m \in unsealer

(* What there is of one value on one machine.                              *)
Promise(m, v) == INSTANCE Value WITH
  plain <- plain[m][v], copy <- sealed[m][v], latest <- latest[v], boots <- 0, cut <- FALSE

(* Each value of each machine that seals is at every step what `Value`     *)
(* promises, and more: not even a reboot takes the plaintext away, since   *)
(* wherever a run broke, what it wrote has a copy no older, and the        *)
(* machine an unsealer that opens it ("puts them back itself, before the   *)
(* entries that read them start", src/docs/operator.md:821).               *)
KeepsPromises ==
  /\ \A m \in Sealing, v \in Values : Promise(m, v)!Init
  /\ [][\A m \in Sealing, v \in Values :
          [Promise(m, v)!Next]_(Promise(m, v)!promise)]_vars

(* A run that reaches its end has put its own artifact and its own bytes   *)
(* everywhere it was answerable for, whatever broke before it; only a      *)
(* machine that keeps no copies and rebooted meanwhile has lost the bytes. *)
CompletedRunLeaves ==
  phase = "done" =>
    /\ \A e \in Taken : held[e] = Artifact[run.build][e]
    /\ \A w \in Planned :
         plain[w[2]][w[1]] = run.bytes[w[1]] \/ w[2] \in rebooted \ Sealing

(* What a completed run wrote has reached every process it answers for:    *)
(* none of its entries runs on other bytes than the file holds, unless it  *)
(* already did when the run began.                                         *)
ReachesReaders ==
  phase = "done" =>
    \A e \in (Taken \cap running) \ run.behind : \A v \in Reads[e] :
      opened[e][v] = plain[On[e]][v]

(* An artifact is put in place only where every value its units open is    *)
(* already the run's own, unless the machine lost it to a reboot.          *)
ActivatesOnItsValues ==
  [][\A e \in Entries :
       (phase = "activate" /\ held'[e] # held[e] /\ held'[e] # 0) =>
         \A v \in Reads[e] : \/ plain[On[e]][v] = run.bytes[v]
                             \/ On[e] \in rebooted \ Sealing]_vars

(* In a run asked to retire, nothing is activated on a machine that        *)
(* answered while it still holds what the build does not name: a renamed   *)
(* entry never meets its predecessor's ports and unit names.               *)
RetiresBeforeActivating ==
  [][\A e \in Entries :
       (phase = "activate" /\ run.retire /\ held'[e] # held[e] /\ On[e] \notin skipped) =>
         \A f \in Here(On[e]) \ Named(run.build) : held[f] = 0]_vars

(* A user-scope machine whose account fails the preflight has nothing put  *)
(* on it and nothing taken off it by any run: no step of a run changes an  *)
(* artifact, a value or a copy there, the unsealer, or what runs there and *)
(* the bytes it has open (`preflight`, src/cli/apply.py:511-516, before    *)
(* every loop that touches a machine).                                     *)
Untouched(m) ==
  /\ plain'[m] = plain[m] /\ sealed'[m] = sealed[m]
  /\ m \in unsealer <=> m \in unsealer'
  /\ \A e \in Here(m) : /\ held'[e] = held[e] /\ opened'[e] = opened[e]
                        /\ e \in running <=> e \in running'
UnfitIsUntouched ==
  [][(operator' # operator /\ ~\E m \in Machines : Reboot(m)) =>
       \A m \in UserScope \ fit : Untouched(m)]_vars

(* An entry is activated only after every entry of the run that the walk   *)
(* puts before it holds the run's artifact: a break leaves one boundary.   *)
OneBoundary ==
  [][\A e \in Entries :
       (phase = "activate" /\ held'[e] # held[e]) =>
         \A f \in Taken : At[run.build][f] < At[run.build][e]
                            => held[f] = Artifact[run.build][f]]_vars

(* Whatever broke, the operator who keeps applying gets there: from some   *)
(* moment on every entry of the build holds its artifact, and every        *)
(* machine that answers for a value holds the bytes last generated.        *)
Applied ==
  /\ \A e \in Named(build) \ Unitless : held[e] = Artifact[build][e]
  /\ \A v \in Values : \A m \in Delivery[v] \cap MachinesOf(Named(build)) :
       plain[m][v] = latest[v]
Converges == <>[]Applied

-----------------------------------------------------------------------------
(* What the repository says of a run and the code does not do. *)

(* "The recovery is another `apply` of the same build and the same         *)
(* `--values` directory" (docs/operator.md:1143): a run of the whole       *)
(* deployment that completes leaves no reader on the bytes before.         *)
RecoveryReachesReaders ==
  (phase = "done" /\ run.keys = Named(run.build)) =>
    \A e \in Taken \cap running : \A v \in Reads[e] : opened[e][v] = plain[On[e]][v]

============================================================================
