------------------------------- MODULE Command -------------------------------
(***************************************************************************)
(* One invocation after another of the operator's command                  *)
(* (src/cli/planner.py) on one record and one value source: what it        *)
(* refuses, and when.  `apply` is here for what it asks of the record      *)
(* before, between and after its dials (Apply has what its steps do), and  *)
(* the membership verbs of src/cli/enrollment.py step by step.             *)
(*                                                                         *)
(* "refused" is a refusal of the command's own; "broken" a step a machine  *)
(* refused, did not answer, or an operator interrupted.                    *)
(***************************************************************************)
EXTENDS Source

CONSTANTS
  Records,     \* the records a target may name
  Sources,     \* the value sources an operator may hold
  Machines,
  Selections,  \* what --only may name, {} for nothing
  MaxMints     \* bound: credentials the server mints

ASSUME SourcesAssumption ==
  \A s \in Sources : DOMAIN s = {"named", "directory", "at"}

Verbs == {"plan", "build", "apply", "invite", "members", "expel"}
Programs == {"works", "refuses", "missing"}

VARIABLES
  record,    \* what the command is run on, fixed
  source,    \* and the bytes it is given
  run,       \* the invocation: its verb and flags
  phase,     \* where it stands, "idle" between two
  todo,      \* what the loop it is in has left
  held,      \* the machines that hold what the record does not name
  changed,   \* whether it has changed any machine
  minted,    \* how many credentials the server has minted
  before     \* the bytes of the source when it began (history)

vars == <<record, source, run, phase, todo, held, changed, minted, before>>

Invocations ==
  [verb : Verbs \ {"apply"}, only : {{}}, dry : {FALSE}, retire : {FALSE}]
    \cup [verb : {"apply"}, only : Selections, dry : BOOLEAN, retire : BOOLEAN]

NoRun == [verb |-> "plan", only |-> {}, dry |-> FALSE, retire |-> FALSE]

Init ==
  /\ record \in Records /\ source \in Sources
  /\ run = NoRun
  /\ phase = "idle" /\ todo = {} /\ held = {}
  /\ changed = FALSE
  /\ minted = 0 /\ before = source.at

-----------------------------------------------------------------------------
(* `resolve`: a directory with a manifest is itself, a store path that is  *)
(* gone and a directory that is neither are refused, the rest is built.    *)
Targets ==
  [is : {"built directory", "collected path", "bare directory"}, builds : {"nothing"}]
    \cup [is : {"reference"}, builds : {"nothing", "something else", "a deployment"}]

Resolves(target) ==
  target.is = "built directory" \/ (target.is = "reference" /\ target.builds = "a deployment")

Invoke(invocation) ==
  /\ phase = "idle"
  /\ run' = invocation
  /\ phase' = "reading"
  /\ before' = source.at
  /\ UNCHANGED <<record, source, todo, held, changed, minted>>

Read(target) ==
  /\ phase = "reading"
  /\ phase' = IF Resolves(target) /\ Readable(record) THEN "preparing" ELSE "refused"
  /\ UNCHANGED <<record, source, run, todo, held, changed, minted, before>>

(* `plan` and `build` print what was read. *)
Show ==
  /\ phase = "preparing" /\ run.verb \in {"plan", "build"}
  /\ phase' = "returned"
  /\ UNCHANGED <<record, source, run, todo, held, changed, minted, before>>

-----------------------------------------------------------------------------
(* `selection`: the entries a run applies and the values it names. *)
Keys == IF run.only = {} THEN DOMAIN record.entries ELSE run.only \cap DOMAIN record.entries
Named == run.only \cap DOMAIN record.values

Taken == {e \in Keys : record.entries[e].path # "none"}
TakenOn == {record.entries[e].machine : e \in Taken}
Goes == Reaching(record, {record.entries[e].machine : e \in Keys}, Named)
Writes == UNION {{path} \X Goes[path[1]] : path \in Required(record, DOMAIN Goes)}
WrittenTo == {write[2] : write \in Writes}

Selectable == run.only \subseteq DOMAIN record.entries \cup DOMAIN record.values
Walkable == \A e \in Keys : record.entries[e].reads # "unknown"

(* Mutant: the artifacts of images are not looked into.                    *)
DiallableImagesUnread(e) ==
  EntryScope(record, e) /\ Activation(record, e) /\ AddressOf(record, e)

(* The scope, the script, the address, and for an image the file it names. *)
Diallable(e) ==
  /\ EntryScope(record, e) /\ Activation(record, e) /\ AddressOf(record, e)
  /\ record.entries[e].realiser = "image" => Declared(record, e)

(* Everything `apply` decides before its first dial. *)
Prepared(program) ==
  /\ ~Errors(record)
  /\ Selectable
  /\ Check(record, source, DOMAIN Goes)
  /\ Seals(record, Goes, program)
  /\ Walkable
  /\ \A e \in Taken : Diallable(e)

Prepare(program) ==
  /\ phase = "preparing" /\ run.verb = "apply"
  /\ IF Prepared(program)
       THEN phase' = "asking" /\ todo' = TakenOn
       ELSE phase' = "refused" /\ UNCHANGED todo
  /\ UNCHANGED <<record, source, run, held, changed, minted, before>>

-----------------------------------------------------------------------------
(* A machine says which of its tools answered, and of the images it lists  *)
(* whose they are: 0 for nobody's.  `_image_claims` reads the artifacts of *)
(* the image entries in key order until it finds the owner.                *)
Images == {e \in DOMAIN record.entries :
             record.entries[e].realiser = "image" /\ record.entries[e].path # "none"}

Answers(m) ==
  {a \in [tools : SUBSET Reach(record, m), owners : SUBSET ({0} \cup Images), strange : BOOLEAN] :
     /\ a.owners # {} => "image" \in a.tools
     /\ a.strange => "flakelet" \in a.tools}

Attributable(answer) ==
  /\ \A name \in answer.tools : Attributes(record, name)
  /\ \A owner \in answer.owners : \A e \in Images :
       (owner = 0 \/ e <= owner) => Declared(record, e)

(* A machine that does not answer at all is left alone, as one whose tools *)
(* are all missing is; one that fails at the question ends the run.        *)
Unreadable(m) ==
  /\ phase = "asking" /\ m \in todo
  /\ ~run.dry /\ MachineScope(record, m) /\ Reach(record, m) # {}
  /\ phase' = "refused"
  /\ UNCHANGED <<record, source, run, todo, held, changed, minted, before>>

Ask(m) ==
  /\ phase = "asking" /\ m \in todo
  /\ MachineScope(record, m)
  /\ todo' = todo \ {m}
  /\ IF run.dry \/ Reach(record, m) = {} THEN UNCHANGED <<phase, held>>
     ELSE \E answer \in Answers(m) :
       IF Attributable(answer)
         THEN /\ held' = IF 0 \in answer.owners \/ answer.strange THEN held \cup {m} ELSE held
              /\ UNCHANGED phase
         ELSE phase' = "refused" /\ UNCHANGED held
  /\ UNCHANGED <<record, source, run, changed, minted, before>>

(* The scope of a machine is asked of the plan only now, and in the loops  *)
(* of the preflight and of the writes, for every machine of each.          *)
Scopeless(m) ==
  /\ phase = "asking" /\ m \in todo
  /\ ~MachineScope(record, m)
  /\ phase' = "refused"
  /\ UNCHANGED <<record, source, run, todo, held, changed, minted, before>>

Accounts == {m \in TakenOn \cup WrittenTo : InUserScope(record, m)}

Question ==
  /\ phase = "asking" /\ todo = {}
  /\ IF \A m \in TakenOn \cup WrittenTo : MachineScope(record, m)
       THEN phase' = "verifying" /\ todo' = Accounts
       ELSE phase' = "refused" /\ UNCHANGED todo
  /\ UNCHANGED <<record, source, run, held, changed, minted, before>>

(* `verify`: an account that answers that a fact does not hold. *)
Preflight(m) ==
  /\ phase = "verifying" /\ m \in todo
  /\ todo' = todo \ {m}
  /\ phase' \in IF run.dry THEN {phase} ELSE {phase, "refused"}
  /\ UNCHANGED <<record, source, run, held, changed, minted, before>>

-----------------------------------------------------------------------------
(* The loops that change machines, and what each step takes of the record. *)
(* Their order within a loop is of no account here.                        *)
Mutating == {"retiring", "unsealing", "writing", "activating", "restarting"}

After == [verifying |-> "retiring", retiring |-> "unsealing", unsealing |-> "writing",
          writing |-> "activating", activating |-> "restarting", restarting |-> "returned"]

Items(p) ==
  CASE p = "retiring"   -> IF run.retire THEN held ELSE {}
    [] p = "unsealing"  -> Sealing(record, Goes)
    [] p = "writing"    -> WrittenTo
    [] p \in {"activating", "restarting"} -> Taken
    [] OTHER            -> {}

(* An artifact whose own record names nothing fails on the machine.        *)
Fit(p, item) ==
  CASE p = "retiring"   -> MachineScope(record, item)
    [] p = "unsealing"  -> MachineOf(record, item) /\ MachineScope(record, item)
    [] p = "writing"    -> MachineAddress(record, item) /\ MachineScope(record, item)
    [] p = "activating" -> /\ EntryScope(record, item) /\ AddressOf(record, item)
                           /\ Declared(record, item)
    [] p = "restarting" -> record.entries[item].reads # "unknown"

Loop ==
  /\ phase \in DOMAIN After /\ todo = {}
  /\ phase' = After[phase]
  /\ todo' = Items(After[phase])
  /\ UNCHANGED <<record, source, run, held, changed, minted, before>>

Change(item) ==
  /\ phase \in Mutating /\ item \in todo
  /\ IF Fit(phase, item)
       THEN /\ todo' = todo \ {item} /\ UNCHANGED phase
            /\ changed' = (changed \/ ~run.dry)
       ELSE phase' = "refused" /\ UNCHANGED <<todo, changed>>
  /\ UNCHANGED <<record, source, run, held, minted, before>>

(* A machine that refuses a step, or answers no longer, ends any command.  *)
Break ==
  /\ ~run.dry /\ todo # {}
  /\ phase \in Mutating \cup {"verifying", "minting", "coordinating"}
  /\ phase' = "broken"
  /\ UNCHANGED <<record, source, run, todo, held, changed, minted, before>>

-----------------------------------------------------------------------------
(* The membership verbs.  `_credential` is asked by `invite` alone. *)
Hub == record.coordination.entry
Credential == record.coordination.credential

Coordinated ==
  /\ record.coordination.words = "given"
  /\ ~Errors(record)
  /\ Hub \in DOMAIN record.entries
  /\ AddressOf(record, Hub)
  /\ EntryScope(record, Hub)

Mintable ==
  /\ Credential \in DOMAIN record.values
  /\ record.values[Credential].program = "given"
  /\ record.values[Credential].files # {}

(* `expel` of a machine the registry declares is refused before all else.  *)
Address ==
  /\ phase = "preparing" /\ run.verb \in {"invite", "members", "expel"}
  /\ \E registered \in (IF run.verb = "expel" THEN BOOLEAN ELSE {FALSE}) :
       phase' = IF registered \/ ~Coordinated \/ (run.verb = "invite" /\ ~Mintable) THEN "refused"
                ELSE IF run.verb = "invite" THEN "minting" ELSE "coordinating"
  /\ todo' = {Hub}
  /\ UNCHANGED <<record, source, run, held, changed, minted, before>>

(* The machine may not hold the program, in the command's words a refusal. *)
Coordinate ==
  /\ phase = "coordinating"
  /\ \/ phase' = "returned" /\ changed' = (run.verb = "expel")
     \/ phase' = "refused" /\ UNCHANGED changed
  /\ todo' = {}
  /\ UNCHANGED <<record, source, run, held, minted, before>>

(* The program runs where the server answers, and the server has minted,   *)
(* whether or not the answer comes back.                                   *)
Declares == record.values[Credential].files

(* Mutant: the files that came back are taken for those that were asked.   *)
WholeEnough(files) == files # {}

(* What the program wrote is what the plan names, no more and no less.     *)
Whole(files) == files = Declares

NotHeld ==
  /\ phase = "minting"
  /\ phase' = "refused" /\ todo' = {}
  /\ UNCHANGED <<record, source, run, held, changed, minted, before>>

Mint(wrote) ==
  /\ phase = "minting" /\ minted < MaxMints
  /\ minted' = minted + 1
  /\ IF Whole(wrote)
       THEN phase' = "filling" /\ todo' = wrote \cap Declares
       ELSE phase' = "refused" /\ todo' = {}
  /\ UNCHANGED <<record, source, run, held, changed, before>>

AnswerLost ==
  /\ phase = "minting" /\ minted < MaxMints
  /\ minted' = minted + 1
  /\ phase' = "broken" /\ todo' = {}
  /\ UNCHANGED <<record, source, run, held, changed, before>>

(* One file after another; nothing makes them one write. *)
Fill(file) ==
  /\ phase = "filling" /\ file \in todo
  /\ source' = [source EXCEPT !.at = [path \in DOMAIN source.at \cup {<<Credential, file>>} |->
                  IF path = <<Credential, file>> THEN minted ELSE source.at[path]]]
  /\ todo' = todo \ {file}
  /\ UNCHANGED <<record, run, phase, held, changed, minted, before>>

Filled ==
  /\ phase = "filling" /\ todo = {}
  /\ phase' = "returned"
  /\ UNCHANGED <<record, source, run, todo, held, changed, minted, before>>

Interrupt ==
  /\ phase = "filling" /\ todo # {}
  /\ phase' = "broken"
  /\ UNCHANGED <<record, source, run, todo, held, changed, minted, before>>

Return ==
  /\ phase \in {"returned", "refused", "broken"}
  /\ phase' = "idle" /\ run' = NoRun /\ todo' = {} /\ held' = {}
  /\ changed' = FALSE
  /\ UNCHANGED <<record, source, minted, before>>

Next ==
  \/ \E invocation \in Invocations : Invoke(invocation)
  \/ \E target \in Targets : Read(target)
  \/ \E program \in Programs : Prepare(program)
  \/ Show \/ Question \/ Loop \/ Break
  \/ \E m \in Machines : Ask(m) \/ Unreadable(m) \/ Scopeless(m) \/ Preflight(m)
  \/ \E item \in todo : Change(item) \/ Fill(item)
  \/ Address \/ Coordinate \/ NotHeld \/ AnswerLost \/ Filled \/ Interrupt \/ Return
  \/ phase = "minting" /\ \E wrote \in SUBSET (Declares \cup {"stray"}) : Mint(wrote)

Spec == Init /\ [][Next]_vars

-----------------------------------------------------------------------------
(* Whatever the record and the source are, a run that finds fault with     *)
(* them does so before it has changed any machine: everything a later step *)
(* needs of them was asked of them before the first one.  What is left to  *)
(* go wrong half way is a machine's doing.                                 *)
RefusedUnchanged == phase = "refused" => ~changed

(* An invite that returns leaves in the source all the files of one        *)
(* minting, the one it made, whatever earlier invites were interrupted or  *)
(* lost; one the command refuses leaves the source as it was, though the   *)
(* server may have minted.                                                 *)
CompletedMint ==
  run.verb = "invite" =>
    /\ phase = "returned" => \A file \in Declares :
         /\ <<Credential, file>> \in DOMAIN source.at
         /\ source.at[<<Credential, file>>] = minted
    /\ phase = "refused" => source.at = before

(* An invite for a credential no machine receives, finished or cut off in  *)
(* the middle, never makes of a source `apply` accepts one it refuses: the *)
(* two share the directory (src/cli/planner.py:289).                       *)
InviteKeepsSourceFit ==
  [][(/\ Credential \in DOMAIN record.values
      /\ record.values[Credential].delivery = {}
      /\ Check(record, source, Delivered(record))) => Check(record, source', Delivered(record))]_source
=============================================================================
