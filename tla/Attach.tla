------------------------------- MODULE Attach -------------------------------
(***************************************************************************)
(* The attach script of one image entry (src/image/default.nix), one       *)
(* action per statement that matters, run over and over on a machine where *)
(* it may be cut off, that may reboot, and whose units are also stopped    *)
(* and started by hand.                                                    *)
(*                                                                         *)
(* The entry is one unit.  It is shown one configuration file, assembled   *)
(* on the machine from a text and a generated value, and that file names   *)
(* the unit in its `reload`.                                               *)
(***************************************************************************)
EXTENDS Naturals, FiniteSets

CONSTANTS
  Versions,   \* per build, [image |-> ..., text |-> ...]
  UserScope,  \* whether the entry's machine is in user scope
  MaxBytes,   \* bound: generations of the value
  Faults      \* bound: how often each kind of thing may happen

Builds == DOMAIN Versions
Images == {Versions[b].image : b \in Builds}
FaultKinds == {"break", "reboot", "stop", "start", "publish", "retire"}

ASSUME AttachAssumption ==
  /\ Builds \subseteq Nat /\ 1 \in Builds
  /\ \A b \in Builds : Versions[b] \in [image : Nat \ {0}, text : Nat]
  /\ UserScope \in BOOLEAN
  /\ MaxBytes \in Nat \ {0}
  /\ Faults \in [FaultKinds -> Nat]

(* The bytes of the file are its text and the value's generation.          *)
NoFile == [text |-> 0, value |-> 0]
Files == {NoFile} \cup [text : {Versions[b].text : b \in Builds}, value : 1 .. MaxBytes]

(* A process is the image it runs from and the file it read.               *)
Down == [image |-> 0, file |-> NoFile]

VARIABLES
  value,     \* the generation of the value under /run, 0 for none
  staged,    \* the assembled file under /run
  pool,      \* the images in the account's pool
  attached,  \* the images portabled has attached for this entry
  process,   \* what the unit's process runs, or Down
  pc,        \* the statement the script is at, "idle" for no script
  target,    \* the build the script was made for
  rewrote,   \* `changed_0`: whether the script put the file in place
  held,      \* `held`: the image the manager said the unit runs from
  latest,    \* the value's generation in the operator's directory
  build,     \* the build the operator has
  faults,    \* how much of each kind is still to come
  found,     \* what the script began on (history)
  touched    \* what the script did to the process (history)

machine == <<value, staged, pool, attached, process>>
script == <<pc, target, rewrote, held, found, touched>>
world == <<latest, build, faults>>
vars == <<machine, script, world>>

Image == Versions[target].image
Candidate == [text |-> Versions[target].text, value |-> value]

Spend(kind) == /\ faults[kind] > 0
               /\ faults' = [faults EXCEPT ![kind] = @ - 1]

Found(b) ==
  LET image == Versions[b].image
      file == [text |-> Versions[b].text, value |-> value]
  IN [attached |-> attached = {image},
      matches  |-> attached = {image} /\ staged = file /\ (UserScope => image \in pool),
      behind   |-> process # Down /\ process.file # staged]

Init ==
  /\ value = 0 /\ staged = NoFile /\ pool = {} /\ attached = {} /\ process = Down
  /\ pc = "idle" /\ target = 1 /\ rewrote = FALSE /\ held = 0
  /\ latest = 1 /\ build = 1 /\ faults = Faults
  /\ found = Found(1) /\ touched = {}

-----------------------------------------------------------------------------
(* The script. *)
Begin ==
  /\ pc = "idle"
  /\ pc' = "assemble" /\ target' = build /\ rewrote' = FALSE /\ held' = 0
  /\ found' = Found(build) /\ touched' = {}
  /\ UNCHANGED <<machine, world>>

(* `references`: refused before anything is written.                       *)
RefuseAbsent ==
  /\ pc = "assemble"
  /\ value = 0
  /\ pc' = "idle"
  /\ UNCHANGED <<machine, target, rewrote, held, found, touched, world>>

(* Mutant: the file is put in place whatever bytes it already has.         *)
AssembleAlways ==
  /\ pc = "assemble"
  /\ value # 0
  /\ staged' = Candidate
  /\ rewrote' = TRUE
  /\ pc' = "place"
  /\ UNCHANGED <<value, pool, attached, process, target, held, found, touched, world>>

(* `assemble`: moved into place only where the bytes differ.               *)
Assemble ==
  /\ pc = "assemble"
  /\ value # 0
  /\ staged' = Candidate
  /\ rewrote' = (staged # Candidate)
  /\ pc' = "place"
  /\ UNCHANGED <<value, pool, attached, process, target, held, found, touched, world>>

Place ==
  /\ pc = "place"
  /\ pool' = IF UserScope THEN pool \cup {Image} ELSE pool
  /\ pc' = "ask"
  /\ UNCHANGED <<value, staged, attached, process, target, rewrote, held, found, touched, world>>

(* Mutant: a unit that is down is held to run from no image.               *)
AskRunning ==
  /\ pc = "ask"
  /\ held' = process.image
  /\ pc' = IF held' \in {0, Image} THEN "drop" ELSE "stop"
  /\ UNCHANGED <<machine, target, rewrote, found, touched, world>>

(* `systemctl show -P RootImage`: nothing where nothing is attached.       *)
Ask ==
  /\ pc = "ask"
  /\ held' \in IF attached = {} THEN {0} ELSE attached
  /\ pc' = IF held' \in {0, Image} THEN "drop" ELSE "stop"
  /\ UNCHANGED <<machine, target, rewrote, found, touched, world>>

(* Mutant: the units of the image to be replaced are left running.         *)
StopNothing ==
  /\ pc = "stop"
  /\ pc' = "detach"
  /\ UNCHANGED <<machine, target, rewrote, held, found, touched, world>>

Stop ==
  /\ pc = "stop"
  /\ process' = Down
  /\ touched' = touched \cup {"stopped"}
  /\ pc' = "detach"
  /\ UNCHANGED <<value, staged, pool, attached, target, rewrote, held, found, world>>

Detach ==
  /\ pc = "detach"
  /\ process = Down
  /\ attached' = attached \ {held}
  /\ pc' = "drop"
  /\ UNCHANGED <<value, staged, pool, process, target, rewrote, held, found, touched, world>>

(* portabled does not detach an image whose unit is running, and the       *)
(* script ends at the command that fails.                                  *)
DetachRefused ==
  /\ pc = "detach"
  /\ process # Down
  /\ pc' = "idle"
  /\ UNCHANGED <<machine, target, rewrote, held, found, touched, world>>

(* Mutant: the replaced image's copy stays in the pool.                    *)
DropNothing ==
  /\ pc = "drop"
  /\ pc' = "test"
  /\ UNCHANGED <<machine, target, rewrote, held, found, touched, world>>

(* Mutant: the pool is emptied of the image the unit ran from, be it this  *)
(* artifact's own.                                                         *)
DropHeld ==
  /\ pc = "drop"
  /\ pool' = IF UserScope THEN pool \ {held} ELSE pool
  /\ pc' = "test"
  /\ UNCHANGED <<value, staged, attached, process, target, rewrote, held, found, touched, world>>

(* `dropReplaced`, on every pass. *)
Drop ==
  /\ pc = "drop"
  /\ pool' = IF UserScope /\ held # Image THEN pool \ {held} ELSE pool
  /\ pc' = "test"
  /\ UNCHANGED <<value, staged, attached, process, target, rewrote, held, found, touched, world>>

(* `portablectl is-attached`, of this artifact's image.                    *)
Test ==
  /\ pc = "test"
  /\ pc' = IF Image \in attached THEN "reload" ELSE "attach"
  /\ UNCHANGED <<machine, target, rewrote, held, found, touched, world>>

Attach ==
  /\ pc = "attach"
  /\ attached' = attached \cup {Image}
  /\ pc' = "start"
  /\ UNCHANGED <<value, staged, pool, process, target, rewrote, held, found, touched, world>>

Start ==
  /\ pc = "start"
  /\ IF process = Down
     THEN /\ process' = [image |-> Image, file |-> staged]
          /\ touched' = touched \cup {"started"}
     ELSE UNCHANGED <<process, touched>>
  /\ pc' = "reload"
  /\ UNCHANGED <<value, staged, pool, attached, target, rewrote, held, found, world>>

(* Mutant: a reload that starts what is down.                              *)
ReloadDown ==
  /\ pc = "reload"
  /\ IF rewrote
     THEN /\ process' = [image |-> Image, file |-> staged]
          /\ touched' = touched \cup {IF process = Down THEN "started" ELSE "reloaded"}
     ELSE UNCHANGED <<process, touched>>
  /\ pc' = "done"
  /\ UNCHANGED <<value, staged, pool, attached, target, rewrote, held, found, world>>

(* Mutant: only the process this run started is shown the new bytes.       *)
ReloadNothing ==
  /\ pc = "reload"
  /\ pc' = "done"
  /\ UNCHANGED <<machine, target, rewrote, held, found, touched, world>>

(* `reload_unit`: a unit that is not running is left alone.                *)
Reload ==
  /\ pc = "reload"
  /\ IF rewrote /\ process # Down
     THEN /\ process' = [process EXCEPT !.file = staged]
          /\ touched' = touched \cup {"reloaded"}
     ELSE UNCHANGED <<process, touched>>
  /\ pc' = "done"
  /\ UNCHANGED <<value, staged, pool, attached, target, rewrote, held, found, world>>

Exit ==
  /\ pc = "done"
  /\ pc' = "idle"
  /\ UNCHANGED <<machine, target, rewrote, held, found, touched, world>>

Script ==
  \/ Assemble \/ RefuseAbsent \/ Place \/ Ask \/ Stop \/ Detach \/ DetachRefused \/ Drop
  \/ Test \/ Attach \/ Start \/ Reload \/ Exit

-----------------------------------------------------------------------------
(* What happens to the machine. *)

(* A statement that fails, or a script that is killed at one.              *)
Break ==
  /\ pc \notin {"idle", "done"}
  /\ Spend("break")
  /\ pc' = "idle"
  /\ UNCHANGED <<machine, target, rewrote, held, found, touched, latest, build>>

(* /run is emptied, the attachment and the pool are not, and the units     *)
(* carry no [Install]; whether the value is back is its machine's own      *)
(* record's matter.                                                        *)
Reboot ==
  /\ Spend("reboot")
  /\ value' \in {0, value} /\ staged' = NoFile /\ process' = Down
  /\ pc' = "idle"
  /\ UNCHANGED <<pool, attached, target, rewrote, held, found, touched, latest, build>>

StopByHand ==
  /\ process # Down
  /\ Spend("stop")
  /\ process' = Down
  /\ UNCHANGED <<value, staged, pool, attached, script, latest, build>>

StartByHand ==
  /\ process = Down /\ staged # NoFile
  /\ Spend("start")
  /\ \E image \in attached : process' = [image |-> image, file |-> staged]
  /\ UNCHANGED <<value, staged, pool, attached, script, latest, build>>

(* `apply` between two activations: the value written, the entry retired   *)
(* by its listed name, another build.                                      *)
Deliver ==
  /\ pc = "idle"
  /\ value' = latest
  /\ UNCHANGED <<staged, pool, attached, process, script, world>>

Retire ==
  /\ pc = "idle" /\ attached # {}
  /\ Spend("retire")
  /\ attached' = {} /\ process' = Down
  /\ UNCHANGED <<value, staged, pool, script, latest, build>>

Rotate ==
  /\ latest < MaxBytes
  /\ latest' = latest + 1
  /\ UNCHANGED <<machine, script, build, faults>>

Publish ==
  /\ Spend("publish")
  /\ build' \in Builds \ {build}
  /\ UNCHANGED <<machine, script, latest>>

Next ==
  \/ Begin \/ Script \/ Deliver
  \/ Break \/ Reboot \/ StopByHand \/ StartByHand \/ Retire \/ Rotate \/ Publish

(* The script goes on, and the operator keeps delivering and activating.   *)
Fairness == WF_vars(Script) /\ SF_vars(Deliver) /\ SF_vars(Begin)

Spec == Init /\ [][Next]_vars /\ Fairness

-----------------------------------------------------------------------------
TypeOK ==
  /\ value \in 0 .. MaxBytes /\ latest \in 1 .. MaxBytes
  /\ staged \in Files
  /\ pool \subseteq Images /\ attached \subseteq Images
  /\ process \in [image : {0} \cup Images, file : Files]
  /\ pc \in {"idle", "assemble", "place", "ask", "stop", "detach", "drop", "test",
             "attach", "start", "reload", "done"}
  /\ target \in Builds /\ build \in Builds
  /\ rewrote \in BOOLEAN
  /\ held \in {0} \cup Images
  /\ faults \in [FaultKinds -> Nat]
  /\ found \in [attached : BOOLEAN, matches : BOOLEAN, behind : BOOLEAN]
  /\ touched \subseteq {"stopped", "started", "reloaded"}

(* "The machine SHALL report exactly one image for that entry"             *)
(* (openspec/specs/realiser/portable-service-image/spec.md:438): wherever  *)
(* the scripts before were cut off, nothing is attached when a script asks *)
(* for its own image to be, and never two; portabled would refuse a second *)
(* with the unit files of the first.                                       *)
OneImage ==
  /\ Cardinality(attached) <= 1
  /\ pc = "attach" => attached = {}

(* What an account has attached is in its pool: what is dropped from there *)
(* is never what is attached.                                              *)
AttachedIsPlaced == UserScope => attached \subseteq pool

(* No replaced copy is left in an account's pool by scripts that reach     *)
(* their end; only one that was cut off, or a retirement, may leave one.   *)
PoolIsSwept ==
  (/\ UserScope /\ pc = "done"
   /\ \A kind \in {"break", "reboot", "start", "retire"} : faults[kind] = Faults[kind])
    => pool = {Image}

(* "A rerun over a running entry replaces no process": a script that began *)
(* on a machine matching its artifact does nothing to the process.         *)
LeavesWhatMatches == (pc = "done" /\ found.matches) => touched = {}

(* "A unit an operator stopped stays stopped" (src/image/default.nix:506): *)
(* over an image that is attached, no script ever starts the unit, not     *)
(* even to show it new bytes.                                              *)
StoppedStaysStopped ==
  (pc = "done" /\ found.attached) => "started" \notin touched

(* The process a script leaves behind has read the file that is there,     *)
(* unless it already had not when the script began.                        *)
ReadsWhatIsThere ==
  (pc = "done" /\ process # Down /\ ~found.behind) => process.file = staged

(* Activated over and over, the entry gets to the last build and the last  *)
(* value, wherever the scripts before were cut off.                        *)
Converges ==
  <>[](/\ attached = {Versions[build].image}
       /\ staged = [text |-> Versions[build].text, value |-> latest])

-----------------------------------------------------------------------------
(* What the repository says and the script does not do. *)

(* "Every unit the attachment names SHALL be running on the machine        *)
(* afterwards" (openspec/specs/operator/apply-command/spec.md:181) and "a  *)
(* configuration file whose bytes changed reloads the units it named"      *)
(* (openspec/specs/realiser/portable-service-image/spec.md:453): where     *)
(* nobody stops a unit and nothing reboots, a script that ends leaves its  *)
(* unit running on the file that is there.                                 *)
RunsWhatIsThere == pc = "done" => (process # Down /\ process.file = staged)
=============================================================================
