----------------------------- MODULE ValueFile -----------------------------
(***************************************************************************)
(* One value on one machine that seals: the scripts that write its sealed  *)
(* copy (`seal_script`) and its plaintext (`write_script`,                 *)
(* src/cli/remote.py), and the restore of it at boot (`restoreOf`,         *)
(* src/operator/default.nix), one action per command that matters.         *)
(*                                                                         *)
(* A script runs on the machine and outlives its connection: when that is  *)
(* cut, `cat` sees the end of its input, at once or after as long as the   *)
(* network takes to say so, and the script goes on.                        *)
(***************************************************************************)
EXTENDS Naturals, FiniteSets

CONSTANTS
  MaxBytes,      \* bound: generations of the value
  Connections,   \* bound: scripts of runs on the machine at once
  Records,       \* bound: what builds record of its owner and its mode
  Root,          \* root's own, as a temporary and a sealed copy are
  WaitsForBoot,  \* whether a run begins only after the restore ended
  Faults         \* bound: how often each kind of thing may happen

FaultKinds == {"cut", "kill", "reboot"}

ASSUME ValueFileAssumption ==
  /\ MaxBytes \in Nat \ {0} /\ Connections \in Nat \ {0}
  /\ Root \notin Records
  /\ WaitsForBoot \in BOOLEAN
  /\ Faults \in [FaultKinds -> Nat]

Kinds == {"seal", "write", "restore"}
Names == {"path", "path.planner", "path.unsealing", "sealed", "sealed.planner"}
Dest == [seal |-> "sealed", write |-> "path", restore |-> "path"]
Tmp == [seal |-> "sealed.planner", write |-> "path.planner", restore |-> "path.unsealing"]
Temporaries == {Tmp[kind] : kind \in Kinds}
Volatile == {"path", "path.planner", "path.unsealing"}  \* /run

Boot == 0                       \* the restore's slot
Slots == {Boot} \cup 1 .. Connections
Owners == Records \cup {Root}

VARIABLES
  file,       \* by name: the generation it is of, how much of it there is,
              \* which script still writes to it, whose record its owner is
              \* and whose its mode
  script,     \* by slot: what it writes and for which record, where it is, and
              \* whether the one who started it still listens
  run,        \* the operator's run: its step, its slot, its bytes and the
              \* record of its build
  latest,     \* the generation in the operator's directory
  faults,     \* how much of each kind is still to come
  delivered   \* the last generation a run was told is written (history)

vars == <<file, script, run, latest, faults, delivered>>

None == [of |-> 0, bytes |-> "none", by |-> Boot, owner |-> Root, mode |-> Root]
Empty(of) == [None EXCEPT !.of = of, !.bytes = "empty"]
Gone == [kind |-> "restore", pc |-> "gone", of |-> 0, record |-> Root, live |-> FALSE]
NoRun == [step |-> "idle", slot |-> Boot, of |-> 0, record |-> Root]

(* A sealed copy is root's own, whatever is recorded of the plaintext.     *)
Starting(kind, of, record) ==
  [kind |-> kind, pc |-> "create", of |-> of, live |-> TRUE,
   record |-> IF kind = "seal" THEN Root ELSE record]

At(s, pc) == script[s].pc = pc
Held(s) == file[Tmp[script[s].kind]]
Goto(s, pc) == script' = [script EXCEPT ![s].pc = pc]
Is(name) == file[name].bytes # "none"

(* A script that ends closes what it was writing to.                       *)
Closed(f, s) == [n \in Names |-> IF f[n].by = s THEN [f[n] EXCEPT !.by = Boot] ELSE f[n]]

(* `set -eu` under `trap 'rm -f "$tmp"' EXIT`.                             *)
Fail(s) ==
  /\ file' = [file EXCEPT ![Tmp[script[s].kind]] = None]
  /\ script' = [script EXCEPT ![s] = Gone]

Spend(kind) == /\ faults[kind] > 0
               /\ faults' = [faults EXCEPT ![kind] = @ - 1]

Init ==
  /\ file = [n \in Names |-> None]
  /\ script = [s \in Slots |-> Gone]
  /\ run = NoRun
  /\ latest = 1 /\ faults = Faults /\ delivered = 0

operator == <<run, latest, faults, delivered>>

-----------------------------------------------------------------------------
(* Mutant: a temporary left by another script is not replaced.             *)
CreateExclusive(s) ==
  /\ At(s, "create")
  /\ IF Is(Tmp[script[s].kind])
     THEN script' = [script EXCEPT ![s] = Gone] /\ UNCHANGED file
     ELSE /\ file' = [file EXCEPT ![Tmp[script[s].kind]] = Empty(script[s].of)]
          /\ Goto(s, IF s = Boot THEN "decrypt" ELSE "open")
  /\ UNCHANGED operator

(* Mutant: the temporary has the record's mode from the beginning.         *)
CreateAdmitted(s) ==
  /\ At(s, "create")
  /\ file' = [file EXCEPT ![Tmp[script[s].kind]] = [Empty(script[s].of) EXCEPT !.mode = script[s].record]]
  /\ Goto(s, IF s = Boot THEN "decrypt" ELSE "open")
  /\ UNCHANGED operator

(* `install -m 0600 /dev/null "$tmp"`: a new file, whatever had the name.  *)
Create(s) ==
  /\ At(s, "create")
  /\ file' = [file EXCEPT ![Tmp[script[s].kind]] = Empty(script[s].of)]
  /\ Goto(s, IF s = Boot THEN "decrypt" ELSE "open")
  /\ UNCHANGED operator

(* Mutant: the bytes are written where they belong, without a temporary.   *)
OpenDest(s) ==
  /\ At(s, "open")
  /\ file' = [file EXCEPT ![Dest[script[s].kind]] = [Empty(script[s].of) EXCEPT !.by = s]]
  /\ Goto(s, "read")
  /\ UNCHANGED operator

(* `cat > "$tmp"`: truncates the file that has the name, or makes one.     *)
Open(s) ==
  /\ At(s, "open")
  /\ file' = [file EXCEPT ![Tmp[script[s].kind]] =
                [@ EXCEPT !.of = script[s].of, !.bytes = "empty", !.by = s]]
  /\ Goto(s, "read")
  /\ UNCHANGED operator

(* The file that is written to is the one that was opened, whatever name   *)
(* it has by now, if it still has one.                                     *)
Filled(s, bytes) ==
  [n \in Names |-> IF file[n].by = s THEN [file[n] EXCEPT !.bytes = bytes] ELSE file[n]]

ReceiveSome(s) ==
  /\ At(s, "read") /\ script[s].live
  /\ file' = Filled(s, "part") /\ file' # file
  /\ UNCHANGED <<script, operator>>

ReceiveAll(s) ==
  /\ At(s, "read") /\ script[s].live
  /\ file' = Closed(Filled(s, "whole"), s)
  /\ Goto(s, "own")
  /\ UNCHANGED operator

(* The end of a connection is the end of the input.                        *)
EndOfInput(s) ==
  /\ At(s, "read") /\ ~script[s].live
  /\ file' = Closed(file, s)
  /\ Goto(s, "own")
  /\ UNCHANGED operator

Own(s) ==
  /\ At(s, "own")
  /\ IF Is(Tmp[script[s].kind])
     THEN /\ file' = [file EXCEPT ![Tmp[script[s].kind]].owner = script[s].record]
          /\ Goto(s, "admit")
     ELSE Fail(s)
  /\ UNCHANGED operator

Admit(s) ==
  /\ At(s, "admit")
  /\ IF Is(Tmp[script[s].kind])
     THEN /\ file' = [file EXCEPT ![Tmp[script[s].kind]].mode = script[s].record]
          /\ Goto(s, IF script[s].kind = "write" THEN "compare" ELSE "move")
     ELSE Fail(s)
  /\ UNCHANGED operator

(* `cmp -s`: both there, and the same bytes.                               *)
Same(f, g) ==
  /\ f.bytes # "none" /\ f.bytes = g.bytes
  /\ f.of = g.of \/ f.bytes = "empty"

(* Mutant: a value that is there is taken for the value.                   *)
CompareExists(s) ==
  /\ At(s, "compare")
  /\ Goto(s, IF Is("path") THEN "drop" ELSE "move")
  /\ UNCHANGED <<file, operator>>

Compare(s) ==
  /\ At(s, "compare")
  /\ Goto(s, IF Same(Held(s), file["path"]) THEN "drop" ELSE "move")
  /\ UNCHANGED <<file, operator>>

(* Mutant: the temporary is left where the bytes had not changed.          *)
DropNothing(s) ==
  /\ At(s, "drop")
  /\ Goto(s, "restate")
  /\ UNCHANGED <<file, operator>>

Drop(s) ==
  /\ At(s, "drop")
  /\ file' = [file EXCEPT !["path.planner"] = None]
  /\ Goto(s, "restate")
  /\ UNCHANGED operator

Move(s) ==
  LET kind == script[s].kind
      next == [seal |-> "said", write |-> "restate", restore |-> "gone"]
  IN /\ At(s, "move")
     /\ IF Is(Tmp[kind])
        THEN /\ file' = [file EXCEPT ![Dest[kind]] = file[Tmp[kind]], ![Tmp[kind]] = None]
             /\ script' = IF s = Boot THEN [script EXCEPT ![s] = Gone]
                                      ELSE [script EXCEPT ![s].pc = next[kind]]
        ELSE Fail(s)
     /\ UNCHANGED operator

(* `chmod` of the path itself, the trap being off, and then its `chown`.   *)
Restate(s) ==
  /\ At(s, "restate")
  /\ IF Is("path")
     THEN file' = [file EXCEPT !["path"].mode = script[s].record] /\ Goto(s, "reown")
     ELSE script' = [script EXCEPT ![s] = Gone] /\ UNCHANGED file
  /\ UNCHANGED operator

Reown(s) ==
  /\ At(s, "reown")
  /\ IF Is("path")
     THEN file' = [file EXCEPT !["path"].owner = script[s].record] /\ Goto(s, "said")
     ELSE script' = [script EXCEPT ![s] = Gone] /\ UNCHANGED file
  /\ UNCHANGED operator

(* Nobody reads what a script that lost its connection prints.             *)
Unheard(s) ==
  /\ At(s, "said") /\ ~script[s].live
  /\ script' = [script EXCEPT ![s] = Gone]
  /\ UNCHANGED <<file, operator>>

(* The restore: a plaintext that is there is left alone, a copy that is    *)
(* not there or does not open is passed over.                              *)
Test ==
  /\ At(Boot, "test")
  /\ script' = [script EXCEPT ![Boot] = IF Is("path") THEN Gone ELSE [@ EXCEPT !.pc = "seek"]]
  /\ UNCHANGED <<file, operator>>

Seek ==
  /\ At(Boot, "seek")
  /\ script' = [script EXCEPT ![Boot] = IF Is("sealed") THEN [@ EXCEPT !.pc = "create"] ELSE Gone]
  /\ UNCHANGED <<file, operator>>

Decrypt ==
  /\ At(Boot, "decrypt")
  /\ IF file["sealed"].bytes = "whole"
     THEN /\ file' = [file EXCEPT !["path.unsealing"].of = file["sealed"].of,
                                  !["path.unsealing"].bytes = "whole"]
          /\ Goto(Boot, "own")
     ELSE Fail(Boot)
  /\ UNCHANGED operator

Script(s) ==
  \/ Create(s) \/ Open(s) \/ ReceiveSome(s) \/ ReceiveAll(s) \/ EndOfInput(s)
  \/ Own(s) \/ Admit(s) \/ Compare(s) \/ Drop(s) \/ Move(s)
  \/ Restate(s) \/ Reown(s) \/ Unheard(s)
  \/ s = Boot /\ (Test \/ Seek \/ Decrypt)

-----------------------------------------------------------------------------
(* The operator. *)
Free == {s \in Slots \ {Boot} : At(s, "gone")}

(* Commands take no time next to a person's: of the scripts of broken      *)
(* runs, only those that wait for their input are still there.             *)
Settled ==
  /\ \A s \in Slots \ {Boot} : script[s].pc \in {"gone", "read"}
  /\ WaitsForBoot => At(Boot, "gone")

(* Mutant: a machine that has a copy is not sent another.                  *)
BeginSealedOnce ==
  LET kind == IF Is("sealed") THEN "write" ELSE "seal"
  IN /\ run.step = "idle" /\ Settled
     /\ \E s \in Free, record \in Records :
          /\ \A t \in Free : s <= t
          /\ run' = [step |-> kind, slot |-> s, of |-> latest, record |-> record]
          /\ script' = [script EXCEPT ![s] = Starting(kind, latest, record)]
     /\ UNCHANGED <<file, latest, faults, delivered>>

(* A run of some build reads its bytes once, and writes the copy first.    *)
Begin ==
  /\ run.step = "idle" /\ Settled
  /\ \E s \in Free, record \in Records :
       /\ \A t \in Free : s <= t
       /\ run' = [step |-> "seal", slot |-> s, of |-> latest, record |-> record]
       /\ script' = [script EXCEPT ![s] = Starting("seal", latest, record)]
  /\ UNCHANGED <<file, latest, faults, delivered>>

Answered(s) == run.step # "idle" /\ run.slot = s /\ At(s, "said") /\ script[s].live

SealedThenWrite ==
  /\ run.step = "seal" /\ Answered(run.slot)
  /\ run' = [run EXCEPT !.step = "write"]
  /\ script' = [script EXCEPT ![run.slot] = Starting("write", run.of, run.record)]
  /\ UNCHANGED <<file, latest, faults, delivered>>

Return ==
  /\ run.step = "write" /\ Answered(run.slot)
  /\ run' = NoRun
  /\ script' = [script EXCEPT ![run.slot] = Gone]
  /\ delivered' = run.of
  /\ UNCHANGED <<file, latest, faults>>

GiveUp ==
  /\ run.step # "idle" /\ At(run.slot, "gone")
  /\ run' = NoRun
  /\ UNCHANGED <<file, script, latest, faults, delivered>>

-----------------------------------------------------------------------------
(* What happens. *)

(* The network, or the operator's own interrupt.                           *)
Cut ==
  /\ run.step # "idle" /\ ~At(run.slot, "gone")
  /\ Spend("cut")
  /\ script' = [script EXCEPT ![run.slot].live = FALSE]
  /\ run' = NoRun
  /\ UNCHANGED <<file, latest, delivered>>

Kill(s) ==
  /\ ~At(s, "gone")
  /\ Spend("kill")
  /\ script' = [script EXCEPT ![s] = Gone]
  /\ file' = Closed(file, s)
  /\ UNCHANGED <<run, latest, delivered>>

(* The restore is of whichever build the machine has its unsealer of.      *)
Reboot ==
  /\ Spend("reboot")
  /\ file' = [n \in Names |-> IF n \in Volatile THEN None ELSE [file[n] EXCEPT !.by = Boot]]
  /\ \E record \in Records :
       script' = [s \in Slots |->
                   IF s = Boot THEN [Gone EXCEPT !.pc = "test", !.record = record] ELSE Gone]
  /\ run' = NoRun
  /\ UNCHANGED <<latest, delivered>>

Rotate ==
  /\ latest < MaxBytes
  /\ latest' = latest + 1
  /\ UNCHANGED <<file, script, run, faults, delivered>>

Next ==
  \/ \E s \in Slots : Script(s) \/ Kill(s)
  \/ Begin \/ SealedThenWrite \/ Return \/ GiveUp
  \/ Cut \/ Reboot \/ Rotate

Fairness ==
  /\ \A s \in Slots : WF_vars(Script(s))
  /\ WF_vars(Begin \/ SealedThenWrite \/ Return \/ GiveUp)

Spec == Init /\ [][Next]_vars /\ Fairness

-----------------------------------------------------------------------------
Unspent(kind) == faults[kind] = Faults[kind]
Quiet == \A s \in Slots : At(s, "gone")

(* A file is written to by a script that is reading, and what a restore    *)
(* made is empty or whole.                                                 *)
TypeOK ==
  /\ file \in [Names -> [of : 0 .. MaxBytes, bytes : {"none", "empty", "part", "whole"},
                         by : Slots, owner : Owners, mode : Owners]]
  /\ script \in [Slots -> [kind : Kinds, of : 0 .. MaxBytes, record : Owners, live : BOOLEAN,
                           pc : {"gone", "create", "open", "read", "own", "admit", "compare", "drop",
                                 "move", "restate", "reown", "said", "test", "seek", "decrypt"}]]
  /\ run \in [step : {"idle", "seal", "write"}, slot : Slots, of : 0 .. MaxBytes, record : Owners]
  /\ latest \in 1 .. MaxBytes /\ delivered \in 0 .. MaxBytes
  /\ faults \in [FaultKinds -> Nat]
  /\ \A n \in Names : file[n].by # Boot => At(file[n].by, "read")
  /\ file["path.unsealing"].bytes # "part"

(* "An interrupted run leaves the previous file or none, and never a       *)
(* fragment" (src/cli/remote.py:419), wherever scripts are killed and the  *)
(* machine reboots, as long as no connection was cut.                      *)
NeverAFragment ==
  Unspent("cut") => \A n \in {"path", "sealed"} : file[n].bytes \in {"none", "whole"}

(* A file with the mode of one record and the owner of another, or of      *)
(* nobody's record, admits whom neither record does.                       *)
Mixed(f) == f.mode # Root /\ f.owner # f.mode

(* "Ownership is set next and the recorded mode last, so the file is at no *)
(* instant readable by anyone the record does not admit"                   *)
(* (src/cli/remote.py:414-415): so it is for every temporary, for whatever *)
(* is moved into place and for what a restore makes, over any change of    *)
(* the record and whatever is killed.  The one exception is the file that  *)
(* is in place while a script says its record again, mode first, or after  *)
(* one was killed there (or where runs do not wait for the restore, which  *)
(* may put its own file between the two).                                  *)
NeverWider ==
  Unspent("cut") => \A n \in Names : Mixed(file[n]) =>
    /\ n = "path"
    /\ (\E s \in Slots : At(s, "reown")) \/ ~Unspent("kill") \/ ~WaitsForBoot

(* A write that a run is told of has put the run's own bytes there,        *)
(* whatever scripts of earlier runs were still on the machine; and, until  *)
(* a cut leaves such scripts, the owner and the mode of the run's build    *)
(* (src/cli/remote.py:429), whoever had the file before.                   *)
AnsweredHolds ==
  (run.step = "write" /\ Answered(run.slot)) =>
    /\ file["path"].bytes = "whole" /\ file["path"].of = run.of
    /\ Unspent("cut") => file["path"].owner = run.record /\ file["path"].mode = run.record

(* A value that was delivered is there again when a restore has ended, and *)
(* never an older one (src/docs/operator.md:820), whatever broke since.    *)
DeliveredSurvives ==
  (At(Boot, "gone") /\ Unspent("cut") /\ Unspent("kill") /\ delivered # 0) =>
    file["path"].bytes = "whole" /\ file["path"].of >= delivered

(* Nothing that ends by itself leaves a temporary behind, cut off or not.  *)
NoStray ==
  (Quiet /\ Unspent("kill") /\ Unspent("reboot")) => \A n \in Temporaries : ~Is(n)

(* A copy that opens is never older than the plaintext beside it: what a   *)
(* reboot brings back is never older than what it took away.               *)
SealedNotOlder ==
  (file["path"].bytes = "whole" /\ file["sealed"].bytes = "whole") =>
    file["sealed"].of >= file["path"].of

(* Applied over and over, the last bytes get there and stay, sealed and    *)
(* not, whatever is left of the scripts before.                            *)
Converges ==
  <>[](\A n \in {"path", "sealed"} : file[n].bytes = "whole" /\ file[n].of = latest)

-----------------------------------------------------------------------------
(* What there is of the value, seen from outside its scripts. *)
Shows(name) == IF file[name].bytes = "whole" THEN file[name].of ELSE 0

Promise == INSTANCE Value WITH
  plain <- Shows("path"), copy <- Shows("sealed"), boots <- faults["reboot"],
  cut <- ~Unspent("cut")

(* Where no run begins before the restore ended, and as long as no         *)
(* connection was cut, the two scripts and the restore keep what `Value`   *)
(* promises at every command of theirs, whatever else is killed and        *)
(* wherever a boot falls: the copy is written first, so that it is never   *)
(* the older of the two (src/cli/apply.py:545-547).                        *)
KeepsItsPromise == Promise!Spec

-----------------------------------------------------------------------------
(* What the repository says and the scripts do not do. *)

(* "An interrupted run leaves the previous file or none, and never a       *)
(* fragment and never a stray temporary" (src/cli/remote.py:419).          *)
PreviousOrNone == file["path"].bytes \in {"none", "whole"}

=============================================================================
