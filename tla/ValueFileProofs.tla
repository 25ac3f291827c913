--------------------------- MODULE ValueFileProofs ---------------------------
(***************************************************************************)
(* What the scripts of a value promise, over any number of runs,           *)
(* builds, generations, kills and reboots.  Five invariants carry it: of   *)
(* the files and the scripts as long as no connection is cut (`FileInv`),  *)
(* of the temporaries (`TendInv`), of the generations that are shown       *)
(* (`Generations`), of whose the file in place is (`StatedInv`), and,      *)
(* connections cut or not, of what an older script can still do to a run's *)
(* files (`OrderInv`).                                                     *)
(***************************************************************************)
EXTENDS ValueFile, TLAPS

File == [of : Nat, bytes : {"none", "empty", "part", "whole"}, by : Slots,
         owner : Owners, mode : Owners]

Steps == {"gone", "create", "open", "read", "own", "admit", "compare",
          "drop", "move", "restate", "reown", "said", "test", "seek", "decrypt"}

Process == [kind : Kinds, pc : Steps, of : Nat, record : Owners, live : BOOLEAN]

Typed ==
  /\ file \in [Names -> File]
  /\ script \in [Slots -> Process]
  /\ run \in [step : {"idle", "seal", "write"}, slot : Slots, of : Nat, record : Owners]
  /\ latest \in Nat
  /\ faults \in [FaultKinds -> Nat] /\ faults["cut"] <= Faults["cut"]

(* The one script of a run is the one its operator listens to.             *)
Alone ==
  \A s \in Slots \ {Boot} : ~At(s, "gone") =>
    /\ run.step # "idle" /\ run.slot = s /\ script[s].live
    /\ script[s].kind \in {"seal", "write"}

Restoring ==
  /\ script[Boot].kind = "restore"
  /\ script[Boot].pc \in {"gone", "test", "seek", "create", "decrypt", "own", "admit", "move"}

(* A script that reads writes to its own temporary, and nothing else is    *)
(* written to.                                                             *)
Writers ==
  /\ \A n \in Names : file[n].by # Boot =>
       At(file[n].by, "read") /\ n = Tmp[script[file[n].by].kind]
  /\ \A s \in Slots : At(s, "read") => Held(s).by = s

(* What a script has read it still holds, whole, until it moves it, and    *)
(* what it made is root's until it gives it away.                          *)
Private == {"open", "read", "decrypt", "own"}

Holding ==
  \A s \in Slots :
    /\ script[s].pc \in {"own", "admit", "compare", "move"} => Held(s).bytes = "whole"
    /\ script[s].pc \in Private => Held(s).mode = Root
    /\ At(s, "admit") => Held(s).owner = script[s].record
    /\ script[s].pc \in {"compare", "drop"} => script[s].kind = "write"

Files ==
  /\ \A n \in {"path", "sealed"} : file[n].bytes \in {"none", "whole"}
  /\ \A n \in Names \ {"path"} : ~Mixed(file[n])

Uncut == Alone /\ Restoring /\ Writers /\ Holding /\ Files

FileInv == Typed /\ (Unspent("cut") => Uncut)

-----------------------------------------------------------------------------
LEMMA NamesAreApart ==
  /\ \A kind \in Kinds : Tmp[kind] \in Names /\ Dest[kind] \in {"path", "sealed"}
  /\ \A kind \in Kinds : Tmp[kind] \notin {"path", "sealed"}
  /\ \A one, other \in Kinds : Tmp[one] = Tmp[other] => one = other
  /\ {"path", "sealed"} \subseteq Names /\ "path.planner" = Tmp["write"]
  /\ "path.unsealing" = Tmp["restore"]
BY DEF Kinds, Tmp, Dest, Names

LEMMA RecordsAreTyped ==
  /\ None \in File /\ Gone \in Process /\ Boot \in Slots /\ Root \in Owners
  /\ \A of \in Nat : Empty(of) \in File
  /\ \A kind \in Kinds, of \in Nat, record \in Owners : Starting(kind, of, record) \in Process
<1>1. Root \in Owners
  BY DEF Owners
<1>2. None \in File /\ Gone \in Process /\ Boot \in Slots
  BY <1>1 DEF None, Gone, File, Process, Steps, Kinds, Slots, Boot
<1>3. \A of \in Nat : Empty(of) \in File
  BY <1>1 DEF None, Empty, File, Slots, Boot
<1>4. ASSUME NEW kind \in Kinds, NEW of \in Nat, NEW record \in Owners
      PROVE  Starting(kind, of, record) \in Process
  <2>1. (IF kind = "seal" THEN Root ELSE record) \in Owners
    BY <1>1
  <2> QED
    BY <2>1 DEF Starting, Process, Steps, Kinds
<1> QED
  BY <1>1, <1>2, <1>3, <1>4

(* What a reboot leaves of the scripts, of whichever build its restore is. *)
LEMMA RebootsTest ==
  ASSUME Reboot
  PROVE  /\ script' \in [Slots -> Process]
         /\ \A s \in Slots \ {Boot} : script'[s] = Gone /\ script'[s].pc = "gone"
         /\ script'[Boot].pc = "test" /\ script'[Boot].kind = "restore" /\ script'[Boot].of = 0
<1>1. PICK record \in Records :
        script' = [s \in Slots |->
                    IF s = Boot THEN [Gone EXCEPT !.pc = "test", !.record = record] ELSE Gone]
  BY DEF Reboot
<1> DEFINE testing == [Gone EXCEPT !.pc = "test", !.record = record]
<1>2. testing \in Process /\ testing.pc = "test" /\ testing.kind = "restore" /\ testing.of = 0
  BY DEF Gone, Process, Kinds, Steps, Owners
<1>3. Gone.pc = "gone" /\ Gone \in Process /\ Boot \in Slots
  BY RecordsAreTyped DEF Gone
<1>4. script' = [s \in Slots |-> IF s = Boot THEN testing ELSE Gone]
  BY <1>1
<1> HIDE DEF testing
<1> QED
  BY <1>2, <1>3, <1>4

LEMMA GotoIsTyped ==
  ASSUME Typed, NEW s \in Slots, NEW pc \in Steps, Goto(s, pc)
  PROVE  script' \in [Slots -> Process]
<1> DEFINE moved == [script[s] EXCEPT !.pc = pc]
<1>1. moved \in Process
  BY DEF Typed, Process
<1>2. script' = [script EXCEPT ![s] = moved]
  BY DEF Goto
<1> HIDE DEF moved
<1> QED
  BY <1>1, <1>2 DEF Typed

LEMMA ClosingIsTyped ==
  ASSUME NEW f \in [Names -> File], NEW s \in Slots
  PROVE  Closed(f, s) \in [Names -> File]
<1>1. \A n \in Names : [f[n] EXCEPT !.by = Boot] \in File
  BY RecordsAreTyped DEF File
<1> QED
  BY <1>1 DEF Closed

LEMMA FillingIsTyped ==
  ASSUME Typed, NEW s \in Slots, NEW bytes \in {"part", "whole"}
  PROVE  Filled(s, bytes) \in [Names -> File]
<1>1. \A n \in Names : [file[n] EXCEPT !.bytes = bytes] \in File
  BY DEF File, Typed
<1> QED
  BY <1>1 DEF Filled, Typed

LEMMA FailingIsTyped ==
  ASSUME Typed, NEW s \in Slots, Fail(s)
  PROVE  file' \in [Names -> File] /\ script' \in [Slots -> Process]
BY RecordsAreTyped DEF Fail, Typed

(* A file with another content, owner or mode is a file.                   *)
LEMMA ChangedIsTyped ==
  ASSUME Typed, NEW n \in Names, NEW changed \in File, file' = [file EXCEPT ![n] = changed]
  PROVE  file' \in [Names -> File]
BY DEF Typed

LEMMA ScriptIsTyped ==
  ASSUME Typed, NEW s \in Slots, Script(s)
  PROVE  file' \in [Names -> File] /\ script' \in [Slots -> Process]
<1> DEFINE kind == script[s].kind
           tmp == Tmp[kind]
<1>1. /\ kind \in Kinds /\ tmp \in Names /\ Dest[kind] \in Names /\ script[s].of \in Nat
      /\ file[tmp] \in File /\ file \in [Names -> File] /\ script \in [Slots -> Process]
  BY NamesAreApart DEF Typed, Process
<1>2. "path" \in Names /\ "path.planner" \in Names /\ "path.unsealing" \in Names /\ "sealed" \in Names
  BY DEF Names
<1>3. CASE Create(s)
  <2>1. file' = [file EXCEPT ![tmp] = Empty(script[s].of)] /\ Empty(script[s].of) \in File
    BY <1>1, <1>3, RecordsAreTyped DEF Create
  <2>2. Goto(s, IF s = Boot THEN "decrypt" ELSE "open")
    BY <1>3 DEF Create
  <2> QED
    BY <1>1, <2>1, <2>2, ChangedIsTyped, GotoIsTyped DEF Steps
<1>4. CASE Open(s)
  <2> DEFINE opened == [file[tmp] EXCEPT !.of = script[s].of, !.bytes = "empty", !.by = s]
  <2>1. file' = [file EXCEPT ![tmp] = opened] /\ opened \in File
    BY <1>1, <1>4 DEF Open, File
  <2> HIDE DEF opened
  <2>2. Goto(s, "read")
    BY <1>4 DEF Open
  <2> QED
    BY <1>1, <2>1, <2>2, ChangedIsTyped, GotoIsTyped DEF Steps
<1>5. CASE ReceiveSome(s)
  BY <1>1, <1>5, FillingIsTyped DEF ReceiveSome
<1>6. CASE ReceiveAll(s)
  <2>1. file' = Closed(Filled(s, "whole"), s) /\ Goto(s, "own")
    BY <1>6 DEF ReceiveAll
  <2> QED
    BY <2>1, FillingIsTyped, ClosingIsTyped, GotoIsTyped DEF Steps
<1>7. CASE EndOfInput(s)
  <2>1. file' = Closed(file, s) /\ Goto(s, "own")
    BY <1>7 DEF EndOfInput
  <2> QED
    BY <1>1, <2>1, ClosingIsTyped, GotoIsTyped DEF Steps
<1>8. CASE Own(s)
  <2> DEFINE owned == [file[tmp] EXCEPT !.owner = script[s].record]
  <2>1. CASE Is(tmp)
    <3>1. file' = [file EXCEPT ![tmp] = owned] /\ owned \in File /\ Goto(s, "admit")
      BY <1>1, <1>8, <2>1 DEF Own, File, Process
    <3> HIDE DEF owned
    <3> QED
      BY <1>1, <3>1, ChangedIsTyped, GotoIsTyped DEF Steps
  <2> QED
    BY <1>8, <2>1, FailingIsTyped DEF Own
<1>9. CASE Admit(s)
  <2> DEFINE open == [file[tmp] EXCEPT !.mode = script[s].record]
  <2>1. CASE Is(tmp)
    <3>1. file' = [file EXCEPT ![tmp] = open] /\ open \in File
      BY <1>1, <1>9, <2>1 DEF Admit, File, Process
    <3>2. Goto(s, IF script[s].kind = "write" THEN "compare" ELSE "move")
      BY <1>9, <2>1 DEF Admit
    <3> HIDE DEF open
    <3> QED
      BY <1>1, <3>1, <3>2, ChangedIsTyped, GotoIsTyped DEF Steps
  <2> QED
    BY <1>9, <2>1, FailingIsTyped DEF Admit
<1>10. CASE Compare(s)
  <2>1. file' = file /\ Goto(s, IF Same(Held(s), file["path"]) THEN "drop" ELSE "move")
    BY <1>10 DEF Compare
  <2> QED
    BY <1>1, <2>1, GotoIsTyped DEF Steps
<1>11. CASE Drop(s)
  <2>1. file' = [file EXCEPT !["path.planner"] = None] /\ Goto(s, "restate")
    BY <1>11 DEF Drop
  <2> QED
    BY <1>2, <2>1, RecordsAreTyped, ChangedIsTyped, GotoIsTyped DEF Steps
<1>12. CASE Move(s)
  <2>1. CASE Is(tmp)
    <3>1. file' = [file EXCEPT ![Dest[kind]] = file[tmp], ![tmp] = None]
      BY <1>12, <2>1 DEF Move
    <3>2. file' \in [Names -> File]
      BY <1>1, <3>1, RecordsAreTyped
    <3>3. \/ script' = [script EXCEPT ![s] = Gone]
          \/ \E pc \in Steps : Goto(s, pc)
      BY <1>1, <1>12, <2>1 DEF Move, Goto, Kinds, Steps
    <3> QED
      BY <1>1, <3>2, <3>3, RecordsAreTyped, GotoIsTyped
  <2> QED
    BY <1>12, <2>1, FailingIsTyped DEF Move
<1>13. CASE Restate(s)
  <2> DEFINE stated == [file["path"] EXCEPT !.mode = script[s].record]
  <2>1. CASE Is("path")
    <3>1. file' = [file EXCEPT !["path"] = stated] /\ stated \in File /\ Goto(s, "reown")
      BY <1>1, <1>2, <1>13, <2>1 DEF Restate, File, Process
    <3> HIDE DEF stated
    <3> QED
      BY <1>2, <3>1, ChangedIsTyped, GotoIsTyped DEF Steps
  <2>2. CASE ~Is("path")
    BY <1>1, <1>13, <2>2, RecordsAreTyped DEF Restate
  <2> QED
    BY <2>1, <2>2
<1>18. CASE Reown(s)
  <2> DEFINE stated == [file["path"] EXCEPT !.owner = script[s].record]
  <2>1. CASE Is("path")
    <3>1. file' = [file EXCEPT !["path"] = stated] /\ stated \in File /\ Goto(s, "said")
      BY <1>1, <1>2, <1>18, <2>1 DEF Reown, File, Process
    <3> HIDE DEF stated
    <3> QED
      BY <1>2, <3>1, ChangedIsTyped, GotoIsTyped DEF Steps
  <2>2. CASE ~Is("path")
    BY <1>1, <1>18, <2>2, RecordsAreTyped DEF Reown
  <2> QED
    BY <2>1, <2>2
<1>14. CASE Unheard(s)
  BY <1>1, <1>14, RecordsAreTyped DEF Unheard
<1>15. CASE Test
  <2>1. file' = file /\ (script' = [script EXCEPT ![Boot] = Gone] \/ Goto(Boot, "seek"))
    BY <1>15 DEF Test, Goto
  <2> QED
    BY <1>1, <2>1, RecordsAreTyped, GotoIsTyped DEF Steps
<1>16. CASE Seek
  <2>1. file' = file /\ (script' = [script EXCEPT ![Boot] = Gone] \/ Goto(Boot, "create"))
    BY <1>16 DEF Seek, Goto
  <2> QED
    BY <1>1, <2>1, RecordsAreTyped, GotoIsTyped DEF Steps
<1>17. CASE Decrypt
  <2> DEFINE opened == [file["path.unsealing"] EXCEPT !.of = file["sealed"].of, !.bytes = "whole"]
  <2>1. CASE file["sealed"].bytes = "whole"
    <3>1. opened \in File
      BY <1>1, <1>2 DEF File
    <3>2. file' = [file EXCEPT !["path.unsealing"] = opened] /\ Goto(Boot, "own")
      BY <1>1, <1>2, <1>17, <2>1 DEF Decrypt
    <3> HIDE DEF opened
    <3> QED
      BY <1>2, <3>1, <3>2, RecordsAreTyped, ChangedIsTyped, GotoIsTyped DEF Steps
  <2> QED
    BY <1>17, <2>1, RecordsAreTyped, FailingIsTyped DEF Decrypt
<1> QED
  BY <1>3, <1>4, <1>5, <1>6, <1>7, <1>8, <1>9, <1>10, <1>11, <1>12, <1>13, <1>14, <1>15, <1>16,
     <1>17, <1>18 DEF Script

(* What says a record again touches no byte and no temporary.              *)
LEMMA StatingIsLittle ==
  ASSUME Typed, NEW s \in Slots, Restate(s) \/ Reown(s)
  PROVE  \/ UNCHANGED file /\ script' = [script EXCEPT ![s] = Gone]
         \/ \E pc \in {"reown", "said"} :
              /\ script[s].pc = [reown |-> "restate", said |-> "reown"][pc] /\ Goto(s, pc)
              /\ \A n \in Names \ {"path"} : file'[n] = file[n]
              /\ \A n \in Names : /\ file'[n].bytes = file[n].bytes /\ file'[n].of = file[n].of
                                  /\ file'[n].by = file[n].by
<1> DEFINE moded == [file["path"] EXCEPT !.mode = script[s].record]
           owned == [file["path"] EXCEPT !.owner = script[s].record]
<1>1. "path" \in Names /\ file \in [Names -> File] /\ file["path"] \in File
  BY NamesAreApart DEF Typed
<1>2. ASSUME ~Is("path") PROVE UNCHANGED file /\ script' = [script EXCEPT ![s] = Gone]
  BY <1>2 DEF Restate, Reown
<1>3. /\ moded.bytes = file["path"].bytes /\ moded.of = file["path"].of /\ moded.by = file["path"].by
      /\ owned.bytes = file["path"].bytes /\ owned.of = file["path"].of /\ owned.by = file["path"].by
  BY <1>1 DEF File
<1>4. CASE Is("path") /\ Restate(s)
  <2>1. file' = [file EXCEPT !["path"] = moded] /\ script[s].pc = "restate" /\ Goto(s, "reown")
    BY <1>1, <1>4 DEF Restate, At
  <2> HIDE DEF moded
  <2>2. \A n \in Names \ {"path"} : file'[n] = file[n]
    BY <1>1, <2>1
  <2>3. file'["path"] = moded
    BY <1>1, <2>1
  <2> QED
    BY <1>3, <2>1, <2>2, <2>3
<1>5. CASE Is("path") /\ Reown(s)
  <2>1. file' = [file EXCEPT !["path"] = owned] /\ script[s].pc = "reown" /\ Goto(s, "said")
    BY <1>1, <1>5 DEF Reown, At
  <2> HIDE DEF owned
  <2>2. \A n \in Names \ {"path"} : file'[n] = file[n]
    BY <1>1, <2>1
  <2>3. file'["path"] = owned
    BY <1>1, <2>1
  <2> QED
    BY <1>3, <2>1, <2>2, <2>3
<1> QED
  BY <1>2, <1>4, <1>5

LEMMA NextTyped ==
  ASSUME Typed, [Next]_vars
  PROVE  Typed'
<1>1. ASSUME NEW s \in Slots, Script(s) PROVE Typed'
  <2>1. UNCHANGED operator
    BY <1>1 DEF Script, Create, Open, ReceiveSome, ReceiveAll, EndOfInput, Own, Admit, Compare, Drop,
            Move, Restate, Reown, Unheard, Test, Seek, Decrypt
  <2> QED
    BY <1>1, <2>1, ScriptIsTyped DEF Typed, operator
<1>2. ASSUME NEW s \in Slots, Kill(s) PROVE Typed'
  BY <1>2, ClosingIsTyped, RecordsAreTyped DEF Kill, Spend, Typed, FaultKinds
<1>3. CASE Begin
  BY <1>3, RecordsAreTyped DEF Begin, Free, Typed, Kinds, Owners
<1>4. CASE SealedThenWrite
  <2>1. run.slot \in Slots /\ run.of \in Nat /\ run.record \in Owners
    BY DEF Typed
  <2>2. run' \in [step : {"idle", "seal", "write"}, slot : Slots, of : Nat, record : Owners]
    BY <1>4 DEF SealedThenWrite, Typed
  <2>3. script' \in [Slots -> Process]
    BY <1>4, <2>1, RecordsAreTyped DEF SealedThenWrite, Typed, Kinds
  <2> QED
    BY <1>4, <2>2, <2>3 DEF SealedThenWrite, Typed
<1>5. NoRun \in [step : {"idle", "seal", "write"}, slot : Slots, of : Nat, record : Owners]
  BY RecordsAreTyped DEF NoRun
<1>6. CASE Return \/ GiveUp
  BY <1>5, <1>6, RecordsAreTyped DEF Return, GiveUp, Typed
<1>7. CASE Cut
  <2> DEFINE alone == [script[run.slot] EXCEPT !.live = FALSE]
  <2>1. run.slot \in Slots /\ alone \in Process
    BY DEF Typed, Process
  <2>2. script' = [script EXCEPT ![run.slot] = alone]
    BY <1>7 DEF Cut
  <2> HIDE DEF alone
  <2>3. script' \in [Slots -> Process]
    BY <2>1, <2>2 DEF Typed
  <2> QED
    BY <1>5, <1>7, <2>3, ValueFileAssumption DEF Cut, Spend, Typed, FaultKinds
<1>8. CASE Reboot
  <2>2. script' \in [Slots -> Process]
    BY <1>8, RebootsTest
  <2>3. \A n \in Names : [file[n] EXCEPT !.by = Boot] \in File
    BY RecordsAreTyped DEF File, Typed
  <2>4. file' \in [Names -> File]
    BY <1>8, <2>3, RecordsAreTyped DEF Reboot
  <2> QED
    BY <1>5, <1>8, <2>2, <2>4 DEF Reboot, Spend, Typed, FaultKinds
<1>9. CASE Rotate
  BY <1>9 DEF Rotate, Typed
<1>10. CASE UNCHANGED vars
  BY <1>10 DEF vars, Typed
<1> QED
  BY <1>1, <1>2, <1>3, <1>4, <1>6, <1>7, <1>8, <1>9, <1>10 DEF Next

-----------------------------------------------------------------------------
(* Two scripts never hold the same temporary: a run has one script, and    *)
(* the restore has a temporary of its own.                                 *)
LEMMA HeldApart ==
  ASSUME Typed, Uncut, NEW s \in Slots, NEW t \in Slots, s # t, ~At(s, "gone"), ~At(t, "gone")
  PROVE  Tmp[script[s].kind] # Tmp[script[t].kind]
<1>1. s = Boot \/ t = Boot
  BY DEF Uncut, Alone
<1> QED
  BY <1>1 DEF Uncut, Alone, Restoring, Tmp

LEMMA NotReadNotWritten ==
  ASSUME Typed, Uncut, NEW s \in Slots, ~At(s, "gone"), ~At(s, "read")
  PROVE  Held(s).by = Boot
<1> SUFFICES ASSUME Held(s).by # Boot PROVE FALSE
  OBVIOUS
<1> DEFINE t == Held(s).by
<1>1. Tmp[script[s].kind] \in Names /\ t \in Slots
  BY NamesAreApart DEF Typed, Process, File, Held
<1>2. At(t, "read") /\ Tmp[script[s].kind] = Tmp[script[t].kind]
  BY <1>1 DEF Uncut, Writers, Held
<1> QED
  BY <1>1, <1>2, HeldApart DEF At

(* What a step of one script may do to the files and still leave every     *)
(* other script as it found it.                                            *)
Local(s, next) ==
  LET tmp == Tmp[script[s].kind] IN
  /\ script' = [script EXCEPT ![s] = next]
  /\ next = Gone \/ (/\ next.kind = script[s].kind /\ next.live = script[s].live
                     /\ next.record = script[s].record)
  /\ \A n \in Names \ {tmp, "path", "sealed"} : file'[n] = file[n]
  /\ \A n \in {"path", "sealed"} : file'[n].bytes \in {"none", "whole"} /\ file'[n].by = Boot
  /\ ~Mixed(file'[tmp]) /\ ~Mixed(file'["sealed"])
  /\ file'[tmp].by # Boot => file'[tmp].by = s /\ next.pc = "read"
  /\ next.pc = "read" => file'[tmp].by = s
  /\ next.pc \in {"own", "admit", "compare", "move"} => file'[tmp].bytes = "whole"
  /\ next.pc \in Private => file'[tmp].mode = Root
  /\ next.pc = "admit" => file'[tmp].owner = next.record
  /\ next.pc \in {"compare", "drop"} => next.kind = "write"
  /\ s = Boot => next.pc \in {"gone", "test", "seek", "create", "decrypt", "own", "admit", "move"}

LEMMA LocalSteps ==
  ASSUME Typed, Typed', Uncut, NEW s \in Slots, ~At(s, "gone"), UNCHANGED run,
         NEW next, Local(s, next)
  PROVE  Uncut'
<1> DEFINE tmp == Tmp[script[s].kind]
<1>1. /\ script'[s] = next /\ \A t \in Slots \ {s} : script'[t] = script[t]
      /\ tmp \in Names /\ tmp \notin {"path", "sealed"}
      /\ script[s].kind \in Kinds
  BY NamesAreApart DEF Typed, Local, Process
<1>2. next = Gone => next.pc = "gone" /\ next.kind = "restore"
  BY DEF Gone
<1>3. Alone'
  BY <1>1, <1>2 DEF Uncut, Alone, Local, At
<1>4. Restoring'
  BY <1>1, <1>2 DEF Uncut, Restoring, Local
<1>5. ASSUME NEW t \in Slots, t # s, ~At(t, "gone")
      PROVE  /\ script'[t] = script[t] /\ Tmp[script[t].kind] # tmp
             /\ Held(t)' = Held(t)
  <2>1. Tmp[script[t].kind] # tmp
    BY <1>5, HeldApart
  <2>2. Tmp[script[t].kind] \in Names \ {"path", "sealed"}
    BY NamesAreApart DEF Typed, Process
  <2> QED
    BY <1>1, <1>5, <2>1, <2>2 DEF Local, Held
<1>6. Writers'
  <2>1. ASSUME NEW n \in Names, file'[n].by # Boot
        PROVE  script'[file'[n].by].pc = "read" /\ n = Tmp[script'[file'[n].by].kind]
    <3>1. CASE n = tmp
      <4>1. file'[n].by = s /\ next.pc = "read"
        BY <2>1, <3>1 DEF Local
      <4>2. next.kind = script[s].kind
        BY <1>2, <4>1 DEF Local
      <4> QED
        BY <1>1, <3>1, <4>1, <4>2 DEF At
    <3>2. CASE n \notin {tmp, "path", "sealed"}
      <4>1. file'[n] = file[n] /\ file[n].by \in Slots
        BY <3>2 DEF Local, Typed, File
      <4>2. At(file[n].by, "read") /\ n = Tmp[script[file[n].by].kind]
        BY <2>1, <4>1 DEF Uncut, Writers
      <4>3. file[n].by # s
        BY <3>2, <4>2
      <4> QED
        BY <1>1, <4>1, <4>2, <4>3 DEF At
    <3>3. n \notin {"path", "sealed"}
      BY <2>1 DEF Local
    <3> QED
      BY <3>1, <3>2, <3>3
  <2>2. ASSUME NEW t \in Slots, At(t, "read")' PROVE Held(t)'.by = t
    <3>1. CASE t = s
      <4>1. next.pc = "read" /\ next.kind = script[s].kind /\ file'[tmp].by = s
        BY <1>1, <1>2, <2>2, <3>1 DEF Local, At
      <4> QED
        BY <1>1, <3>1, <4>1 DEF Held
    <3>2. CASE t # s
      <4>1. At(t, "read") /\ ~At(t, "gone")
        BY <1>1, <2>2, <3>2 DEF At
      <4> QED
        BY <1>5, <3>2, <4>1 DEF Uncut, Writers
    <3> QED
      BY <3>1, <3>2
  <2> QED
    BY <2>1, <2>2 DEF Writers, At
<1>7. Holding'
  <2> SUFFICES ASSUME NEW t \in Slots
               PROVE  /\ script'[t].pc \in {"own", "admit", "compare", "move"} => Held(t)'.bytes = "whole"
                      /\ script'[t].pc \in Private => Held(t)'.mode = Root
                      /\ At(t, "admit")' => Held(t)'.owner = script'[t].record
                      /\ script'[t].pc \in {"compare", "drop"} => script'[t].kind = "write"
    BY DEF Holding
  <2>1. CASE t = s
    <3>1. CASE next = Gone
      BY <1>1, <1>2, <2>1, <3>1 DEF At, Private
    <3>2. CASE next # Gone
      <4>1. Held(t)' = file'[tmp]
        BY <1>1, <2>1, <3>2 DEF Local, Held
      <4> QED
        BY <1>1, <2>1, <4>1 DEF Local, At
    <3> QED
      BY <3>1, <3>2
  <2>2. CASE t # s /\ At(t, "gone")
    BY <1>1, <2>2 DEF At, Private
  <2>3. CASE t # s /\ ~At(t, "gone")
    BY <1>5, <2>3 DEF Uncut, Holding, At
  <2> QED
    BY <2>1, <2>2, <2>3
<1>8. Files'
  <2>1. \A n \in Names : n \in {tmp, "path", "sealed"} \/ file'[n] = file[n]
    BY DEF Local
  <2> QED
    BY <2>1 DEF Files, Local, Uncut, Mixed
<1> QED
  BY <1>3, <1>4, <1>6, <1>7, <1>8 DEF Uncut

LEMMA ScriptsAreLocal ==
  ASSUME Typed, Typed', Uncut, NEW s \in Slots, Script(s)
  PROVE  Uncut'
<1> DEFINE kind == script[s].kind
           tmp == Tmp[kind]
           To(pc) == [script[s] EXCEPT !.pc = pc]
<1>1. /\ kind \in Kinds /\ tmp \in Names \ {"path", "sealed"} /\ {"path", "sealed"} \subseteq Names
      /\ file \in [Names -> File] /\ script \in [Slots -> Process] /\ script[s] \in Process
  BY NamesAreApart DEF Typed, Process
<1>2. /\ \A n \in {"path", "sealed"} : file[n].bytes \in {"none", "whole"} /\ file[n].by = Boot
      /\ ~Mixed(file[tmp]) /\ ~Mixed(file["sealed"])
  <2>1. ASSUME NEW n \in {"path", "sealed"} PROVE file[n].by = Boot
    <3>1. file[n].by # Boot => file[n].by \in Slots /\ n = Tmp[script[file[n].by].kind]
      BY <1>1 DEF Uncut, Writers, File
    <3> QED
      BY <1>1, <3>1, NamesAreApart DEF Process
  <2> QED
    BY <1>1, <2>1 DEF Uncut, Files
<1>3. ASSUME NEW pc PROVE /\ To(pc).pc = pc /\ To(pc).kind = kind /\ To(pc).live = script[s].live
                          /\ To(pc).record = script[s].record
                          /\ Goto(s, pc) => script' = [script EXCEPT ![s] = To(pc)]
  BY <1>1 DEF Process, Goto
<1>4. None.bytes = "none" /\ None.by = Boot /\ None.mode = Root
  BY DEF None
<1>5. Gone.pc = "gone"
  BY DEF Gone
<1>6. s = Boot => kind = "restore" /\ tmp = "path.unsealing"
  BY NamesAreApart DEF Uncut, Restoring
<1>7. s = Boot => script[s].pc \in {"gone", "test", "seek", "create", "decrypt", "own", "admit", "move"}
  BY DEF Uncut, Restoring
<1>8. UNCHANGED run
  BY DEF Script, Create, Open, ReceiveSome, ReceiveAll, EndOfInput, Own, Admit, Compare, Drop,
         Move, Restate, Reown, Unheard, Test, Seek, Decrypt, operator
<1>9. ~At(s, "gone") /\ ~At(s, "read") => file[tmp].by = Boot
  BY NotReadNotWritten DEF Held
<1>10. script[s].pc \in {"own", "admit", "compare", "move"} => Is(tmp) /\ file[tmp].bytes = "whole"
  BY DEF Uncut, Holding, Held, Is
<1> HIDE DEF To, tmp, kind
<1>11. CASE Create(s)
  <2> DEFINE pc == IF s = Boot THEN "decrypt" ELSE "open"
  <2>1. file' = [file EXCEPT ![tmp] = Empty(script[s].of)] /\ Goto(s, pc)
    BY <1>11 DEF Create, tmp, kind
  <2>2. /\ Empty(script[s].of).by = Boot /\ Empty(script[s].of).mode = Root
    BY DEF Empty, None
  <2>3. Local(s, To(pc))
    BY <1>1, <1>2, <1>3, <2>1, <2>2 DEF Local, Mixed, tmp, kind
  <2> QED
    BY <1>8, <1>11, <2>3, LocalSteps DEF Create, At
<1>12. CASE Open(s)
  <2> DEFINE opened == [file[tmp] EXCEPT !.of = script[s].of, !.bytes = "empty", !.by = s]
  <2>1. file' = [file EXCEPT ![tmp] = opened] /\ Goto(s, "read") /\ At(s, "open")
    BY <1>1, <1>12 DEF Open, tmp, kind
  <2>2. opened.by = s /\ opened.mode = Root
    <3>1. file[tmp].mode = Root
      BY <2>1 DEF Uncut, Holding, Held, Private, At, tmp, kind
    <3> QED
      BY <1>1, <3>1 DEF File
  <2> HIDE DEF opened
  <2>3. Local(s, To("read"))
    BY <1>1, <1>2, <1>3, <1>7, <2>1, <2>2 DEF Local, Mixed, tmp, kind, At
  <2> QED
    BY <1>8, <2>1, <2>3, LocalSteps DEF At
<1>13. ASSUME NEW bytes \in {"part", "whole"}, At(s, "read")
       PROVE  /\ \A n \in Names \ {tmp} : Filled(s, bytes)[n] = file[n] /\ file[n].by # s
              /\ Filled(s, bytes)[tmp] = [file[tmp] EXCEPT !.bytes = bytes] /\ file[tmp].by = s
              /\ s # Boot /\ file[tmp].mode = Root
  <2>1. s # Boot
    BY <1>7, <1>13 DEF At
  <2>4. file[tmp].mode = Root
    BY <1>13 DEF Uncut, Holding, Held, Private, At, tmp, kind
  <2>2. file[tmp].by = s
    BY <1>13 DEF Uncut, Writers, Held, tmp, kind
  <2>3. ASSUME NEW n \in Names \ {tmp} PROVE file[n].by # s
    BY <2>1, <2>3 DEF Uncut, Writers, tmp, kind
  <2> QED
    BY <1>1, <2>1, <2>2, <2>3, <2>4 DEF Filled
<1>14. CASE ReceiveSome(s)
  <2>1. At(s, "read") /\ file' = Filled(s, "part") /\ UNCHANGED script
    BY <1>14 DEF ReceiveSome
  <2>2. file'[tmp].by = s /\ file'[tmp].mode = Root
    BY <1>1, <1>2, <1>13, <2>1 DEF File
  <2>3. script' = [script EXCEPT ![s] = script[s]]
    BY <1>1, <2>1
  <2>4. s # Boot /\ script[s].pc = "read" /\ \A n \in Names \ {tmp} : file'[n] = file[n]
    BY <1>13, <2>1 DEF At
  <2>5. Local(s, script[s])
    BY <1>1, <1>2, <2>2, <2>3, <2>4 DEF Local, Mixed, tmp, kind
  <2> QED
    BY <1>8, <2>1, <2>5, LocalSteps DEF At
<1>15. CASE ReceiveAll(s)
  <2>1. At(s, "read") /\ file' = Closed(Filled(s, "whole"), s) /\ Goto(s, "own")
    BY <1>15 DEF ReceiveAll
  <2> DEFINE full == [file[tmp] EXCEPT !.bytes = "whole"]
  <2>2. \A n \in Names \ {tmp} : file'[n] = file[n]
    BY <1>13, <2>1 DEF Closed
  <2>3. file'[tmp] = [full EXCEPT !.by = Boot] /\ file[tmp].by = s /\ file[tmp].mode = Root
    <3>1. Filled(s, "whole")[tmp] = full /\ file[tmp].by = s /\ file[tmp].mode = Root
      BY <1>13, <2>1
    <3>2. full.by = s
      BY <1>1, <3>1 DEF File
    <3> HIDE DEF full
    <3> QED
      BY <1>1, <2>1, <3>1, <3>2 DEF Closed
  <2>4. file'[tmp].by = Boot /\ file'[tmp].bytes = "whole" /\ file'[tmp].mode = Root
    BY <1>1, <1>2, <2>3 DEF File
  <2>5. Local(s, To("own"))
    BY <1>1, <1>2, <1>3, <1>13, <2>1, <2>2, <2>4 DEF Local, Mixed, tmp, kind
  <2> QED
    BY <1>8, <2>1, <2>5, LocalSteps DEF At
<1>16. ~EndOfInput(s)
  BY <1>7 DEF EndOfInput, Uncut, Alone, At
<1>17. CASE Own(s)
  <2> DEFINE owned == [file[tmp] EXCEPT !.owner = script[s].record]
  <2>1. file' = [file EXCEPT ![tmp] = owned] /\ Goto(s, "admit") /\ At(s, "own")
    BY <1>1, <1>10, <1>17 DEF Own, tmp, kind, At
  <2>2. /\ owned.by = Boot /\ owned.owner = script[s].record /\ owned.bytes = "whole"
        /\ owned.mode = Root
    <3>1. file[tmp].mode = Root
      BY <2>1 DEF Uncut, Holding, Held, Private, At, tmp, kind
    <3> QED
      BY <1>1, <1>9, <1>10, <2>1, <3>1 DEF File, At
  <2> HIDE DEF owned
  <2>3. Local(s, To("admit"))
    BY <1>1, <1>2, <1>3, <2>1, <2>2 DEF Local, Mixed, Private, tmp, kind
  <2> QED
    BY <1>8, <2>1, <2>3, LocalSteps DEF At
<1>18. CASE Admit(s)
  <2> DEFINE open == [file[tmp] EXCEPT !.mode = script[s].record]
             pc == IF kind = "write" THEN "compare" ELSE "move"
  <2>1. file' = [file EXCEPT ![tmp] = open] /\ Goto(s, pc) /\ At(s, "admit")
    BY <1>1, <1>10, <1>18 DEF Admit, tmp, kind, At
  <2>2. open.by = Boot /\ open.owner = open.mode /\ open.bytes = "whole"
    <3>1. file[tmp].owner = script[s].record
      BY <2>1 DEF Uncut, Holding, Held, tmp, kind
    <3> QED
      BY <1>1, <1>9, <1>10, <2>1, <3>1 DEF File, At
  <2> HIDE DEF open
  <2>3. Local(s, To(pc))
    BY <1>1, <1>2, <1>3, <1>6, <2>1, <2>2 DEF Local, Mixed, Private, tmp, kind
  <2> QED
    BY <1>8, <2>1, <2>3, LocalSteps DEF At
<1>19. CASE Compare(s)
  <2>1. PICK pc \in {"drop", "move"} : Goto(s, pc)
    BY <1>19 DEF Compare
  <2>2. UNCHANGED file /\ At(s, "compare") /\ kind = "write"
    BY <1>19 DEF Compare, Uncut, Holding, At, kind
  <2>3. Local(s, To(pc))
    BY <1>1, <1>2, <1>3, <1>7, <1>9, <1>10, <2>1, <2>2 DEF Local, Mixed, Private, tmp, kind, At
  <2> QED
    BY <1>8, <2>2, <2>3, LocalSteps DEF At
<1>20. CASE Drop(s)
  <2>1. file' = [file EXCEPT !["path.planner"] = None] /\ Goto(s, "restate") /\ At(s, "drop")
    BY <1>20 DEF Drop
  <2>2. tmp = "path.planner"
    BY <2>1, NamesAreApart DEF Uncut, Holding, At, tmp, kind
  <2>3. Local(s, To("restate"))
    BY <1>1, <1>2, <1>3, <1>4, <1>7, <2>1, <2>2 DEF Local, Mixed, Private, tmp, kind, At
  <2> QED
    BY <1>8, <2>1, <2>3, LocalSteps DEF At
<1>21. CASE Move(s)
  <2>1. At(s, "move") /\ file' = [file EXCEPT ![Dest[kind]] = file[tmp], ![tmp] = None]
    BY <1>10, <1>21 DEF Move, tmp, kind, At
  <2>2. /\ Dest[kind] \in {"path", "sealed"} /\ file'[Dest[kind]] = file[tmp] /\ file'[tmp] = None
        /\ \A n \in Names \ {tmp, Dest[kind]} : file'[n] = file[n]
    BY <1>1, <2>1, NamesAreApart
  <2>3. file[tmp].bytes = "whole" /\ file[tmp].by = Boot
    BY <1>9, <1>10, <2>1 DEF At
  <2>4. PICK next : /\ script' = [script EXCEPT ![s] = next]
                    /\ next = Gone \/ (s # Boot /\ \E pc \in {"said", "restate"} : next = To(pc))
    <3>1. CASE s = Boot
      BY <1>10, <1>21, <2>1, <3>1 DEF Move, tmp, kind, At
    <3>2. CASE s # Boot
      <4>1. kind \in {"seal", "write"}
        BY <2>1, <3>2 DEF Uncut, Alone, At, kind
      <4> DEFINE pc == [seal |-> "said", write |-> "restate", restore |-> "gone"][kind]
      <4>2. pc \in {"said", "restate"} /\ Goto(s, pc)
        BY <1>10, <1>21, <2>1, <3>2, <4>1 DEF Move, Goto, tmp, kind, At
      <4> QED
        BY <1>3, <3>2, <4>2
    <3> QED
      BY <3>1, <3>2
  <2>6. ~Mixed(file'[tmp]) /\ ~Mixed(file'["sealed"])
    BY <1>1, <1>2, <1>4, <2>2 DEF Mixed
  <2>5. Local(s, next)
    BY <1>1, <1>2, <1>3, <1>4, <1>5, <2>2, <2>3, <2>4, <2>6 DEF Local, Private, tmp, kind
  <2> QED
    BY <1>8, <2>1, <2>5, LocalSteps DEF At
<1>22. CASE Restate(s) \/ Reown(s)
  <2>1. script[s].pc \in {"restate", "reown"} /\ s # Boot /\ file[tmp].by = Boot
    BY <1>7, <1>9, <1>22 DEF Restate, Reown, At
  <2>2. CASE UNCHANGED file /\ script' = [script EXCEPT ![s] = Gone]
    <3>1. Local(s, Gone)
      BY <1>1, <1>2, <1>5, <2>1, <2>2 DEF Local, Mixed, Private, tmp, kind
    <3> QED
      BY <1>8, <2>1, <3>1, LocalSteps DEF At
  <2>3. ASSUME NEW pc \in {"reown", "said"}, Goto(s, pc),
               \A n \in Names \ {"path"} : file'[n] = file[n],
               \A n \in Names : file'[n].bytes = file[n].bytes /\ file'[n].by = file[n].by
        PROVE  Uncut'
    <3>1. ~Mixed(file'[tmp]) /\ ~Mixed(file'["sealed"])
      BY <1>1, <1>2, <2>3 DEF Mixed
    <3>2. Local(s, To(pc))
      BY <1>1, <1>2, <1>3, <2>1, <2>3, <3>1 DEF Local, Private, tmp, kind
    <3> QED
      BY <1>8, <2>1, <3>2, LocalSteps DEF At
  <2> QED
    BY <1>22, <2>2, <2>3, StatingIsLittle
<1>23. ASSUME NEW next, script' = [script EXCEPT ![s] = next], UNCHANGED file,
              ~At(s, "gone"), ~At(s, "read"),
              next = Gone \/ \E pc \in {"seek", "create"} : next = To(pc)
       PROVE  Uncut'
  <2>1. Local(s, next)
    BY <1>1, <1>2, <1>3, <1>5, <1>9, <1>23 DEF Local, Mixed, Private, tmp, kind
  <2> QED
    BY <1>8, <1>23, <2>1, LocalSteps
<1>24. CASE Unheard(s)
  BY <1>23, <1>24 DEF Unheard, At
<1>25. CASE s = Boot /\ (Test \/ Seek)
  <2>1. PICK next : /\ script' = [script EXCEPT ![s] = next]
                    /\ next = Gone \/ \E pc \in {"seek", "create"} : next = To(pc)
    BY <1>1, <1>25 DEF Test, Seek, To
  <2> QED
    BY <1>23, <1>25, <2>1 DEF Test, Seek, At
<1>26. CASE s = Boot /\ Decrypt
  <2> DEFINE opened == [file["path.unsealing"] EXCEPT !.of = file["sealed"].of, !.bytes = "whole"]
  <2>1. At(s, "decrypt") /\ tmp = "path.unsealing"
    BY <1>6, <1>26 DEF Decrypt
  <2>2. CASE file["sealed"].bytes = "whole"
    <3>1. file' = [file EXCEPT ![tmp] = opened] /\ Goto(s, "own")
      BY <1>1, <1>26, <2>1, <2>2 DEF Decrypt
    <3>2. opened.by = Boot /\ opened.bytes = "whole" /\ opened.mode = Root
      <4>1. file[tmp].mode = Root
        BY <2>1 DEF Uncut, Holding, Held, Private, At, tmp, kind
      <4> QED
        BY <1>1, <1>2, <1>9, <2>1, <4>1 DEF File, At
    <3> HIDE DEF opened
    <3>3. Local(s, To("own"))
      BY <1>1, <1>2, <1>3, <3>1, <3>2 DEF Local, Mixed, tmp, kind
    <3> QED
      BY <1>8, <2>1, <3>3, LocalSteps DEF At
  <2>3. CASE file["sealed"].bytes # "whole"
    <3>1. file' = [file EXCEPT ![tmp] = None] /\ script' = [script EXCEPT ![s] = Gone]
      BY <1>26, <2>3 DEF Decrypt, Fail, tmp, kind
    <3>2. Local(s, Gone)
      BY <1>1, <1>2, <1>4, <1>5, <3>1 DEF Local, Mixed, Private, tmp, kind
    <3> QED
      BY <1>8, <2>1, <3>2, LocalSteps DEF At
  <2> QED
    BY <2>2, <2>3
<1> QED
  BY <1>11, <1>12, <1>14, <1>15, <1>16, <1>17, <1>18, <1>19, <1>20, <1>21, <1>22, <1>24, <1>25, <1>26
  DEF Script

(* A script that dies takes nothing with it but its hold on its temporary. *)
LEMMA KillsAreLocal ==
  ASSUME Typed, Typed', Uncut, NEW s \in Slots, Kill(s)
  PROVE  Uncut'
<1> DEFINE tmp == Tmp[script[s].kind]
<1>1. /\ tmp \in Names \ {"path", "sealed"} /\ {"path", "sealed"} \subseteq Names
      /\ file \in [Names -> File]
  BY NamesAreApart DEF Typed, Process
<1>2. /\ script' = [script EXCEPT ![s] = Gone] /\ file' = Closed(file, s)
      /\ UNCHANGED run /\ ~At(s, "gone")
  BY DEF Kill
<1>3. Gone.pc = "gone"
  BY DEF Gone
<1>4. ASSUME NEW n \in Names
      PROVE  /\ file'[n] = file[n] \/ (n = tmp /\ file[n].by = s)
             /\ file'[n].bytes = file[n].bytes /\ file'[n].owner = file[n].owner
             /\ file'[n].mode = file[n].mode /\ file'[n].by = IF file[n].by = s THEN Boot ELSE file[n].by
  <2>1. CASE file[n].by = s
    <3>1. file'[n] = [file[n] EXCEPT !.by = Boot]
      BY <1>2, <2>1 DEF Closed
    <3>2. s = Boot \/ n = tmp
      BY <2>1 DEF Uncut, Writers
    <3>3. s = Boot => file'[n] = file[n]
      BY <1>1, <2>1, <3>1 DEF File
    <3> QED
      BY <1>1, <2>1, <3>1, <3>2, <3>3 DEF File
  <2>2. CASE file[n].by # s
    BY <1>2, <2>2 DEF Closed
  <2> QED
    BY <2>1, <2>2
<1>5. \A n \in {"path", "sealed"} : file[n].by = Boot
  <2>1. ASSUME NEW n \in {"path", "sealed"} PROVE file[n].by = Boot
    <3>1. file[n].by # Boot => file[n].by \in Slots /\ n = Tmp[script[file[n].by].kind]
      BY <1>1 DEF Uncut, Writers, File
    <3> QED
      BY <1>1, <3>1, NamesAreApart DEF Typed, Process
  <2> QED
    BY <2>1
<1>6. file'[tmp].by = Boot
  <2>1. CASE At(s, "read")
    BY <1>1, <1>4, <2>1 DEF Uncut, Writers, Held
  <2>2. CASE ~At(s, "read")
    BY <1>1, <1>2, <1>4, <2>2, NotReadNotWritten DEF Held
  <2> QED
    BY <2>1, <2>2
<1>7. \A n \in Names \ {"path"} : ~Mixed(file[n])
  BY DEF Uncut, Files
<1>8. \A n \in {"path", "sealed"} : file'[n].bytes \in {"none", "whole"} /\ file'[n].by = Boot
  BY <1>1, <1>4, <1>5 DEF Uncut, Files
<1> HIDE DEF tmp
<1>9. Local(s, Gone)
  <2>1. \A n \in Names \ {tmp, "path", "sealed"} : file'[n] = file[n]
    BY <1>4
  <2>2. ~Mixed(file'[tmp]) /\ ~Mixed(file'["sealed"])
    BY <1>1, <1>4, <1>7 DEF Mixed
  <2> QED
    BY <1>2, <1>3, <1>6, <1>8, <2>1, <2>2 DEF Local, Private, tmp
<1> QED
  BY <1>2, <1>9, LocalSteps

(* A run's script starts where there is none, or where its last one ended. *)
LEMMA StartsAreUncut ==
  ASSUME Typed, Typed', Uncut, NEW s \in Slots \ {Boot}, NEW kind \in {"seal", "write"}, NEW of,
         NEW record, \A t \in Slots \ {Boot, s} : At(t, "gone"), ~At(s, "read"),
         script' = [script EXCEPT ![s] = Starting(kind, of, record)], UNCHANGED file,
         run'.step # "idle", run'.slot = s
  PROVE  Uncut'
<1>1. /\ script'[s] = Starting(kind, of, record)
      /\ \A t \in Slots \ {s} : script'[t] = script[t]
  BY DEF Typed
<1>2. /\ Starting(kind, of, record).pc = "create" /\ Starting(kind, of, record).kind = kind
      /\ Starting(kind, of, record).live
  BY DEF Starting
<1>3. Alone' /\ Restoring' /\ Files'
  BY <1>1, <1>2 DEF Uncut, Alone, Restoring, Files, Mixed, At
<1>4. Writers'
  <2>1. \A n \in Names : file[n].by # Boot => file[n].by # s /\ file[n].by \in Slots
    BY DEF Uncut, Writers, Typed, File
  <2> QED
    BY <1>1, <1>2, <2>1 DEF Uncut, Writers, At, Held
<1>5. Holding'
  BY <1>1, <1>2 DEF Uncut, Holding, Private, At, Held
<1> QED
  BY <1>3, <1>4, <1>5 DEF Uncut

LEMMA EndsAreUncut ==
  ASSUME Typed, Typed', Uncut, NEW s \in Slots, UNCHANGED file,
         script' = [script EXCEPT ![s] = Gone], \A t \in Slots \ {Boot, s} : At(t, "gone"),
         s # Boot, ~At(s, "read")
  PROVE  Uncut'
<1>1. /\ script'[s] = Gone /\ Gone.pc = "gone"
      /\ \A t \in Slots \ {s} : script'[t] = script[t]
  BY DEF Typed, Gone
<1>2. Alone' /\ Restoring' /\ Files'
  BY <1>1 DEF Uncut, Alone, Restoring, Files, Mixed, At
<1>3. Writers'
  <2>1. \A n \in Names : file[n].by # Boot => file[n].by # s /\ file[n].by \in Slots
    BY DEF Uncut, Writers, Typed, File
  <2> QED
    BY <1>1, <2>1 DEF Uncut, Writers, At, Held
<1>4. Holding'
  BY <1>1 DEF Uncut, Holding, Private, At, Held
<1> QED
  BY <1>2, <1>3, <1>4 DEF Uncut

LEMMA RebootsAreUncut ==
  ASSUME Typed, Typed', Uncut, Reboot
  PROVE  Uncut'
<1>1. /\ \A s \in Slots : script'[s].pc \in {"gone", "test"}
      /\ \A s \in Slots \ {Boot} : At(s, "gone")'
      /\ script'[Boot].kind = "restore"
  BY RebootsTest DEF At
<1>2. ASSUME NEW n \in Names
      PROVE  /\ file'[n].by = Boot /\ (n # "path" => ~Mixed(file'[n]))
             /\ file'[n].bytes \in {"none", file[n].bytes}
  <2>1. CASE n \in Volatile
    BY <2>1 DEF Reboot, None, Mixed
  <2>2. CASE n \notin Volatile
    <3>1. file'[n] = [file[n] EXCEPT !.by = Boot] /\ file[n] \in File
      BY <2>2 DEF Reboot, Typed
    <3> QED
      BY <3>1 DEF Uncut, Files, File, Mixed
  <2> QED
    BY <2>1, <2>2
<1>3. Boot \in Slots /\ {"path", "sealed"} \subseteq Names
  BY NamesAreApart, RecordsAreTyped
<1>4. \A n \in {"path", "sealed"} : file'[n].bytes \in {"none", "whole"}
  BY <1>2, <1>3 DEF Uncut, Files
<1>5. Alone' /\ Restoring'
  BY <1>1, <1>3 DEF Alone, Restoring
<1>6. Writers' /\ Holding'
  BY <1>1, <1>2 DEF Writers, Holding, Private, At
<1> QED
  BY <1>2, <1>4, <1>5, <1>6 DEF Uncut, Files

LEMMA NextFileInv == FileInv /\ [Next]_vars => FileInv'
<1> SUFFICES ASSUME FileInv, [Next]_vars PROVE FileInv'
  OBVIOUS
<1>1. Typed /\ Typed'
  BY NextTyped DEF FileInv
<1> SUFFICES ASSUME Unspent("cut")' PROVE Uncut'
  BY <1>1 DEF FileInv
<1>2. Unspent("cut") /\ ~Cut
  <2>1. Unspent("cut")' <=> faults'["cut"] = Faults["cut"]
    BY DEF Unspent
  <2>2. faults["cut"] \in Nat /\ Faults["cut"] \in Nat /\ faults["cut"] <= Faults["cut"]
    BY <1>1, ValueFileAssumption DEF Typed, FaultKinds
  <2>3. \A kind \in FaultKinds : Spend(kind) =>
          faults'["cut"] = IF kind = "cut" THEN faults["cut"] - 1 ELSE faults["cut"]
    BY <1>1 DEF Spend, Typed, FaultKinds
  <2>4. ~Cut
    BY <2>1, <2>2, <2>3 DEF Cut, FaultKinds
  <2>5. (\E kind \in FaultKinds \ {"cut"} : Spend(kind)) \/ UNCHANGED faults
    BY <2>4 DEF Next, Script, Create, Open, ReceiveSome, ReceiveAll, EndOfInput, Own, Admit, Compare,
            Drop, Move, Restate, Reown, Unheard, Test, Seek, Decrypt, operator, Kill, Begin, SealedThenWrite,
            Return, GiveUp, Reboot, Rotate, vars, FaultKinds
  <2>6. faults'["cut"] = faults["cut"]
    BY <2>3, <2>5
  <2> QED
    BY <2>1, <2>4, <2>6 DEF Unspent
<1>3. Uncut
  BY <1>2 DEF FileInv
<1>4. ASSUME NEW s \in Slots, Script(s) \/ Kill(s) PROVE Uncut'
  BY <1>1, <1>3, <1>4, ScriptsAreLocal, KillsAreLocal
<1>5. CASE Begin
  <2>1. PICK s \in Free, record \in Records :
         /\ run' = [step |-> "seal", slot |-> s, of |-> latest, record |-> record]
                          /\ script' = [script EXCEPT ![s] = Starting("seal", latest, record)]
    BY <1>5 DEF Begin, Free
  <2>2. s \in Slots \ {Boot} /\ At(s, "gone")
    BY DEF Free
  <2>3. \A t \in Slots \ {Boot} : At(t, "gone")
    BY <1>3, <1>5 DEF Begin, Uncut, Alone
  <2>4. run'.step # "idle" /\ run'.slot = s /\ ~At(s, "read") /\ UNCHANGED file
    BY <1>5, <2>1, <2>2 DEF Begin, At
  <2> QED
    BY <1>1, <1>3, <2>1, <2>2, <2>3, <2>4, StartsAreUncut
<1>6. CASE SealedThenWrite \/ Return
  <2> DEFINE s == run.slot
  <2>1. run.step # "idle" /\ At(s, "said") /\ s \in Slots /\ UNCHANGED file
    BY <1>1, <1>6 DEF SealedThenWrite, Return, Answered, Typed
  <2>2. s # Boot /\ ~At(s, "read")
    BY <1>3, <2>1 DEF Uncut, Restoring, At
  <2>3. \A t \in Slots \ {Boot, s} : At(t, "gone")
    BY <1>3 DEF Uncut, Alone
  <2>4. CASE SealedThenWrite
    <3>1. /\ script' = [script EXCEPT ![s] = Starting("write", run.of, run.record)]
          /\ run' = [run EXCEPT !.step = "write"]
      BY <2>4 DEF SealedThenWrite
    <3>2. run'.step # "idle" /\ run'.slot = s
      BY <1>1, <3>1 DEF Typed
    <3> QED
      BY <1>1, <1>3, <2>1, <2>2, <2>3, <3>1, <3>2, StartsAreUncut
  <2>5. CASE Return
    <3>1. script' = [script EXCEPT ![s] = Gone]
      BY <2>5 DEF Return
    <3> QED
      BY <1>1, <1>3, <2>1, <2>2, <2>3, <3>1, EndsAreUncut
  <2> QED
    BY <1>6, <2>4, <2>5
<1>7. CASE GiveUp
  <2>1. UNCHANGED <<file, script>> /\ At(run.slot, "gone")
    BY <1>7 DEF GiveUp
  <2>2. \A s \in Slots \ {Boot} : At(s, "gone")
    BY <1>3, <2>1 DEF Uncut, Alone
  <2> QED
    BY <1>3, <2>1, <2>2 DEF Uncut, Alone, Restoring, Writers, Holding, Files, Mixed, At, Held
<1>8. CASE Reboot
  BY <1>1, <1>3, <1>8, RebootsAreUncut
<1>9. CASE Rotate \/ UNCHANGED vars
  BY <1>3, <1>9 DEF Rotate, vars, Uncut, Alone, Restoring, Writers, Holding, Files, Mixed, At, Held
<1> QED
  BY <1>2, <1>4, <1>5, <1>6, <1>7, <1>8, <1>9 DEF Next

LEMMA InitFileInv == Init => FileInv
<1> SUFFICES ASSUME Init PROVE FileInv
  OBVIOUS
<1>1. Typed
  BY RecordsAreTyped, ValueFileAssumption DEF Init, Typed, NoRun, FaultKinds
<1>2. None.bytes = "none" /\ None.by = Boot /\ None.mode = Root /\ Gone.pc = "gone"
        /\ Gone.kind = "restore"
  BY DEF None, Gone
<1>3. {"path", "sealed"} \subseteq Names
  BY NamesAreApart
<1> QED
  BY <1>1, <1>2, <1>3, RecordsAreTyped
  DEF Init, FileInv, Uncut, Alone, Restoring, Writers, Holding, Files, Mixed, Private, At

(* Whatever is killed and however often the machine reboots, a value and   *)
(* its copy are whole or not there as long as no connection was cut.       *)
THEOREM FilesAreWhole == Spec => []NeverAFragment
<1>1. FileInv => NeverAFragment
  BY DEF FileInv, Uncut, Files, NeverAFragment
<1> QED
  BY <1>1, InitFileInv, NextFileInv, PTL DEF Spec

-----------------------------------------------------------------------------
(* A temporary that is there is one some script has yet to move or remove, *)
(* whatever was cut, as long as nothing is killed: two scripts may hold    *)
(* the same one, and then neither leaves it.                               *)
Busy == {"open", "read", "own", "admit", "compare", "drop", "move", "decrypt"}

Tended(n) == \E s \in Slots : Tmp[script[s].kind] = n /\ script[s].pc \in Busy

Tending ==
  /\ \A n \in Temporaries : Is(n) => Tended(n)
  /\ \A n \in Names : file[n].by # Boot => At(file[n].by, "read") /\ Is(n)
  /\ \A s \in Slots : script[s].pc \in {"compare", "drop"} => script[s].kind = "write"
  /\ Restoring

Unbroken == Unspent("kill") /\ Unspent("reboot")

TendInv ==
  /\ Typed /\ \A kind \in {"kill", "reboot"} : faults[kind] <= Faults[kind]
  /\ Unbroken => Tending

(* A step of one script that leaves no temporary without one.              *)
Tidy(s, next) ==
  LET tmp == Tmp[script[s].kind] IN
  /\ script' = [script EXCEPT ![s] = next]
  /\ next.pc \in Busy => next.kind = script[s].kind
  /\ next.pc \in {"compare", "drop"} => next.kind = "write"
  /\ s = Boot => /\ next.kind = "restore"
                 /\ next.pc \in {"gone", "test", "seek", "create", "decrypt", "own", "admit", "move"}
  /\ \A n \in Temporaries : Is(n)' =>
       IF n = tmp THEN next.pc \in Busy \/ (script[s].pc \notin Busy /\ Is(n)) ELSE Is(n)
  /\ \A n \in Names : file'[n].by # Boot =>
       /\ Is(n)'
       /\ IF file'[n].by = s THEN next.pc = "read"
                             ELSE \E other \in Names : file'[n].by = file[other].by

LEMMA TidySteps ==
  ASSUME Typed, Typed', Tending, NEW s \in Slots, NEW next, Tidy(s, next)
  PROVE  Tending'
<1>1. script'[s] = next /\ \A t \in Slots \ {s} : script'[t] = script[t]
  BY DEF Typed, Tidy
<1>2. Restoring' /\ \A t \in Slots : script'[t].pc \in {"compare", "drop"} => script'[t].kind = "write"
  BY <1>1 DEF Tending, Restoring, Tidy
<1>3. ASSUME NEW n \in Names, file'[n].by # Boot PROVE script'[file'[n].by].pc = "read" /\ Is(n)'
  <2>1. file'[n].by \in Slots
    BY DEF Typed, File
  <2>2. file'[n].by # s => At(file'[n].by, "read")
    <3>1. file'[n].by # s => \E other \in Names : file'[n].by = file[other].by
      BY <1>3 DEF Tidy
    <3> QED
      BY <1>3, <3>1 DEF Tending
  <2> QED
    BY <1>1, <1>3, <2>1, <2>2 DEF Tidy, At
<1>4. ASSUME NEW n \in Temporaries, Is(n)'
      PROVE  \E t \in Slots : Tmp[script'[t].kind] = n /\ script'[t].pc \in Busy
  <2>1. CASE n = Tmp[script[s].kind] /\ next.pc \in Busy
    BY <1>1, <2>1 DEF Tidy
  <2>2. CASE ~(n = Tmp[script[s].kind] /\ next.pc \in Busy)
    <3>1. Is(n) /\ (n = Tmp[script[s].kind] => script[s].pc \notin Busy)
      BY <1>4, <2>2 DEF Tidy
    <3>2. PICK t \in Slots : Tmp[script[t].kind] = n /\ script[t].pc \in Busy
      BY <3>1 DEF Tending, Tended
    <3>3. t # s
      BY <3>1, <3>2
    <3> QED
      BY <1>1, <3>2, <3>3
  <2> QED
    BY <2>1, <2>2
<1> QED
  BY <1>2, <1>3, <1>4 DEF Tending, Tended, At

(* One name given another file, of which nobody is the writer but one that reads. *)
LEMMA TidyChanges ==
  ASSUME Typed, Tending, NEW s \in Slots, NEW next \in Process, NEW n \in Names, NEW changed,
         script' = [script EXCEPT ![s] = next], file' = [file EXCEPT ![n] = changed],
         ~At(s, "read"), changed.by = Boot \/ (changed.by = s /\ next.pc = "read"),
         changed.by # Boot => changed.bytes # "none",
         next.pc \in Busy => next.kind = script[s].kind,
         next.pc \in {"compare", "drop"} => next.kind = "write",
         s = Boot => /\ next.kind = "restore"
                     /\ next.pc \in {"gone", "test", "seek", "create", "decrypt", "own", "admit", "move"},
         n \in Temporaries /\ changed.bytes # "none" =>
           next.pc \in Busy /\ n = Tmp[script[s].kind],
         script[s].pc \in Busy => next.pc \in Busy \/ (n = Tmp[script[s].kind] /\ changed.bytes = "none")
  PROVE  Tidy(s, next)
<1>1. file'[n] = changed /\ \A other \in Names \ {n} : file'[other] = file[other]
  BY DEF Typed
<1>2. Temporaries \subseteq Names
  BY DEF Temporaries, Tmp, Kinds, Names
<1>3. \A other \in Names : file[other].by # Boot => file[other].by # s /\ Is(other)
  BY DEF Tending, At
<1> QED
  BY <1>1, <1>2, <1>3 DEF Tidy, Is

LEMMA TidyStands ==
  ASSUME Typed, Tending, NEW s \in Slots, NEW next \in Process,
         script' = [script EXCEPT ![s] = next], UNCHANGED file,
         next.pc = script[s].pc \/ ~At(s, "read"),
         next.pc \in Busy => next.kind = script[s].kind,
         next.pc \in {"compare", "drop"} => next.kind = "write",
         s = Boot => /\ next.kind = "restore"
                     /\ next.pc \in {"gone", "test", "seek", "create", "decrypt", "own", "admit", "move"},
         script[s].pc \in Busy => next.pc \in Busy
  PROVE  Tidy(s, next)
<1>1. \A n \in Names : file[n].by # Boot => At(file[n].by, "read") /\ Is(n)
  BY DEF Tending
<1> QED
  BY <1>1 DEF Tidy, Is, At

LEMMA ScriptsAreTidy ==
  ASSUME Typed, Typed', Tending, NEW s \in Slots, Script(s)
  PROVE  Tending'
<1> DEFINE kind == script[s].kind
           tmp == Tmp[kind]
           To(pc) == [script[s] EXCEPT !.pc = pc]
<1>1. /\ kind \in Kinds /\ tmp \in Names \ {"path", "sealed"}
      /\ {"path", "path.planner", "sealed"} \subseteq Names
      /\ file \in [Names -> File] /\ script[s] \in Process /\ Boot \notin 1 .. Connections
      /\ Temporaries = {"path.planner", "path.unsealing", "sealed.planner"}
      /\ Temporaries \subseteq Names
  BY NamesAreApart DEF Typed, Process, Names, Boot, Temporaries, Tmp, Kinds
<1>2. s = Boot => /\ kind = "restore" /\ tmp = "path.unsealing"
                  /\ script[s].pc \in {"gone", "test", "seek", "create", "decrypt", "own", "admit", "move"}
  BY NamesAreApart DEF Tending, Restoring
<1>3. ASSUME NEW pc \in Steps
      PROVE  /\ To(pc) \in Process /\ To(pc).pc = pc /\ To(pc).kind = kind
             /\ Goto(s, pc) => script' = [script EXCEPT ![s] = To(pc)]
  BY <1>1 DEF Process, Goto
<1>4. None.bytes = "none" /\ None.by = Boot /\ Gone \in Process /\ Gone.pc = "gone" /\ Gone.kind = "restore"
  BY RecordsAreTyped DEF None, Gone
<1>5. script[s].pc \in {"compare", "drop"} => kind = "write" /\ tmp = "path.planner"
  BY NamesAreApart DEF Tending
<1>6. \A n \in Names : file[n].by # Boot => At(file[n].by, "read") /\ Is(n)
  BY DEF Tending
<1> HIDE DEF To, tmp, kind
<1>7. ASSUME Fail(s), ~At(s, "read") PROVE Tending'
  <2>1. file' = [file EXCEPT ![tmp] = None] /\ script' = [script EXCEPT ![s] = Gone]
    BY <1>7 DEF Fail, tmp, kind
  <2>2. Tidy(s, Gone)
    BY <1>1, <1>4, <1>7, <2>1, TidyChanges DEF tmp, kind, Busy
  <2> QED
    BY <2>2, TidySteps
<1>8. ASSUME NEW n \in Names, NEW changed, NEW pc \in Steps, Goto(s, pc),
             file' = [file EXCEPT ![n] = changed], ~At(s, "read"),
             changed.by = Boot \/ (changed.by = s /\ pc = "read" /\ changed.bytes # "none"),
             pc \in {"compare", "drop"} => kind = "write",
             s = Boot => pc \in {"gone", "test", "seek", "create", "decrypt", "own", "admit", "move"},
             n \in Temporaries /\ changed.bytes # "none" => pc \in Busy /\ n = tmp,
             script[s].pc \in Busy => pc \in Busy \/ (n = tmp /\ changed.bytes = "none")
      PROVE  Tending'
  <2> DEFINE next == To(pc)
  <2>1. /\ next \in Process /\ next.pc = pc /\ next.kind = kind
        /\ script' = [script EXCEPT ![s] = next]
    BY <1>3, <1>8
  <2>2. changed.by # Boot => changed.bytes # "none"
    BY <1>8
  <2> HIDE DEF next
  <2>3. Tidy(s, next)
    BY <1>2, <1>8, <2>1, <2>2, TidyChanges DEF tmp, kind
  <2> QED
    BY <2>3, TidySteps
<1>9. ASSUME NEW pc \in Steps, Goto(s, pc), UNCHANGED file, ~At(s, "read"),
             pc \in {"compare", "drop"} => kind = "write",
             s = Boot => pc \in {"gone", "test", "seek", "create", "decrypt", "own", "admit", "move"},
             script[s].pc \in Busy => pc \in Busy
      PROVE  Tending'
  <2>1. Tidy(s, To(pc))
    BY <1>2, <1>3, <1>9, TidyStands DEF kind
  <2> QED
    BY <2>1, TidySteps
<1>10. ASSUME script' = [script EXCEPT ![s] = Gone], UNCHANGED file, ~At(s, "read"), script[s].pc \notin Busy
       PROVE  Tending'
  <2>1. Tidy(s, Gone)
    BY <1>4, <1>10, TidyStands DEF Busy
  <2> QED
    BY <2>1, TidySteps
<1>11. CASE Create(s)
  <2> DEFINE pc == IF s = Boot THEN "decrypt" ELSE "open"
  <2>1. file' = [file EXCEPT ![tmp] = Empty(script[s].of)] /\ Goto(s, pc) /\ At(s, "create")
    BY <1>11 DEF Create, tmp, kind
  <2>2. Empty(script[s].of).by = Boot
    BY DEF Empty, None
  <2> QED
    BY <1>1, <1>8, <2>1, <2>2 DEF Busy, At, Steps
<1>12. CASE Open(s)
  <2> DEFINE opened == [file[tmp] EXCEPT !.of = script[s].of, !.bytes = "empty", !.by = s]
  <2>1. file' = [file EXCEPT ![tmp] = opened] /\ Goto(s, "read") /\ At(s, "open")
    BY <1>1, <1>12 DEF Open, tmp, kind
  <2>2. opened.by = s /\ opened.bytes = "empty"
    BY <1>1 DEF File
  <2> HIDE DEF opened
  <2> QED
    BY <1>1, <1>2, <1>8, <2>1, <2>2 DEF Busy, At, Steps
<1>13. ASSUME NEW bytes \in {"part", "whole"}, At(s, "read")
       PROVE  \A n \in Names : /\ Filled(s, bytes)[n].by = file[n].by
                               /\ Filled(s, bytes)[n].bytes # "none" <=> Is(n)
  <2>1. ASSUME NEW n \in Names
        PROVE  /\ Filled(s, bytes)[n].by = file[n].by
               /\ Filled(s, bytes)[n].bytes # "none" <=> Is(n)
    <3>1. CASE file[n].by = s
      <4>1. s # Boot
        BY <1>2, <1>13 DEF At
      <4>2. Filled(s, bytes)[n] = [file[n] EXCEPT !.bytes = bytes] /\ file[n] \in File /\ Is(n)
        BY <1>1, <1>6, <3>1, <4>1 DEF Filled
      <4> QED
        BY <4>2 DEF File
    <3>2. CASE file[n].by # s
      BY <3>2 DEF Filled, Is
    <3> QED
      BY <3>1, <3>2
  <2> QED
    BY <2>1
<1>14. CASE ReceiveSome(s)
  <2>1. At(s, "read") /\ file' = Filled(s, "part") /\ UNCHANGED script
    BY <1>14 DEF ReceiveSome
  <2>2. \A n \in Names : file'[n].by = file[n].by /\ (Is(n)' <=> Is(n))
    BY <1>13, <2>1 DEF Is
  <2>3. script' = [script EXCEPT ![s] = script[s]]
    BY <2>1 DEF Typed
  <2>4. Tidy(s, script[s])
    BY <1>1, <1>2, <1>5, <1>6, <2>1, <2>2, <2>3 DEF Tidy, At, Busy, kind, tmp
  <2> QED
    BY <2>4, TidySteps
<1>15. ASSUME NEW f \in [Names -> File], file' = Closed(f, s), Goto(s, "own"), At(s, "read"),
              \A n \in Names : f[n].by = file[n].by /\ (f[n].bytes # "none" <=> Is(n))
       PROVE  Tending'
  <2>1. s # Boot
    BY <1>2, <1>15 DEF At
  <2>2. ASSUME NEW n \in Names
        PROVE  /\ Is(n)' <=> Is(n)
               /\ file'[n].by # s /\ file'[n].by \in {Boot, file[n].by}
    <3>1. CASE f[n].by = s
      <4>1. file'[n] = [f[n] EXCEPT !.by = Boot] /\ f[n] \in File
        BY <1>15, <3>1 DEF Closed
      <4> QED
        BY <1>15, <2>1, <4>1 DEF File, Is
    <3>2. CASE f[n].by # s
      BY <1>15, <3>2 DEF Closed, Is
    <3> QED
      BY <3>1, <3>2
  <2>3. To("own").pc = "own" /\ To("own").kind = kind /\ script' = [script EXCEPT ![s] = To("own")]
    BY <1>3, <1>15 DEF Steps
  <2>4. Tidy(s, To("own"))
    BY <1>1, <1>6, <1>15, <2>1, <2>2, <2>3 DEF Tidy, At, Busy, kind, tmp
  <2> QED
    BY <2>4, TidySteps
<1>16. CASE ReceiveAll(s)
  <2>1. At(s, "read") /\ file' = Closed(Filled(s, "whole"), s) /\ Goto(s, "own")
    BY <1>16 DEF ReceiveAll
  <2> QED
    BY <1>13, <1>15, <2>1, FillingIsTyped
<1>17. CASE EndOfInput(s)
  <2>1. At(s, "read") /\ file' = Closed(file, s) /\ Goto(s, "own")
    BY <1>17 DEF EndOfInput
  <2> QED
    BY <1>1, <1>15, <2>1 DEF Is
<1>18. CASE Own(s)
  <2> DEFINE owned == [file[tmp] EXCEPT !.owner = script[s].record]
  <2>1. CASE Is(tmp)
    <3>1. file' = [file EXCEPT ![tmp] = owned] /\ Goto(s, "admit") /\ At(s, "own")
      BY <1>1, <1>18, <2>1 DEF Own, tmp, kind
    <3>2. owned.by = file[tmp].by /\ owned.bytes = file[tmp].bytes
      BY <1>1 DEF File
    <3> HIDE DEF owned
    <3>3. Tidy(s, To("admit"))
      BY <1>1, <1>2, <1>3, <1>6, <2>1, <3>1, <3>2 DEF Tidy, At, Is, Busy, Steps, tmp, kind
    <3> QED
      BY <3>3, TidySteps
  <2>2. CASE ~Is(tmp)
    BY <1>7, <1>18, <2>2 DEF Own, At, tmp, kind
  <2> QED
    BY <2>1, <2>2
<1>19. CASE Admit(s)
  <2> DEFINE open == [file[tmp] EXCEPT !.mode = script[s].record]
             pc == IF kind = "write" THEN "compare" ELSE "move"
  <2>1. CASE Is(tmp)
    <3>1. file' = [file EXCEPT ![tmp] = open] /\ Goto(s, pc) /\ At(s, "admit")
      BY <1>1, <1>19, <2>1 DEF Admit, tmp, kind
    <3>2. open.by = file[tmp].by /\ open.bytes = file[tmp].bytes
      BY <1>1 DEF File
    <3> HIDE DEF open
    <3>3. Tidy(s, To(pc))
      BY <1>1, <1>2, <1>3, <1>6, <2>1, <3>1, <3>2 DEF Tidy, At, Is, Busy, Steps, tmp, kind
    <3> QED
      BY <3>3, TidySteps
  <2>2. CASE ~Is(tmp)
    BY <1>7, <1>19, <2>2 DEF Admit, At, tmp, kind
  <2> QED
    BY <2>1, <2>2
<1>20. CASE Compare(s)
  <2>1. PICK pc \in {"drop", "move"} : Goto(s, pc)
    BY <1>20 DEF Compare
  <2> QED
    BY <1>2, <1>5, <1>9, <1>20, <2>1 DEF Compare, At, Busy, Steps
<1>21. CASE Drop(s)
  <2>1. file' = [file EXCEPT !["path.planner"] = None] /\ Goto(s, "restate") /\ At(s, "drop")
    BY <1>21 DEF Drop
  <2> QED
    BY <1>1, <1>2, <1>4, <1>5, <1>8, <2>1 DEF At, Busy, Steps
<1>22. CASE Move(s)
  <2>1. At(s, "move")
    BY <1>22 DEF Move
  <2>2. CASE Is(tmp)
    <3>1. /\ file' = [file EXCEPT ![Dest[kind]] = file[tmp], ![tmp] = None]
      BY <1>22, <2>2 DEF Move, tmp, kind
    <3>2. /\ Dest[kind] \in {"path", "sealed"} /\ file'[Dest[kind]] = file[tmp] /\ file'[tmp] = None
          /\ \A n \in Names \ {tmp, Dest[kind]} : file'[n] = file[n]
      BY <1>1, <3>1, NamesAreApart
    <3>3. PICK next : /\ script' = [script EXCEPT ![s] = next]
                      /\ next = Gone \/ (s # Boot /\ \E pc \in {"said", "restate", "gone"} : next = To(pc))
      <4>1. CASE s = Boot
        BY <1>22, <2>2, <4>1 DEF Move, tmp, kind
      <4>2. CASE s # Boot
        <5> DEFINE pc == [seal |-> "said", write |-> "restate", restore |-> "gone"][kind]
        <5>1. pc \in {"said", "restate", "gone"} /\ Goto(s, pc)
          BY <1>1, <1>22, <2>2, <4>2 DEF Move, Goto, Kinds, tmp, kind
        <5> HIDE DEF pc
        <5> QED
          BY <1>3, <4>2, <5>1 DEF Steps
      <4> QED
        BY <4>1, <4>2
    <3>4. next.pc \in {"said", "restate", "gone"} /\ (s = Boot => next.pc = "gone" /\ next.kind = "restore")
      BY <1>3, <1>4, <3>3 DEF Steps
    <3>5. ASSUME NEW n \in Names, file'[n].by # Boot
          PROVE  Is(n)' /\ file'[n].by # s /\ \E other \in Names : file'[n].by = file[other].by
      <4>1. PICK other \in Names : file'[n] = file[other]
        BY <1>1, <1>4, <3>2, <3>5
      <4>2. At(file[other].by, "read") /\ Is(other)
        BY <1>6, <3>5, <4>1
      <4> QED
        BY <2>1, <4>1, <4>2 DEF At, Is
    <3>6. \A n \in Temporaries : Is(n)' => n # tmp /\ Is(n)
      BY <1>1, <1>4, <3>2 DEF Is
    <3>7. Tidy(s, next)
      BY <3>3, <3>4, <3>5, <3>6 DEF Tidy, Busy, tmp, kind
    <3> QED
      BY <3>7, TidySteps
  <2>3. CASE ~Is(tmp)
    BY <1>7, <1>22, <2>1, <2>3 DEF Move, At, tmp, kind
  <2> QED
    BY <2>2, <2>3
<1>23. CASE Restate(s) \/ Reown(s)
  <2>1. script[s].pc \in {"restate", "reown"} /\ s # Boot
    BY <1>2, <1>23 DEF Restate, Reown, At
  <2>2. CASE UNCHANGED file /\ script' = [script EXCEPT ![s] = Gone]
    BY <1>10, <2>1, <2>2 DEF At, Busy
  <2>3. ASSUME NEW pc \in {"reown", "said"}, Goto(s, pc),
               \A n \in Names : file'[n].bytes = file[n].bytes /\ file'[n].by = file[n].by
        PROVE  Tending'
    <3>1. \A n \in Names : file'[n].by = file[n].by /\ (Is(n)' <=> Is(n))
      BY <2>3 DEF Is
    <3>2. /\ To(pc).pc = pc /\ To(pc).kind = kind
          /\ script' = [script EXCEPT ![s] = To(pc)]
      BY <1>3, <2>3 DEF Steps
    <3>3. \A n \in Names : file[n].by # Boot => file[n].by # s
      BY <1>6, <2>1 DEF At
    <3>4. Tidy(s, To(pc))
      BY <1>1, <1>6, <2>1, <3>1, <3>2, <3>3 DEF Tidy, At, Busy, tmp, kind
    <3> QED
      BY <3>4, TidySteps
  <2> QED
    BY <1>23, <2>2, <2>3, StatingIsLittle
<1>24. CASE Unheard(s)
  BY <1>10, <1>24 DEF Unheard, At, Busy
<1>25. CASE s = Boot /\ (Test \/ Seek)
  <2>1. UNCHANGED file /\ script[s].pc \in {"test", "seek"}
    BY <1>25 DEF Test, Seek, At
  <2>2. script' = [script EXCEPT ![s] = Gone] \/ \E pc \in {"seek", "create"} : Goto(s, pc)
    BY <1>25 DEF Test, Seek, Goto
  <2> QED
    BY <1>9, <1>10, <2>1, <2>2 DEF At, Busy, Steps
<1>26. CASE s = Boot /\ Decrypt
  <2> DEFINE opened == [file["path.unsealing"] EXCEPT !.of = file["sealed"].of, !.bytes = "whole"]
  <2>1. At(s, "decrypt") /\ tmp = "path.unsealing"
    BY <1>2, <1>26 DEF Decrypt
  <2>2. CASE file["sealed"].bytes = "whole"
    <3>1. file' = [file EXCEPT ![tmp] = opened] /\ Goto(s, "own")
      BY <1>1, <1>26, <2>1, <2>2 DEF Decrypt
    <3>2. opened.by = file[tmp].by /\ opened.bytes = "whole"
      BY <1>1, <2>1 DEF File
    <3> HIDE DEF opened
    <3>3. Tidy(s, To("own"))
      BY <1>1, <1>2, <1>3, <1>6, <1>26, <2>1, <3>1, <3>2 DEF Tidy, At, Is, Busy, Steps, tmp, kind
    <3> QED
      BY <3>3, TidySteps
  <2>3. CASE file["sealed"].bytes # "whole"
    BY <1>7, <1>26, <2>1, <2>3 DEF Decrypt, At
  <2> QED
    BY <2>2, <2>3
<1> QED
  BY <1>11, <1>12, <1>14, <1>16, <1>17, <1>18, <1>19, <1>20, <1>21, <1>22, <1>23, <1>24, <1>25, <1>26
  DEF Script

LEMMA NextTendInv == TendInv /\ [Next]_vars => TendInv'
<1> SUFFICES ASSUME TendInv, [Next]_vars PROVE TendInv'
  OBVIOUS
<1>1. Typed /\ Typed' /\ \A kind \in FaultKinds : faults[kind] \in Nat /\ Faults[kind] \in Nat
  BY NextTyped, ValueFileAssumption DEF TendInv, Typed
<1>2. ASSUME NEW kind \in FaultKinds, Spend(kind)
      PROVE  \A other \in FaultKinds :
               faults'[other] = IF other = kind THEN faults[other] - 1 ELSE faults[other]
  BY <1>1, <1>2 DEF Spend, Typed
<1>3. (\E kind \in FaultKinds : Spend(kind)) \/ UNCHANGED faults
  BY DEF Next, Script, Create, Open, ReceiveSome, ReceiveAll, EndOfInput, Own, Admit, Compare,
         Drop, Move, Restate, Reown, Unheard, Test, Seek, Decrypt, operator, Kill, Begin, SealedThenWrite,
         Return, GiveUp, Cut, Reboot, Rotate, vars, FaultKinds
<1>4. /\ \A kind \in {"kill", "reboot"} : faults'[kind] <= Faults[kind]
      /\ Unbroken' => Unbroken
  <2>1. \A kind \in FaultKinds : faults'[kind] = faults[kind] \/ faults'[kind] = faults[kind] - 1
    BY <1>2, <1>3
  <2>2. \A kind \in {"kill", "reboot"} : faults[kind] <= Faults[kind] /\ kind \in FaultKinds
    BY DEF TendInv, FaultKinds
  <2>3. \A kind \in {"kill", "reboot"} :
          faults'[kind] <= Faults[kind] /\ (faults'[kind] = Faults[kind] => faults[kind] = Faults[kind])
    BY <1>1, <2>1, <2>2
  <2> QED
    BY <2>3 DEF Unbroken, Unspent
<1> SUFFICES ASSUME Unbroken' PROVE Tending'
  BY <1>1, <1>4 DEF TendInv
<1>5. Tending
  BY <1>4 DEF TendInv
<1>6. ~Spend("kill") /\ ~Spend("reboot")
  <2>1. ASSUME NEW kind \in {"kill", "reboot"}, Spend(kind) PROVE FALSE
    <3>1. kind \in FaultKinds /\ faults'[kind] = faults[kind] - 1
      BY <1>2, <2>1 DEF FaultKinds
    <3>2. faults[kind] <= Faults[kind] /\ faults'[kind] = Faults[kind]
      BY DEF TendInv, Unbroken, Unspent
    <3> QED
      BY <1>1, <3>1, <3>2
  <2> QED
    BY <2>1
<1>7. ASSUME NEW s \in Slots, Script(s) PROVE Tending'
  BY <1>1, <1>5, <1>7, ScriptsAreTidy
<1>8. ASSUME NEW s \in Slots, NEW next \in Process, script' = [script EXCEPT ![s] = next],
             UNCHANGED file, s # Boot, next.pc = script[s].pc \/ ~At(s, "read"),
             next.pc \in Busy => next.kind = script[s].kind,
             next.pc \in {"compare", "drop"} => next.kind = "write",
             script[s].pc \in Busy => next.pc \in Busy
      PROVE  Tending'
  <2>1. Tidy(s, next)
    BY <1>1, <1>5, <1>8, TidyStands
  <2> QED
    BY <1>1, <1>5, <2>1, TidySteps
<1>9. CASE Begin
  <2>1. PICK s \in Free, record \in Records :
          script' = [script EXCEPT ![s] = Starting("seal", latest, record)]
    BY <1>9 DEF Begin
  <2>2. /\ s \in Slots /\ s # Boot /\ At(s, "gone") /\ UNCHANGED file
        /\ Starting("seal", latest, record) \in Process /\ Starting("seal", latest, record).pc = "create"
    BY <1>1, <1>9, RecordsAreTyped DEF Begin, Free, Typed, Kinds, Starting, Owners
  <2> QED
    BY <1>8, <2>1, <2>2 DEF At, Busy
<1>10. CASE SealedThenWrite \/ Return
  <2>1. /\ At(run.slot, "said") /\ run.slot \in Slots /\ UNCHANGED file
    BY <1>1, <1>10 DEF SealedThenWrite, Return, Answered, Typed
  <2>2. run.slot # Boot
    BY <1>5, <2>1 DEF Tending, Restoring, At
  <2>3. PICK next \in Process : script' = [script EXCEPT ![run.slot] = next] /\ next.pc \in {"create", "gone"}
    <3>1. Gone.pc = "gone" /\ Gone \in Process
      BY RecordsAreTyped DEF Gone
    <3>2. Starting("write", run.of, run.record).pc = "create" /\ Starting("write", run.of, run.record) \in Process
      BY <1>1, RecordsAreTyped DEF Starting, Typed, Kinds
    <3> QED
      BY <1>10, <3>1, <3>2 DEF SealedThenWrite, Return
  <2> QED
    BY <1>8, <2>1, <2>2, <2>3 DEF At, Busy
<1>11. CASE Cut
  <2> DEFINE s == run.slot
             next == [script[s] EXCEPT !.live = FALSE]
  <2>1. s \in Slots /\ script' = [script EXCEPT ![s] = next] /\ UNCHANGED file
    BY <1>1, <1>11 DEF Cut, Typed
  <2>2. next \in Process /\ next.pc = script[s].pc /\ next.kind = script[s].kind
    BY <1>1, <2>1 DEF Typed, Process
  <2> HIDE DEF next
  <2>3. Tidy(s, next)
    BY <1>1, <1>5, <2>1, <2>2, TidyStands DEF Tending, Restoring
  <2> QED
    BY <1>1, <1>5, <2>1, <2>3, TidySteps
<1>12. CASE GiveUp \/ Rotate \/ UNCHANGED vars
  <2>1. UNCHANGED <<file, script>>
    BY <1>12 DEF GiveUp, Rotate, vars
  <2> QED
    BY <1>5, <2>1 DEF Tending, Tended, Restoring, Is, At
<1> QED
  BY <1>6, <1>7, <1>9, <1>10, <1>11, <1>12 DEF Next, Kill, Reboot

LEMMA InitTendInv == Init => TendInv
<1> SUFFICES ASSUME Init PROVE TendInv
  OBVIOUS
<1>1. Typed /\ Boot \in Slots
  BY InitFileInv, RecordsAreTyped DEF FileInv
<1>2. Temporaries \subseteq Names
  BY NamesAreApart DEF Temporaries
<1>3. None.bytes = "none" /\ None.by = Boot /\ Gone.pc = "gone" /\ Gone.kind = "restore"
  BY DEF None, Gone
<1>4. \A kind \in {"kill", "reboot"} : faults[kind] <= Faults[kind]
  BY ValueFileAssumption DEF Init, FaultKinds
<1>5. Tending
  BY <1>1, <1>2, <1>3 DEF Init, Tending, Tended, Restoring, Is, At
<1> QED
  BY <1>1, <1>4, <1>5 DEF TendInv

(* Nothing that ends by itself leaves a temporary behind, however many     *)
(* scripts of broken runs share it and however often they are cut.         *)
THEOREM NothingStrays == Spec => []NoStray
<1>1. TendInv => NoStray
  <2> SUFFICES ASSUME TendInv, Quiet, Unspent("kill"), Unspent("reboot"), NEW n \in Temporaries, Is(n)
               PROVE  FALSE
    BY DEF NoStray
  <2>1. PICK s \in Slots : script[s].pc \in Busy
    BY DEF TendInv, Unbroken, Tending, Tended
  <2> QED
    BY <2>1 DEF Quiet, At, Busy
<1> QED
  BY <1>1, InitTendInv, NextTendInv, PTL DEF Spec

-----------------------------------------------------------------------------
(* What `Value` promises: a script that has received its bytes holds those *)
(* of its run's generation until it shows them.                            *)
Reading == {"read", "own", "admit", "compare", "move"}

(* A step that leaves what is shown as it is.                              *)
Stays(s, next) ==
  LET tmp == Tmp[script[s].kind] IN
  /\ \A n \in {"path", "sealed"} : file'[n].bytes = file[n].bytes /\ file'[n].of = file[n].of
  /\ \A n \in Names \ {tmp} : file'[n].of = file[n].of
  /\ next.pc \in Reading /\ s # Boot =>
       \/ file'[tmp].of = script[s].of
       \/ script[s].pc \in Reading /\ file'[tmp].of = file[tmp].of
  /\ next.pc \in {"own", "admit", "move"} /\ s = Boot =>
       \/ file["sealed"].bytes = "whole" /\ file'[tmp].of = file["sealed"].of
       \/ script[s].pc \in {"own", "admit"} /\ file'[tmp].of = file[tmp].of
  /\ next.pc = "said" => script[s].pc = "reown"
  /\ next.pc = "reown" => script[s].pc = "restate"
  /\ next.pc = "restate" => script[s].kind = "write"

(* The step that puts a file in place.                                     *)
Moves(s, next) ==
  LET tmp == Tmp[script[s].kind]
      dest == Dest[script[s].kind] IN
  /\ At(s, "move") /\ file'[dest] = file[tmp]
  /\ \A n \in Names \ {tmp, dest} : file'[n] = file[n]
  /\ next.pc \in {"gone", "said", "restate"}
  /\ next.pc = "said" => script[s].kind = "seal"
  /\ next.pc = "restate" => script[s].kind = "write"

LEMMA ScriptsStayOrMove ==
  ASSUME Typed, Uncut, NEW s \in Slots, Script(s)
  PROVE  \E next \in Process :
           /\ script' = [script EXCEPT ![s] = next] /\ UNCHANGED operator /\ ~At(s, "gone")
           /\ next = Gone \/ (next.kind = script[s].kind /\ next.of = script[s].of)
           /\ Stays(s, next) \/ Moves(s, next)
<1> DEFINE kind == script[s].kind
           tmp == Tmp[kind]
           To(pc) == [script[s] EXCEPT !.pc = pc]
           Done(next) == /\ script' = [script EXCEPT ![s] = next] /\ UNCHANGED operator /\ ~At(s, "gone")
                         /\ next = Gone \/ (next.kind = script[s].kind /\ next.of = script[s].of)
                         /\ Stays(s, next) \/ Moves(s, next)
<1>1. /\ kind \in Kinds /\ tmp \in Names \ {"path", "sealed"}
      /\ {"path", "path.planner", "sealed"} \subseteq Names
      /\ file \in [Names -> File] /\ script[s] \in Process
  BY NamesAreApart DEF Typed, Process, Names
<1>2. s = Boot => /\ kind = "restore" /\ tmp = "path.unsealing"
                  /\ script[s].pc \in {"gone", "test", "seek", "create", "decrypt", "own", "admit", "move"}
  BY NamesAreApart DEF Uncut, Restoring
<1>3. ASSUME NEW pc \in Steps
      PROVE  /\ To(pc) \in Process /\ To(pc).pc = pc /\ To(pc).kind = kind
             /\ To(pc).of = script[s].of
             /\ Goto(s, pc) => script' = [script EXCEPT ![s] = To(pc)]
  BY <1>1 DEF Process, Goto
<1>4. Gone \in Process /\ Gone.pc = "gone"
  BY RecordsAreTyped DEF Gone
<1>5. script[s].pc \in {"own", "admit", "compare", "move"} => Is(tmp)
  BY DEF Uncut, Holding, Held, Is
<1>6. UNCHANGED operator /\ ~At(s, "gone")
  BY DEF Script, Create, Open, ReceiveSome, ReceiveAll, EndOfInput, Own, Admit, Compare, Drop,
         Move, Restate, Reown, Unheard, Test, Seek, Decrypt, At
<1> HIDE DEF To, tmp, kind
<1>7. ASSUME NEW pc \in Steps, Goto(s, pc), Stays(s, To(pc)) \/ Moves(s, To(pc))
      PROVE  \E next \in Process : Done(next)
  BY <1>3, <1>6, <1>7 DEF kind
<1>8. ASSUME script' = [script EXCEPT ![s] = Gone], Stays(s, Gone) \/ Moves(s, Gone)
      PROVE  \E next \in Process : Done(next)
  BY <1>4, <1>6, <1>8
<1> SUFFICES \E next \in Process : Done(next)
  OBVIOUS
<1> HIDE DEF Done
<1>9. ASSUME NEW pc \in Steps, Goto(s, pc), NEW changed \in File, file' = [file EXCEPT ![tmp] = changed],
             pc \in Reading /\ s # Boot =>
               changed.of = script[s].of \/ (script[s].pc \in Reading /\ changed.of = file[tmp].of),
             pc \in {"own", "admit", "move"} /\ s = Boot =>
               \/ file["sealed"].bytes = "whole" /\ changed.of = file["sealed"].of
               \/ script[s].pc \in {"own", "admit"} /\ changed.of = file[tmp].of,
             pc \notin {"reown", "said"}, pc = "restate" => kind = "write"
      PROVE  \E next \in Process : Done(next)
  <2>1. file'[tmp] = changed /\ \A n \in Names \ {tmp} : file'[n] = file[n]
    BY <1>1, <1>9
  <2>2. Stays(s, To(pc))
    BY <1>1, <1>3, <1>9, <2>1 DEF Stays, tmp, kind
  <2> QED
    BY <1>7, <1>9, <2>2
<1>10. ASSUME NEW pc \in Steps, Goto(s, pc), UNCHANGED file,
              pc \in Reading => script[s].pc \in Reading, s = Boot => pc \in {"seek", "create"},
              pc \notin {"said", "restate", "reown"}
       PROVE  \E next \in Process : Done(next)
  <2>1. Stays(s, To(pc))
    BY <1>1, <1>3, <1>10 DEF Stays, tmp, kind
  <2> QED
    BY <1>7, <1>10, <2>1
<1>11. ASSUME script' = [script EXCEPT ![s] = Gone],
              \/ UNCHANGED file
              \/ file' = [file EXCEPT ![tmp] = None]
       PROVE  \E next \in Process : Done(next)
  <2>1. Stays(s, Gone)
    BY <1>1, <1>4, <1>11 DEF Stays, Reading, tmp, kind
  <2> QED
    BY <1>8, <1>11, <2>1
<1>12. CASE Create(s)
  <2> DEFINE pc == IF s = Boot THEN "decrypt" ELSE "open"
  <2>1. file' = [file EXCEPT ![tmp] = Empty(script[s].of)] /\ Goto(s, pc) /\ Empty(script[s].of) \in File
    BY <1>1, <1>12, RecordsAreTyped DEF Create, tmp, kind, Process
  <2> QED
    BY <1>9, <2>1 DEF Reading, Steps
<1>13. CASE Open(s)
  <2> DEFINE opened == [file[tmp] EXCEPT !.of = script[s].of, !.bytes = "empty", !.by = s]
  <2>1. file' = [file EXCEPT ![tmp] = opened] /\ Goto(s, "read") /\ At(s, "open")
    BY <1>1, <1>13 DEF Open, tmp, kind
  <2>2. opened.of = script[s].of /\ opened \in File
    BY <1>1 DEF File, Process
  <2> HIDE DEF opened
  <2> QED
    BY <1>2, <1>9, <2>1, <2>2 DEF Steps, At
<1>14. ASSUME NEW bytes \in {"part", "whole"}, At(s, "read")
       PROVE  /\ s # Boot
              /\ \A n \in Names \ {tmp} : Filled(s, bytes)[n] = file[n] /\ file[n].by # s
              /\ Filled(s, bytes)[tmp].of = file[tmp].of /\ Filled(s, bytes)[tmp] \in File
  <2>1. s # Boot
    BY <1>2, <1>14 DEF At
  <2>2. ASSUME NEW n \in Names \ {tmp} PROVE file[n].by # s
    BY <2>1, <2>2 DEF Uncut, Writers, tmp, kind
  <2>3. [file[tmp] EXCEPT !.bytes = bytes].of = file[tmp].of
        /\ [file[tmp] EXCEPT !.bytes = bytes] \in File
    BY <1>1 DEF File
  <2> QED
    BY <1>1, <2>1, <2>2, <2>3 DEF Filled
<1>15. CASE ReceiveSome(s)
  <2>1. At(s, "read") /\ file' = Filled(s, "part") /\ UNCHANGED script
    BY <1>15 DEF ReceiveSome
  <2>2. script' = [script EXCEPT ![s] = script[s]]
    BY <2>1 DEF Typed
  <2>3. /\ s # Boot /\ file'[tmp].of = file[tmp].of /\ \A n \in Names \ {tmp} : file'[n] = file[n]
        /\ script[s].pc = "read"
    BY <1>14, <2>1 DEF At
  <2>4. Stays(s, script[s])
    BY <1>1, <2>3 DEF Stays, Reading, tmp, kind
  <2> QED
    BY <1>1, <1>6, <2>2, <2>4 DEF Done
<1>16. CASE ReceiveAll(s)
  <2>1. At(s, "read") /\ file' = Closed(Filled(s, "whole"), s) /\ Goto(s, "own")
    BY <1>16 DEF ReceiveAll
  <2>2. s # Boot /\ \A n \in Names \ {tmp} : file'[n] = file[n]
    BY <1>14, <2>1 DEF Closed
  <2>3. file'[tmp].of = file[tmp].of
    <3>1. Filled(s, "whole")[tmp].of = file[tmp].of /\ Filled(s, "whole")[tmp] \in File
      BY <1>14, <2>1
    <3>2. file'[tmp] \in {Filled(s, "whole")[tmp], [Filled(s, "whole")[tmp] EXCEPT !.by = Boot]}
      BY <1>1, <2>1 DEF Closed
    <3> QED
      BY <3>1, <3>2 DEF File
  <2>4. To("own").pc = "own"
    BY <1>3 DEF Steps
  <2>5. Stays(s, To("own"))
    BY <1>1, <2>1, <2>2, <2>3, <2>4 DEF Stays, Reading, At, tmp, kind
  <2> QED
    BY <1>7, <2>1, <2>5 DEF Steps
<1>17. ~EndOfInput(s)
  BY <1>2 DEF EndOfInput, Uncut, Alone, At
<1>18. CASE Own(s)
  <2> DEFINE owned == [file[tmp] EXCEPT !.owner = script[s].record]
  <2>1. file' = [file EXCEPT ![tmp] = owned] /\ Goto(s, "admit") /\ script[s].pc = "own"
    BY <1>1, <1>5, <1>18 DEF Own, tmp, kind, At
  <2>2. owned.of = file[tmp].of /\ owned \in File
    BY <1>1 DEF File, Process
  <2> HIDE DEF owned
  <2> QED
    BY <1>9, <2>1, <2>2 DEF Reading, Steps
<1>19. CASE Admit(s)
  <2> DEFINE open == [file[tmp] EXCEPT !.mode = script[s].record]
             pc == IF kind = "write" THEN "compare" ELSE "move"
  <2>1. file' = [file EXCEPT ![tmp] = open] /\ Goto(s, pc) /\ script[s].pc = "admit"
    BY <1>1, <1>5, <1>19 DEF Admit, tmp, kind, At
  <2>2. open.of = file[tmp].of /\ open \in File
    BY <1>1 DEF File, Process
  <2> HIDE DEF open
  <2> QED
    BY <1>9, <2>1, <2>2 DEF Reading, Steps
<1>20. CASE Compare(s)
  <2>1. PICK pc \in {"drop", "move"} : Goto(s, pc)
    BY <1>20 DEF Compare
  <2>2. script[s].pc = "compare" /\ UNCHANGED file
    BY <1>20 DEF Compare, At
  <2> QED
    BY <1>2, <1>10, <2>1, <2>2 DEF Reading, Steps
<1>21. CASE Drop(s)
  <2>1. file' = [file EXCEPT !["path.planner"] = None] /\ Goto(s, "restate") /\ script[s].pc = "drop"
    BY <1>21 DEF Drop, At
  <2>2. kind = "write" /\ tmp = "path.planner"
    BY <2>1, NamesAreApart DEF Uncut, Holding, tmp, kind
  <2> QED
    BY <1>9, <2>1, <2>2, RecordsAreTyped DEF Reading, Steps
<1>22. CASE Move(s)
  <2>1. At(s, "move") /\ file' = [file EXCEPT ![Dest[kind]] = file[tmp], ![tmp] = None]
    BY <1>5, <1>22 DEF Move, tmp, kind, At
  <2>2. /\ Dest[kind] \in {"path", "sealed"} /\ file'[Dest[kind]] = file[tmp]
        /\ \A n \in Names \ {tmp, Dest[kind]} : file'[n] = file[n]
    BY <1>1, <2>1, NamesAreApart
  <2>3. CASE s = Boot
    <3>1. script' = [script EXCEPT ![s] = Gone]
      BY <1>5, <1>22, <2>1, <2>3 DEF Move, tmp, kind, At
    <3>2. Moves(s, Gone)
      BY <1>4, <2>1, <2>2 DEF Moves, tmp, kind
    <3> QED
      BY <1>8, <3>1, <3>2
  <2>4. CASE s # Boot
    <3>1. kind \in {"seal", "write"}
      BY <2>1, <2>4 DEF Uncut, Alone, At, kind
    <3> DEFINE pc == [seal |-> "said", write |-> "restate", restore |-> "gone"][kind]
    <3>2. /\ Goto(s, pc) /\ pc \in {"said", "restate"}
          /\ pc = "said" => kind = "seal"
          /\ pc = "restate" => kind = "write"
      BY <1>5, <1>22, <2>1, <2>4, <3>1 DEF Move, Goto, tmp, kind, At
    <3> HIDE DEF pc
    <3>3. Moves(s, To(pc))
      BY <1>3, <2>1, <2>2, <3>2 DEF Moves, Steps, tmp, kind
    <3> QED
      BY <1>7, <3>2, <3>3 DEF Steps
  <2> QED
    BY <2>3, <2>4
<1>23. CASE Restate(s) \/ Reown(s)
  <2>1. script[s].pc \in {"restate", "reown"}
    BY <1>23 DEF Restate, Reown, At
  <2>2. CASE UNCHANGED file /\ script' = [script EXCEPT ![s] = Gone]
    BY <1>11, <1>23, <2>2 DEF Restate, Reown
  <2>3. ASSUME NEW pc \in {"reown", "said"}, Goto(s, pc),
               script[s].pc = [reown |-> "restate", said |-> "reown"][pc],
               \A n \in Names : file'[n].bytes = file[n].bytes /\ file'[n].of = file[n].of
        PROVE  \E next \in Process : Done(next)
    <3>1. To(pc).pc = pc
      BY <1>3, <2>3 DEF Steps
    <3>2. Stays(s, To(pc))
      BY <1>1, <2>3, <3>1 DEF Stays, Reading, tmp, kind
    <3> QED
      BY <1>7, <2>3, <3>2 DEF Steps
  <2> QED
    BY <1>23, <2>2, <2>3, StatingIsLittle
<1>24. CASE Unheard(s)
  BY <1>11, <1>24 DEF Unheard
<1>25. CASE s = Boot /\ (Test \/ Seek)
  <2>1. UNCHANGED file /\ (script' = [script EXCEPT ![s] = Gone] \/ \E pc \in {"seek", "create"} : Goto(s, pc))
    BY <1>25 DEF Test, Seek, Goto
  <2> QED
    BY <1>10, <1>11, <2>1 DEF Reading, Steps
<1>26. CASE s = Boot /\ Decrypt
  <2> DEFINE opened == [file["path.unsealing"] EXCEPT !.of = file["sealed"].of, !.bytes = "whole"]
  <2>1. tmp = "path.unsealing"
    BY <1>2, <1>26
  <2>2. CASE file["sealed"].bytes = "whole"
    <3>1. file' = [file EXCEPT ![tmp] = opened] /\ Goto(s, "own")
      BY <1>1, <1>26, <2>1, <2>2 DEF Decrypt
    <3>2. opened.of = file["sealed"].of /\ opened \in File
      BY <1>1, <2>1 DEF File
    <3> HIDE DEF opened
    <3> QED
      BY <1>9, <1>26, <2>2, <3>1, <3>2 DEF Steps
  <2>3. CASE file["sealed"].bytes # "whole"
    <3>1. file' = [file EXCEPT ![tmp] = None] /\ script' = [script EXCEPT ![s] = Gone]
      BY <1>26, <2>3 DEF Decrypt, Fail, tmp, kind
    <3> QED
      BY <1>11, <3>1
  <2> QED
    BY <2>2, <2>3
<1> QED
  BY <1>12, <1>13, <1>15, <1>16, <1>17, <1>18, <1>19, <1>20, <1>21, <1>22, <1>23, <1>24, <1>25, <1>26
  DEF Script

-----------------------------------------------------------------------------
(* The generation that an active script holds, the one that its run is of, *)
(* and the one that the copy has.                                          *)
OfRun(s) ==
  /\ script[s].of = run.of /\ script[s].kind = run.step
  /\ script[s].pc \in Reading => Held(s).of = run.of
  /\ script[s].kind = "write" \/ At(s, "said") => Shows("sealed") = run.of
  /\ script[s].pc \in {"restate", "reown"} => script[s].kind = "write"

OfCopy ==
  /\ run.step = "idle"
  /\ script[Boot].pc \in {"own", "admit", "move"} =>
       file["path.unsealing"].of = Shows("sealed") /\ Shows("sealed") # 0

Generations ==
  /\ latest >= 1 /\ Shows("sealed") \in 0 .. latest
  /\ file["sealed"].bytes = "whole" => file["sealed"].of # 0
  /\ run.step # "idle" => run.of \in 1 .. latest /\ Shows("sealed") <= run.of
  /\ \A s \in Slots \ {Boot} : ~At(s, "gone") => OfRun(s)
  /\ ~At(Boot, "gone") => OfCopy

LEMMA OneScript ==
  ASSUME Typed, Uncut, Generations, NEW s \in Slots, ~At(s, "gone"), NEW t \in Slots \ {s}
  PROVE  At(t, "gone")
BY DEF Uncut, Alone, Generations, OfCopy

LEMMA ShownIsTyped ==
  ASSUME Typed
  PROVE  /\ Shows("path") \in Nat /\ Shows("sealed") \in Nat
         /\ latest \in Nat /\ faults["reboot"] \in Nat /\ run.of \in Nat
BY NamesAreApart DEF Typed, Shows, File, FaultKinds

(* A step that shows nothing new.                                          *)
LEMMA StaysKeeps ==
  ASSUME Typed, Uncut, Generations, NEW s \in Slots, NEW next \in Process, Stays(s, next),
         script' = [script EXCEPT ![s] = next], UNCHANGED operator, ~At(s, "gone"),
         next = Gone \/ (next.kind = script[s].kind /\ next.of = script[s].of)
  PROVE  Generations' /\ UNCHANGED <<Shows("path"), Shows("sealed"), latest, faults>>
<1> DEFINE tmp == Tmp[script[s].kind]
<1>1. /\ script'[s] = next /\ \A t \in Slots \ {s} : script'[t] = script[t] /\ At(t, "gone")
      /\ UNCHANGED <<run, latest, faults>>
  BY OneScript DEF Typed, operator
<1>2. /\ Shows("path")' = Shows("path") /\ Shows("sealed")' = Shows("sealed")
      /\ file'["sealed"].bytes = file["sealed"].bytes /\ file'["sealed"].of = file["sealed"].of
  BY DEF Stays, Shows
<1>3. Gone.pc = "gone"
  BY DEF Gone
<1>4. ASSUME s # Boot, next.pc # "gone" PROVE OfRun(s)'
  <2>1. OfRun(s) /\ next.kind = script[s].kind /\ next.of = script[s].of
    BY <1>3, <1>4 DEF Generations
  <2>2. next.pc \in Reading => file'[tmp].of = run.of
    BY <1>4, <2>1 DEF Stays, OfRun, Held
  <2>3. /\ next.pc = "said" => script[s].kind = "write"
        /\ next.pc \in {"restate", "reown"} => script[s].kind = "write"
    BY <2>1 DEF Stays, OfRun, At
  <2> QED
    BY <1>1, <1>2, <2>1, <2>2, <2>3 DEF OfRun, Held, At
<1>5. ASSUME s = Boot, next.pc # "gone" PROVE OfCopy'
  <2>1. OfCopy /\ tmp = "path.unsealing"
    BY <1>5, NamesAreApart DEF Generations, Uncut, Restoring
  <2>2. ASSUME next.pc \in {"own", "admit", "move"}
        PROVE  file'[tmp].of = Shows("sealed") /\ Shows("sealed") # 0
    <3>1. CASE file["sealed"].bytes = "whole" /\ file'[tmp].of = file["sealed"].of
      BY <3>1 DEF Shows, Generations
    <3>2. CASE script[s].pc \in {"own", "admit"} /\ file'[tmp].of = file[tmp].of
      BY <1>5, <2>1, <3>2 DEF OfCopy
    <3> QED
      BY <1>5, <2>2, <3>1, <3>2 DEF Stays
  <2> QED
    BY <1>1, <1>2, <1>5, <2>1, <2>2 DEF OfCopy
<1>6. ASSUME NEW t \in Slots \ {Boot}, ~At(t, "gone")' PROVE OfRun(t)'
  <2>1. t = s /\ next.pc # "gone"
    BY <1>1, <1>6 DEF At
  <2> QED
    BY <1>4, <1>6, <2>1
<1>7. ~At(Boot, "gone")' => OfCopy'
  <2>1. ASSUME ~At(Boot, "gone")' PROVE s = Boot /\ next.pc # "gone"
    BY <1>1, <2>1, RecordsAreTyped DEF At
  <2> QED
    BY <1>5, <2>1
<1>8. Generations'
  BY <1>1, <1>2, <1>6, <1>7 DEF Generations
<1> QED
  BY <1>1, <1>2, <1>8

(* The step that shows what a script holds.                                *)
LEMMA MovesKeep ==
  ASSUME Typed, Uncut, Generations, NEW s \in Slots, NEW next \in Process, Moves(s, next),
         script' = [script EXCEPT ![s] = next], UNCHANGED operator,
         next = Gone \/ (next.kind = script[s].kind /\ next.of = script[s].of)
  PROVE  Generations' /\ [Promise!Next]_(Promise!promise)
<1>0. UNCHANGED Unspent("cut")
  BY DEF operator, Unspent
<1> DEFINE kind == script[s].kind
           tmp == Tmp[kind]
<1>1. /\ script'[s] = next /\ \A t \in Slots \ {s} : script'[t] = script[t] /\ At(t, "gone")
      /\ UNCHANGED <<run, latest, faults>> /\ script[s].pc = "move" /\ kind \in Kinds
  BY OneScript DEF Typed, operator, Moves, At, Process
<1>2. /\ file[tmp].bytes = "whole" /\ file'[Dest[kind]] = file[tmp]
      /\ \A n \in Names \ {tmp, Dest[kind]} : file'[n] = file[n]
      /\ tmp \notin {"path", "sealed"} /\ {"path", "sealed"} \subseteq Names
  BY <1>1, NamesAreApart DEF Uncut, Holding, Held, Moves
<1>3. Gone.pc = "gone"
  BY DEF Gone
<1>4. CASE s = Boot
  <2>1. /\ kind = "restore" /\ Dest[kind] = "path" /\ tmp = "path.unsealing"
        /\ run.step = "idle" /\ file[tmp].of = Shows("sealed") /\ Shows("sealed") # 0
    BY <1>1, <1>4, NamesAreApart DEF Uncut, Restoring, Generations, OfCopy, At, Dest
  <2>2. /\ Shows("path")' = Shows("sealed") /\ file'["sealed"] = file["sealed"]
        /\ Shows("sealed")' = Shows("sealed")
    BY <1>2, <2>1 DEF Shows
  <2>3. next.pc = "gone"
    BY <1>1, <1>3, <1>4, <2>1 DEF Moves
  <2>4. Generations'
    BY <1>1, <1>4, <2>1, <2>2, <2>3 DEF Generations, At
  <2>5. Promise!Place
    BY <1>0, <1>1, <2>1, <2>2 DEF Promise!Place
  <2> QED
    BY <2>4, <2>5 DEF Promise!Next
<1>5. CASE s # Boot
  <2>1. /\ OfRun(s) /\ run.step # "idle" /\ kind \in {"seal", "write"}
        /\ file[tmp].of = run.of
        /\ run.of \in 1 .. latest /\ Shows("sealed") <= run.of
    BY <1>1, <1>5 DEF Uncut, Alone, Generations, OfRun, At, Reading, Held
  <2>2. ASSUME Shows("sealed")' = run.of,
               file'["sealed"].bytes = "whole" => file'["sealed"].of # 0
        PROVE  Generations'
    <3>1. ASSUME next.pc # "gone" PROVE OfRun(s)'
      <4>1. next.pc \in {"said", "restate"} /\ next.kind = kind /\ next.of = script[s].of
            /\ (next.pc = "restate" => kind = "write")
        BY <1>3, <3>1 DEF Moves
      <4> QED
        BY <1>1, <2>1, <2>2, <4>1 DEF OfRun, Held, Reading, At
    <3>2. latest \in Nat /\ run.of \in Nat
      BY ShownIsTyped
    <3>3. ASSUME NEW t \in Slots \ {Boot}, ~At(t, "gone")' PROVE OfRun(t)'
      <4>1. t = s /\ next.pc # "gone"
        BY <1>1, <3>3 DEF At
      <4> QED
        BY <3>1, <4>1
    <3>4. At(Boot, "gone")'
      BY <1>1, <1>5, RecordsAreTyped DEF At
    <3> QED
      BY <1>1, <2>1, <2>2, <3>2, <3>3, <3>4 DEF Generations
  <2>3. CASE kind = "seal"
    <3>1. Dest[kind] = "sealed"
      BY <2>3 DEF Dest
    <3>2. /\ file'["sealed"] = file[tmp] /\ file'["path"] = file["path"]
      BY <1>2, <3>1
    <3>3. Shows("path")' = Shows("path") /\ Shows("sealed")' = run.of
      BY <1>2, <2>1, <3>2 DEF Shows
    <3>4. Generations'
      BY <2>1, <2>2, <3>2, <3>3
    <3>5. Promise!Seal \/ UNCHANGED Promise!promise
      BY <1>0, <1>1, <2>1, <3>3, ShownIsTyped DEF Promise!Seal, Promise!promise
    <3> QED
      BY <3>4, <3>5 DEF Promise!Next
  <2>4. CASE kind = "write"
    <3>1. Dest[kind] = "path"
      BY <2>4 DEF Dest
    <3>2. /\ file'["path"] = file[tmp] /\ file'["sealed"] = file["sealed"]
      BY <1>2, <3>1
    <3>3. Shows("sealed") = run.of /\ run.of # 0
      BY <2>1, <2>4 DEF OfRun
    <3>4. Shows("path")' = run.of /\ Shows("sealed")' = Shows("sealed")
      BY <1>2, <2>1, <3>2 DEF Shows
    <3>5. Generations'
      BY <2>2, <3>2, <3>3, <3>4 DEF Generations
    <3>6. Promise!Place
      BY <1>0, <1>1, <3>3, <3>4 DEF Promise!Place
    <3> QED
      BY <3>5, <3>6 DEF Promise!Next
  <2> QED
    BY <2>1, <2>3, <2>4
<1> QED
  BY <1>4, <1>5

(* A step with no script active after it but one that begins.              *)
LEMMA QuietKeeps ==
  ASSUME Typed, Generations, NEW s \in Slots, At(Boot, "gone")',
         \A t \in Slots \ {Boot, s} : At(t, "gone")', Shows("sealed")' = Shows("sealed"),
         file'["sealed"].bytes = file["sealed"].bytes, file'["sealed"].of = file["sealed"].of,
         UNCHANGED latest, run'.step # "idle" => run'.of \in 1 .. latest /\ Shows("sealed") <= run'.of,
         s # Boot /\ ~At(s, "gone")' => OfRun(s)'
  PROVE  Generations'
<1>1. \A t \in Slots \ {Boot} : ~At(t, "gone")' => OfRun(t)'
  OBVIOUS
<1> QED
  BY <1>1, ShownIsTyped DEF Generations

LEMMA UnspentStays ==
  ASSUME Unspent("cut"), Unspent("cut")'
  PROVE  UNCHANGED ~Unspent("cut")
OBVIOUS

LEMMA NextKeepsThePromise ==
  ASSUME WaitsForBoot, Typed, Typed', Uncut, Generations, [Next]_vars,
         Unspent("cut"), Unspent("cut")'
  PROVE  Generations' /\ [Promise!Next]_(Promise!promise)
<1> USE DEF Spend
<1>1. /\ Boot \in Slots /\ {"path", "sealed"} \subseteq Names /\ FaultKinds = {"cut", "kill", "reboot"}
      /\ Gone.pc = "gone" /\ NoRun.step = "idle"
  BY RecordsAreTyped, NamesAreApart DEF FaultKinds, Gone, NoRun
<1>2. ASSUME UNCHANGED <<Shows("path"), Shows("sealed"), latest, faults["reboot"]>>
      PROVE  UNCHANGED Promise!promise
  BY <1>2, UnspentStays DEF Promise!promise
<1>3. ASSUME NEW s \in Slots, Script(s)
      PROVE  Generations' /\ [Promise!Next]_(Promise!promise)
  <2>1. PICK next \in Process :
           /\ script' = [script EXCEPT ![s] = next] /\ UNCHANGED operator /\ ~At(s, "gone")
           /\ next = Gone \/ (next.kind = script[s].kind /\ next.of = script[s].of)
           /\ Stays(s, next) \/ Moves(s, next)
    BY <1>3, ScriptsStayOrMove
  <2>2. CASE Stays(s, next)
    <3>1. Generations' /\ UNCHANGED <<Shows("path"), Shows("sealed"), latest, faults>>
      BY <2>1, <2>2, StaysKeeps
    <3> QED
      BY <1>2, <3>1
  <2>3. CASE Moves(s, next)
    BY <2>1, <2>3, MovesKeep
  <2> QED
    BY <2>1, <2>2, <2>3
<1>4. ASSUME NEW s \in Slots, Kill(s)
      PROVE  Generations' /\ [Promise!Next]_(Promise!promise)
  <2>1. /\ \A t \in Slots : At(t, "gone")'
        /\ UNCHANGED <<run, latest, faults["reboot"]>>
    BY <1>1, <1>4, OneScript DEF Kill, At, Typed
  <2>2. \A n \in Names : file'[n].bytes = file[n].bytes /\ file'[n].of = file[n].of
    <3>1. ASSUME NEW n \in Names PROVE file'[n] \in {file[n], [file[n] EXCEPT !.by = Boot]}
      BY <1>4 DEF Kill, Closed
    <3>2. \A n \in Names : file[n] \in File
      BY DEF Typed
    <3> QED
      BY <3>1, <3>2 DEF File
  <2>3. Shows("path")' = Shows("path") /\ Shows("sealed")' = Shows("sealed")
    BY <1>1, <2>2 DEF Shows
  <2>4. run.step # "idle" => run.of \in 1 .. latest /\ Shows("sealed") <= run.of
    BY DEF Generations
  <2>5. Generations'
    BY <1>1, <2>1, <2>2, <2>3, <2>4, QuietKeeps
  <2> QED
    BY <1>2, <2>1, <2>3, <2>5
<1>5. ASSUME UNCHANGED <<file, latest, faults>>
      PROVE  /\ Shows("sealed")' = Shows("sealed") /\ UNCHANGED Promise!promise
             /\ file'["sealed"] = file["sealed"]
  BY <1>2, <1>5 DEF Shows
<1>6. CASE Begin
  <2>1. PICK s \in Slots \ {Boot}, record \in Records :
          /\ run' = [step |-> "seal", slot |-> s, of |-> latest, record |-> record]
          /\ script' = [script EXCEPT ![s] = Starting("seal", latest, record)]
    BY <1>6 DEF Begin, Free
  <2>2. run.step = "idle" /\ At(Boot, "gone") /\ UNCHANGED <<file, latest, faults>>
    BY <1>6 DEF Begin, Settled
  <2>3. \A t \in Slots \ {s} : script'[t] = script[t] /\ At(t, "gone")
    BY <2>1, <2>2 DEF Typed, Uncut, Alone
  <2>4. script'[s].pc = "create" /\ script'[s].kind = "seal" /\ script'[s].of = latest
    BY <2>1 DEF Typed, Starting
  <2>5. OfRun(s)'
    BY <2>1, <2>4 DEF OfRun, At, Reading
  <2>6. run'.of \in 1 .. latest /\ Shows("sealed") <= run'.of
    BY <2>1, ShownIsTyped DEF Generations
  <2>7. Generations'
    BY <1>1, <1>5, <2>2, <2>3, <2>5, <2>6, QuietKeeps DEF At
  <2> QED
    BY <1>5, <2>2, <2>7
<1>7. CASE SealedThenWrite
  <2> PICK s \in Slots : s = run.slot
    BY DEF Typed
  <2>1. /\ s \in Slots \ {Boot} /\ At(s, "said") /\ run.step = "seal"
        /\ script' = [script EXCEPT ![s] = Starting("write", run.of, run.record)]
        /\ run'.step = "write" /\ run'.of = run.of /\ UNCHANGED <<file, latest, faults>>
    BY <1>7 DEF SealedThenWrite, Answered, At, Typed, Uncut, Restoring
  <2>2. \A t \in Slots \ {s} : script'[t] = script[t] /\ At(t, "gone")
    BY <2>1, OneScript DEF Typed, At
  <2>3. script'[s].pc = "create" /\ script'[s].kind = "write" /\ script'[s].of = run.of
    BY <2>1 DEF Typed, Starting
  <2>4. /\ Shows("sealed") = run.of
        /\ run.of \in 1 .. latest /\ Shows("sealed") <= run.of
    BY <2>1 DEF Generations, OfRun, At
  <2>5. OfRun(s)'
    BY <1>5, <2>1, <2>3, <2>4 DEF OfRun, At, Reading
  <2>6. At(Boot, "gone")' /\ \A t \in Slots \ {Boot, s} : At(t, "gone")'
    BY <1>1, <2>1, <2>2 DEF At
  <2>7. Generations'
    BY <1>5, <2>1, <2>4, <2>5, <2>6, QuietKeeps
  <2> QED
    BY <1>5, <2>1, <2>7
<1>8. CASE Return \/ GiveUp
  <2>1. /\ run' = NoRun /\ run.step # "idle" /\ UNCHANGED <<file, latest, faults>>
    BY <1>8 DEF Return, GiveUp
  <2>2. \A t \in Slots : At(t, "gone")'
    <3>1. CASE GiveUp
      BY <1>1, <2>1, <3>1 DEF GiveUp, At, Uncut, Alone, Generations, OfCopy
    <3>2. CASE Return
      BY <1>1, <3>2, OneScript DEF Return, Answered, At, Typed
    <3> QED
      BY <1>8, <3>1, <3>2
  <2>3. Generations'
    BY <1>1, <1>5, <2>1, <2>2, QuietKeeps
  <2> QED
    BY <1>5, <2>1, <2>3
<1>9. ~Cut
  <2>1. ASSUME Cut PROVE faults'["cut"] = faults["cut"] - 1 /\ faults["cut"] \in Nat
    BY <1>1, <2>1 DEF Cut, Typed
  <2> QED
    BY <2>1 DEF Unspent
<1>10. CASE Reboot
  <2>1. /\ \A t \in Slots \ {Boot} : At(t, "gone")'
        /\ script'[Boot].pc = "test" /\ run' = NoRun /\ UNCHANGED latest
    BY <1>10, RebootsTest DEF Reboot, At
  <2>2. /\ file'["path"] = None
        /\ file'["sealed"].bytes = file["sealed"].bytes /\ file'["sealed"].of = file["sealed"].of
    <3>1. file["sealed"] \in File /\ file'["sealed"] = [file["sealed"] EXCEPT !.by = Boot]
      BY <1>1, <1>10 DEF Reboot, Volatile, Typed
    <3>2. file'["path"] = None
      BY <1>1, <1>10 DEF Reboot, Volatile
    <3> QED
      BY <3>1, <3>2 DEF File
  <2>3. Shows("path")' = 0 /\ Shows("sealed")' = Shows("sealed")
    BY <2>2 DEF Shows, None
  <2>4. faults["reboot"] > 0 /\ faults'["reboot"] = faults["reboot"] - 1
    BY <1>1, <1>10 DEF Reboot, Typed
  <2>5. OfCopy'
    BY <1>1, <2>1 DEF OfCopy
  <2>6. Generations'
    BY <1>1, <2>1, <2>2, <2>3, <2>5 DEF Generations
  <2>7. Promise!Reboot
    BY <2>1, <2>3, <2>4, UnspentStays DEF Promise!Reboot
  <2> QED
    BY <2>6, <2>7 DEF Promise!Next
<1>11. CASE Rotate
  <2>1. latest' = latest + 1 /\ UNCHANGED <<file, script, run, faults>>
    BY <1>11 DEF Rotate
  <2>2. UNCHANGED <<Shows("path"), Shows("sealed"), faults["reboot"]>>
    BY <2>1 DEF Shows
  <2>3. ASSUME NEW s \in Slots \ {Boot}, ~At(s, "gone")' PROVE OfRun(s)'
    <3>1. OfRun(s) /\ UNCHANGED <<script, file, run, Shows("sealed")>>
      BY <2>1, <2>2, <2>3 DEF Generations, At
    <3> QED
      BY <3>1 DEF OfRun, Held, At
  <2>4. ~At(Boot, "gone")' => OfCopy'
    BY <2>1, <2>2 DEF Generations, OfCopy, At
  <2>5. /\ latest' >= 1 /\ Shows("sealed")' \in 0 .. latest'
        /\ file'["sealed"].bytes = "whole" => file'["sealed"].of # 0
        /\ run'.step # "idle" => run'.of \in 1 .. latest' /\ Shows("sealed")' <= run'.of
    BY <2>1, <2>2, ShownIsTyped DEF Generations
  <2>6. Generations'
    BY <2>3, <2>4, <2>5 DEF Generations
  <2>7. Promise!Rotate
    BY <2>1, <2>2, UnspentStays DEF Promise!Rotate
  <2> QED
    BY <2>6, <2>7 DEF Promise!Next
<1>12. CASE UNCHANGED vars
  <2>1. UNCHANGED <<file, script, run, latest, faults>>
    BY <1>12 DEF vars
  <2>2. ASSUME NEW s \in Slots \ {Boot}, ~At(s, "gone")' PROVE OfRun(s)'
    <3>1. OfRun(s)
      BY <2>1, <2>2 DEF Generations, At
    <3> QED
      BY <1>5, <2>1, <3>1 DEF OfRun, Held, At
  <2>3. ~At(Boot, "gone")' => OfCopy'
    BY <1>5, <2>1 DEF Generations, OfCopy, At
  <2>4. Generations'
    BY <1>5, <2>1, <2>2, <2>3 DEF Generations
  <2> QED
    BY <1>5, <2>1, <2>4
<1> QED
  BY <1>3, <1>4, <1>6, <1>7, <1>8, <1>9, <1>10, <1>11, <1>12 DEF Next

LEMMA CutsAddUp ==
  ASSUME Typed, Typed', [Next]_vars, Unspent("cut")'
  PROVE  Unspent("cut")
<1>1. \A kind \in FaultKinds : Spend(kind) => faults'["cut"] <= faults["cut"]
  BY DEF Spend, Typed, FaultKinds
<1>2. (\E kind \in FaultKinds : Spend(kind)) \/ UNCHANGED faults
  BY DEF Next, Script, Create, Open, ReceiveSome, ReceiveAll, EndOfInput, Own, Admit, Compare,
         Drop, Move, Restate, Reown, Unheard, Test, Seek, Decrypt, operator, Kill, Begin, SealedThenWrite,
         Return, GiveUp, Cut, Reboot, Rotate, vars, FaultKinds
<1>3. faults'["cut"] <= faults["cut"]
  BY <1>1, <1>2 DEF Typed, FaultKinds
<1> QED
  BY <1>3, ValueFileAssumption DEF Typed, Unspent, FaultKinds

LEMMA InitKeepsThePromise == Init => Generations /\ Promise!Init
<1> SUFFICES ASSUME Init PROVE Generations /\ Promise!Init
  OBVIOUS
<1>1. /\ None.bytes = "none" /\ Gone.pc = "gone" /\ NoRun.step = "idle" /\ Boot \in Slots
      /\ {"path", "sealed"} \subseteq Names
  BY RecordsAreTyped, NamesAreApart DEF None, Gone, NoRun
<1>2. Shows("path") = 0 /\ Shows("sealed") = 0 /\ file["sealed"].bytes = "none"
  BY <1>1 DEF Init, Shows
<1>3. faults["reboot"] \in Nat /\ Unspent("cut")
  BY ValueFileAssumption DEF Init, FaultKinds, Unspent
<1> QED
  BY <1>1, <1>2, <1>3 DEF Init, Generations, At, Promise!Init

(* Where a run waits for the restore, and until a connection is cut, what  *)
(* is to be seen of a value is what `Value` says, at every command of      *)
(* every script, for any number of generations, kills and reboots.         *)
THEOREM PromiseKept ==
  ASSUME WaitsForBoot
  PROVE  Spec => KeepsItsPromise
<1> DEFINE Inv == FileInv /\ (Unspent("cut") => Generations)
<1>1. Init => Inv /\ Promise!Init
  BY InitFileInv, InitKeepsThePromise
<1>2. Inv /\ [Next]_vars => Inv' /\ [Promise!Next]_(Promise!promise)
  <2> SUFFICES ASSUME Inv, [Next]_vars PROVE Inv' /\ [Promise!Next]_(Promise!promise)
    OBVIOUS
  <2>1. FileInv' /\ Typed /\ Typed'
    BY NextFileInv DEF FileInv
  <2>2. CASE Unspent("cut")'
    <3>1. Unspent("cut")
      BY <2>1, <2>2, CutsAddUp
    <3>2. Uncut /\ Generations
      BY <3>1 DEF FileInv
    <3> QED
      BY <2>1, <2>2, <3>1, <3>2, NextKeepsThePromise
  <2>3. CASE ~Unspent("cut")'
    BY <2>1, <2>3 DEF Promise!Next, Promise!Cut
  <2> QED
    BY <2>2, <2>3
<1> HIDE DEF Inv
<1> QED
  BY <1>1, <1>2, PTL DEF Spec, KeepsItsPromise, Promise!Spec

-----------------------------------------------------------------------------
(* With broken connections: what an older script can still do.  One that   *)
(* is left on the machine when a run begins has passed the commands that   *)
(* make a temporary, and no longer gets bytes: it can only put in place or *)
(* remove what it finds under its temporary's name.                        *)
Running == run.step # "idle"
Past == {"gone", "read", "own", "admit", "compare", "drop", "move", "restate", "reown", "said"}

Shape ==
  /\ script[Boot].kind = "restore" /\ script[Boot].of = 0
  /\ script[Boot].pc \in {"gone", "test", "seek", "create", "decrypt", "own", "admit", "move"}
  /\ \A s \in Slots \ {Boot} : ~At(s, "gone") =>
       /\ script[s].kind \in {"seal", "write"}
       /\ script[s].pc \notin {"test", "seek", "decrypt"}
       /\ script[s].pc \in {"compare", "drop", "restate", "reown"} => script[s].kind = "write"
       /\ script[s].live => Running /\ run.slot = s
  /\ \A n \in Names : file[n].by # Boot =>
       /\ At(file[n].by, "read")
       /\ n \in {Tmp[script[file[n].by].kind], Dest[script[file[n].by].kind]}

(* What one command does to the files, and where its script goes on.       *)
Rest(s, touched) == \A n \in Names \ touched : file'[n] = file[n]

Kept(s, next) ==
  /\ \A n \in Names : /\ file'[n].bytes = file[n].bytes /\ file'[n].of = file[n].of
                      /\ file'[n].by = file[n].by \/ (file[n].by = s /\ file'[n].by = Boot)
                      /\ file'[n].by # s \/ s = Boot
  /\ \/ next = Gone
     \/ At(s, "read") /\ next.pc = "own" /\ ~script[s].live
     \/ /\ script[s].pc \in {"own", "admit", "compare"} /\ next.pc \in {"admit", "compare", "move"}
        /\ next.pc = "compare" => script[s].kind = "write"
     \/ At(s, "compare") /\ next.pc = "drop" /\ Same(Held(s), file["path"])
     \/ At(s, "restate") /\ next.pc = "reown"
     \/ At(s, "reown") /\ next.pc = "said"
     \/ s = Boot /\ next.pc \in {"seek", "create"}

Removed(s, next) ==
  LET tmp == Tmp[script[s].kind] IN
  /\ ~At(s, "read") /\ file'[tmp] = None /\ Rest(s, {tmp})
  /\ next = Gone \/ (At(s, "drop") /\ next.pc = "restate")

Moved(s, next) ==
  LET tmp == Tmp[script[s].kind]
      dest == Dest[script[s].kind] IN
  /\ At(s, "move") /\ Is(tmp)
  /\ file'[dest] = file[tmp] /\ file'[tmp] = None /\ Rest(s, {tmp, dest})
  /\ next.pc = [seal |-> "said", write |-> "restate", restore |-> "gone"][script[s].kind]

Made(s, next) ==
  LET tmp == Tmp[script[s].kind] IN
  /\ file'[tmp].of = script[s].of /\ file'[tmp].bytes = "empty" /\ Rest(s, {tmp})
  /\ \/ At(s, "create") /\ file'[tmp].by = Boot /\ next.pc = IF s = Boot THEN "decrypt" ELSE "open"
     \/ At(s, "open") /\ file'[tmp].by = s /\ next.pc = "read"

Received(s, next) ==
  /\ At(s, "read") /\ script[s].live
  /\ \A n \in Names : file'[n].of = file[n].of
  /\ \A n \in Names : file[n].by # s => file'[n] = file[n]
  /\ \/ next = script[s] /\ \A n \in Names : file[n].by = s =>
                              file'[n].by = s /\ file'[n].bytes = "part"
     \/ next.pc = "own" /\ \A n \in Names : file[n].by = s =>
                              file'[n].by = Boot /\ file'[n].bytes = "whole"

Decrypted(s, next) ==
  /\ s = Boot /\ file["sealed"].bytes = "whole"
  /\ file'["path.unsealing"].of = file["sealed"].of /\ file'["path.unsealing"].by = Boot
  /\ Rest(s, {"path.unsealing"})
  /\ next.pc = "own"

Effect(s, next) ==
  /\ script' = [script EXCEPT ![s] = next] /\ UNCHANGED <<run, latest>> /\ ~At(s, "gone")
  /\ \/ next = Gone
     \/ next.kind = script[s].kind /\ next.of = script[s].of /\ next.live = script[s].live
  /\ \/ Kept(s, next) \/ Removed(s, next) \/ Moved(s, next) \/ Made(s, next)
     \/ Received(s, next) \/ Decrypted(s, next)

LEMMA ScriptsHaveEffects ==
  ASSUME Typed, Shape, NEW s \in Slots, Script(s)
  PROVE  \E next \in Process : Effect(s, next)
<1> DEFINE kind == script[s].kind
           tmp == Tmp[kind]
           To(pc) == [script[s] EXCEPT !.pc = pc]
<1>1. /\ kind \in Kinds /\ tmp \in Names /\ Dest[kind] \in Names /\ tmp # Dest[kind]
      /\ {"path", "path.planner", "path.unsealing", "sealed"} \subseteq Names
      /\ file \in [Names -> File] /\ script[s] \in Process /\ script \in [Slots -> Process]
  BY NamesAreApart DEF Typed, Process, Names
<1>2. s = Boot => kind = "restore" /\ tmp = "path.unsealing" /\ script[s].pc # "read"
  BY NamesAreApart DEF Shape
<1>3. ASSUME NEW pc \in Steps
      PROVE  /\ To(pc) \in Process /\ To(pc).pc = pc /\ To(pc).kind = kind
             /\ To(pc).of = script[s].of /\ To(pc).live = script[s].live
             /\ Goto(s, pc) => script' = [script EXCEPT ![s] = To(pc)]
  BY <1>1 DEF Process, Goto
<1>4. Gone \in Process /\ Gone.pc = "gone"
  BY RecordsAreTyped DEF Gone
<1>5. UNCHANGED <<run, latest>> /\ ~At(s, "gone")
  BY DEF Script, Create, Open, ReceiveSome, ReceiveAll, EndOfInput, Own, Admit, Compare, Drop,
         Move, Restate, Reown, Unheard, Test, Seek, Decrypt, At, operator
<1>6. \A n \in Names : ~At(s, "read") => file[n].by # s \/ s = Boot
  BY DEF Shape
<1> HIDE DEF To, tmp, kind
<1>7. ASSUME NEW pc \in Steps, Goto(s, pc),
             \/ Kept(s, To(pc)) \/ Removed(s, To(pc)) \/ Moved(s, To(pc)) \/ Made(s, To(pc))
             \/ Received(s, To(pc)) \/ Decrypted(s, To(pc))
      PROVE  \E next \in Process : Effect(s, next)
  BY <1>3, <1>5, <1>7 DEF Effect, kind
<1>8. ASSUME script' = [script EXCEPT ![s] = Gone], Kept(s, Gone) \/ Removed(s, Gone) \/ Moved(s, Gone)
      PROVE  \E next \in Process : Effect(s, next)
  BY <1>4, <1>5, <1>8 DEF Effect
<1>9. ASSUME UNCHANGED file, ~At(s, "read")
      PROVE  \A n \in Names : /\ file'[n].bytes = file[n].bytes /\ file'[n].of = file[n].of
                              /\ file'[n].by = file[n].by
                              /\ file'[n].by # s \/ s = Boot
  BY <1>6, <1>9
<1>10. ASSUME Fail(s), ~At(s, "read")
       PROVE  \E next \in Process : Effect(s, next)
  <2>1. Removed(s, Gone) /\ script' = [script EXCEPT ![s] = Gone]
    BY <1>1, <1>10 DEF Fail, Removed, Rest, tmp, kind
  <2> QED
    BY <1>8, <2>1
<1>11. ASSUME NEW n \in Names, NEW changed \in File, file' = [file EXCEPT ![n] = changed],
              changed.bytes = file[n].bytes, changed.of = file[n].of, changed.by = file[n].by,
              ~At(s, "read")
       PROVE  \A m \in Names : /\ file'[m].bytes = file[m].bytes /\ file'[m].of = file[m].of
                               /\ file'[m].by = file[m].by
                               /\ file'[m].by # s \/ s = Boot
  BY <1>1, <1>6, <1>11
<1>12. CASE Create(s)
  <2> DEFINE pc == IF s = Boot THEN "decrypt" ELSE "open"
  <2>1. file' = [file EXCEPT ![tmp] = Empty(script[s].of)] /\ Goto(s, pc) /\ At(s, "create")
    BY <1>12 DEF Create, tmp, kind
  <2>2. /\ file'[tmp].of = script[s].of /\ file'[tmp].bytes = "empty" /\ file'[tmp].by = Boot
        /\ Rest(s, {tmp})
    BY <1>1, <2>1 DEF Empty, None, Rest
  <2>3. pc \in Steps
    BY DEF Steps
  <2>4. Made(s, To(pc))
    BY <1>3, <2>1, <2>2, <2>3 DEF Made, tmp, kind
  <2> QED
    BY <1>7, <2>1, <2>3, <2>4
<1>13. CASE Open(s)
  <2> DEFINE opened == [file[tmp] EXCEPT !.of = script[s].of, !.bytes = "empty", !.by = s]
  <2>1. file' = [file EXCEPT ![tmp] = opened] /\ Goto(s, "read") /\ At(s, "open")
    BY <1>1, <1>13 DEF Open, tmp, kind
  <2>2. opened.of = script[s].of /\ opened.bytes = "empty" /\ opened.by = s
    BY <1>1 DEF File
  <2> HIDE DEF opened
  <2>3. /\ file'[tmp] = opened /\ Rest(s, {tmp})
    BY <1>1, <2>1 DEF Rest
  <2>4. Made(s, To("read"))
    BY <1>3, <2>1, <2>2, <2>3 DEF Made, Steps, tmp, kind
  <2> QED
    BY <1>7, <2>1, <2>4 DEF Steps
<1>14. ASSUME NEW bytes \in {"part", "whole"}
       PROVE  \A n \in Names :
                /\ Filled(s, bytes)[n] = IF file[n].by = s THEN [file[n] EXCEPT !.bytes = bytes]
                                         ELSE file[n]
                /\ Filled(s, bytes)[n].of = file[n].of /\ Filled(s, bytes)[n].by = file[n].by
                /\ file[n].by = s => Filled(s, bytes)[n].bytes = bytes
                /\ Filled(s, bytes)[n] \in File
  <2>1. \A n \in Names : /\ [file[n] EXCEPT !.bytes = bytes].of = file[n].of
                         /\ [file[n] EXCEPT !.bytes = bytes].by = file[n].by
                         /\ [file[n] EXCEPT !.bytes = bytes].bytes = bytes
                         /\ [file[n] EXCEPT !.bytes = bytes] \in File
    BY <1>1 DEF File
  <2> QED
    BY <1>1, <2>1 DEF Filled
<1>15. CASE ReceiveSome(s)
  <2>1. At(s, "read") /\ script[s].live /\ file' = Filled(s, "part") /\ UNCHANGED script
    BY <1>15 DEF ReceiveSome
  <2>2. script' = [script EXCEPT ![s] = script[s]]
    BY <1>1, <2>1
  <2>3. Received(s, script[s])
    BY <1>14, <2>1 DEF Received
  <2> QED
    BY <1>1, <1>5, <2>2, <2>3 DEF Effect
<1>16. ASSUME NEW f \in [Names -> File]
       PROVE  \A n \in Names :
                /\ Closed(f, s)[n].of = f[n].of /\ Closed(f, s)[n].bytes = f[n].bytes
                /\ f[n].by # s => Closed(f, s)[n] = f[n]
                /\ f[n].by = s => Closed(f, s)[n].by = Boot
  <2>1. \A n \in Names : /\ [f[n] EXCEPT !.by = Boot].of = f[n].of
                         /\ [f[n] EXCEPT !.by = Boot].bytes = f[n].bytes
                         /\ [f[n] EXCEPT !.by = Boot].by = Boot
    BY DEF File
  <2> QED
    BY <2>1 DEF Closed
<1>17. CASE ReceiveAll(s)
  <2> DEFINE full == Filled(s, "whole")
  <2>1. At(s, "read") /\ script[s].live /\ file' = Closed(full, s) /\ Goto(s, "own")
    BY <1>17 DEF ReceiveAll
  <2>2. full \in [Names -> File]
    BY <1>1, <1>14 DEF Filled
  <2>3. \A n \in Names : /\ full[n].of = file[n].of /\ full[n].by = file[n].by
                         /\ file[n].by = s => full[n].bytes = "whole"
                         /\ file[n].by # s => full[n] = file[n]
    BY <1>14
  <2> HIDE DEF full
  <2>4. \A n \in Names : /\ file'[n].of = full[n].of /\ file'[n].bytes = full[n].bytes
                         /\ full[n].by # s => file'[n] = full[n]
                         /\ full[n].by = s => file'[n].by = Boot
    BY <1>16, <2>1, <2>2
  <2>5. To("own").pc = "own"
    BY <1>3 DEF Steps
  <2>6. Received(s, To("own"))
    BY <2>1, <2>3, <2>4, <2>5 DEF Received
  <2> QED
    BY <1>7, <2>1, <2>6 DEF Steps
<1>18. CASE EndOfInput(s)
  <2>1. At(s, "read") /\ ~script[s].live /\ file' = Closed(file, s) /\ Goto(s, "own")
    BY <1>18 DEF EndOfInput
  <2>2. \A n \in Names : /\ file'[n].bytes = file[n].bytes /\ file'[n].of = file[n].of
                         /\ file'[n].by = file[n].by \/ (file[n].by = s /\ file'[n].by = Boot)
                         /\ file'[n].by # s \/ s = Boot
    BY <1>1, <1>16, <2>1
  <2>3. To("own").pc = "own"
    BY <1>3 DEF Steps
  <2>4. Kept(s, To("own"))
    BY <2>1, <2>2, <2>3 DEF Kept
  <2> QED
    BY <1>7, <2>1, <2>4 DEF Steps
<1>19. CASE Own(s)
  <2> DEFINE owned == [file[tmp] EXCEPT !.owner = script[s].record]
  <2>0. At(s, "own") /\ ~At(s, "read")
    BY <1>19 DEF Own, At
  <2>1. CASE Is(tmp)
    <3>1. file' = [file EXCEPT ![tmp] = owned] /\ Goto(s, "admit")
      BY <1>1, <1>19, <2>1 DEF Own, tmp, kind
    <3>2. owned \in File /\ owned.bytes = file[tmp].bytes /\ owned.of = file[tmp].of
          /\ owned.by = file[tmp].by
      BY <1>1 DEF File, Process
    <3> HIDE DEF owned
    <3>3. To("admit").pc = "admit"
      BY <1>3 DEF Steps
    <3>4. Kept(s, To("admit"))
      BY <1>1, <1>11, <2>0, <3>1, <3>2, <3>3 DEF Kept, At
    <3> QED
      BY <1>7, <3>1, <3>4 DEF Steps
  <2>2. CASE ~Is(tmp)
    BY <1>10, <1>19, <2>0, <2>2 DEF Own, tmp, kind
  <2> QED
    BY <2>1, <2>2
<1>20. CASE Admit(s)
  <2> DEFINE open == [file[tmp] EXCEPT !.mode = script[s].record]
             pc == IF kind = "write" THEN "compare" ELSE "move"
  <2>0. At(s, "admit") /\ ~At(s, "read")
    BY <1>20 DEF Admit, At
  <2>1. CASE Is(tmp)
    <3>1. file' = [file EXCEPT ![tmp] = open] /\ Goto(s, pc)
      BY <1>1, <1>20, <2>1 DEF Admit, tmp, kind
    <3>2. open \in File /\ open.bytes = file[tmp].bytes /\ open.of = file[tmp].of
          /\ open.by = file[tmp].by
      BY <1>1 DEF File, Process
    <3> HIDE DEF open
    <3>3. pc \in Steps /\ To(pc).pc = pc
      BY <1>3 DEF Steps
    <3>4. Kept(s, To(pc))
      BY <1>1, <1>11, <2>0, <3>1, <3>2, <3>3 DEF Kept, At, kind
    <3> QED
      BY <1>7, <3>1, <3>3, <3>4
  <2>2. CASE ~Is(tmp)
    BY <1>10, <1>20, <2>0, <2>2 DEF Admit, tmp, kind
  <2> QED
    BY <2>1, <2>2
<1>21. CASE Compare(s)
  <2>1. /\ At(s, "compare") /\ ~At(s, "read") /\ UNCHANGED file
        /\ \/ Goto(s, "drop") /\ Same(Held(s), file["path"])
           \/ Goto(s, "move")
    BY <1>21 DEF Compare, At
  <2>2. To("drop").pc = "drop" /\ To("move").pc = "move"
    BY <1>3 DEF Steps
  <2>3. /\ Same(Held(s), file["path"]) => Kept(s, To("drop"))
        /\ Kept(s, To("move"))
    BY <1>9, <2>1, <2>2 DEF Kept, At
  <2> QED
    BY <1>7, <2>1, <2>3 DEF Steps
<1>22. CASE Drop(s)
  <2>1. file' = [file EXCEPT !["path.planner"] = None] /\ Goto(s, "restate") /\ At(s, "drop")
    BY <1>22 DEF Drop
  <2>2. kind = "write" /\ tmp = "path.planner" /\ ~At(s, "read")
    BY <1>2, <2>1, NamesAreApart DEF Shape, tmp, kind, At
  <2>3. Removed(s, To("restate"))
    BY <1>1, <1>3, <2>1, <2>2 DEF Removed, Rest, Steps, tmp, kind
  <2> QED
    BY <1>7, <2>1, <2>3 DEF Steps
<1>23. CASE Move(s)
  <2>0. At(s, "move") /\ ~At(s, "read")
    BY <1>23 DEF Move, At
  <2>1. CASE Is(tmp)
    <3>1. file' = [file EXCEPT ![Dest[kind]] = file[tmp], ![tmp] = None]
      BY <1>23, <2>1 DEF Move, tmp, kind
    <3>2. file'[Dest[kind]] = file[tmp] /\ file'[tmp] = None /\ Rest(s, {tmp, Dest[kind]})
      BY <1>1, <3>1 DEF Rest
    <3> DEFINE pc == [seal |-> "said", write |-> "restate", restore |-> "gone"][kind]
    <3>3. pc \in Steps
      BY <1>1 DEF Steps, Kinds
    <3>4. CASE s = Boot
      <4>1. script' = [script EXCEPT ![s] = Gone] /\ pc = "gone"
        BY <1>2, <1>23, <2>1, <3>4 DEF Move, tmp, kind
      <4>2. Moved(s, Gone)
        BY <1>4, <2>0, <2>1, <3>2, <4>1 DEF Moved, tmp, kind
      <4> QED
        BY <1>8, <4>1, <4>2
    <3>5. CASE s # Boot
      <4>1. Goto(s, pc)
        BY <1>23, <2>1, <3>5 DEF Move, Goto, tmp, kind
      <4>2. To(pc).pc = pc
        BY <1>3, <3>3
      <4>3. Moved(s, To(pc))
        BY <2>0, <2>1, <3>2, <4>2 DEF Moved, tmp, kind
      <4> HIDE DEF pc
      <4> QED
        BY <1>7, <3>3, <4>1, <4>3
    <3> QED
      BY <3>4, <3>5
  <2>2. CASE ~Is(tmp)
    BY <1>10, <1>23, <2>0, <2>2 DEF Move, tmp, kind
  <2> QED
    BY <2>1, <2>2
<1>24. CASE Restate(s) \/ Reown(s)
  <2>1. script[s].pc \in {"restate", "reown"} /\ ~At(s, "read")
    BY <1>24 DEF Restate, Reown, At
  <2>2. CASE UNCHANGED file /\ script' = [script EXCEPT ![s] = Gone]
    <3>1. Kept(s, Gone)
      BY <1>9, <2>1, <2>2 DEF Kept
    <3> QED
      BY <1>8, <2>2, <3>1
  <2>3. ASSUME NEW pc \in {"reown", "said"}, Goto(s, pc),
               script[s].pc = [reown |-> "restate", said |-> "reown"][pc],
               \A n \in Names : /\ file'[n].bytes = file[n].bytes /\ file'[n].of = file[n].of
                                /\ file'[n].by = file[n].by
        PROVE  \E next \in Process : Effect(s, next)
    <3>1. To(pc).pc = pc
      BY <1>3, <2>3 DEF Steps
    <3>2. Kept(s, To(pc))
      BY <1>1, <1>6, <2>1, <2>3, <3>1 DEF Kept, At
    <3> QED
      BY <1>7, <2>3, <3>2 DEF Steps
  <2> QED
    BY <1>24, <2>2, <2>3, StatingIsLittle
<1>25. CASE Unheard(s)
  <2>1. script' = [script EXCEPT ![s] = Gone] /\ UNCHANGED file /\ ~At(s, "read")
    BY <1>25 DEF Unheard, At
  <2>2. Kept(s, Gone)
    BY <1>9, <2>1 DEF Kept
  <2> QED
    BY <1>8, <2>1, <2>2
<1>26. CASE s = Boot /\ (Test \/ Seek)
  <2>1. /\ UNCHANGED file /\ ~At(s, "read")
        /\ script' = [script EXCEPT ![s] = Gone] \/ \E pc \in {"seek", "create"} : Goto(s, pc)
    BY <1>2, <1>26 DEF Test, Seek, Goto, At
  <2>2. \A pc \in {"seek", "create"} : pc \in Steps /\ To(pc).pc = pc
    BY <1>3 DEF Steps
  <2>3. Kept(s, Gone) /\ \A pc \in {"seek", "create"} : Kept(s, To(pc))
    BY <1>9, <1>26, <2>1, <2>2 DEF Kept
  <2> QED
    BY <1>7, <1>8, <2>1, <2>2, <2>3
<1>27. CASE s = Boot /\ Decrypt
  <2> DEFINE opened == [file["path.unsealing"] EXCEPT !.of = file["sealed"].of, !.bytes = "whole"]
  <2>1. tmp = "path.unsealing" /\ ~At(s, "read")
    BY <1>2, <1>27 DEF At
  <2>2. CASE file["sealed"].bytes = "whole"
    <3>1. file' = [file EXCEPT !["path.unsealing"] = opened] /\ Goto(s, "own")
      BY <1>1, <1>27, <2>2 DEF Decrypt
    <3>2. opened.of = file["sealed"].of /\ opened.by = file["path.unsealing"].by
      BY <1>1 DEF File
    <3>3. file["path.unsealing"].by = Boot
      <4>1. ASSUME file["path.unsealing"].by # Boot PROVE FALSE
        <5> DEFINE t == file["path.unsealing"].by
        <5>1. t \in Slots
          BY <1>1 DEF File
        <5>2. At(t, "read") /\ "path.unsealing" \in {Tmp[script[t].kind], Dest[script[t].kind]}
          BY <1>1, <4>1 DEF Shape
        <5>3. t # Boot /\ script[t].kind \in {"seal", "write"}
          BY <4>1, <5>1, <5>2 DEF Shape, At
        <5> QED
          BY <5>2, <5>3 DEF Tmp, Dest
      <4> QED
        BY <4>1
    <3> HIDE DEF opened
    <3>4. file'["path.unsealing"] = opened /\ Rest(s, {"path.unsealing"})
      BY <1>1, <3>1 DEF Rest
    <3>5. Decrypted(s, To("own"))
      BY <1>3, <1>27, <2>2, <3>2, <3>3, <3>4 DEF Decrypted, Steps
    <3> QED
      BY <1>7, <3>1, <3>5 DEF Steps
  <2>3. CASE file["sealed"].bytes # "whole"
    BY <1>10, <1>27, <2>1, <2>3 DEF Decrypt
  <2> QED
    BY <2>2, <2>3
<1> QED
  BY <1>12, <1>13, <1>15, <1>17, <1>18, <1>19, <1>20, <1>21, <1>22, <1>23, <1>24, <1>25, <1>26, <1>27
  DEF Script

(* Where a command leads, whatever it does to the files.                   *)
LEMMA EffectsLead ==
  ASSUME Typed, Shape, NEW s \in Slots, NEW next \in Process, Effect(s, next)
  PROVE  /\ script'[s] = next /\ \A t \in Slots \ {s} : script'[t] = script[t]
         /\ UNCHANGED <<run, latest>> /\ ~At(s, "gone")
         /\ next.pc # "gone" => /\ next.kind = script[s].kind /\ next.of = script[s].of
                                /\ next.live = script[s].live
         /\ next.of \in {0, script[s].of}
         /\ s = Boot =>
              /\ next.pc \in {"gone", "test", "seek", "create", "decrypt", "own", "admit", "move"}
              /\ next.kind = "restore" /\ next.of = 0
         /\ s # Boot =>
              /\ next.pc \notin {"create", "test", "seek", "decrypt"}
              /\ next.pc \in {"compare", "drop", "restate", "reown"} => script[s].kind = "write"
              /\ next.pc = "open" => At(s, "create")
              /\ script[s].pc \in Past => next.pc \in Past
<1>1. script'[s] = next /\ \A t \in Slots \ {s} : script'[t] = script[t]
  BY DEF Effect, Typed
<1>2. Gone.pc = "gone" /\ Gone.of = 0 /\ Gone.kind = "restore"
  BY DEF Gone
<1>3. CASE s = Boot
  <2>1. /\ script[s].kind = "restore" /\ script[s].of = 0
        /\ script[s].pc \in {"test", "seek", "create", "decrypt", "own", "admit", "move"}
    BY <1>3 DEF Shape, Effect, At
  <2>2. next.kind = "restore" /\ next.of = 0
    BY <1>2, <2>1 DEF Effect
  <2>3. next.pc \in {"gone", "test", "seek", "create", "decrypt", "own", "admit", "move"}
    BY <1>2, <1>3, <2>1 DEF Effect, Kept, Removed, Moved, Made, Received, Decrypted, At
  <2> QED
    BY <1>1, <1>2, <1>3, <2>1, <2>2, <2>3 DEF Effect
<1>4. CASE s # Boot
  <2>1. /\ script[s].kind \in {"seal", "write"} /\ script[s].pc \notin {"gone", "test", "seek", "decrypt"}
        /\ script[s].pc \in {"compare", "drop", "restate", "reown"} => script[s].kind = "write"
    BY <1>4 DEF Shape, Effect, At
  <2>2. /\ next.pc \notin {"create", "test", "seek", "decrypt"}
        /\ next.pc \in {"compare", "drop", "restate", "reown"} => script[s].kind = "write"
        /\ next.pc = "open" => At(s, "create")
    BY <1>2, <1>4, <2>1 DEF Effect, Kept, Removed, Moved, Made, Received, Decrypted, At
  <2>3. script[s].pc \in Past => next.pc \in Past
    BY <1>2, <1>4, <2>1 DEF Effect, Kept, Removed, Moved, Made, Received, Decrypted, At, Past
  <2> QED
    BY <1>1, <1>2, <1>4, <2>2, <2>3 DEF Effect
<1> QED
  BY <1>3, <1>4

(* The names a script touches.                                             *)
LEMMA Touching ==
  ASSUME Typed, Shape, NEW s \in Slots, ~At(s, "gone")
  PROVE  /\ Tmp[script[s].kind] \in Names \ {"path", "sealed"}
         /\ Dest[script[s].kind] \in {"path", "sealed"} /\ {"path", "sealed"} \subseteq Names
         /\ s = Boot => /\ script[s].kind = "restore" /\ ~At(s, "read")
                        /\ Tmp[script[s].kind] = "path.unsealing" /\ Dest[script[s].kind] = "path"
         /\ s # Boot => script[s].kind \in {"seal", "write"}
         /\ script[s].kind = "seal" =>
              Tmp[script[s].kind] = "sealed.planner" /\ Dest[script[s].kind] = "sealed"
         /\ script[s].kind = "write" =>
              Tmp[script[s].kind] = "path.planner" /\ Dest[script[s].kind] = "path"
<1>1. script[s].kind \in Kinds
  BY DEF Typed, Process
<1>2. s = Boot => script[s].kind = "restore" /\ ~At(s, "read")
  BY DEF Shape, At
<1>3. s # Boot => script[s].kind \in {"seal", "write"}
  BY DEF Shape
<1> QED
  BY <1>1, <1>2, <1>3 DEF Tmp, Dest, Kinds, Names

Writing(f, sc) ==
  \A n \in Names : f[n].by # Boot =>
    /\ sc[f[n].by].pc = "read"
    /\ n \in {Tmp[sc[f[n].by].kind], Dest[sc[f[n].by].kind]}

LEMMA EffectsKeepWriting ==
  ASSUME Typed, Shape, NEW s \in Slots, NEW next \in Process, Effect(s, next)
  PROVE  Writing(file', script')
<1> DEFINE tmp == Tmp[script[s].kind]
           dest == Dest[script[s].kind]
<1>1. /\ script'[s] = next /\ \A t \in Slots \ {s} : script'[t] = script[t]
      /\ next.pc # "gone" => next.kind = script[s].kind
      /\ ~At(s, "gone")
  BY EffectsLead
<1>2. /\ \A n \in Names : file[n].by \in Slots
      /\ \A n \in Names : file[n].by # Boot =>
           /\ At(file[n].by, "read")
           /\ n \in {Tmp[script[file[n].by].kind], Dest[script[file[n].by].kind]}
  BY DEF Typed, File, Shape
<1>3. /\ tmp \in Names \ {"path", "sealed"} /\ dest \in {"path", "sealed"}
      /\ s = Boot => ~At(s, "read")
  BY <1>1, Touching
<1>4. None.by = Boot
  BY DEF None
(* One that another script writes to, and that is where it was.            *)
<1>5. ASSUME NEW n \in Names, file'[n].by = file[n].by, file[n].by # s \/ s = Boot
      PROVE  file'[n].by # Boot =>
               /\ script'[file'[n].by].pc = "read"
               /\ n \in {Tmp[script'[file'[n].by].kind], Dest[script'[file'[n].by].kind]}
  BY <1>1, <1>2, <1>5 DEF At
<1>6. \A n \in Names : ~At(s, "read") => file[n].by # s \/ s = Boot
  BY <1>2
<1>7. CASE Kept(s, next)
  <2>1. ASSUME NEW n \in Names, file'[n].by # Boot PROVE file'[n].by = file[n].by /\ (file[n].by # s \/ s = Boot)
    BY <1>7, <2>1 DEF Kept
  <2> QED
    BY <1>5, <2>1 DEF Writing
<1>8. CASE Removed(s, next)
  <2>1. ASSUME NEW n \in Names, file'[n].by # Boot PROVE file'[n].by = file[n].by /\ (file[n].by # s \/ s = Boot)
    BY <1>4, <1>6, <1>8, <2>1 DEF Removed, Rest
  <2> QED
    BY <1>5, <2>1 DEF Writing
<1>9. CASE Moved(s, next)
  <2>1. /\ ~At(s, "read") /\ file'[dest] = file[tmp] /\ file'[tmp] = None
        /\ \A n \in Names \ {tmp, dest} : file'[n] = file[n]
    BY <1>9 DEF Moved, Rest, At
  <2>2. ASSUME NEW n \in Names \ {dest}, file'[n].by # Boot
        PROVE file'[n].by = file[n].by /\ (file[n].by # s \/ s = Boot)
    BY <1>4, <1>6, <2>1, <2>2
  <2>3. ASSUME file'[dest].by # Boot
        PROVE  /\ script'[file'[dest].by].pc = "read"
               /\ dest \in {Tmp[script'[file'[dest].by].kind], Dest[script'[file'[dest].by].kind]}
    <3> DEFINE t == file[tmp].by
    <3>1. t \in Slots /\ t # Boot /\ file'[dest].by = t /\ At(t, "read")
          /\ tmp \in {Tmp[script[t].kind], Dest[script[t].kind]}
      BY <1>2, <1>3, <2>1, <2>3
    <3>2. ~At(t, "gone")
      BY <3>1 DEF At
    <3>3. tmp = Tmp[script[t].kind]
      BY <1>3, <3>1, <3>2, Touching
    <3>4. script[t].kind \in Kinds /\ script[s].kind \in Kinds
      BY <3>1 DEF Typed, Process
    <3>5. script[t].kind = script[s].kind
      BY <3>3, <3>4, NamesAreApart
    <3>6. t # s
      BY <2>1, <3>1
    <3> HIDE DEF t
    <3> QED
      BY <1>1, <3>1, <3>5, <3>6 DEF At
  <2> QED
    BY <1>5, <2>2, <2>3 DEF Writing
<1>10. CASE Made(s, next)
  <2>1. /\ ~At(s, "read") /\ \A n \in Names \ {tmp} : file'[n] = file[n]
        /\ file'[tmp].by = Boot \/ (file'[tmp].by = s /\ next.pc = "read")
    BY <1>10 DEF Made, Rest, At
  <2>2. ASSUME NEW n \in Names \ {tmp}, file'[n].by # Boot
        PROVE file'[n].by = file[n].by /\ (file[n].by # s \/ s = Boot)
    BY <1>6, <2>1, <2>2
  <2>3. ASSUME file'[tmp].by # Boot
        PROVE  /\ script'[file'[tmp].by].pc = "read"
               /\ tmp \in {Tmp[script'[file'[tmp].by].kind], Dest[script'[file'[tmp].by].kind]}
    BY <1>1, <2>1, <2>3
  <2> QED
    BY <1>5, <2>2, <2>3 DEF Writing
<1>11. CASE Received(s, next)
  <2>1. s # Boot /\ At(s, "read")
    BY <1>3, <1>11 DEF Received
  <2>2. ASSUME NEW n \in Names, file[n].by # s PROVE file'[n].by = file[n].by
    BY <1>11, <2>2 DEF Received
  <2>3. ASSUME NEW n \in Names, file[n].by = s
        PROVE  \/ file'[n].by = Boot
               \/ file'[n].by = s /\ script'[s] = script[s]
    BY <1>1, <1>11, <2>3 DEF Received
  <2>4. ASSUME NEW n \in Names, file[n].by = s, file'[n].by # Boot
        PROVE  /\ script'[file'[n].by].pc = "read"
               /\ n \in {Tmp[script'[file'[n].by].kind], Dest[script'[file'[n].by].kind]}
    BY <1>2, <2>1, <2>3, <2>4 DEF At
  <2> QED
    BY <1>5, <2>2, <2>4 DEF Writing
<1>12. CASE Decrypted(s, next)
  <2>1. s = Boot /\ file'["path.unsealing"].by = Boot
        /\ \A n \in Names \ {"path.unsealing"} : file'[n] = file[n]
    BY <1>12 DEF Decrypted, Rest
  <2>2. ASSUME NEW n \in Names, file'[n].by # Boot PROVE file'[n].by = file[n].by
    BY <2>1, <2>2
  <2> QED
    BY <1>5, <2>1, <2>2 DEF Writing
<1> QED
  BY <1>7, <1>8, <1>9, <1>10, <1>11, <1>12 DEF Effect

LEMMA EffectsKeepShape ==
  ASSUME Typed, Shape, NEW s \in Slots, NEW next \in Process, Effect(s, next)
  PROVE  Shape'
<1>1. Boot \in Slots
  BY RecordsAreTyped
<1>2. /\ script'[Boot].kind = "restore" /\ script'[Boot].of = 0
      /\ script'[Boot].pc \in {"gone", "test", "seek", "create", "decrypt", "own", "admit", "move"}
  BY <1>1, EffectsLead DEF Shape
<1>3. ASSUME NEW t \in Slots \ {Boot}, ~At(t, "gone")'
      PROVE  /\ script'[t].kind \in {"seal", "write"}
             /\ script'[t].pc \notin {"test", "seek", "decrypt"}
             /\ script'[t].pc \in {"compare", "drop", "restate", "reown"} => script'[t].kind = "write"
             /\ script'[t].live => Running' /\ run'.slot = t
  <2>1. CASE t = s
    BY <1>3, <2>1, EffectsLead DEF Shape, At, Running
  <2>2. CASE t # s
    BY <1>3, <2>2, EffectsLead DEF Shape, At, Running
  <2> QED
    BY <2>1, <2>2
<1>4. Writing(file', script')
  BY EffectsKeepWriting
<1> QED
  BY <1>2, <1>3, <1>4 DEF Shape, Writing, At

-----------------------------------------------------------------------------
(* The script of the run is the one its operator listens to; of all others *)
(* none can still make a temporary.                                        *)
Roles ==
  /\ Running => run.slot # Boot
  /\ (Running /\ ~At(run.slot, "gone")) =>
       script[run.slot].live /\ script[run.slot].kind = run.step /\ script[run.slot].of = run.of
  /\ Running => \A s \in Slots \ {Boot, run.slot} : script[s].pc \in Past
  /\ (Running /\ WaitsForBoot) => At(Boot, "gone")

(* Nothing is of a later generation than the run's, or the operator's.     *)
Bounds ==
  /\ \A n \in Names : file[n].of <= latest
  /\ \A s \in Slots : script[s].of <= latest
  /\ Running => run.of <= latest /\ \A n \in Names : file[n].of <= run.of

(* A sealed copy that is whole, in place or not, is of no earlier          *)
(* generation than any other file, nor than what a script is still to make.*)
Copies == {"sealed", "sealed.planner"}
ToWrite(s) == script[s].kind = "write" /\ script[s].pc \in {"create", "open"}

CopiesLead ==
  \A a \in Copies : file[a].bytes = "whole" =>
    /\ \A n \in Names \ {"sealed.planner"} : file[n].of <= file[a].of
    /\ \A s \in Slots \ {Boot} : ToWrite(s) => script[s].of <= file[a].of

(* How far the run's own script has brought its bytes.                     *)
Whole(n) == file[n].bytes = "whole" /\ file[n].of = run.of
There == (run.step = "seal" \/ WaitsForBoot) => Whole(Dest[run.step])

Phase ==
  (Running /\ ~At(run.slot, "gone")) =>
    /\ At(run.slot, "read") => /\ file[Tmp[run.step]].by = run.slot \/ ~Is(Tmp[run.step])
                               /\ \A n \in Names : file[n].by = run.slot => file[n].of = run.of
    /\ script[run.slot].pc \in {"own", "admit", "compare", "move", "drop"} =>
         ~Is(Tmp[run.step]) \/ Whole(Tmp[run.step])
    /\ script[run.slot].pc \in {"drop", "restate", "reown", "said"} => There
    /\ script[run.slot].pc \in {"restate", "reown", "said"} => ~Is(Tmp[run.step])

OrderInv == Typed /\ Shape /\ Roles /\ Bounds /\ CopiesLead /\ Phase

LEMMA EffectsKeepRoles ==
  ASSUME Typed, Shape, Roles, NEW s \in Slots, NEW next \in Process, Effect(s, next)
  PROVE  Roles'
<1>1. /\ script'[s] = next /\ \A t \in Slots \ {s} : script'[t] = script[t]
      /\ UNCHANGED run /\ ~At(s, "gone") /\ run.slot \in Slots /\ Boot \in Slots
      /\ next.pc # "gone" => /\ next.kind = script[s].kind /\ next.of = script[s].of
                             /\ next.live = script[s].live
      /\ s # Boot /\ script[s].pc \in Past => next.pc \in Past
  BY EffectsLead, RecordsAreTyped DEF Typed
<1> SUFFICES ASSUME Running PROVE Roles'
  BY <1>1 DEF Roles, Running
<1>2. run.slot # Boot
  BY DEF Roles
<1>3. ASSUME ~At(run.slot, "gone")'
      PROVE  script'[run.slot].live /\ script'[run.slot].kind = run.step /\ script'[run.slot].of = run.of
  <2>1. CASE s = run.slot
    BY <1>1, <1>3, <2>1 DEF Roles, At
  <2>2. CASE s # run.slot
    BY <1>1, <1>3, <2>2 DEF Roles, At
  <2> QED
    BY <2>1, <2>2
<1>4. ASSUME NEW t \in Slots \ {Boot, run.slot} PROVE script'[t].pc \in Past
  BY <1>1 DEF Roles
<1>5. WaitsForBoot => At(Boot, "gone")'
  BY <1>1 DEF Roles, At
<1> QED
  BY <1>1, <1>2, <1>3, <1>4, <1>5 DEF Roles, Running

(* What a command writes is of a generation that was there: of another     *)
(* file, of its script, or none.                                           *)
LEMMA EffectsMakeNothingNew ==
  ASSUME Typed, Shape, NEW s \in Slots, NEW next \in Process, Effect(s, next), NEW n \in Names
  PROVE  \/ file'[n].of = 0
         \/ \E m \in Names : file'[n].of = file[m].of
         \/ script[s].pc \in {"create", "open"} /\ file'[n].of = script[s].of
<1> DEFINE tmp == Tmp[script[s].kind]
<1>1. tmp \in Names /\ "sealed" \in Names /\ None.of = 0
  BY EffectsLead, Touching DEF None
<1>2. CASE Kept(s, next) \/ Received(s, next)
  BY <1>2 DEF Kept, Received
<1>3. CASE Removed(s, next)
  BY <1>1, <1>3 DEF Removed, Rest
<1>4. CASE Moved(s, next)
  BY <1>1, <1>4 DEF Moved, Rest
<1>5. CASE Made(s, next)
  BY <1>1, <1>5 DEF Made, Rest, At
<1>6. CASE Decrypted(s, next)
  BY <1>1, <1>6 DEF Decrypted, Rest
<1> QED
  BY <1>2, <1>3, <1>4, <1>5, <1>6 DEF Effect

LEMMA EffectsKeepBounds ==
  ASSUME Typed, Shape, Roles, Bounds, NEW s \in Slots, NEW next \in Process, Effect(s, next)
  PROVE  Bounds'
<1>1. /\ script'[s] = next /\ \A t \in Slots \ {s} : script'[t] = script[t]
      /\ UNCHANGED <<run, latest>> /\ ~At(s, "gone") /\ next.of \in {0, script[s].of}
      /\ latest \in Nat /\ run.of \in Nat
  BY EffectsLead DEF Typed
<1>2. \A t \in Slots : script'[t].of <= latest
  BY <1>1 DEF Bounds
<1>3. \A n \in Names : file'[n].of <= latest
  BY <1>1, EffectsMakeNothingNew DEF Bounds
<1>4. ASSUME Running, script[s].pc \in {"create", "open"} PROVE script[s].of <= run.of
  <2>1. CASE s = Boot
    BY <1>1, <2>1 DEF Shape
  <2>2. CASE s # Boot
    <3>1. s = run.slot
      BY <1>4, <2>2 DEF Roles, Past
    <3> QED
      BY <1>1, <1>4, <3>1 DEF Roles
  <2> QED
    BY <2>1, <2>2
<1>5. ASSUME Running PROVE \A n \in Names : file'[n].of <= run.of
  BY <1>1, <1>4, <1>5, EffectsMakeNothingNew DEF Bounds
<1> QED
  BY <1>1, <1>2, <1>3, <1>5 DEF Bounds, Running

LEMMA EffectsKeepCopies ==
  ASSUME Typed, Typed', Shape, Roles, Bounds, CopiesLead, Phase,
         NEW s \in Slots, NEW next \in Process, Effect(s, next)
  PROVE  CopiesLead'
<1> DEFINE kind == script[s].kind
           tmp == Tmp[kind]
           dest == Dest[kind]
           Led(of) == /\ \A n \in Names \ {"sealed.planner"} : file'[n].of <= of
                      /\ \A t \in Slots \ {Boot} : ToWrite(t)' => script'[t].of <= of
<1>1. /\ script'[s] = next /\ \A t \in Slots \ {s} : script'[t] = script[t]
      /\ UNCHANGED run /\ ~At(s, "gone")
      /\ next.pc # "gone" => next.kind = script[s].kind /\ next.of = script[s].of
      /\ s # Boot => next.pc # "create" /\ (next.pc = "open" => At(s, "create"))
  BY EffectsLead
<1>2. /\ tmp \in Names \ {"path", "sealed"} /\ dest \in {"path", "sealed"} /\ Copies \subseteq Names
      /\ s = Boot => kind = "restore" /\ ~At(s, "read") /\ tmp = "path.unsealing" /\ dest = "path"
      /\ s # Boot => kind \in {"seal", "write"}
      /\ kind = "seal" => tmp = "sealed.planner" /\ dest = "sealed"
      /\ kind = "write" => tmp = "path.planner" /\ dest = "path"
      /\ "path.unsealing" \in Names /\ "sealed" \in Names
  BY <1>1, Touching DEF Copies, Names
<1>3. /\ \A n \in Names : file[n].of \in Nat /\ file'[n].of \in Nat
      /\ \A t \in Slots : script[t].of \in Nat /\ script'[t].of \in Nat
      /\ None.of = 0 /\ None.bytes = "none"
  BY DEF Typed, File, Process, None
<1>4. ASSUME NEW t \in Slots \ {Boot}, ToWrite(t)' PROVE ToWrite(t) /\ script'[t].of = script[t].of
  <2>1. CASE t = s
    BY <1>1, <1>4, <2>1 DEF ToWrite, At
  <2>2. CASE t # s
    BY <1>1, <1>4, <2>2 DEF ToWrite
  <2> QED
    BY <2>1, <2>2
<1>5. ASSUME NEW a \in Copies, file[a].bytes = "whole"
      PROVE  \A t \in Slots \ {Boot} : ToWrite(t)' => script'[t].of <= file[a].of
  BY <1>4, <1>5 DEF CopiesLead
<1>6. ASSUME NEW a \in Copies, file[a].bytes = "whole"
      PROVE  \A n \in Names \ {"sealed.planner"} : file[n].of <= file[a].of
  BY <1>6 DEF CopiesLead
<1> SUFFICES ASSUME NEW a \in Copies, file'[a].bytes = "whole" PROVE Led(file'[a].of)
  BY DEF CopiesLead
<1>7. CASE Kept(s, next)
  <2>1. file[a].bytes = "whole" /\ file'[a].of = file[a].of
        /\ \A n \in Names : file'[n].of = file[n].of
    BY <1>2, <1>7 DEF Kept
  <2> QED
    BY <1>5, <1>6, <2>1
<1>8. CASE Removed(s, next)
  <2>1. file'[tmp] = None /\ \A n \in Names \ {tmp} : file'[n] = file[n]
    BY <1>8 DEF Removed, Rest
  <2>2. a # tmp
    BY <1>3, <2>1
  <2>3. file[a].bytes = "whole" /\ file'[a] = file[a]
    BY <1>2, <2>1, <2>2
  <2>4. \A n \in Names \ {"sealed.planner"} : file'[n].of <= file[a].of
    <3>1. ASSUME NEW n \in Names \ {"sealed.planner"} PROVE file'[n].of <= file[a].of
      BY <1>2, <1>3, <1>6, <2>1, <2>3
    <3> QED
      BY <3>1
  <2> QED
    BY <1>5, <2>3, <2>4
<1>9. CASE Moved(s, next)
  <2>1. /\ file'[dest] = file[tmp] /\ file'[tmp] = None
        /\ \A n \in Names \ {tmp, dest} : file'[n] = file[n]
    BY <1>9 DEF Moved, Rest
  <2>2. a # tmp
    BY <1>3, <2>1
  <2>3. CASE a = dest
    <3>1. kind = "seal" /\ tmp = "sealed.planner" /\ a = "sealed"
      BY <1>2, <2>3 DEF Copies
    <3>2. tmp \in Copies /\ file[tmp].bytes = "whole" /\ file'[a] = file[tmp]
      BY <2>1, <2>3, <3>1 DEF Copies
    <3>3. \A n \in Names \ {"sealed.planner"} : file'[n].of <= file[tmp].of
      <4>1. ASSUME NEW n \in Names \ {"sealed.planner"} PROVE file'[n].of <= file[tmp].of
        <5>1. CASE n = a
          BY <1>2, <1>3, <3>2, <5>1
        <5>2. CASE n # a
          BY <1>6, <2>1, <2>3, <3>1, <3>2, <5>2
        <5> QED
          BY <5>1, <5>2
      <4> QED
        BY <4>1
    <3> QED
      BY <1>5, <3>2, <3>3
  <2>4. CASE a # dest
    <3>1. file'[a] = file[a] /\ file[a].bytes = "whole"
      BY <1>2, <2>1, <2>2, <2>4
    <3>2. tmp # "sealed.planner"
      BY <1>2, <2>2, <2>4 DEF Copies, Tmp, Dest
    <3>3. \A n \in Names \ {"sealed.planner"} : file'[n].of <= file[a].of
      <4>1. ASSUME NEW n \in Names \ {"sealed.planner"} PROVE file'[n].of <= file[a].of
        <5>1. CASE n = tmp
          BY <1>2, <1>3, <2>1, <5>1
        <5>2. CASE n = dest
          BY <1>2, <1>6, <2>1, <3>1, <3>2, <5>2
        <5>3. CASE n \notin {tmp, dest}
          BY <1>6, <2>1, <3>1, <5>3
        <5> QED
          BY <5>1, <5>2, <5>3
      <4> QED
        BY <4>1
    <3> QED
      BY <1>5, <3>1, <3>3
  <2> QED
    BY <2>3, <2>4
<1>10. CASE Made(s, next)
  <2>1. /\ file'[tmp].of = script[s].of /\ file'[tmp].bytes = "empty"
        /\ \A n \in Names \ {tmp} : file'[n] = file[n] /\ script[s].pc \in {"create", "open"}
    BY <1>10 DEF Made, Rest, At
  <2>2. a # tmp
    BY <2>1
  <2>3. file[a].bytes = "whole" /\ file'[a] = file[a]
    BY <1>2, <2>1, <2>2
  <2>4. tmp # "sealed.planner" => script[s].of <= file[a].of
    <3>1. CASE s = Boot
      BY <1>2, <1>3, <3>1 DEF Shape
    <3>2. CASE s # Boot
      <4>1. ASSUME tmp # "sealed.planner" PROVE ToWrite(s)
        BY <1>2, <2>1, <3>2, <4>1 DEF ToWrite
      <4> QED
        BY <2>3, <3>2, <4>1 DEF CopiesLead
    <3> QED
      BY <3>1, <3>2
  <2>5. \A n \in Names \ {"sealed.planner"} : file'[n].of <= file[a].of
    <3>1. ASSUME NEW n \in Names \ {"sealed.planner"} PROVE file'[n].of <= file[a].of
      <4>1. CASE n = tmp
        BY <2>1, <2>4, <4>1
      <4>2. CASE n # tmp
        BY <1>6, <2>1, <2>3, <4>2
      <4> QED
        BY <4>1, <4>2
    <3> QED
      BY <3>1
  <2> QED
    BY <1>5, <2>3, <2>5
<1>11. CASE Received(s, next)
  <2>1. /\ At(s, "read") /\ script[s].live /\ s # Boot
        /\ \A n \in Names : file'[n].of = file[n].of
        /\ \A n \in Names : file[n].by # s => file'[n] = file[n]
    BY <1>2, <1>11 DEF Received
  <2>2. CASE file[a].by # s
    <3>1. file[a].bytes = "whole" /\ file'[a].of = file[a].of
      BY <1>2, <2>1, <2>2
    <3> QED
      BY <1>5, <1>6, <2>1, <3>1
  <2>3. CASE file[a].by = s
    <3>1. Running /\ run.slot = s /\ ~At(s, "gone")
      BY <2>1 DEF Shape, At
    <3>2. file[a].of = run.of
      BY <1>2, <2>1, <2>3, <3>1 DEF Phase
    <3>3. ASSUME NEW t \in Slots \ {Boot}, ToWrite(t) PROVE FALSE
      <4>1. t = s
        BY <3>1, <3>3 DEF Roles, ToWrite, Past
      <4> QED
        BY <2>1, <3>3, <4>1 DEF ToWrite, At
    <3>4. \A n \in Names : file'[n].of <= file'[a].of
      BY <1>2, <2>1, <3>1, <3>2 DEF Bounds
    <3> QED
      BY <1>4, <3>3, <3>4
  <2> QED
    BY <2>2, <2>3
<1>12. CASE Decrypted(s, next)
  <2>1. /\ file'["path.unsealing"].of = file["sealed"].of
        /\ \A n \in Names \ {"path.unsealing"} : file'[n] = file[n]
    BY <1>12 DEF Decrypted, Rest
  <2>2. file[a].bytes = "whole" /\ file'[a] = file[a]
    BY <1>2, <2>1 DEF Copies
  <2>3. \A n \in Names \ {"sealed.planner"} : file'[n].of <= file[a].of
    <3>1. ASSUME NEW n \in Names \ {"sealed.planner"} PROVE file'[n].of <= file[a].of
      <4>1. CASE n = "path.unsealing"
        BY <1>2, <1>6, <2>1, <2>2, <4>1
      <4>2. CASE n # "path.unsealing"
        BY <1>6, <2>1, <2>2, <4>2
      <4> QED
        BY <4>1, <4>2
    <3> QED
      BY <3>1
  <2> QED
    BY <1>5, <2>2, <2>3
<1> QED
  BY <1>7, <1>8, <1>9, <1>10, <1>11, <1>12 DEF Effect

(* What a script that is not the run's may do to the run's files: take     *)
(* away its temporary, or put it in place.                                 *)
LEMMA OthersOnlyPlace ==
  ASSUME Typed, Shape, Roles, Running, ~At(run.slot, "gone"),
         NEW s \in Slots \ {run.slot}, NEW next \in Process, Effect(s, next)
  PROVE  LET tmp == Tmp[run.step]
             dest == Dest[run.step] IN
         /\ \/ file'[tmp].bytes = "none"
            \/ /\ file'[tmp].bytes = file[tmp].bytes /\ file'[tmp].of = file[tmp].of
               /\ file[tmp].by = run.slot => file'[tmp].by = run.slot
         /\ \/ file'[dest].bytes = file[dest].bytes /\ file'[dest].of = file[dest].of
            \/ Is(tmp) /\ file'[dest] = file[tmp]
            \/ s = Boot /\ run.step = "write"
         /\ \A n \in Names : file'[n].by = run.slot =>
              \E m \in Names : file[m].by = run.slot /\ file'[n].of = file[m].of
<1> DEFINE tmp == Tmp[run.step]
           dest == Dest[run.step]
           own == Tmp[script[s].kind]
           put == Dest[script[s].kind]
<1>1. /\ ~At(s, "gone") /\ run.slot \in Slots \ {Boot} /\ None.by = Boot /\ None.bytes = "none"
      /\ script[run.slot].kind = run.step
  BY EffectsLead DEF None, Roles, Typed
<1>2. /\ own \in Names \ {"path", "sealed"} /\ put \in {"path", "sealed"}
      /\ {"path", "sealed"} \subseteq Names
      /\ s = Boot => ~At(s, "read") /\ own = "path.unsealing" /\ put = "path"
      /\ s # Boot => script[s].kind \in {"seal", "write"}
      /\ script[s].kind = "seal" => own = "sealed.planner" /\ put = "sealed"
      /\ script[s].kind = "write" => own = "path.planner" /\ put = "path"
  BY <1>1, Touching
<1>3. /\ run.step \in {"seal", "write"} /\ tmp \in Names \ {"path", "sealed"}
      /\ dest \in {"path", "sealed"}
      /\ run.step = "seal" => tmp = "sealed.planner" /\ dest = "sealed"
      /\ run.step = "write" => tmp = "path.planner" /\ dest = "path"
  BY <1>1, Touching
<1>4. s # Boot => ~script[s].live /\ script[s].pc \in Past
  BY <1>1 DEF Shape, Roles
<1> HIDE DEF tmp, dest, own, put
<1> SUFFICES /\ \/ file'[tmp].bytes = "none"
                \/ /\ file'[tmp].bytes = file[tmp].bytes /\ file'[tmp].of = file[tmp].of
                   /\ file[tmp].by = run.slot => file'[tmp].by = run.slot
             /\ \/ file'[dest].bytes = file[dest].bytes /\ file'[dest].of = file[dest].of
                \/ Is(tmp) /\ file'[dest] = file[tmp]
                \/ s = Boot /\ run.step = "write"
             /\ \A n \in Names : file'[n].by = run.slot =>
                  \E m \in Names : file[m].by = run.slot /\ file'[n].of = file[m].of
  BY DEF tmp, dest
<1>5. CASE Kept(s, next)
  <2>1. \A n \in Names : /\ file'[n].bytes = file[n].bytes /\ file'[n].of = file[n].of
                         /\ file'[n].by = file[n].by \/ (file[n].by = s /\ file'[n].by = Boot)
    BY <1>5 DEF Kept
  <2> QED
    BY <1>1, <1>2, <1>3, <2>1
<1>6. CASE Removed(s, next)
  <2>1. file'[own] = None /\ \A n \in Names \ {own} : file'[n] = file[n]
    BY <1>6 DEF Removed, Rest, own
  <2> QED
    BY <1>1, <1>2, <1>3, <2>1
<1>7. CASE Moved(s, next)
  <2>1. /\ Is(own) /\ file'[put] = file[own] /\ file'[own] = None
        /\ \A n \in Names \ {own, put} : file'[n] = file[n]
    BY <1>7 DEF Moved, Rest, own, put
  <2>2. file'[tmp] \in {None, file[tmp]}
    BY <1>2, <1>3, <2>1
  <2>3. \/ file'[dest] = file[dest]
        \/ Is(tmp) /\ file'[dest] = file[tmp]
        \/ s = Boot /\ run.step = "write"
    <3>1. CASE put # dest
      BY <1>2, <1>3, <2>1, <3>1
    <3>2. CASE put = dest /\ s # Boot
      <4>1. own = tmp
        BY <1>2, <1>3, <3>2
      <4> QED
        BY <2>1, <3>2, <4>1
    <3>3. CASE put = dest /\ s = Boot
      BY <1>2, <1>3, <3>3
    <3> QED
      BY <3>1, <3>2, <3>3
  <2>4. \A n \in Names : file'[n].by = run.slot =>
          \E m \in Names : file[m].by = run.slot /\ file'[n].of = file[m].of
    BY <1>1, <1>2, <2>1
  <2> QED
    BY <1>1, <2>2, <2>3, <2>4
<1>8. CASE Made(s, next) \/ Decrypted(s, next)
  <2>1. s = Boot
    BY <1>4, <1>8 DEF Made, Decrypted, At, Past
  <2>2. file'[own].by = Boot /\ \A n \in Names \ {own} : file'[n] = file[n]
    BY <1>2, <1>8, <2>1 DEF Made, Decrypted, Rest, At, own
  <2>3. own \notin {tmp, dest}
    BY <1>2, <1>3, <2>1
  <2>4. file'[tmp] = file[tmp] /\ file'[dest] = file[dest]
    BY <1>2, <1>3, <2>2, <2>3
  <2>5. \A n \in Names : file'[n].by = run.slot =>
          \E m \in Names : file[m].by = run.slot /\ file'[n].of = file[m].of
    BY <1>1, <2>2
  <2> QED
    BY <2>4, <2>5
<1>9. ~Received(s, next)
  BY <1>2, <1>4 DEF Received
<1> QED
  BY <1>5, <1>6, <1>7, <1>8, <1>9 DEF Effect

LEMMA EffectsKeepPhase ==
  ASSUME Typed, Shape, Roles, Phase, NEW s \in Slots, NEW next \in Process, Effect(s, next)
  PROVE  Phase'
<1> DEFINE r == run.slot
           tmp == Tmp[run.step]
           dest == Dest[run.step]
<1>1. /\ script'[s] = next /\ \A t \in Slots \ {s} : script'[t] = script[t]
      /\ UNCHANGED run /\ ~At(s, "gone") /\ r \in Slots
  BY EffectsLead DEF Typed
<1> SUFFICES ASSUME Running, ~At(r, "gone")'
             PROVE  /\ script'[r].pc = "read" =>
                         /\ file'[tmp].by = r \/ file'[tmp].bytes = "none"
                         /\ \A n \in Names : file'[n].by = r => file'[n].of = run.of
                    /\ script'[r].pc \in {"own", "admit", "compare", "move", "drop"} =>
                         file'[tmp].bytes = "none" \/ Whole(tmp)'
                    /\ script'[r].pc \in {"drop", "restate", "reown", "said"} => There'
                    /\ script'[r].pc \in {"restate", "reown", "said"} => file'[tmp].bytes = "none"
  BY <1>1 DEF Phase, Running, At, Is
<1>2. ~At(r, "gone")
  BY <1>1 DEF At
<1>3. /\ script[r].live /\ script[r].kind = run.step /\ script[r].of = run.of /\ r # Boot
      /\ run.step \in {"seal", "write"} /\ tmp \in Names \ {"path", "sealed"}
      /\ dest \in {"path", "sealed"} /\ {"path", "sealed"} \subseteq Names
      /\ run.step = "write" => dest = "path"
  BY <1>1, <1>2, Touching DEF Roles
<1>4. /\ At(r, "read") => /\ file[tmp].by = r \/ file[tmp].bytes = "none"
                          /\ \A n \in Names : file[n].by = r => file[n].of = run.of
      /\ script[r].pc \in {"own", "admit", "compare", "move", "drop"} =>
           file[tmp].bytes = "none" \/ Whole(tmp)
      /\ script[r].pc \in {"drop", "restate", "reown", "said"} => There
      /\ script[r].pc \in {"restate", "reown", "said"} => file[tmp].bytes = "none"
  BY <1>2 DEF Phase, Is
<1>5. CASE s # r
  <2>1. script'[r] = script[r]
    BY <1>1, <1>5
  <2>2. /\ \/ file'[tmp].bytes = "none"
           \/ /\ file'[tmp].bytes = file[tmp].bytes /\ file'[tmp].of = file[tmp].of
              /\ file[tmp].by = r => file'[tmp].by = r
        /\ \/ file'[dest].bytes = file[dest].bytes /\ file'[dest].of = file[dest].of
           \/ Is(tmp) /\ file'[dest] = file[tmp]
           \/ s = Boot /\ run.step = "write"
        /\ \A n \in Names : file'[n].by = r =>
             \E m \in Names : file[m].by = r /\ file'[n].of = file[m].of
    BY <1>2, <1>5, OthersOnlyPlace
  <2>3. s = Boot => ~WaitsForBoot
    BY <1>1 DEF Roles
  <2>4. ASSUME script[r].pc \in {"drop", "restate", "reown", "said"} PROVE There'
    <3>1. CASE run.step = "seal" \/ WaitsForBoot
      <4>1. Whole(dest)
        BY <1>4, <2>4, <3>1 DEF There
      <4>2. Is(tmp) => Whole(tmp)
        BY <1>4, <2>4 DEF Is
      <4>3. ~(s = Boot /\ run.step = "write")
        BY <2>3, <3>1
      <4>4. Whole(dest)'
        BY <1>1, <2>2, <4>1, <4>2, <4>3 DEF Whole
      <4> QED
        BY <1>1, <4>4 DEF There
    <3>2. CASE ~(run.step = "seal" \/ WaitsForBoot)
      BY <1>1, <3>2 DEF There
    <3> QED
      BY <3>1, <3>2
  <2> QED
    BY <1>1, <1>4, <2>1, <2>2, <2>4 DEF Whole, At
<1>6. CASE s = r
  <2>0. /\ next.pc # "gone" => next.kind = script[s].kind
        /\ next.pc = script'[r].pc /\ next.pc # "gone"
    BY <1>1, <1>6, EffectsLead DEF At
  <2>1. CASE Kept(s, next)
    <3>1. /\ \A n \in Names : /\ file'[n].bytes = file[n].bytes /\ file'[n].of = file[n].of
          /\ \/ /\ script[s].pc \in {"own", "admit", "compare"} /\ next.pc \in {"admit", "compare", "move"}
             \/ At(s, "compare") /\ next.pc = "drop" /\ Same(Held(s), file["path"])
             \/ At(s, "restate") /\ next.pc = "reown"
             \/ At(s, "reown") /\ next.pc = "said"
      BY <1>3, <1>6, <2>0, <2>1 DEF Kept, Gone
    <3>2. ASSUME At(s, "compare"), next.pc = "drop", Same(Held(s), file["path"])
          PROVE  There'
      <4>1. run.step = "write" /\ Held(s) = file[tmp]
        BY <1>3, <1>6, <3>2 DEF Shape, At, Held
      <4>2. Whole(tmp)
        BY <1>4, <1>6, <3>2, <4>1 DEF Same, At
      <4>3. Whole("path")
        BY <3>2, <4>1, <4>2 DEF Same, Whole
      <4>4. Whole(dest)'
        BY <1>1, <1>3, <3>1, <4>1, <4>3 DEF Whole
      <4> QED
        BY <1>1, <4>4 DEF There
    <3>3. There => There'
      BY <1>1, <1>3, <3>1 DEF There, Whole
    <3>4. Whole(tmp) => Whole(tmp)'
      BY <1>1, <1>3, <3>1 DEF Whole
    <3> QED
      BY <1>3, <1>4, <1>6, <2>0, <3>1, <3>2, <3>3, <3>4 DEF At
  <2>2. CASE Removed(s, next)
    <3>1. /\ At(s, "drop") /\ next.pc = "restate" /\ file'[tmp] = None
          /\ \A n \in Names \ {tmp} : file'[n] = file[n]
      BY <1>3, <1>6, <2>0, <2>2 DEF Removed, Rest, Gone
    <3>2. There'
      BY <1>1, <1>3, <1>4, <1>6, <3>1 DEF There, Whole, At
    <3> QED
      BY <2>0, <3>1, <3>2 DEF None
  <2>3. CASE Moved(s, next)
    <3>1. /\ At(s, "move") /\ Is(tmp) /\ file'[dest] = file[tmp] /\ file'[tmp] = None
          /\ next.pc = [seal |-> "said", write |-> "restate", restore |-> "gone"][run.step]
      BY <1>3, <1>6, <2>3 DEF Moved
    <3>2. Whole(tmp)
      BY <1>4, <1>6, <3>1 DEF Is, At
    <3>3. There'
      BY <1>1, <3>1, <3>2 DEF There, Whole
    <3> QED
      BY <1>3, <2>0, <3>1, <3>3 DEF None
  <2>4. CASE Made(s, next)
    <3>1. /\ next.pc \in {"open", "read"} /\ file'[tmp].of = run.of /\ ~At(s, "read")
          /\ next.pc = "read" => file'[tmp].by = r
          /\ \A n \in Names \ {tmp} : file'[n] = file[n]
      BY <1>3, <1>6, <2>4 DEF Made, Rest, At
    <3>2. \A n \in Names : file[n].by # r
      BY <1>3, <1>6, <3>1 DEF Shape
    <3> QED
      BY <2>0, <3>1, <3>2
  <2>5. CASE Received(s, next)
    <3>1. /\ At(r, "read")
          /\ \A n \in Names : file'[n].of = file[n].of
          /\ \A n \in Names : file[n].by # r => file'[n] = file[n]
      BY <1>6, <2>5 DEF Received
    <3>2. CASE next = script[s] /\ \A n \in Names : file[n].by = s => file'[n].by = s
      BY <1>3, <1>4, <1>6, <2>0, <3>1, <3>2 DEF At
    <3>3. CASE next.pc = "own" /\ \A n \in Names : file[n].by = s => file'[n].bytes = "whole"
      <4>1. file'[tmp].bytes = "none" \/ Whole(tmp)'
        <5>1. CASE file[tmp].by = r
          BY <1>1, <1>3, <1>4, <1>6, <3>1, <3>3, <5>1 DEF Whole
        <5>2. CASE file[tmp].by # r
          BY <1>3, <1>4, <3>1, <5>2
        <5> QED
          BY <5>1, <5>2
      <4> QED
        BY <2>0, <3>3, <4>1
    <3> QED
      BY <2>5, <3>2, <3>3 DEF Received
  <2>6. ~Decrypted(s, next)
    BY <1>3, <1>6 DEF Decrypted
  <2> QED
    BY <2>1, <2>2, <2>3, <2>4, <2>5, <2>6 DEF Effect
<1> QED
  BY <1>5, <1>6

LEMMA EffectsKeepOrder ==
  ASSUME OrderInv, Typed', NEW s \in Slots, NEW next \in Process, Effect(s, next)
  PROVE  OrderInv'
BY EffectsKeepShape, EffectsKeepRoles, EffectsKeepBounds, EffectsKeepCopies, EffectsKeepPhase
DEF OrderInv

LEMMA KillsHaveEffects ==
  ASSUME Typed, Shape, NEW s \in Slots, Kill(s)
  PROVE  Gone \in Process /\ Effect(s, Gone)
<1>1. \A n \in Names : file[n] \in File
  BY DEF Typed
<1>2. \A n \in Names : /\ [file[n] EXCEPT !.by = Boot].bytes = file[n].bytes
                       /\ [file[n] EXCEPT !.by = Boot].of = file[n].of
                       /\ [file[n] EXCEPT !.by = Boot].by = Boot
  BY <1>1 DEF File
<1>3. \A n \in Names : file'[n] = IF file[n].by = s THEN [file[n] EXCEPT !.by = Boot] ELSE file[n]
  BY DEF Kill, Closed
<1>4. \A n \in Names : /\ file'[n].bytes = file[n].bytes /\ file'[n].of = file[n].of
                       /\ file'[n].by = file[n].by \/ (file[n].by = s /\ file'[n].by = Boot)
                       /\ file'[n].by # s \/ s = Boot
  BY <1>2, <1>3
<1> QED
  BY <1>4, RecordsAreTyped DEF Kill, Effect, Kept

(* A step of the operator's, which leaves the files as they are.           *)
LEMMA StartsKeepOrder ==
  ASSUME OrderInv, Typed', Begin \/ SealedThenWrite
  PROVE  OrderInv'
<1> PICK s \in Slots : s = run'.slot
  BY DEF Typed
<1>1. /\ s # Boot /\ UNCHANGED <<file, latest>> /\ script[s].pc \in {"gone", "said"}
      /\ run'.step \in {"seal", "write"} /\ run'.slot = s
      /\ run'.of \in Nat /\ run'.of <= latest /\ \A n \in Names : file[n].of <= run'.of
      /\ script' = [script EXCEPT ![s] = Starting(run'.step, run'.of, run'.record)]
      /\ WaitsForBoot => At(Boot, "gone")
      /\ \A t \in Slots \ {Boot, s} : script[t].pc \in Past /\ ~(~At(t, "gone") /\ script[t].live)
      /\ run'.step = "write" => Running /\ There /\ run.step = "seal" /\ run'.of = run.of /\ ~Is("sealed.planner")
  <2>1. CASE Begin
    <3>1. /\ s # Boot /\ UNCHANGED <<file, latest>> /\ script[s].pc = "gone" /\ run.step = "idle"
          /\ run'.step = "seal" /\ run'.of = latest /\ run'.slot = s
          /\ script' = [script EXCEPT ![s] = Starting(run'.step, run'.of, run'.record)]
      BY <2>1 DEF Begin, Free, At
    <3>2. /\ \A t \in Slots \ {Boot} : script[t].pc \in Past
          /\ WaitsForBoot => At(Boot, "gone")
      BY <2>1 DEF Begin, Settled, Past
    <3>3. \A t \in Slots \ {Boot} : ~(~At(t, "gone") /\ script[t].live)
      BY <3>1 DEF OrderInv, Shape, Running
    <3>4. latest \in Nat /\ \A n \in Names : file[n].of <= latest
      BY DEF OrderInv, Typed, Bounds
    <3> QED
      BY <3>1, <3>2, <3>3, <3>4
  <2>2. CASE SealedThenWrite
    <3>1. /\ s = run.slot /\ UNCHANGED <<file, latest>> /\ script[s].pc = "said" /\ run.step = "seal"
          /\ run'.step = "write" /\ run'.of = run.of
          /\ script' = [script EXCEPT ![s] = Starting("write", run.of, run.record)]
      BY <2>2 DEF SealedThenWrite, Answered, At, OrderInv, Typed
    <3>a. run'.record = run.record
      BY <2>2 DEF SealedThenWrite, OrderInv, Typed
    <3>2. Running /\ ~At(s, "gone")
      BY <3>1 DEF Running, At
    <3>3. /\ s # Boot
          /\ WaitsForBoot => At(Boot, "gone")
          /\ \A t \in Slots \ {Boot, s} : script[t].pc \in Past
      BY <3>1, <3>2 DEF OrderInv, Roles
    <3>4. \A t \in Slots \ {Boot, s} : ~(~At(t, "gone") /\ script[t].live)
      BY <3>1 DEF OrderInv, Shape
    <3>5. There /\ ~Is("sealed.planner")
      BY <3>1, <3>2 DEF OrderInv, Phase, Tmp
    <3>6. run.of \in Nat /\ run.of <= latest /\ \A n \in Names : file[n].of <= run.of
      BY <3>2 DEF OrderInv, Typed, Bounds
    <3>7. script' = [script EXCEPT ![s] = Starting(run'.step, run'.of, run'.record)]
      BY <3>1, <3>a
    <3>8. run'.of \in Nat /\ run'.of <= latest /\ \A n \in Names : file[n].of <= run'.of
      BY <3>1, <3>6
    <3>9. Running /\ There /\ run.step = "seal" /\ run'.of = run.of /\ ~Is("sealed.planner")
      BY <3>1, <3>2, <3>5
    <3>10. s # Boot /\ UNCHANGED <<file, latest>> /\ script[s].pc \in {"gone", "said"}
      BY <3>1, <3>3
    <3>11. run'.step \in {"seal", "write"} /\ run'.slot = s
      BY <3>1
    <3>12. \A t \in Slots \ {Boot, s} : script[t].pc \in Past /\ ~(~At(t, "gone") /\ script[t].live)
      BY <3>3, <3>4
    <3> QED
      BY <3>3, <3>7, <3>8, <3>9, <3>10, <3>11, <3>12
  <2> QED
    BY <2>1, <2>2
<1>2. /\ script'[s] = Starting(run'.step, run'.of, run'.record) /\ Boot \in Slots
      /\ \A t \in Slots \ {s} : script'[t] = script[t]
      /\ Starting(run'.step, run'.of, run'.record).pc = "create" /\ Starting(run'.step, run'.of, run'.record).kind = run'.step
      /\ Starting(run'.step, run'.of, run'.record).live /\ Starting(run'.step, run'.of, run'.record).of = run'.of
  BY <1>1, RecordsAreTyped DEF OrderInv, Typed, Starting
<1>3. Running'
  BY <1>1 DEF Running
<1>4. Shape'
  <2>1. ASSUME NEW t \in Slots \ {Boot}, ~At(t, "gone")'
        PROVE  /\ script'[t].kind \in {"seal", "write"}
               /\ script'[t].pc \notin {"test", "seek", "decrypt"}
               /\ script'[t].pc \in {"compare", "drop", "restate", "reown"} => script'[t].kind = "write"
               /\ script'[t].live => Running' /\ run'.slot = t
    <3>1. CASE t = s
      BY <1>1, <1>2, <1>3, <3>1
    <3>2. CASE t # s
      BY <1>1, <1>2, <2>1, <3>2 DEF OrderInv, Shape, At
    <3> QED
      BY <3>1, <3>2
  <2>2. ASSUME NEW n \in Names, file'[n].by # Boot
        PROVE  /\ script'[file'[n].by].pc = "read"
               /\ n \in {Tmp[script'[file'[n].by].kind], Dest[script'[file'[n].by].kind]}
    <3>1. /\ At(file[n].by, "read") /\ file[n].by \in Slots
          /\ n \in {Tmp[script[file[n].by].kind], Dest[script[file[n].by].kind]}
      BY <1>1, <2>2 DEF OrderInv, Shape, Typed, File
    <3>2. file[n].by # s
      BY <1>1, <3>1 DEF At
    <3> QED
      BY <1>1, <1>2, <3>1, <3>2 DEF At
  <2>3. script'[Boot] = script[Boot]
    BY <1>1, <1>2
  <2>4. /\ script'[Boot].kind = "restore" /\ script'[Boot].of = 0
        /\ script'[Boot].pc \in {"gone", "test", "seek", "create", "decrypt", "own", "admit", "move"}
    BY <2>3 DEF OrderInv, Shape
  <2> QED
    BY <2>1, <2>2, <2>4 DEF Shape, At
<1>5. Roles'
  BY <1>1, <1>2 DEF Roles, At
<1>6. Bounds'
  <2>1. \A t \in Slots : script'[t].of <= latest
    BY <1>1, <1>2 DEF OrderInv, Bounds
  <2> QED
    BY <1>1, <2>1 DEF OrderInv, Bounds
<1>7. CopiesLead'
  <2>1. ASSUME NEW a \in Copies, file[a].bytes = "whole", NEW t \in Slots \ {Boot}, ToWrite(t)'
        PROVE  script'[t].of <= file[a].of
    <3>1. t = s /\ run'.step = "write"
      BY <1>1, <1>2, <2>1 DEF ToWrite, Past
    <3>2. a = "sealed" /\ Whole("sealed")
      BY <1>1, <2>1, <3>1 DEF Copies, Is, There, Dest
    <3> QED
      BY <1>1, <1>2, <3>1, <3>2 DEF Whole
  <2> QED
    BY <1>1, <2>1 DEF OrderInv, CopiesLead
<1>8. Phase'
  BY <1>1, <1>2 DEF Phase, At
<1> QED
  BY <1>4, <1>5, <1>6, <1>7, <1>8 DEF OrderInv

LEMMA EndsKeepOrder ==
  ASSUME OrderInv, Typed', Return \/ GiveUp \/ Cut
  PROVE  OrderInv'
<1> PICK s \in Slots : s = run.slot
  BY DEF OrderInv, Typed
<1>1. /\ UNCHANGED <<file, latest>> /\ run'.step = "idle" /\ Running
      /\ \A t \in Slots \ {s} : script'[t] = script[t]
      /\ \/ script'[s] = Gone /\ At(s, "said")
         \/ script'[s] = script[s] /\ At(s, "gone")
         \/ script'[s] = [script[s] EXCEPT !.live = FALSE]
  BY DEF Return, GiveUp, Cut, NoRun, Answered, Running, OrderInv, Typed
<1>2. /\ Gone.pc = "gone" /\ Gone.of = 0 /\ Boot \in Slots /\ script[s] \in Process /\ s # Boot
  BY <1>1, RecordsAreTyped DEF Gone, OrderInv, Typed, Roles
<1>3. /\ script'[s].of \in {0, script[s].of}
      /\ \/ script'[s].pc = "gone" /\ ~At(s, "read")
         \/ /\ script'[s].pc = script[s].pc /\ script'[s].kind = script[s].kind
            /\ ~script'[s].live
  BY <1>1, <1>2 DEF Process, At
<1>4. Shape'
  <2>1. ASSUME NEW t \in Slots \ {Boot}, ~At(t, "gone")'
        PROVE  /\ script'[t].kind \in {"seal", "write"}
               /\ script'[t].pc \notin {"test", "seek", "decrypt"}
               /\ script'[t].pc \in {"compare", "drop", "restate", "reown"} => script'[t].kind = "write"
               /\ ~script'[t].live
    <3>1. CASE t = s
      BY <1>3, <2>1, <3>1 DEF OrderInv, Shape, At
    <3>2. CASE t # s
      BY <1>1, <2>1, <3>2 DEF OrderInv, Shape, At
    <3> QED
      BY <3>1, <3>2
  <2>2. ASSUME NEW n \in Names, file'[n].by # Boot
        PROVE  /\ script'[file'[n].by].pc = "read"
               /\ n \in {Tmp[script'[file'[n].by].kind], Dest[script'[file'[n].by].kind]}
    <3>1. /\ At(file[n].by, "read") /\ file[n].by \in Slots
          /\ n \in {Tmp[script[file[n].by].kind], Dest[script[file[n].by].kind]}
      BY <1>1, <2>2 DEF OrderInv, Shape, Typed, File
    <3> QED
      BY <1>1, <1>3, <3>1 DEF At
  <2>3. script'[Boot] = script[Boot]
    BY <1>1, <1>2
  <2>4. /\ script'[Boot].kind = "restore" /\ script'[Boot].of = 0
        /\ script'[Boot].pc \in {"gone", "test", "seek", "create", "decrypt", "own", "admit", "move"}
    BY <2>3 DEF OrderInv, Shape
  <2> QED
    BY <2>1, <2>2, <2>4 DEF Shape, At
<1>5. Roles' /\ Phase'
  BY <1>1 DEF Roles, Phase, Running
<1>6. Bounds'
  <2>1. \A t \in Slots : script'[t].of <= latest
    BY <1>1, <1>3 DEF OrderInv, Bounds, Typed
  <2> QED
    BY <1>1, <2>1 DEF OrderInv, Bounds, Running
<1>7. CopiesLead'
  <2>1. ASSUME NEW t \in Slots \ {Boot}, ToWrite(t)' PROVE ToWrite(t) /\ script'[t].of \in {0, script[t].of}
    BY <1>1, <1>3, <2>1 DEF ToWrite
  <2>2. \A a \in Copies : file[a].of \in Nat
    BY DEF OrderInv, Typed, File, Copies, Names
  <2> QED
    BY <1>1, <2>1, <2>2 DEF OrderInv, CopiesLead
<1> QED
  BY <1>4, <1>5, <1>6, <1>7 DEF OrderInv

LEMMA RebootsKeepOrder ==
  ASSUME OrderInv, Typed', Reboot
  PROVE  OrderInv'
<1>1. /\ run'.step = "idle" /\ UNCHANGED latest /\ Boot \in Slots /\ latest \in Nat
      /\ \A s \in Slots \ {Boot} : script'[s] = Gone
      /\ script'[Boot].pc = "test" /\ script'[Boot].of = 0 /\ script'[Boot].kind = "restore"
  BY RecordsAreTyped, RebootsTest DEF Reboot, NoRun, OrderInv, Typed
<1>2. /\ Gone.pc = "gone" /\ Gone.of = 0
      /\ script'[Boot].pc = "test" /\ script'[Boot].of = 0 /\ script'[Boot].kind = "restore"
  BY <1>1 DEF Gone
<1>3. ASSUME NEW n \in Names
      PROVE  /\ file'[n].by = Boot /\ file[n].of \in Nat
             /\ n \notin Volatile => file'[n].bytes = file[n].bytes /\ file'[n].of = file[n].of
             /\ file'[n].of \in {0, file[n].of}
  <2>1. file'[n] = IF n \in Volatile THEN None ELSE [file[n] EXCEPT !.by = Boot]
    BY DEF Reboot
  <2>2. file[n] \in File
    BY DEF OrderInv, Typed
  <2> QED
    BY <2>1, <2>2 DEF File, None
<1>4. Shape'
  BY <1>1, <1>2, <1>3 DEF Shape, At
<1>5. Roles' /\ Phase'
  BY <1>1 DEF Roles, Phase, Running
<1>6. Bounds'
  <2>1. \A n \in Names : file'[n].of <= latest
    BY <1>1, <1>3 DEF OrderInv, Bounds
  <2>0. \A s \in Slots : script'[s].of = 0
    BY <1>1, <1>2
  <2>2. \A s \in Slots : script'[s].of <= latest
    BY <1>1, <2>0
  <2> QED
    BY <1>1, <2>1, <2>2 DEF Bounds, Running
<1>7. CopiesLead'
  <2>1. Copies \subseteq Names /\ Copies \cap Volatile = {}
    BY DEF Copies, Names, Volatile
  <2>2. \A a \in Copies : file'[a].bytes = file[a].bytes /\ file'[a].of = file[a].of
    BY <1>3, <2>1
  <2>3. \A s \in Slots \ {Boot} : ~ToWrite(s)'
    BY <1>1, <1>2 DEF ToWrite
  <2>4. ASSUME NEW a \in Copies, file'[a].bytes = "whole", NEW n \in Names \ {"sealed.planner"}
        PROVE  file'[n].of <= file'[a].of
    <3>1. file[n].of <= file[a].of /\ file'[a].of = file[a].of
      BY <2>2, <2>4 DEF OrderInv, CopiesLead
    <3>2. file[a].of \in Nat
      BY <1>3, <2>1
    <3> QED
      BY <1>3, <3>1, <3>2
  <2> QED
    BY <2>3, <2>4 DEF CopiesLead
<1> QED
  BY <1>4, <1>5, <1>6, <1>7 DEF OrderInv

LEMMA NextKeepsOrder == OrderInv /\ [Next]_vars => OrderInv'
<1> SUFFICES ASSUME OrderInv, [Next]_vars PROVE OrderInv'
  OBVIOUS
<1>0. Typed /\ Typed' /\ Shape
  BY NextTyped DEF OrderInv
<1>1. ASSUME NEW s \in Slots, Script(s) PROVE OrderInv'
  <2>1. PICK next \in Process : Effect(s, next)
    BY <1>0, <1>1, ScriptsHaveEffects
  <2> QED
    BY <1>0, <2>1, EffectsKeepOrder
<1>2. ASSUME NEW s \in Slots, Kill(s) PROVE OrderInv'
  BY <1>0, <1>2, KillsHaveEffects, EffectsKeepOrder
<1>3. CASE Rotate
  <2>1. latest' = latest + 1 /\ latest \in Nat /\ UNCHANGED <<file, script, run>>
    BY <1>0, <1>3 DEF Rotate, Typed
  <2>2. Shape' /\ Roles'
    BY <1>0, <2>1 DEF OrderInv, Shape, Roles, Running, At
  <2>3. Phase' /\ CopiesLead'
    BY <2>1 DEF OrderInv, Phase, CopiesLead, ToWrite, Running, At, Is, There, Whole
  <2>4. Bounds'
    <3>1. /\ \A n \in Names : file[n].of \in Nat
          /\ \A s \in Slots : script[s].of \in Nat
          /\ run.of \in Nat
      BY <1>0 DEF Typed, File, Process
    <3> QED
      BY <2>1, <3>1 DEF OrderInv, Bounds, Running
  <2> QED
    BY <1>0, <2>2, <2>3, <2>4 DEF OrderInv
<1>4. CASE UNCHANGED vars
  <2>1. UNCHANGED <<file, script, run, latest>>
    BY <1>4 DEF vars
  <2>2. Shape' /\ Roles'
    BY <2>1 DEF OrderInv, Shape, Roles, Running, At
  <2>3. Phase' /\ CopiesLead' /\ Bounds'
    BY <2>1 DEF OrderInv, Phase, CopiesLead, Bounds, ToWrite, Running, At, Is, There, Whole
  <2> QED
    BY <1>0, <2>2, <2>3 DEF OrderInv
<1> QED
  BY <1>0, <1>1, <1>2, <1>3, <1>4, StartsKeepOrder, EndsKeepOrder, RebootsKeepOrder DEF Next

LEMMA InitOrder == Init => OrderInv
<1> SUFFICES ASSUME Init PROVE OrderInv
  OBVIOUS
<1>1. Typed
  BY InitFileInv DEF FileInv
<1>2. /\ Gone.pc = "gone" /\ Gone.of = 0 /\ Gone.kind = "restore" /\ Boot \in Slots
      /\ None.by = Boot /\ None.of = 0 /\ None.bytes = "none" /\ NoRun.step = "idle"
  BY RecordsAreTyped DEF Gone, None, NoRun
<1>3. /\ \A n \in Names : file[n] = None
      /\ \A s \in Slots : script[s] = Gone
      /\ ~Running /\ latest = 1
  BY <1>2 DEF Init, Running
<1>4. Shape
  BY <1>2, <1>3 DEF Shape, At
<1>5. Roles /\ Phase
  BY <1>3 DEF Roles, Phase
<1>6. Bounds
  BY <1>2, <1>3 DEF Bounds
<1>7. CopiesLead
  BY <1>2, <1>3 DEF CopiesLead, Copies, Names
<1> QED
  BY <1>1, <1>4, <1>5, <1>6, <1>7 DEF OrderInv

(* What a reboot brings back is never older than what it took away,        *)
(* wherever connections broke and whatever older scripts still did, with   *)
(* runs that wait for the restore and with runs that do not.               *)
THEOREM CopyIsNeverOlder == Spec => []SealedNotOlder
<1>1. OrderInv => SealedNotOlder
  BY DEF OrderInv, CopiesLead, SealedNotOlder, Copies, Names
<1> QED
  BY <1>1, InitOrder, NextKeepsOrder, PTL DEF Spec

-----------------------------------------------------------------------------
(* What was delivered is of no later generation than what is sealed, and   *)
(* than what is in place unless the restore is at it; the restore has a    *)
(* path that nothing is at, so that it goes on to the end.                 *)
Unharmed == Unspent("cut") /\ Unspent("kill")

Deliveries ==
  /\ delivered \in Nat /\ delivered <= Shows("sealed")
  /\ At(Boot, "gone") => delivered <= Shows("path")
  /\ ~At(Boot, "gone") => ~Is("path")

DeliverInv ==
  /\ FileInv /\ OrderInv /\ faults["kill"] <= Faults["kill"]
  /\ Unspent("cut") => Generations
  /\ Unharmed => Deliveries

(* The restore does not stop before it has put the plaintext in place, if  *)
(* there is none and there is a copy.                                      *)
LEMMA RestoreGoesOn ==
  ASSUME Typed, Uncut, Script(Boot), ~Is("path"), file["sealed"].bytes = "whole",
         NEW next \in Process, script' = [script EXCEPT ![Boot] = next], next.pc = "gone"
  PROVE  At(Boot, "move")
<1> SUFFICES ASSUME ~At(Boot, "move") PROVE FALSE
  OBVIOUS
<1>1. /\ script[Boot].kind = "restore" /\ Boot \in Slots /\ script[Boot] \in Process
      /\ script[Boot].pc \in {"gone", "test", "seek", "create", "decrypt", "own", "admit", "move"}
      /\ script'[Boot].pc = "gone"
  BY RecordsAreTyped DEF Uncut, Restoring, Typed
<1>2. ASSUME NEW pc \in Steps, Goto(Boot, pc) PROVE pc = "gone"
  BY <1>1, <1>2 DEF Goto, Typed, Process
<1>3. script[Boot].pc \in {"own", "admit"} => Is(Tmp[script[Boot].kind])
  BY <1>1 DEF Uncut, Holding, Held, Is
<1>4. CASE Create(Boot)
  BY <1>2, <1>4 DEF Create, Steps
<1>5. CASE Own(Boot)
  BY <1>2, <1>3, <1>5 DEF Own, Steps, At
<1>6. CASE Admit(Boot)
  BY <1>1, <1>2, <1>3, <1>6 DEF Admit, Steps, At
<1>7. CASE Test
  <2>1. Goto(Boot, "seek")
    BY <1>7 DEF Test, Goto
  <2> QED
    BY <1>2, <2>1 DEF Steps
<1>8. CASE Seek
  <2>1. Goto(Boot, "create")
    BY <1>8 DEF Seek, Goto, Is
  <2> QED
    BY <1>2, <2>1 DEF Steps
<1>9. CASE Decrypt
  BY <1>2, <1>9 DEF Decrypt, Steps
<1> QED
  BY <1>1, <1>4, <1>5, <1>6, <1>7, <1>8, <1>9
  DEF Script, Open, ReceiveSome, ReceiveAll, EndOfInput, Compare, Drop, Move, Restate, Reown, Unheard, At

LEMMA ScriptsKeepDeliveries ==
  ASSUME WaitsForBoot, Typed, Typed', Uncut, Generations, Deliveries, NEW s \in Slots, Script(s)
  PROVE  Deliveries'
<1>1. PICK next \in Process :
         /\ script' = [script EXCEPT ![s] = next] /\ UNCHANGED operator /\ ~At(s, "gone")
         /\ next = Gone \/ (next.kind = script[s].kind /\ next.of = script[s].of)
         /\ Stays(s, next) \/ Moves(s, next)
  BY ScriptsStayOrMove
<1>2. /\ script'[s] = next /\ \A t \in Slots \ {s} : script'[t] = script[t]
      /\ delivered' = delivered /\ Boot \in Slots
      /\ {"path", "sealed"} \subseteq Names
      /\ Shows("path") \in Nat /\ Shows("sealed") \in Nat
  BY <1>1, RecordsAreTyped, NamesAreApart, ShownIsTyped DEF Typed, operator
<1>3. CASE s = Boot /\ At(s, "move")
  <2>1. /\ script[s].kind = "restore" /\ file["path.unsealing"].bytes = "whole"
        /\ file["path.unsealing"].of = Shows("sealed")
    BY <1>2, <1>3, NamesAreApart DEF Uncut, Restoring, Holding, Held, Generations, OfCopy, At
  <2>2. Move(s)
    BY <1>3 DEF Script, Create, Open, ReceiveSome, ReceiveAll, EndOfInput, Own, Admit, Compare, Drop,
            Restate, Reown, Unheard, Test, Seek, Decrypt, At
  <2>3. file' = [file EXCEPT !["path"] = file["path.unsealing"], !["path.unsealing"] = None]
    BY <2>1, <2>2 DEF Move, Is, Tmp, Dest
  <2>4. file'["path"] = file["path.unsealing"] /\ file'["sealed"] = file["sealed"]
    BY <1>2, <2>3 DEF Typed
  <2>5. Shows("path")' = Shows("sealed") /\ Shows("sealed")' = Shows("sealed")
    BY <2>1, <2>4 DEF Shows
  <2>6. At(Boot, "gone")'
    <3>1. script' = [script EXCEPT ![s] = Gone]
      BY <1>3, <2>1, <2>2 DEF Move, Is, Tmp
    <3> QED
      BY <1>2, <1>3, <3>1 DEF At, Gone, Typed
  <2> QED
    BY <1>2, <2>5, <2>6 DEF Deliveries
<1>4. CASE s = Boot /\ ~At(s, "move")
  <2>1. ~Is("path") /\ Stays(s, next)
    BY <1>1, <1>4 DEF Deliveries, Moves
  <2>2. Shows("sealed")' = Shows("sealed") /\ ~Is("path")' /\ Shows("path")' = 0
    BY <1>2, <2>1 DEF Stays, Shows, Is
  <2>3. next.pc = "gone" => delivered = 0
    <3>1. ASSUME next.pc = "gone" PROVE file["sealed"].bytes # "whole"
      <4>1. Script(Boot) /\ script' = [script EXCEPT ![Boot] = next] /\ ~At(Boot, "move")
        BY <1>1, <1>4
      <4> QED
        BY <2>1, <3>1, <4>1, RestoreGoesOn
    <3> QED
      BY <3>1 DEF Deliveries, Shows
  <2> QED
    BY <1>2, <1>4, <2>2, <2>3 DEF Deliveries, At
<1>5. CASE s # Boot
  <2>1. At(Boot, "gone") /\ At(Boot, "gone")'
    BY <1>1, <1>2, <1>5, OneScript DEF At
  <2>2. delivered <= Shows("sealed") /\ delivered <= Shows("path") /\ delivered \in Nat
    BY <2>1 DEF Deliveries
  <2>3. CASE Stays(s, next)
    <3>1. Shows("sealed")' = Shows("sealed") /\ Shows("path")' = Shows("path")
      BY <2>3 DEF Stays, Shows
    <3> QED
      BY <1>2, <2>1, <2>2, <3>1 DEF Deliveries
  <2>4. CASE Moves(s, next)
    <3> DEFINE tmp == Tmp[script[s].kind]
    <3>1. /\ OfRun(s) /\ run.step # "idle" /\ script[s].kind \in {"seal", "write"}
          /\ At(s, "move")
      BY <1>1, <1>5, <2>4 DEF Uncut, Alone, Generations, Moves
    <3>2. /\ file[tmp].bytes = "whole" /\ file[tmp].of = run.of
          /\ run.of \in Nat /\ Shows("sealed") <= run.of
      BY <3>1, ShownIsTyped DEF OfRun, Uncut, Holding, Held, Reading, At, Generations
    <3>3. CASE script[s].kind = "seal"
      <4>1. file'["sealed"] = file[tmp] /\ file'["path"] = file["path"]
        BY <1>2, <2>4, <3>3 DEF Moves, Dest, Tmp
      <4>2. Shows("sealed")' = run.of /\ Shows("path")' = Shows("path")
        BY <3>2, <4>1 DEF Shows
      <4> QED
        BY <1>2, <2>1, <2>2, <3>2, <4>2 DEF Deliveries
    <3>4. CASE script[s].kind = "write"
      <4>1. file'["path"] = file[tmp] /\ file'["sealed"] = file["sealed"]
        BY <1>2, <2>4, <3>4 DEF Moves, Dest, Tmp
      <4>2. Shows("sealed")' = Shows("sealed") /\ Shows("path")' = Shows("sealed")
        BY <3>1, <3>2, <3>4, <4>1 DEF Shows, OfRun
      <4> QED
        BY <1>2, <2>1, <2>2, <4>2 DEF Deliveries
    <3> QED
      BY <3>1, <3>3, <3>4
  <2> QED
    BY <1>1, <2>3, <2>4
<1> QED
  BY <1>3, <1>4, <1>5

(* An answer makes a generation delivered: one that is sealed and in place.*)
LEMMA ReturnsDeliver ==
  ASSUME WaitsForBoot, Typed, Uncut, Generations, OrderInv, Deliveries, Return
  PROVE  Deliveries'
<1> PICK s \in Slots : s = run.slot
  BY DEF Typed
<1>1. /\ run.step = "write" /\ At(s, "said") /\ script[s].live /\ delivered' = run.of
      /\ UNCHANGED file /\ script' = [script EXCEPT ![s] = Gone]
  BY DEF Return, Answered
<1>2. /\ s # Boot /\ ~At(s, "gone") /\ Running /\ script[s].kind = "write"
  BY <1>1 DEF OrderInv, Roles, Running, At
<1>3. Whole("path")
  BY <1>1, <1>2 DEF OrderInv, Phase, There, At, Dest
<1>4. Shows("sealed") = run.of /\ run.of \in Nat
  BY <1>2, ShownIsTyped DEF Generations, OfRun
<1>5. At(Boot, "gone")'
  BY <1>1, <1>2, OneScript, RecordsAreTyped DEF At, Typed
<1>6. Shows("path")' = run.of /\ Shows("sealed")' = run.of
  BY <1>1, <1>3, <1>4 DEF Shows, Whole
<1> QED
  BY <1>1, <1>4, <1>5, <1>6 DEF Deliveries

LEMMA KillsAddUp ==
  ASSUME Typed, Typed', [Next]_vars, faults["kill"] <= Faults["kill"]
  PROVE  /\ faults'["kill"] <= Faults["kill"]
         /\ Unspent("kill")' => Unspent("kill") /\ \A s \in Slots : ~Kill(s)
<1>1. \A kind \in FaultKinds : Spend(kind) => faults'["kill"] <= faults["kill"]
  BY DEF Spend, Typed, FaultKinds
<1>2. (\E kind \in FaultKinds : Spend(kind)) \/ UNCHANGED faults
  BY DEF Next, Script, Create, Open, ReceiveSome, ReceiveAll, EndOfInput, Own, Admit, Compare,
         Drop, Move, Restate, Reown, Unheard, Test, Seek, Decrypt, operator, Kill, Begin, SealedThenWrite,
         Return, GiveUp, Cut, Reboot, Rotate, vars, FaultKinds
<1>3. faults'["kill"] <= faults["kill"]
  BY <1>1, <1>2 DEF Typed, FaultKinds
<1>4. faults["kill"] \in Nat /\ faults'["kill"] \in Nat /\ Faults["kill"] \in Nat
  BY ValueFileAssumption DEF Typed, FaultKinds
<1>5. ASSUME NEW s \in Slots, Kill(s) PROVE faults'["kill"] < faults["kill"]
  BY <1>4, <1>5 DEF Kill, Spend, Typed, FaultKinds
<1> QED
  BY <1>3, <1>4, <1>5 DEF Unspent

LEMMA NextKeepsDeliveries ==
  ASSUME WaitsForBoot, DeliverInv, Unharmed, Unharmed', Typed', [Next]_vars
  PROVE  Deliveries'
<1>1. /\ Typed /\ Uncut /\ Generations /\ OrderInv /\ Deliveries /\ faults["kill"] <= Faults["kill"]
  BY DEF DeliverInv, FileInv, Unharmed
<1>2. /\ Gone.pc = "gone" /\ {"path", "sealed"} \subseteq Names /\ Boot \in Slots
      /\ Shows("path") \in Nat /\ Shows("sealed") \in Nat
  BY <1>1, NamesAreApart, RecordsAreTyped, ShownIsTyped DEF Gone
<1>3. ASSUME UNCHANGED <<file, delivered>>, script'[Boot] = script[Boot] PROVE Deliveries'
  BY <1>1, <1>3 DEF Deliveries, Shows, At, Is
<1>4. ASSUME NEW s \in Slots, Script(s) PROVE Deliveries'
  BY <1>1, <1>4, ScriptsKeepDeliveries
<1>5. ASSUME NEW s \in Slots, Kill(s) PROVE Deliveries'
  BY <1>1, <1>5, KillsAddUp DEF Unharmed
<1>6. CASE Begin \/ SealedThenWrite \/ GiveUp \/ Rotate \/ UNCHANGED vars
  <2>1. UNCHANGED <<file, delivered>>
    BY <1>6 DEF Begin, SealedThenWrite, GiveUp, Rotate, vars
  <2>2. SealedThenWrite => run.slot # Boot
    BY <1>1 DEF SealedThenWrite, OrderInv, Roles, Running
  <2>3. script'[Boot] = script[Boot]
    BY <1>1, <1>2, <1>6, <2>2 DEF Begin, Free, SealedThenWrite, GiveUp, Rotate, vars, Typed
  <2> QED
    BY <1>3, <2>1, <2>3
<1>7. CASE Return
  BY <1>1, <1>7, ReturnsDeliver
<1>8. ~Cut
  <2>1. ASSUME Cut PROVE faults'["cut"] = faults["cut"] - 1 /\ faults["cut"] \in Nat
    BY <1>1, <2>1 DEF Cut, Spend, Typed, FaultKinds
  <2> QED
    BY <2>1 DEF Unharmed, Unspent
<1>9. CASE Reboot
  <2>1. script'[Boot].pc = "test" /\ UNCHANGED delivered
    BY <1>2, <1>9 DEF Reboot, Gone
  <2>2. file'["path"] = None /\ file'["sealed"] = [file["sealed"] EXCEPT !.by = Boot]
    BY <1>2, <1>9 DEF Reboot, Volatile
  <2>3. file["sealed"] \in File
    BY <1>1, <1>2 DEF Typed
  <2>4. file'["sealed"].bytes = file["sealed"].bytes /\ file'["sealed"].of = file["sealed"].of
    BY <2>2, <2>3 DEF File
  <2>5. Shows("sealed")' = Shows("sealed") /\ ~Is("path")'
    BY <2>2, <2>4 DEF Shows, Is, None
  <2> QED
    BY <1>1, <2>1, <2>5 DEF Deliveries, At
<1> QED
  BY <1>4, <1>5, <1>6, <1>7, <1>8, <1>9 DEF Next

(* Where a run waits for the restore: a value that was delivered is there  *)
(* again when a restore has ended, and none older, over any number of      *)
(* generations, runs and reboots.                                          *)
THEOREM DeliveriesSurvive ==
  ASSUME WaitsForBoot
  PROVE  Spec => []DeliveredSurvives
<1>1. Init => DeliverInv
  <2> SUFFICES ASSUME Init PROVE DeliverInv
    OBVIOUS
  <2>1. FileInv /\ OrderInv /\ Generations
    BY InitFileInv, InitOrder, InitKeepsThePromise
  <2>2. faults["kill"] <= Faults["kill"]
    BY ValueFileAssumption DEF Init, FaultKinds
  <2>3. Deliveries
    <3>1. {"path", "sealed"} \subseteq Names /\ Boot \in Slots
      BY NamesAreApart, RecordsAreTyped
    <3> QED
      BY <3>1 DEF Init, Deliveries, Shows, At, Is, None, Gone
  <2> QED
    BY <2>1, <2>2, <2>3 DEF DeliverInv
<1>2. DeliverInv /\ [Next]_vars => DeliverInv'
  <2> SUFFICES ASSUME DeliverInv, [Next]_vars PROVE DeliverInv'
    OBVIOUS
  <2>1. FileInv' /\ Typed /\ Typed'
    BY NextFileInv DEF DeliverInv, FileInv
  <2>2. OrderInv'
    BY NextKeepsOrder DEF DeliverInv
  <2>3. /\ faults'["kill"] <= Faults["kill"]
        /\ Unspent("kill")' => Unspent("kill")
    BY <2>1, KillsAddUp DEF DeliverInv
  <2>4. Unspent("cut")' => Unspent("cut")
    BY <2>1, CutsAddUp
  <2>5. Unspent("cut")' => Generations'
    BY <2>1, <2>4, NextKeepsThePromise DEF DeliverInv, FileInv
  <2>6. Unharmed' => Deliveries'
    BY <2>1, <2>3, <2>4, NextKeepsDeliveries DEF Unharmed
  <2> QED
    BY <2>1, <2>2, <2>3, <2>5, <2>6 DEF DeliverInv
<1>3. DeliverInv => DeliveredSurvives
  <2>1. Typed => Shows("path") \in Nat
    BY ShownIsTyped
  <2> QED
    BY <2>1 DEF DeliverInv, FileInv, Unharmed, Deliveries, DeliveredSurvives, Shows
<1> QED
  BY <1>1, <1>2, <1>3, PTL DEF Spec

-----------------------------------------------------------------------------
(* Whose the file in place is: while its record is being said again, its   *)
(* mode is that of the script; once that is said, its owner too.  A file   *)
(* that is of two records is so because a script is between the two, or    *)
(* was killed there.                                                       *)
Says(s) ==
  /\ (~At(s, "gone") /\ script[s].kind = "write") => script[s].record = run.record
  /\ At(s, "reown") => Is("path") /\ file["path"].mode = script[s].record
  /\ (At(s, "said") /\ script[s].kind = "write") =>
       file["path"].owner = script[s].record /\ file["path"].mode = script[s].record

Stated ==
  /\ Mixed(file["path"]) => (\E s \in Slots : At(s, "reown")) \/ ~Unspent("kill")
  /\ \A s \in Slots \ {Boot} : Says(s)

StatedInv ==
  /\ FileInv /\ OrderInv /\ faults["kill"] <= Faults["kill"]
  /\ (WaitsForBoot /\ Unspent("cut")) => Generations /\ Stated

(* What leaves the file in place alone, from where nothing is said of it.  *)
LEMMA SilentSteps ==
  ASSUME Typed, Stated, NEW s \in Slots, NEW next \in Process, UNCHANGED <<run, faults>>,
         script' = [script EXCEPT ![s] = next],
         file'["path"].bytes = file["path"].bytes, file'["path"].owner = file["path"].owner,
         file'["path"].mode = file["path"].mode, ~At(s, "reown"),
         (next.pc # "gone" /\ next.kind = "write") => next.record = run.record,
         next.pc # "reown", next.pc = "said" => next.kind # "write"
  PROVE  Stated'
<1>1. script'[s] = next /\ \A t \in Slots \ {s} : script'[t] = script[t]
  BY DEF Typed
<1>2. Mixed(file'["path"]) => Mixed(file["path"])
  BY DEF Mixed
<1>3. ASSUME NEW t \in Slots, At(t, "reown") PROVE At(t, "reown")'
  BY <1>1, <1>3 DEF At
<1>4. ASSUME NEW t \in Slots \ {Boot} PROVE Says(t)'
  <2>1. CASE t = s
    BY <1>1, <2>1 DEF Says, At
  <2>2. CASE t # s
    BY <1>1, <1>4, <2>2 DEF Stated, Says, At, Is
  <2> QED
    BY <2>1, <2>2
<1> QED
  BY <1>2, <1>3, <1>4 DEF Stated, Unspent

(* What changes it, which one script does at a time.                       *)
LEMMA SayingSteps ==
  ASSUME Typed, Uncut, Generations, NEW s \in Slots, ~At(s, "gone"), NEW next \in Process,
         UNCHANGED run, script' = [script EXCEPT ![s] = next], s # Boot => Says(s)',
         Mixed(file'["path"]) => next.pc = "reown"
  PROVE  Stated'
<1>1. script'[s] = next /\ \A t \in Slots \ {s} : script'[t] = script[t] /\ script[t].pc = "gone"
  BY OneScript DEF Typed, At
<1>2. \A t \in Slots \ {Boot, s} : Says(t)'
  BY <1>1 DEF Says, At
<1> QED
  BY <1>1, <1>2 DEF Stated, At

(* A record is said by the commands that change the owner or the mode of   *)
(* the file in place, and by the one that puts it there.                   *)
LEMMA ScriptsAreSilent ==
  ASSUME Typed, Uncut, NEW s \in Slots, Script(s), ~Move(s), ~Restate(s), ~Reown(s)
  PROVE  \E next \in Process :
           /\ script' = [script EXCEPT ![s] = next] /\ UNCHANGED <<run, faults>> /\ ~At(s, "reown")
           /\ file'["path"].bytes = file["path"].bytes /\ file'["path"].owner = file["path"].owner
           /\ file'["path"].mode = file["path"].mode
           /\ next = Gone \/ (next.kind = script[s].kind /\ next.record = script[s].record)
           /\ next.pc \notin {"reown", "said"} /\ ~At(s, "gone")
<1> DEFINE kind == script[s].kind
           tmp == Tmp[kind]
           To(pc) == [script[s] EXCEPT !.pc = pc]
<1>1. /\ kind \in Kinds /\ tmp \in Names \ {"path"} /\ "path" \in Names
      /\ file \in [Names -> File] /\ script[s] \in Process /\ script \in [Slots -> Process]
      /\ "path.planner" # "path" /\ "path.unsealing" # "path"
  BY NamesAreApart DEF Typed, Process
<1>2. /\ UNCHANGED <<run, faults>> /\ ~At(s, "reown") /\ ~At(s, "gone")
  BY DEF Script, Create, Open, ReceiveSome, ReceiveAll, EndOfInput, Own, Admit, Compare, Drop,
         Unheard, Test, Seek, Decrypt, operator, At
<1>3. /\ file'["path"].bytes = file["path"].bytes /\ file'["path"].owner = file["path"].owner
      /\ file'["path"].mode = file["path"].mode
  <2>1. ASSUME NEW n \in Names \ {"path"}, NEW changed, file' = [file EXCEPT ![n] = changed]
        PROVE  file'["path"] = file["path"]
    BY <1>1, <2>1
  <2>2. ASSUME At(s, "read") PROVE file["path"].by # s
    <3>1. s # Boot
      BY <2>2 DEF Uncut, Restoring, At
    <3> QED
      BY <1>1, <3>1, NamesAreApart DEF Uncut, Writers, Process
  <2>3. ASSUME At(s, "read"), NEW bytes PROVE /\ Filled(s, bytes)["path"] = file["path"]
                                            /\ Closed(Filled(s, bytes), s)["path"] = file["path"]
                                            /\ Closed(file, s)["path"] = file["path"]
    BY <1>1, <2>2, <2>3 DEF Filled, Closed
  <2>4. CASE ReceiveSome(s) \/ ReceiveAll(s) \/ EndOfInput(s)
    BY <2>3, <2>4 DEF ReceiveSome, ReceiveAll, EndOfInput
  <2>5. CASE UNCHANGED file
    BY <2>5
  <2>6. CASE Create(s) \/ Open(s) \/ Own(s) \/ Admit(s)
    BY <1>1, <2>1, <2>5, <2>6 DEF Create, Open, Own, Admit, Fail
  <2>7. CASE Drop(s) \/ (s = Boot /\ Decrypt)
    BY <1>1, <2>1, <2>7 DEF Drop, Decrypt, Fail, Names
  <2> QED
    BY <2>4, <2>5, <2>6, <2>7 DEF Script, Compare, Unheard, Test, Seek
<1>4. Gone \in Process /\ Gone.pc = "gone"
  BY RecordsAreTyped DEF Gone
<1>5. ASSUME NEW pc \in Steps
      PROVE  /\ To(pc) \in Process /\ To(pc).pc = pc /\ To(pc).kind = kind /\ To(pc).record = script[s].record
             /\ Goto(s, pc) => script' = [script EXCEPT ![s] = To(pc)]
  BY <1>1 DEF Process, Goto
<1> HIDE DEF To, tmp, kind
<1>6. \/ script' = [script EXCEPT ![s] = Gone]
      \/ script' = script /\ At(s, "read")
      \/ \E pc \in Steps \ {"reown", "said"} : Goto(s, pc)
  <2>1. CASE Create(s) \/ Open(s) \/ ReceiveAll(s) \/ EndOfInput(s) \/ Compare(s) \/ Drop(s)
    BY <2>1 DEF Create, Open, ReceiveAll, EndOfInput, Compare, Drop, Steps
  <2>2. CASE Own(s) \/ Admit(s) \/ (s = Boot /\ Decrypt)
    BY <2>2 DEF Own, Admit, Decrypt, Fail, Steps
  <2>3. CASE ReceiveSome(s) \/ Unheard(s)
    BY <2>3 DEF ReceiveSome, Unheard
  <2>4. CASE s = Boot /\ (Test \/ Seek)
    BY <2>4 DEF Test, Seek, Goto, Steps
  <2> QED
    BY <2>1, <2>2, <2>3, <2>4 DEF Script
<1>7. CASE script' = [script EXCEPT ![s] = Gone]
  BY <1>2, <1>3, <1>4, <1>7
<1>8. CASE script' = script /\ At(s, "read")
  <2>1. script' = [script EXCEPT ![s] = script[s]] /\ script[s].pc = "read"
    BY <1>1, <1>8 DEF At
  <2> QED
    BY <1>1, <1>2, <1>3, <2>1
<1>9. CASE \E pc \in Steps \ {"reown", "said"} : Goto(s, pc)
  BY <1>2, <1>3, <1>5, <1>9 DEF kind
<1> QED
  BY <1>6, <1>7, <1>8, <1>9

LEMMA ScriptsState ==
  ASSUME Typed, Typed', Uncut, Generations, Stated, NEW s \in Slots, Script(s)
  PROVE  Stated'
<1> DEFINE kind == script[s].kind
           tmp == Tmp[kind]
           To(pc) == [script[s] EXCEPT !.pc = pc]
<1>1. /\ kind \in Kinds /\ tmp \in Names \ {"path"} /\ "path" \in Names /\ script[s] \in Process
      /\ file \in [Names -> File] /\ script \in [Slots -> Process]
      /\ ~Mixed(file[tmp])
  BY NamesAreApart DEF Typed, Process, Uncut, Files
<1>2. Gone \in Process /\ Gone.pc = "gone" /\ Gone.kind = "restore"
  BY RecordsAreTyped DEF Gone
<1>3. s # Boot => (Says(s) /\ OfRun(s)) \/ At(s, "gone")
  BY DEF Stated, Generations
<1>4. CASE ~Move(s) /\ ~Restate(s) /\ ~Reown(s)
  <2>1. PICK next \in Process :
          /\ script' = [script EXCEPT ![s] = next] /\ UNCHANGED <<run, faults>> /\ ~At(s, "reown")
          /\ file'["path"].bytes = file["path"].bytes /\ file'["path"].owner = file["path"].owner
          /\ file'["path"].mode = file["path"].mode
          /\ next = Gone \/ (next.kind = script[s].kind /\ next.record = script[s].record)
          /\ next.pc \notin {"reown", "said"} /\ ~At(s, "gone")
    BY <1>4, ScriptsAreSilent
  <2>2. (next.pc # "gone" /\ next.kind = "write") => next.record = run.record
    BY <1>2, <2>1 DEF Stated, Says, Uncut, Restoring
  <2> QED
    BY <2>1, <2>2, SilentSteps
<1>5. ASSUME NEW pc \in Steps
      PROVE  /\ To(pc) \in Process /\ To(pc).pc = pc /\ To(pc).kind = kind /\ To(pc).record = script[s].record
             /\ Goto(s, pc) => script' = [script EXCEPT ![s] = To(pc)]
  BY <1>1 DEF Process, Goto
<1>6. ASSUME UNCHANGED <<file, run, faults>>, script' = [script EXCEPT ![s] = Gone], ~At(s, "reown")
      PROVE  Stated'
  BY <1>2, <1>6, SilentSteps
<1> HIDE DEF To, tmp, kind
<1>7. CASE Move(s)
  <2>1. At(s, "move") /\ ~At(s, "gone") /\ UNCHANGED <<run, faults>> /\ Is(tmp)
    BY <1>7 DEF Move, operator, At, Uncut, Holding, Held, Is, tmp, kind
  <2>2. file' = [file EXCEPT ![Dest[kind]] = file[tmp], ![tmp] = None]
    BY <1>7, <2>1 DEF Move, tmp, kind
  <2>3. CASE kind = "seal"
    <3>1. Goto(s, "said")
      <4>1. s # Boot
        BY <2>3 DEF Uncut, Restoring, kind
      <4> QED
        BY <1>7, <2>1, <2>3, <4>1 DEF Move, Goto, tmp, kind
    <3>2. file'["path"] = file["path"]
      BY <1>1, <2>2, <2>3 DEF Dest
    <3>3. ~At(s, "reown")
      BY <2>1 DEF At
    <3> QED
      BY <1>5, <2>1, <2>3, <3>1, <3>2, <3>3, SilentSteps DEF Steps
  <2>4. CASE kind # "seal"
    <3>1. file'["path"] = file[tmp]
      BY <1>1, <2>2, <2>4 DEF Dest, Kinds
    <3>2. ~Mixed(file'["path"])
      BY <1>1, <3>1
    <3>3. CASE s = Boot
      <4>1. script' = [script EXCEPT ![s] = Gone]
        BY <1>7, <2>1, <3>3 DEF Move, tmp, kind
      <4> QED
        BY <1>2, <2>1, <3>2, <3>3, <4>1, SayingSteps
    <3>4. CASE s # Boot
      <4>1. kind = "write" /\ script[s].record = run.record
        BY <1>3, <2>1, <2>4, <3>4 DEF Uncut, Alone, Says, kind, At
      <4>2. Goto(s, "restate")
        BY <1>7, <2>1, <3>4, <4>1 DEF Move, Goto, tmp, kind
      <4>3. script' = [script EXCEPT ![s] = To("restate")] /\ To("restate").pc = "restate"
            /\ To("restate").record = run.record /\ To("restate") \in Process
        BY <1>5, <4>1, <4>2 DEF Steps
      <4>4. Says(s)'
        BY <1>1, <2>1, <4>3 DEF Says, At
      <4> QED
        BY <2>1, <3>2, <4>3, <4>4, SayingSteps
    <3> QED
      BY <3>3, <3>4
  <2> QED
    BY <2>3, <2>4
<1>8. ASSUME s # Boot, ~At(s, "gone"), UNCHANGED run, script[s].record = run.record, NEW pc \in {"reown", "said"},
             Goto(s, pc), file'["path"].bytes # "none", file'["path"].mode = script[s].record,
             pc = "said" => file'["path"].owner = script[s].record
      PROVE  Stated'
  <2>1. /\ script' = [script EXCEPT ![s] = To(pc)] /\ To(pc).pc = pc
        /\ To(pc).record = script[s].record /\ To(pc) \in Process
    BY <1>5, <1>8 DEF Steps
  <2>2. Says(s)'
    BY <1>1, <1>8, <2>1 DEF Says, At, Is
  <2>3. Mixed(file'["path"]) => pc = "reown"
    BY <1>8 DEF Mixed
  <2> QED
    BY <1>8, <2>1, <2>2, <2>3, SayingSteps
<1>9. CASE Restate(s) \/ Reown(s)
  <2>1. /\ ~At(s, "gone") /\ s # Boot /\ UNCHANGED <<run, faults>>
        /\ script[s].pc \in {"restate", "reown"}
    BY <1>9 DEF Restate, Reown, operator, At, Uncut, Restoring
  <2>2. script[s].record = run.record
    BY <1>3, <2>1 DEF Says, OfRun, At
  <2>3. CASE Restate(s) /\ ~Is("path")
    <3>1. UNCHANGED file /\ script' = [script EXCEPT ![s] = Gone] /\ ~At(s, "reown")
      BY <2>3 DEF Restate, At
    <3> QED
      BY <1>6, <2>1, <3>1
  <2>4. CASE Restate(s) /\ Is("path")
    <3> DEFINE moded == [file["path"] EXCEPT !.mode = script[s].record]
    <3>1. file' = [file EXCEPT !["path"] = moded] /\ Goto(s, "reown")
      BY <1>1, <2>4 DEF Restate
    <3>2. moded.bytes # "none" /\ moded.mode = script[s].record
      BY <1>1, <2>4 DEF File, Is
    <3> HIDE DEF moded
    <3>3. file'["path"] = moded
      BY <1>1, <3>1
    <3> QED
      BY <1>8, <2>1, <2>2, <3>1, <3>2, <3>3
  <2>5. CASE Reown(s)
    <3> DEFINE owned == [file["path"] EXCEPT !.owner = script[s].record]
    <3>1. Is("path") /\ file["path"].mode = script[s].record
      BY <1>3, <2>1, <2>5 DEF Says, Reown
    <3>2. file' = [file EXCEPT !["path"] = owned] /\ Goto(s, "said")
      BY <1>1, <2>5, <3>1 DEF Reown
    <3>3. owned.bytes # "none" /\ owned.mode = script[s].record /\ owned.owner = script[s].record
      BY <1>1, <3>1 DEF File, Is
    <3> HIDE DEF owned
    <3>4. file'["path"] = owned
      BY <1>1, <3>2
    <3> QED
      BY <1>8, <2>1, <2>2, <3>2, <3>3, <3>4
  <2> QED
    BY <1>9, <2>3, <2>4, <2>5
<1> QED
  BY <1>4, <1>7, <1>9

LEMMA NextStates ==
  ASSUME Typed, Typed', Uncut, Generations, Stated, faults["kill"] <= Faults["kill"],
         Unspent("cut"), Unspent("cut")', [Next]_vars
  PROVE  Stated'
<1>1. /\ Gone \in Process /\ Gone.pc = "gone" /\ Gone.kind = "restore" /\ Boot \in Slots /\ "path" \in Names
      /\ file \in [Names -> File] /\ script \in [Slots -> Process]
  BY RecordsAreTyped, NamesAreApart DEF Gone, Typed
<1>2. ASSUME NEW s \in Slots, Script(s) PROVE Stated'
  BY <1>2, ScriptsState
<1>3. ASSUME NEW s \in Slots, Kill(s) PROVE Stated'
  <2>1. ~Unspent("kill")'
    BY <1>3, KillsAddUp
  <2>2. /\ file'["path"].bytes = file["path"].bytes /\ file'["path"].owner = file["path"].owner
        /\ file'["path"].mode = file["path"].mode
    BY <1>1, <1>3 DEF Kill, Closed, File
  <2>3. script' = [script EXCEPT ![s] = Gone] /\ UNCHANGED run
    BY <1>3 DEF Kill
  <2>4. ASSUME NEW t \in Slots \ {Boot} PROVE Says(t)'
    <3>1. CASE t = s
      BY <1>1, <2>3, <3>1 DEF Says, At
    <3>2. CASE t # s
      BY <1>1, <2>2, <2>3, <2>4, <3>2 DEF Stated, Says, At, Is
    <3> QED
      BY <3>1, <3>2
  <2> QED
    BY <2>1, <2>4 DEF Stated
<1>4. ASSUME UNCHANGED <<file, faults>>, \A s \in Slots \ {Boot} : At(s, "gone"), script'[Boot] = script[Boot],
             \A s \in Slots \ {Boot} : script'[s].pc \in {"gone", "create"}
                                      /\ (script'[s].pc # "gone" => script'[s].kind = "seal")
      PROVE  Stated'
  <2>1. ~At(Boot, "reown")
    BY DEF Uncut, Restoring, At
  <2>2. Mixed(file["path"]) => ~Unspent("kill")
    BY <1>4, <2>1 DEF Stated, At
  <2>3. \A s \in Slots \ {Boot} : Says(s)'
    BY <1>4 DEF Says, At
  <2> QED
    BY <1>4, <2>2, <2>3 DEF Stated, Unspent
<1>5. CASE Begin
  <2>1. PICK s \in Free, record \in Records :
          script' = [script EXCEPT ![s] = Starting("seal", latest, record)]
    BY <1>5 DEF Begin
  <2>2. s \in Slots \ {Boot} /\ \A t \in Slots \ {Boot} : At(t, "gone")
    BY <1>5 DEF Begin, Free, Uncut, Alone
  <2>3. Starting("seal", latest, record).pc = "create" /\ Starting("seal", latest, record).kind = "seal"
    BY DEF Starting
  <2>4. script'[s].pc = "create" /\ script'[s].kind = "seal" /\ \A t \in Slots \ {s} : script'[t] = script[t]
    BY <1>1, <2>1, <2>2, <2>3
  <2>5. UNCHANGED <<file, faults>>
    BY <1>5 DEF Begin
  <2> QED
    BY <1>1, <1>4, <2>2, <2>4, <2>5 DEF At
<1>6. CASE SealedThenWrite \/ Return
  <2> DEFINE s == run.slot
  <2>1. run.step # "idle" /\ At(s, "said") /\ s \in Slots /\ UNCHANGED <<file, faults>>
    BY <1>6 DEF SealedThenWrite, Return, Answered, Typed
  <2>2. s # Boot /\ \A t \in Slots \ {s} : script[t].pc = "gone"
    BY <2>1, OneScript DEF Uncut, Restoring, At
  <2>3. PICK next : /\ script' = [script EXCEPT ![s] = next]
                    /\ \/ next = Gone
                       \/ next.pc = "create" /\ next.record = run.record /\ UNCHANGED run.record
    <3>1. /\ Starting("write", run.of, run.record).pc = "create"
          /\ Starting("write", run.of, run.record).record = run.record
      BY DEF Starting
    <3>2. SealedThenWrite => UNCHANGED run.record
      BY DEF SealedThenWrite, Typed
    <3> QED
      BY <1>6, <3>1, <3>2 DEF SealedThenWrite, Return
  <2> HIDE DEF s
  <2>4. script'[s] = next /\ \A t \in Slots \ {s} : script'[t].pc = "gone"
    BY <1>1, <2>1, <2>2, <2>3
  <2>5. \A t \in Slots \ {Boot} : Says(t)'
    BY <1>1, <2>3, <2>4 DEF Says, At
  <2>6. Mixed(file["path"]) => ~Unspent("kill")
    BY <2>1, <2>2 DEF Stated, At
  <2> QED
    BY <2>1, <2>5, <2>6 DEF Stated, Unspent
<1>7. CASE GiveUp
  <2>1. UNCHANGED <<file, script, faults>> /\ At(run.slot, "gone")
    BY <1>7 DEF GiveUp
  <2>2. \A s \in Slots \ {Boot} : At(s, "gone")
    BY <2>1 DEF Uncut, Alone
  <2> QED
    BY <1>4, <2>1, <2>2 DEF At
<1>8. ~Cut
  <2>1. ASSUME Cut PROVE faults'["cut"] = faults["cut"] - 1 /\ faults["cut"] \in Nat
    BY <2>1 DEF Cut, Spend, Typed, FaultKinds
  <2> QED
    BY <2>1 DEF Unspent
<1>9. CASE Reboot
  <2>1. ~Mixed(file'["path"])
    BY <1>1, <1>9 DEF Reboot, Volatile, None, Mixed
  <2>2. \A s \in Slots \ {Boot} : Says(s)'
    BY <1>9, RebootsTest DEF Says, At
  <2> QED
    BY <2>1, <2>2 DEF Stated
<1>10. CASE Rotate \/ UNCHANGED vars
  BY <1>10 DEF Rotate, vars, Stated, Says, Unspent, At, Is
<1> QED
  BY <1>2, <1>3, <1>5, <1>6, <1>7, <1>8, <1>9, <1>10 DEF Next

LEMMA InitStatedInv == Init => StatedInv
<1> SUFFICES ASSUME Init PROVE StatedInv
  OBVIOUS
<1>1. FileInv /\ OrderInv
  BY InitFileInv, InitOrder
<1>2. WaitsForBoot => Generations
  BY InitKeepsThePromise
<1>3. faults["kill"] <= Faults["kill"]
  BY ValueFileAssumption DEF Init, FaultKinds
<1>4. Stated
  BY NamesAreApart DEF Init, Stated, Says, Mixed, None, Gone, At
<1> QED
  BY <1>1, <1>2, <1>3, <1>4 DEF StatedInv

LEMMA NextStatedInv == StatedInv /\ [Next]_vars => StatedInv'
<1> SUFFICES ASSUME StatedInv, [Next]_vars PROVE StatedInv'
  OBVIOUS
<1>1. FileInv' /\ Typed /\ Typed' /\ OrderInv'
  BY NextFileInv, NextKeepsOrder DEF StatedInv, FileInv
<1>2. faults'["kill"] <= Faults["kill"]
  BY <1>1, KillsAddUp DEF StatedInv
<1>3. Unspent("cut")' => Unspent("cut")
  BY <1>1, CutsAddUp
<1>4. ASSUME WaitsForBoot, Unspent("cut")' PROVE Generations' /\ Stated'
  BY <1>1, <1>3, <1>4, NextKeepsThePromise, NextStates DEF StatedInv, FileInv
<1> QED
  BY <1>1, <1>2, <1>4 DEF StatedInv

(* Until a cut: a temporary, what is moved into place and what a restore   *)
(* makes never have the mode of a record and another's owner, over any     *)
(* number of builds and kills; the file in place has between the two       *)
(* commands that say its record again, and after a kill between the two.   *)
THEOREM FilesAreNeverWider == Spec => []NeverWider
<1>1. StatedInv => NeverWider
  BY DEF StatedInv, FileInv, Uncut, Files, Stated, NeverWider
<1> QED
  BY <1>1, InitStatedInv, NextStatedInv, PTL DEF Spec

(* Where a run waits for the restore, an answer holds at the moment it is  *)
(* given: an older script can no longer change the bytes under the name it *)
(* had, it can only put them in place.  Until a cut there is none, and the *)
(* owner and the mode are those of the run's own build.                    *)
THEOREM AnswersHold ==
  ASSUME WaitsForBoot
  PROVE  Spec => []AnsweredHolds
<1>1. (OrderInv /\ run.step = "write" /\ Answered(run.slot)) =>
        (file["path"].bytes = "whole" /\ file["path"].of = run.of)
  BY DEF OrderInv, Roles, Phase, There, Whole, Answered, Running, At, Dest
<1>2. StatedInv => AnsweredHolds
  <2> SUFFICES ASSUME StatedInv, run.step = "write", Answered(run.slot), Unspent("cut")
               PROVE  file["path"].owner = run.record /\ file["path"].mode = run.record
    BY <1>1 DEF StatedInv, AnsweredHolds
  <2>1. /\ run.slot \in Slots \ {Boot} /\ At(run.slot, "said") /\ ~At(run.slot, "gone")
        /\ script[run.slot].kind = "write"
    BY DEF StatedInv, OrderInv, Typed, Roles, Running, Answered, At
  <2> QED
    BY <2>1 DEF StatedInv, Stated, Says
<1> QED
  BY <1>2, InitStatedInv, NextStatedInv, PTL DEF Spec
=============================================================================
