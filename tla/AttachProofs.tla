---------------------------- MODULE AttachProofs ----------------------------
(***************************************************************************)
(* What a script of Attach leaves behind, for every history of builds, in  *)
(* either scope and under every pattern of faults.                         *)
(***************************************************************************)
EXTENDS Attach, FiniteSetTheorems, TLAPS

USE DEF FaultKinds

Scripted == {"assemble", "place", "ask", "stop", "detach", "drop", "test", "attach",
             "start", "reload", "done"}

(* What the script knows of the attachment at each of its statements.      *)
AttachedAt ==
  /\ \A i, j \in attached : i = j
  /\ pc \in {"stop", "detach"} => attached = {held} /\ held # Image
  /\ pc \in {"drop", "test"} => attached \subseteq {Image}
  /\ pc = "attach" => attached = {}
  /\ pc \in {"start", "reload", "done"} => attached = {Image}

(* An account's image is in its pool from `placement` on, and what is      *)
(* attached has never left it.                                             *)
PooledAt ==
  UserScope => /\ attached \subseteq pool
               /\ pc \in {"ask", "stop", "detach", "drop", "test", "attach"} => Image \in pool

(* What a script that began on its own image, or on all of its artifact,   *)
(* still finds, and what it has not done.                                  *)
KeepsWhatItFound ==
  /\ found.matches => found.attached
  /\ (pc \in Scripted /\ found.attached) =>
       /\ attached = {Image} /\ "started" \notin touched
       /\ pc \notin {"stop", "detach", "attach", "start"}
  /\ (pc \in Scripted /\ found.matches) =>
       staged = Candidate /\ ~rewrote /\ touched = {}

(* A process that is behind without having been when the script began has  *)
(* a reload coming.                                                        *)
ReloadIsComing ==
  (pc \in Scripted /\ process # Down /\ process.file # staged /\ ~found.behind) =>
    rewrote /\ pc \in {"place", "ask", "stop", "detach", "drop", "test", "attach",
                       "start", "reload"}

-----------------------------------------------------------------------------
(* Types. *)

LEMMA VersionFacts ==
  ASSUME NEW b \in Builds
  PROVE  /\ Versions[b].image \in Images /\ Versions[b].image # 0
         /\ Versions[b].image \in Nat /\ Versions[b].text \in Nat
BY AttachAssumption DEF Images

LEMMA CandidateIsFile ==
  ASSUME TypeOK, value # 0
  PROVE  Candidate \in Files
BY AttachAssumption DEF TypeOK, Candidate, Files

LEMMA DownIsProcess ==
  NoFile \in Files /\ Down \in [image : {0} \cup Images, file : Files]
BY DEF Files, Down

LEMMA FoundIsRecord ==
  ASSUME NEW b \in Builds
  PROVE  Found(b) \in [attached : BOOLEAN, matches : BOOLEAN, behind : BOOLEAN]
BY DEF Found

LEMMA SpendIsNat ==
  ASSUME TypeOK, NEW kind \in FaultKinds, Spend(kind)
  PROVE  faults' \in [FaultKinds -> Nat]
BY DEF TypeOK, Spend

LEMMA InitTypeOK == Init => TypeOK
<1> SUFFICES ASSUME Init PROVE TypeOK
  OBVIOUS
<1>1. found \in [attached : BOOLEAN, matches : BOOLEAN, behind : BOOLEAN]
  BY FoundIsRecord, AttachAssumption DEF Init
<1>2. 1 \in Builds /\ Faults \in [FaultKinds -> Nat] /\ 1 \in 1 .. MaxBytes /\ 0 \in 0 .. MaxBytes
  BY AttachAssumption
<1> QED
  BY <1>1, <1>2, DownIsProcess DEF Init, TypeOK

LEMMA ScriptTypeOK == TypeOK /\ (Begin \/ Script) => TypeOK'
<1> SUFFICES ASSUME TypeOK, Begin \/ Script PROVE TypeOK'
  OBVIOUS
<1>1. target \in Builds /\ Image \in Images /\ Image # 0
  BY VersionFacts DEF TypeOK, Image
<1> USE DEF TypeOK, machine, world
<1>2. CASE Begin
  <2>1. found' \in [attached : BOOLEAN, matches : BOOLEAN, behind : BOOLEAN]
    BY <1>2, FoundIsRecord DEF Begin
  <2> QED
    BY <1>2, <2>1 DEF Begin
<1>3. CASE RefuseAbsent \/ Detach \/ DetachRefused \/ Test \/ Exit \/ Drop \/ Ask
  BY <1>3, <1>1 DEF RefuseAbsent, Detach, DetachRefused, Test, Exit, Drop, Ask
<1>4. CASE Assemble
  BY <1>4, CandidateIsFile DEF Assemble
<1>5. CASE Place \/ Attach
  BY <1>5, <1>1 DEF Place, Attach
<1>6. CASE Stop
  BY <1>6, DownIsProcess DEF Stop
<1>7. CASE Start
  <2>1. [image |-> Image, file |-> staged] \in [image : {0} \cup Images, file : Files]
    BY <1>1
  <2> QED
    BY <1>7, <2>1 DEF Start
<1>8. CASE Reload
  BY <1>8 DEF Reload
<1> QED
  BY <1>2, <1>3, <1>4, <1>5, <1>6, <1>7, <1>8 DEF Script

LEMMA NextTypeOK == TypeOK /\ [Next]_vars => TypeOK'
<1> SUFFICES ASSUME TypeOK, [Next]_vars PROVE TypeOK'
  OBVIOUS
<1>1. CASE Begin \/ Script
  BY <1>1, ScriptTypeOK
<1> USE DEF TypeOK, machine, script, world
<1>2. CASE Deliver
  <2>1. latest \in 0 .. MaxBytes
    BY AttachAssumption
  <2> QED
    BY <1>2, <2>1 DEF Deliver
<1>10. CASE Rotate
  <2>1. latest + 1 \in 1 .. MaxBytes
    BY <1>10, AttachAssumption DEF Rotate
  <2> QED
    BY <1>10, <2>1 DEF Rotate
<1>3. CASE Break
  BY <1>3, SpendIsNat DEF Break
<1>4. CASE Reboot
  BY <1>4, SpendIsNat, DownIsProcess, AttachAssumption DEF Reboot
<1>5. CASE StopByHand
  BY <1>5, SpendIsNat, DownIsProcess DEF StopByHand
<1>6. CASE StartByHand
  <2>1. PICK image \in attached : process' = [image |-> image, file |-> staged]
    BY <1>6 DEF StartByHand
  <2>2. process' \in [image : {0} \cup Images, file : Files]
    BY <2>1
  <2> QED
    BY <1>6, <2>2, SpendIsNat DEF StartByHand
<1>7. CASE Retire
  BY <1>7, SpendIsNat, DownIsProcess DEF Retire
<1>8. CASE Publish
  BY <1>8, SpendIsNat DEF Publish
<1>9. CASE UNCHANGED vars
  BY <1>9 DEF vars
<1> QED
  BY <1>1, <1>2, <1>3, <1>4, <1>5, <1>6, <1>7, <1>8, <1>9, <1>10 DEF Next

(* Type correctness of the script, its machine and the world around them.  *)
THEOREM TypeCorrect == Spec => []TypeOK
BY InitTypeOK, NextTypeOK, PTL DEF Spec
-----------------------------------------------------------------------------
(* What a script knows of the attachment and of the pool. *)

AttachedInv == TypeOK /\ AttachedAt /\ PooledAt

LEMMA InitAttachedInv == Init => AttachedInv
BY InitTypeOK DEF Init, AttachedInv, AttachedAt, PooledAt

(* The statements that change neither attachment nor pool and stay within  *)
(* what is known: the ones before `ask`, the ones after `attach`, and      *)
(* every end of a script.                                                  *)
LEMMA QuietAttachedInv ==
  ASSUME AttachedInv, TypeOK', UNCHANGED <<pool, attached, target, held>>,
         \/ pc' = pc
         \/ pc' = "idle"
         \/ pc' = "place"
         \/ pc' = "detach" /\ pc = "stop"
         \/ pc' = "reload" /\ pc = "start"
         \/ pc' = "done" /\ pc = "reload"
  PROVE  AttachedInv'
BY DEF AttachedInv, AttachedAt, PooledAt, Image

LEMMA ScriptAttachedInv == AttachedInv /\ Script => AttachedInv'
<1> SUFFICES ASSUME AttachedInv, Script PROVE AttachedInv'
  OBVIOUS
<1>1. TypeOK'
  BY ScriptTypeOK DEF AttachedInv
<1>2. target \in Builds /\ Image \in Images /\ Image # 0 /\ 0 \notin Images
  BY VersionFacts DEF AttachedInv, TypeOK, Image, Images
<1>3. CASE RefuseAbsent \/ DetachRefused \/ Exit \/ Assemble \/ Stop \/ Start \/ Reload
  <2>1. UNCHANGED <<pool, attached, target, held>>
    BY <1>3 DEF RefuseAbsent, DetachRefused, Exit, Assemble, Stop, Start, Reload, machine
  <2> QED
    BY <1>1, <1>3, <2>1, QuietAttachedInv
    DEF RefuseAbsent, DetachRefused, Exit, Assemble, Stop, Start, Reload
<1> USE DEF AttachedInv, AttachedAt, PooledAt, machine
<1>4. CASE Place
  BY <1>1, <1>4 DEF Place, Image
<1>5. CASE Ask
  <2>1. attached = {} => held' = 0 /\ pc' = "drop"
    BY <1>5 DEF Ask
  <2>2. attached # {} => attached = {held'} /\ held' \in Images
    BY <1>5 DEF Ask, TypeOK
  <2>3. /\ UNCHANGED <<pool, attached, target>> /\ pc = "ask"
        /\ pc' = IF held' \in {0, Image} THEN "drop" ELSE "stop"
    BY <1>5 DEF Ask
  <2> QED
    BY <1>1, <1>2, <2>1, <2>2, <2>3 DEF Image
<1>6. CASE Detach
  BY <1>1, <1>6 DEF Detach, Image
<1>7. CASE Drop
  BY <1>1, <1>7 DEF Drop, Image
<1>8. CASE Test
  BY <1>1, <1>8 DEF Test, Image
<1>9. CASE Attach
  BY <1>1, <1>9 DEF Attach, Image
<1> QED
  BY <1>3, <1>4, <1>5, <1>6, <1>7, <1>8, <1>9 DEF Script

LEMMA NextAttachedInv == AttachedInv /\ [Next]_vars => AttachedInv'
<1> SUFFICES ASSUME AttachedInv, [Next]_vars PROVE AttachedInv'
  OBVIOUS
<1>1. TypeOK'
  BY NextTypeOK DEF AttachedInv
<1>2. CASE Script
  BY <1>2, ScriptAttachedInv
<1>3. CASE Begin
  BY <1>1, <1>3 DEF Begin, AttachedInv, AttachedAt, PooledAt, machine
<1>4. CASE Retire
  BY <1>1, <1>4 DEF Retire, AttachedInv, AttachedAt, PooledAt, script
<1>5. CASE \/ Deliver \/ Break \/ Reboot \/ StopByHand \/ StartByHand \/ Rotate \/ Publish
           \/ UNCHANGED vars
  <2>1. UNCHANGED <<pool, attached, target, held>> /\ (pc' = pc \/ pc' = "idle")
    BY <1>5 DEF Deliver, Break, Reboot, StopByHand, StartByHand, Rotate, Publish, vars,
                machine, script
  <2> QED
    BY <1>1, <2>1, QuietAttachedInv
<1> QED
  BY <1>2, <1>3, <1>4, <1>5 DEF Next

(* Wherever the scripts before were cut off, at most one image is attached *)
(* for the entry, and none when a script asks for its own.                 *)
THEOREM OneAtATime == Spec => []OneImage
<1>1. AttachedInv => OneImage
  <2> SUFFICES ASSUME AttachedInv PROVE OneImage
    OBVIOUS
  <2>1. CASE attached = {}
    BY <2>1, FS_EmptySet DEF OneImage
  <2>2. CASE attached # {}
    <3>1. PICK image \in attached : attached = {image}
      BY <2>2 DEF AttachedInv, AttachedAt
    <3>2. Cardinality(attached) = 1
      BY <3>1, FS_Singleton
    <3> QED
      BY <3>2 DEF OneImage, AttachedInv, AttachedAt
  <2> QED
    BY <2>1, <2>2
<1> QED
  BY InitAttachedInv, NextAttachedInv, <1>1, PTL DEF Spec

(* An account's pool never loses the image that is attached.               *)
THEOREM PoolKeepsAttached == Spec => []AttachedIsPlaced
<1>1. AttachedInv => AttachedIsPlaced
  BY DEF AttachedInv, PooledAt, AttachedIsPlaced
<1> QED
  BY InitAttachedInv, NextAttachedInv, <1>1, PTL DEF Spec
-----------------------------------------------------------------------------
(* What a script has not done to a machine it had nothing to do on.        *)

KeepsInv == AttachedInv /\ KeepsWhatItFound

LEMMA InitKeepsInv == Init => KeepsInv
BY InitAttachedInv DEF Init, KeepsInv, KeepsWhatItFound, Found, Scripted

(* A step that changes nothing of this, or ends the script.                *)
LEMMA QuietKeepsInv ==
  ASSUME KeepsInv, AttachedInv',
         \/ UNCHANGED <<attached, staged, value, pc, target, rewrote, found, touched>>
         \/ UNCHANGED found /\ pc' = "idle"
         \/ UNCHANGED <<found, target>> /\ pc = "idle" /\ pc' = pc
  PROVE  KeepsInv'
BY DEF KeepsInv, KeepsWhatItFound, Scripted, Image, Candidate

LEMMA ScriptKeepsInv == KeepsInv /\ Script => KeepsInv'
<1> SUFFICES ASSUME KeepsInv, Script PROVE KeepsInv'
  OBVIOUS
<1>1. AttachedInv'
  BY ScriptAttachedInv DEF KeepsInv
<1>2. TypeOK /\ AttachedAt /\ 0 \notin Images /\ Image \in Images
  BY VersionFacts, AttachAssumption DEF KeepsInv, AttachedInv, TypeOK, Image, Images
<1>3. CASE RefuseAbsent \/ DetachRefused \/ Exit
  BY <1>1, <1>3, QuietKeepsInv DEF RefuseAbsent, DetachRefused, Exit
<1> USE DEF KeepsInv, KeepsWhatItFound, Scripted, machine
<1>4. CASE Assemble
  <2>1. /\ UNCHANGED <<attached, value, target, found, touched>>
        /\ pc = "assemble" /\ pc' = "place"
        /\ staged' = Candidate /\ (staged = Candidate => ~rewrote')
    BY <1>4 DEF Assemble
  <2>2. Image' = Image /\ Candidate' = Candidate
    BY <2>1 DEF Image, Candidate
  <2> QED
    BY <1>1, <2>1, <2>2
<1>9. CASE Place
  BY <1>1, <1>9 DEF Place, Image, Candidate
<1>5. CASE Ask
  <2>1. found.attached => held' = Image /\ pc' = "drop"
    BY <1>5 DEF Ask
  <2> QED
    BY <1>1, <1>5, <2>1 DEF Ask, Image, Candidate
<1>6. CASE Stop \/ Detach \/ Attach \/ Start
  <2>1. ~found.attached /\ ~found.matches /\ UNCHANGED found
    BY <1>6 DEF Stop, Detach, Attach, Start
  <2> QED
    BY <1>1, <2>1
<1>7. CASE Drop \/ Test
  BY <1>1, <1>7 DEF Drop, Test, Image, Candidate
<1>8. CASE Reload
  <2>1. /\ UNCHANGED <<attached, staged, value, target, rewrote, found>> /\ pc' = "done"
        /\ touched' \subseteq touched \cup {"reloaded"}
        /\ ~rewrote => touched' = touched
    BY <1>8 DEF Reload
  <2> QED
    BY <1>1, <1>8, <2>1 DEF Reload, Image, Candidate
<1> QED
  BY <1>3, <1>4, <1>5, <1>6, <1>7, <1>8, <1>9 DEF Script

LEMMA NextKeepsInv == KeepsInv /\ [Next]_vars => KeepsInv'
<1> SUFFICES ASSUME KeepsInv, [Next]_vars PROVE KeepsInv'
  OBVIOUS
<1>1. AttachedInv'
  BY NextAttachedInv DEF KeepsInv
<1>2. CASE Script
  BY <1>2, ScriptKeepsInv
<1>3. CASE Begin
  <2>1. /\ UNCHANGED <<attached, staged, value>> /\ pc' = "assemble" /\ target' = build
        /\ rewrote' = FALSE /\ touched' = {} /\ found' = Found(build)
    BY <1>3 DEF Begin, machine
  <2>2. /\ found'.matches => found'.attached /\ staged = Candidate'
        /\ found'.attached => attached = {Image'}
    BY <2>1 DEF Found, Image, Candidate
  <2> QED
    BY <1>1, <2>1, <2>2 DEF KeepsInv, KeepsWhatItFound
<1>4. CASE \/ Deliver \/ Retire \/ Break \/ Reboot \/ StopByHand \/ StartByHand
           \/ Rotate \/ Publish \/ UNCHANGED vars
  BY <1>1, <1>4, QuietKeepsInv
  DEF Deliver, Retire, Break, Reboot, StopByHand, StartByHand, Rotate, Publish, vars,
      machine, script
<1> QED
  BY <1>2, <1>3, <1>4 DEF Next

(* Over an image that is attached, no script starts the unit an operator   *)
(* stopped, whoever stops and starts it meanwhile.                         *)
THEOREM StoppedIsLeft == Spec => []StoppedStaysStopped
<1>1. KeepsInv => StoppedStaysStopped
  BY DEF KeepsInv, KeepsWhatItFound, StoppedStaysStopped, Scripted
<1> QED
  BY InitKeepsInv, NextKeepsInv, <1>1, PTL DEF Spec

(* A script that began on a machine matching its artifact does nothing to  *)
(* the process.                                                            *)
THEOREM MatchingIsLeft == Spec => []LeavesWhatMatches
<1>1. KeepsInv => LeavesWhatMatches
  BY DEF KeepsInv, KeepsWhatItFound, LeavesWhatMatches, Scripted
<1> QED
  BY InitKeepsInv, NextKeepsInv, <1>1, PTL DEF Spec

-----------------------------------------------------------------------------
(* What a process has read when its script ends.                           *)

ReloadInv == TypeOK /\ ReloadIsComing

LEMMA InitReloadInv == Init => ReloadInv
BY InitTypeOK DEF Init, ReloadInv, ReloadIsComing, Scripted

LEMMA NextReloadInv == ReloadInv /\ [Next]_vars => ReloadInv'
<1> SUFFICES ASSUME ReloadInv, [Next]_vars PROVE ReloadInv'
  OBVIOUS
<1>1. TypeOK'
  BY NextTypeOK DEF ReloadInv
<1> USE DEF ReloadInv, ReloadIsComing, Scripted, machine, script
<1>2. CASE Begin
  <2>1. /\ UNCHANGED <<staged, process>> /\ found' = Found(build)
    BY <1>2 DEF Begin
  <2>2. found'.behind = (process # Down /\ process.file # staged)
    BY <2>1 DEF Found
  <2> QED
    BY <1>1, <2>1, <2>2
<1>3. CASE Assemble
  BY <1>1, <1>3 DEF Assemble
<1>4. CASE Place \/ Ask \/ Detach \/ Drop \/ Test \/ Attach
  BY <1>1, <1>4 DEF Place, Ask, Detach, Drop, Test, Attach
<1>5. CASE Stop \/ StopByHand
  BY <1>1, <1>5 DEF Stop, StopByHand
<1>6. CASE Start
  BY <1>1, <1>6 DEF Start
<1>7. CASE Reload
  <2>1. (process' # Down /\ process'.file # staged') => (~rewrote /\ process' = process)
    BY <1>7 DEF Reload, TypeOK
  <2> QED
    BY <1>1, <1>7, <2>1 DEF Reload
<1>8. CASE RefuseAbsent \/ DetachRefused \/ Exit \/ Break \/ Reboot
  BY <1>1, <1>8 DEF RefuseAbsent, DetachRefused, Exit, Break, Reboot
<1>9. CASE StartByHand
  BY <1>1, <1>9 DEF StartByHand
<1>10. CASE Deliver \/ Retire \/ Rotate \/ Publish \/ UNCHANGED vars
  BY <1>1, <1>10 DEF Deliver, Retire, Rotate, Publish, vars
<1> QED
  BY <1>2, <1>3, <1>4, <1>5, <1>6, <1>7, <1>8, <1>9, <1>10 DEF Next, Script

(* A running process has read the file that is there when a script ends,   *)
(* unless it had already not when the script began.                        *)
THEOREM ReloadsReach == Spec => []ReadsWhatIsThere
<1>1. ReloadInv => ReadsWhatIsThere
  BY DEF ReloadInv, ReloadIsComing, ReadsWhatIsThere, Scripted
<1> QED
  BY InitReloadInv, NextReloadInv, <1>1, PTL DEF Spec

-----------------------------------------------------------------------------
(* What is in an account's pool as long as no script was cut off, nothing  *)
(* was retired and nobody started the unit.                                *)

Unharmed == \A kind \in {"break", "reboot", "start", "retire"} : faults[kind] = Faults[kind]
Spent == \A kind \in {"break", "reboot", "start", "retire"} : faults[kind] <= Faults[kind]

(* Between two scripts the pool is what is attached; a script adds its own *)
(* image and takes away the one it held.  It gets there, for what it       *)
(* stopped stays down until it is detached.                                *)
SweptAt ==
  /\ pc \in {"idle", "assemble", "place"} => pool = attached
  /\ pc = "ask" => pool = attached \cup {Image}
  /\ pc \in {"stop", "detach", "drop"} => pool \subseteq {held, Image} /\ Image \in pool
  /\ pc \in {"test", "attach", "start", "reload", "done"} => pool = {Image}
  /\ pc = "detach" => process = Down

SweptInv == AttachedInv /\ Spent /\ ((UserScope /\ Unharmed) => SweptAt)

LEMMA InitSweptInv == Init => SweptInv
<1> SUFFICES ASSUME Init PROVE SweptInv
  OBVIOUS
<1>1. Spent
  BY AttachAssumption DEF Init, Spent
<1> QED
  BY <1>1, InitAttachedInv DEF Init, SweptInv, SweptAt

LEMMA SpendingAddsUp ==
  ASSUME TypeOK, Spent, [Next]_vars
  PROVE  /\ Spent'
         /\ Unharmed' => Unharmed /\ ~Break /\ ~Reboot /\ ~StartByHand /\ ~Retire
<1>1. ASSUME NEW kind \in FaultKinds, Spend(kind)
      PROVE  /\ faults'[kind] < faults[kind]
             /\ \A other \in FaultKinds \ {kind} : faults'[other] = faults[other]
  BY <1>1 DEF TypeOK, Spend
<1>2. (\E kind \in FaultKinds : Spend(kind)) \/ UNCHANGED faults
  BY DEF Next, Begin, Script, Assemble, RefuseAbsent, Place, Ask, Stop, Detach, DetachRefused,
         Drop, Test, Attach, Start, Reload, Exit, Deliver, Break, Reboot, StopByHand,
         StartByHand, Retire, Rotate, Publish, vars, world
<1>3. \A kind \in FaultKinds : /\ faults[kind] \in Nat /\ Faults[kind] \in Nat
                               /\ faults'[kind] \in Nat /\ faults'[kind] <= faults[kind]
  BY <1>1, <1>2, AttachAssumption, NextTypeOK DEF TypeOK
<1>4. Spent' /\ (Unharmed' => Unharmed)
  BY <1>3 DEF Spent, Unharmed
<1>5. ASSUME NEW kind \in {"break", "reboot", "start", "retire"}, Spend(kind) PROVE ~Unharmed'
  <2>1. faults'[kind] < faults[kind] /\ faults[kind] <= Faults[kind] /\ kind \in FaultKinds
    BY <1>1, <1>5 DEF Spent
  <2>2. faults'[kind] # Faults[kind]
    BY <1>3, <2>1
  <2> QED
    BY <1>5, <2>2 DEF Unharmed
<1> QED
  BY <1>4, <1>5 DEF Break, Reboot, StartByHand, Retire

LEMMA ScriptSwept ==
  ASSUME AttachedInv, UserScope, SweptAt, Script
  PROVE  SweptAt'
<1>1. TypeOK /\ AttachedAt /\ 0 \notin Images /\ pool \subseteq Images /\ attached \subseteq Images
  BY VersionFacts DEF AttachedInv, TypeOK, Images
<1> USE DEF SweptAt, machine
<1>2. CASE Assemble \/ RefuseAbsent
  BY <1>2 DEF Assemble, RefuseAbsent, Image
<1>3. CASE Place
  BY <1>3 DEF Place, Image
<1>4. CASE Ask
  <2>1. /\ pool = attached \cup {Image} /\ UNCHANGED <<pool, attached, target, process>>
        /\ pc' \in {"drop", "stop"}
    BY <1>4 DEF Ask
  <2>2. attached \subseteq {held'}
    BY <1>1, <1>4 DEF Ask, AttachedAt
  <2> QED
    BY <2>1, <2>2 DEF Image
<1>5. CASE Stop
  BY <1>5 DEF Stop, Image
<1>6. CASE Detach
  BY <1>6 DEF Detach, Image
<1>7. ~DetachRefused
  BY DEF DetachRefused
<1>8. CASE Drop
  BY <1>8 DEF Drop, Image
<1>9. CASE Test \/ Attach \/ Start \/ Reload
  BY <1>9 DEF Test, Attach, Start, Reload, Image
<1>10. CASE Exit
  BY <1>1, <1>10 DEF Exit, AttachedAt
<1> QED
  BY <1>2, <1>3, <1>4, <1>5, <1>6, <1>7, <1>8, <1>9, <1>10 DEF Script

LEMMA NextSweptInv == SweptInv /\ [Next]_vars => SweptInv'
<1> SUFFICES ASSUME SweptInv, [Next]_vars PROVE SweptInv'
  OBVIOUS
<1>1. AttachedInv' /\ TypeOK
  BY NextAttachedInv DEF SweptInv, AttachedInv
<1>2. /\ Spent'
      /\ Unharmed' => Unharmed /\ ~Break /\ ~Reboot /\ ~StartByHand /\ ~Retire
  BY <1>1, SpendingAddsUp DEF SweptInv
<1>3. ASSUME UserScope, Unharmed' PROVE SweptAt'
  <2>1. AttachedInv /\ SweptAt /\ ~Break /\ ~Reboot /\ ~StartByHand /\ ~Retire
    BY <1>2, <1>3 DEF SweptInv
  <2>2. CASE Script
    BY <1>3, <2>1, <2>2, ScriptSwept
  <2>3. CASE Begin
    BY <2>1, <2>3 DEF Begin, SweptAt, machine
  <2>4. CASE StopByHand
    BY <2>1, <2>4 DEF StopByHand, SweptAt, script, Image
  <2>5. CASE Deliver \/ Rotate \/ Publish \/ UNCHANGED vars
    <3>1. UNCHANGED <<pool, attached, process, pc, target, held>>
      BY <2>5 DEF Deliver, Rotate, Publish, vars, machine, script
    <3> QED
      BY <2>1, <3>1 DEF SweptAt, Image
  <2> QED
    BY <2>1, <2>2, <2>3, <2>4, <2>5 DEF Next
<1> QED
  BY <1>1, <1>2, <1>3 DEF SweptInv

(* Scripts that reach their end leave no replaced copy in an account's     *)
(* pool, over any history of builds.                                       *)
THEOREM PoolIsLeftSwept == Spec => []PoolIsSwept
<1>1. SweptInv => PoolIsSwept
  BY DEF SweptInv, SweptAt, PoolIsSwept, Unharmed
<1> QED
  BY InitSweptInv, NextSweptInv, <1>1, PTL DEF Spec
=============================================================================
