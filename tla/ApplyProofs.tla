---------------------------- MODULE ApplyProofs ----------------------------
(***************************************************************************)
(* What `apply` promises, for every fleet, every deployment and every      *)
(* pattern of faults: its types, what an interrupted run leaves on a       *)
(* machine, what the order of its loops is for, and that what a completed  *)
(* run wrote has reached the processes that read it.                       *)
(***************************************************************************)
EXTENDS Apply, TLAPS

USE DEF FaultKinds

Runs == [build : Builds, bytes : [Values -> Bytes], keys : SUBSET Entries,
         wanted : SUBSET Values, retire : BOOLEAN, behind : SUBSET Entries]

LEMMA BytesAreNat == Bytes \subseteq Nat /\ 0 \in Bytes /\ 1 .. MaxBytes \subseteq Bytes
BY FleetAssumption DEF Bytes

LEMMA NothingIsBytes == Nothing \in [Values -> Bytes]
BY BytesAreNat DEF Nothing

LEMMA OpeningIsBytes ==
  ASSUME NEW e \in Entries, NEW files \in [Values -> Bytes]
  PROVE  Opening(e, files) \in [Values -> Bytes]
BY BytesAreNat DEF Opening

LEMMA RestoredIsBytes ==
  ASSUME FleetTypeOK, NEW m \in Machines
  PROVE  Restored(m) \in [Values -> Bytes]
BY NothingIsBytes DEF Restored, FleetTypeOK

LEMMA ArtifactIsNat ==
  ASSUME TypeOK, NEW e \in Entries
  PROVE  Artifact[run.build][e] \in Nat
<1>1. run.build \in Builds
  BY DEF TypeOK
<1>2. Artifact[run.build] \in [Entries -> Nat]
  BY <1>1, FleetAssumption
<1> QED
  BY <1>2

LEMMA NoRunIsRun == NoRun \in Runs
BY NothingIsBytes, FleetAssumption DEF NoRun, Runs

-----------------------------------------------------------------------------
(* Types. *)

LEMMA InitTypeOK == Init => TypeOK
<1> SUFFICES ASSUME Init PROVE TypeOK
  OBVIOUS
<1>1. FleetTypeOK
  <2>1. latest \in [Values -> 1 .. MaxBytes]
    BY FleetAssumption DEF Init, FleetInit
  <2>2. /\ plain \in [Machines -> [Values -> Bytes]]
        /\ sealed \in [Machines -> [Values -> Bytes]]
        /\ opened \in [Entries -> [Values -> Bytes]]
    BY NothingIsBytes DEF Init, FleetInit
  <2> QED
    BY <2>1, <2>2, FleetAssumption DEF Init, FleetInit, FleetTypeOK
<1>2. run \in Runs
  BY NoRunIsRun DEF Init
<1> QED
  BY <1>1, <1>2 DEF Init, TypeOK, Runs

LEMMA ForgetTypes ==
  ASSUME Forget, FleetTypeOK'
  PROVE  TypeOK'
<1>1. run' \in Runs
  BY NoRunIsRun DEF Forget
<1> QED
  BY <1>1 DEF Forget, TypeOK, Runs

LEMMA StartedTypes ==
  ASSUME FleetTypeOK, NEW e \in Entries, Started(e)
  PROVE  running' \subseteq Entries /\ opened' \in [Entries -> [Values -> Bytes]]
<1>1. On[e] \in Machines /\ plain[On[e]] \in [Values -> Bytes]
  BY FleetAssumption DEF FleetTypeOK
<1>2. Opening(e, plain[On[e]]) \in [Values -> Bytes] /\ Nothing \in [Values -> Bytes]
  BY <1>1, OpeningIsBytes, NothingIsBytes
<1> QED
  BY <1>2 DEF Started, FleetTypeOK

LEMMA WorldTypes ==
  ASSUME TypeOK, World, UNCHANGED operator
  PROVE  TypeOK'
<1> USE DEF TypeOK, FleetTypeOK, operator, machines
<1>1. ASSUME NEW v \in Values, Rotate(v) PROVE TypeOK'
  <2>1. latest' \in [Values -> 1 .. MaxBytes]
    BY <1>1, FleetAssumption DEF Rotate
  <2> QED
    BY <1>1, <2>1 DEF Rotate
<1>2. CASE Publish
  BY <1>2 DEF Publish
<1>3. ASSUME NEW m \in Machines, Repair(m) \/ Cut(m) \/ Mend(m) PROVE TypeOK'
  BY <1>3 DEF Repair, Cut, Mend, Spend
<1>4. ASSUME NEW e \in Entries, Stop(e) PROVE TypeOK'
  BY <1>4, NothingIsBytes DEF Stop, Spend
<1>5. ASSUME NEW e \in Entries, StartByHand(e) PROVE TypeOK'
  <2>1. On[e] \in Machines /\ plain[On[e]] \in [Values -> Bytes]
    BY FleetAssumption
  <2>2. Opening(e, plain[On[e]]) \in [Values -> Bytes]
    BY <2>1, OpeningIsBytes
  <2> QED
    BY <1>5, <2>2 DEF StartByHand
<1> QED
  BY <1>1, <1>2, <1>3, <1>4, <1>5 DEF World

LEMMA RebootTypes ==
  ASSUME TypeOK, NEW m \in Machines, RebootNow(m)
  PROVE  TypeOK'
<1>1. Restored(m) \in [Values -> Bytes]
  BY RestoredIsBytes DEF TypeOK
<1>2. plain' \in [Machines -> [Values -> Bytes]]
  BY <1>1 DEF RebootNow, Reboot, TypeOK, FleetTypeOK
<1>3. opened' \in [Entries -> [Values -> Bytes]]
  <2>1. \A e \in Entries : Opening(e, Restored(m)) \in [Values -> Bytes]
    BY <1>1, OpeningIsBytes
  <2> QED
    BY <2>1, NothingIsBytes DEF RebootNow, Reboot, TypeOK, FleetTypeOK
<1>4. running' \subseteq Entries
  BY DEF RebootNow, Reboot, BackUp, Here, TypeOK, FleetTypeOK
<1> QED
  BY <1>2, <1>3, <1>4 DEF RebootNow, Reboot, Spend, TypeOK, FleetTypeOK

LEMMA BeginTypes ==
  ASSUME TypeOK, NEW keys \in SUBSET Entries, NEW wanted \in SUBSET Values,
         NEW retire \in BOOLEAN, Begin(keys, wanted, retire)
  PROVE  TypeOK'
<1>1. latest \in [Values -> Bytes]
  BY BytesAreNat DEF TypeOK, FleetTypeOK
<1>2. run' \in Runs
  <2>1. Behind \in SUBSET Entries
    BY DEF Behind, TypeOK, FleetTypeOK
  <2>2. build \in Builds
    BY DEF TypeOK, FleetTypeOK
  <2> QED
    BY <1>1, <2>1, <2>2 DEF Begin, Runs
<1>3. UNCHANGED <<up, fit, plain, sealed, unsealer, held, running, opened, latest, build, faults>>
  BY DEF Begin, fleet, machines
<1>4. FleetTypeOK'
  BY <1>3 DEF TypeOK, FleetTypeOK
<1> QED
  BY <1>2, <1>4 DEF Begin, TypeOK, Runs, After

LEMMA StepTypes ==
  ASSUME TypeOK, Step
  PROVE  TypeOK'
<1> USE DEF fleet, machines
<1>1. ASSUME NEW m \in Machines, Ask(m) \/ Preflight(m) \/ Unseal(m) PROVE TypeOK'
  BY <1>1 DEF Ask, Preflight, Unseal, Here, TypeOK, FleetTypeOK
<1>2. ASSUME NEW e \in Entries, Retire(e) PROVE TypeOK'
  BY <1>2, NothingIsBytes DEF Retire, TypeOK, FleetTypeOK
<1>3. ASSUME NEW e \in Entries, Activate(e) PROVE TypeOK'
  <2>1. Artifact[run.build][e] \in Nat
    BY ArtifactIsNat
  <2>2. running' \subseteq Entries /\ opened' \in [Entries -> [Values -> Bytes]]
    BY <1>3, StartedTypes DEF Activate, TypeOK, FleetTypeOK
  <2>3. held' \in [Entries -> Nat]
    BY <1>3, <2>1 DEF Activate, TypeOK, FleetTypeOK
  <2> QED
    BY <1>3, <2>2, <2>3 DEF Activate, TypeOK, FleetTypeOK
<1>4. ASSUME NEW v \in Values, NEW m \in Machines, Seal(v, m) PROVE TypeOK'
  <2>1. run.bytes[v] \in Bytes
    BY DEF TypeOK
  <2>2. sealed' \in [Machines -> [Values -> Bytes]]
    BY <1>4, <2>1 DEF Seal, TypeOK, FleetTypeOK
  <2> QED
    BY <1>4, <2>2 DEF Seal, TypeOK, FleetTypeOK
<1>5. ASSUME NEW v \in Values, NEW m \in Machines, Write(v, m) PROVE TypeOK'
  <2>1. run.bytes[v] \in Bytes
    BY DEF TypeOK
  <2>2. plain' \in [Machines -> [Values -> Bytes]]
    BY <1>5, <2>1 DEF Write, TypeOK, FleetTypeOK
  <2>3. moved' \subseteq Values \X Machines
    BY <1>5 DEF Write, TypeOK
  <2> QED
    BY <1>5, <2>2, <2>3 DEF Write, TypeOK, FleetTypeOK
<1>6. ASSUME NEW v \in Values, NEW e \in Entries, Restart(v, e) PROVE TypeOK'
  <2>1. running' \subseteq Entries /\ opened' \in [Entries -> [Values -> Bytes]]
    BY <1>6, StartedTypes DEF Restart, TypeOK, FleetTypeOK
  <2> QED
    BY <1>6, <2>1 DEF Restart, TypeOK, FleetTypeOK
<1>7. CASE Loop
  BY <1>7 DEF Loop, Looping, After, TypeOK, FleetTypeOK
<1>8. CASE Return \/ RefuseUnfit \/ Unreachable
  <2>1. FleetTypeOK'
    BY <1>8 DEF Return, RefuseUnfit, Unreachable, TypeOK, FleetTypeOK
  <2> QED
    BY <1>8, <2>1, ForgetTypes DEF Return, RefuseUnfit, Unreachable
<1> QED
  BY <1>1, <1>2, <1>3, <1>4, <1>5, <1>6, <1>7, <1>8 DEF Step

LEMMA BreakTypes ==
  ASSUME TypeOK, Break \/ \E e \in Entries : BreakAttach(e)
  PROVE  TypeOK'
<1>1. CASE Break
  <2>1. FleetTypeOK'
    BY <1>1 DEF Break, Spend, machines, TypeOK, FleetTypeOK
  <2> QED
    BY <1>1, <2>1, ForgetTypes DEF Break
<1>2. ASSUME NEW e \in Entries, BreakAttach(e) PROVE TypeOK'
  <2>1. Artifact[run.build][e] \in Nat
    BY ArtifactIsNat
  <2>2. held' \in [Entries -> Nat]
    BY <1>2, <2>1 DEF BreakAttach, TypeOK, FleetTypeOK
  <2>3. FleetTypeOK'
    BY <1>2, <2>2, NothingIsBytes DEF BreakAttach, Spend, TypeOK, FleetTypeOK
  <2> QED
    BY <1>2, <2>3, ForgetTypes DEF BreakAttach
<1> QED
  BY <1>1, <1>2

(* The runs an operator begins: all of the build, or some keys of it. *)
LEMMA BeginsAreRuns ==
  ASSUME TypeOK, \E retire \in BOOLEAN : BeginWhole(retire) \/ BeginOnly(retire)
  PROVE  \E keys \in SUBSET Entries, wanted \in SUBSET Values, retire \in BOOLEAN :
           Begin(keys, wanted, retire)
<1>1. PICK retire \in BOOLEAN : BeginWhole(retire) \/ BeginOnly(retire)
  OBVIOUS
<1>2. Named(build) \in SUBSET Entries
  BY DEF Named
<1>3. CASE BeginWhole(retire)
  BY <1>2, <1>3 DEF BeginWhole
<1>4. CASE BeginOnly(retire)
  BY <1>2, <1>4 DEF BeginOnly
<1> QED
  BY <1>1, <1>3, <1>4

LEMMA NextTypeOK == TypeOK /\ [Next]_vars => TypeOK'
<1> SUFFICES ASSUME TypeOK, [Next]_vars PROVE TypeOK'
  OBVIOUS
<1>1. CASE \E retire \in BOOLEAN : BeginWhole(retire) \/ BeginOnly(retire)
  BY <1>1, BeginsAreRuns, BeginTypes
<1>2. CASE Step
  BY <1>2, StepTypes
<1>3. CASE Break \/ \E e \in Entries : BreakAttach(e)
  BY <1>3, BreakTypes
<1>4. CASE \E m \in Machines : RebootNow(m)
  BY <1>4, RebootTypes
<1>5. CASE World /\ UNCHANGED operator
  BY <1>5, WorldTypes
<1>6. CASE UNCHANGED vars
  BY <1>6 DEF vars, fleet, machines, operator, TypeOK, FleetTypeOK
<1> QED
  BY <1>1, <1>2, <1>3, <1>4, <1>5, <1>6 DEF Next, Unrestricted

(* Every state of the fleet and of a run has its type. *)
THEOREM TypeCorrect == Spec => []TypeOK
BY InitTypeOK, NextTypeOK, PTL DEF Spec

-----------------------------------------------------------------------------
(* Why a copy is never behind its plaintext.  A run's bytes are the newest *)
(* the operator had, so nothing on any machine is newer; and between the   *)
(* two halves of a write the copy already holds them.                      *)

Newest ==
  \A m \in Machines : \A v \in Values :
    /\ plain[m][v] <= latest[v] /\ sealed[m][v] <= latest[v]
    /\ phase # "idle" => /\ plain[m][v] <= run.bytes[v]
                         /\ sealed[m][v] <= run.bytes[v]
                         /\ run.bytes[v] <= latest[v]

IsNext(item) == item \in todo /\ \A other \in todo \ {item} : Earlier(item, other)

HalfWritten ==
  half => /\ phase = "write"
          /\ \E v \in Values, m \in Sealing :
               IsNext(<<v, m>>) /\ sealed[m][v] = run.bytes[v]

WritesArePlanned == phase = "write" => todo \subseteq Values \X Machines

SealInv ==
  /\ TypeOK
  /\ Newest
  /\ HalfWritten
  /\ WritesArePlanned
  /\ SealedNotOlder

LEMMA StateIsNat ==
  ASSUME TypeOK, NEW m \in Machines, NEW v \in Values
  PROVE  /\ plain[m][v] \in Nat /\ sealed[m][v] \in Nat
         /\ latest[v] \in Nat /\ run.bytes[v] \in Nat
<1>1. plain[m] \in [Values -> Bytes] /\ sealed[m] \in [Values -> Bytes]
  BY DEF TypeOK, FleetTypeOK
<1>2. run.bytes \in [Values -> Bytes]
  BY DEF TypeOK
<1>3. latest[v] \in Nat
  BY DEF TypeOK, FleetTypeOK
<1> QED
  BY <1>1, <1>2, <1>3, BytesAreNat

LEMMA NextIsOne ==
  ASSUME phase = "write", NEW a \in Values \X Machines, NEW b \in Values \X Machines,
         IsNext(a), IsNext(b)
  PROVE  a = b
<1> SUFFICES ASSUME a # b PROVE FALSE
  OBVIOUS
<1>1. Lexicographic(a, b) /\ Lexicographic(b, a)
  BY DEF IsNext, Earlier
<1>2. a[1] \in Nat /\ a[2] \in Nat /\ b[1] \in Nat /\ b[2] \in Nat
  BY FleetAssumption
<1> QED
  BY <1>1, <1>2 DEF Lexicographic

LEMMA InitSealInv == Init => SealInv
<1> SUFFICES ASSUME Init PROVE SealInv
  OBVIOUS
<1>1. TypeOK
  BY InitTypeOK
<1>2. \A m \in Machines : \A v \in Values : plain[m][v] = 0 /\ sealed[m][v] = 0 /\ latest[v] = 1
  BY DEF Init, FleetInit, Nothing
<1>3. Sealing \subseteq Machines
  BY FleetAssumption
<1> QED
  BY <1>1, <1>2, <1>3 DEF Init, SealInv, Newest, HalfWritten, WritesArePlanned, SealedNotOlder

(* A write under way stays under way while its loop and its copy stand.    *)
LEMMA HalfStays ==
  ASSUME HalfWritten, half, UNCHANGED <<sealed, phase, todo, run, half>>
  PROVE  HalfWritten'
<1>1. \A item : IsNext(item) => IsNext(item)'
  BY DEF IsNext, Earlier, Lexicographic
<1> QED
  BY <1>1 DEF HalfWritten

(* The steps that leave plaintexts and copies alone, and do not move a     *)
(* write that is under way.                                                *)
LEMMA QuietSealInv ==
  ASSUME SealInv, TypeOK', UNCHANGED <<plain, sealed, half, run>>,
         \A v \in Values : latest[v] <= latest'[v],
         phase = "idle" <=> phase' = "idle",
         half => UNCHANGED <<phase, todo>>,
         WritesArePlanned'
  PROVE  SealInv'
<1>1. Newest'
  <2> SUFFICES ASSUME NEW m \in Machines, NEW v \in Values
               PROVE  /\ plain[m][v] <= latest'[v] /\ sealed[m][v] <= latest'[v]
                      /\ phase' # "idle" => /\ plain[m][v] <= run.bytes[v]
                                            /\ sealed[m][v] <= run.bytes[v]
                                            /\ run.bytes[v] <= latest'[v]
    BY DEF Newest
  <2>1. latest[v] \in Nat /\ latest'[v] \in Nat /\ latest[v] <= latest'[v]
    BY DEF SealInv, TypeOK, FleetTypeOK
  <2>2. plain[m][v] \in Nat /\ sealed[m][v] \in Nat /\ run.bytes[v] \in Nat
    BY StateIsNat DEF SealInv
  <2> QED
    BY <2>1, <2>2 DEF SealInv, Newest
<1>2. HalfWritten'
  <2>1. CASE half
    BY <2>1, HalfStays DEF SealInv
  <2>2. CASE ~half
    BY <2>2 DEF HalfWritten
  <2> QED
    BY <2>1, <2>2 DEF SealInv, TypeOK
<1>3. SealedNotOlder'
  BY DEF SealInv, SealedNotOlder
<1> QED
  BY <1>1, <1>2, <1>3 DEF SealInv

(* Ending a run forgets it and nothing else. *)
LEMMA ForgetSealInv ==
  ASSUME SealInv, TypeOK', Forget, UNCHANGED <<plain, sealed, latest>>
  PROVE  SealInv'
BY DEF Forget, SealInv, Newest, HalfWritten, WritesArePlanned, SealedNotOlder

LEMMA BeginSealInv ==
  ASSUME SealInv, NEW keys \in SUBSET Entries, NEW wanted \in SUBSET Values,
         NEW retire \in BOOLEAN, Begin(keys, wanted, retire)
  PROVE  SealInv'
<1>1. TypeOK'
  BY BeginTypes DEF SealInv
<1>2. ~half
  BY DEF Begin, SealInv, HalfWritten
<1>3. /\ UNCHANGED <<plain, sealed, latest, half>>
      /\ phase' = "ask" /\ run'.bytes = latest
  BY DEF Begin, fleet, machines
<1>4. Newest'
  <2> SUFFICES ASSUME NEW m \in Machines, NEW v \in Values
               PROVE  /\ plain[m][v] <= latest[v] /\ sealed[m][v] <= latest[v]
                      /\ latest[v] <= latest[v]
    BY <1>3 DEF Newest
  <2> QED
    BY StateIsNat DEF SealInv, Newest
<1> QED
  BY <1>1, <1>2, <1>3, <1>4 DEF SealInv, HalfWritten, WritesArePlanned, SealedNotOlder

LEMMA SealSealInv ==
  ASSUME SealInv, NEW v \in Values, NEW m \in Machines, Seal(v, m), TypeOK'
  PROVE  SealInv'
<1>1. /\ phase = "write" /\ IsNext(<<v, m>>) /\ m \in Sealing
      /\ UNCHANGED <<plain, latest, run, phase, todo>>
      /\ sealed' = [sealed EXCEPT ![m][v] = run.bytes[v]]
  BY DEF Seal, Turn, IsNext
<1>2. sealed \in [Machines -> [Values -> Bytes]]
  BY DEF SealInv, TypeOK, FleetTypeOK
<1>3. \A n \in Machines : \A w \in Values :
        sealed'[n][w] = IF n = m /\ w = v THEN run.bytes[v] ELSE sealed[n][w]
  BY <1>1, <1>2
<1>4. Newest'
  <2> SUFFICES ASSUME NEW n \in Machines, NEW w \in Values
               PROVE  /\ plain[n][w] <= latest[w] /\ sealed'[n][w] <= latest[w]
                      /\ plain[n][w] <= run.bytes[w]
                      /\ sealed'[n][w] <= run.bytes[w]
                      /\ run.bytes[w] <= latest[w]
    BY <1>1 DEF Newest
  <2> QED
    BY <1>1, <1>3, StateIsNat DEF SealInv, Newest
<1>5. HalfWritten'
  <2>1. IsNext(<<v, m>>)'
    BY <1>1 DEF IsNext, Earlier, Lexicographic
  <2>2. phase' = "write" /\ sealed'[m][v] = run'.bytes[v]
    BY <1>1, <1>3
  <2> QED
    BY <1>1, <2>1, <2>2 DEF HalfWritten
<1>6. SealedNotOlder'
  <2> SUFFICES ASSUME NEW n \in Sealing, NEW w \in Values PROVE plain[n][w] <= sealed'[n][w]
    BY <1>1 DEF SealedNotOlder
  <2>1. n \in Machines
    BY FleetAssumption
  <2> QED
    BY <1>1, <1>3, <2>1 DEF SealInv, SealedNotOlder, Newest
<1>7. WritesArePlanned'
  BY <1>1 DEF SealInv, WritesArePlanned
<1> QED
  BY <1>4, <1>5, <1>6, <1>7 DEF SealInv

(* The plaintext is written when the copy already has the run's bytes. *)
LEMMA WrittenIsSealed ==
  ASSUME SealInv, NEW v \in Values, NEW m \in Sealing, phase = "write", half, IsNext(<<v, m>>)
  PROVE  sealed[m][v] = run.bytes[v]
<1>1. PICK w \in Values, n \in Sealing : IsNext(<<w, n>>) /\ sealed[n][w] = run.bytes[w]
  BY DEF SealInv, HalfWritten
<1>2. <<w, n>> = <<v, m>>
  BY <1>1, NextIsOne, FleetAssumption
<1> QED
  BY <1>1, <1>2

LEMMA WriteSealInv ==
  ASSUME SealInv, NEW v \in Values, NEW m \in Machines, Write(v, m), TypeOK'
  PROVE  SealInv'
<1>1. /\ phase = "write" /\ IsNext(<<v, m>>) /\ (m \in Sealing => half)
      /\ UNCHANGED <<sealed, latest, run, phase>>
      /\ todo' = todo \ {<<v, m>>} /\ half' = FALSE
      /\ plain' = [plain EXCEPT ![m][v] = run.bytes[v]]
  BY DEF Write, Turn, IsNext, Done
<1>2. plain \in [Machines -> [Values -> Bytes]]
  BY DEF SealInv, TypeOK, FleetTypeOK
<1>3. \A n \in Machines : \A w \in Values :
        plain'[n][w] = IF n = m /\ w = v THEN run.bytes[v] ELSE plain[n][w]
  BY <1>1, <1>2
<1>4. m \in Sealing => sealed[m][v] = run.bytes[v]
  BY <1>1, WrittenIsSealed
<1>5. Newest'
  <2> SUFFICES ASSUME NEW n \in Machines, NEW w \in Values
               PROVE  /\ plain'[n][w] <= latest[w] /\ sealed[n][w] <= latest[w]
                      /\ plain'[n][w] <= run.bytes[w]
                      /\ sealed[n][w] <= run.bytes[w]
                      /\ run.bytes[w] <= latest[w]
    BY <1>1 DEF Newest
  <2> QED
    BY <1>1, <1>3, StateIsNat DEF SealInv, Newest
<1>6. SealedNotOlder'
  <2> SUFFICES ASSUME NEW n \in Sealing, NEW w \in Values PROVE plain'[n][w] <= sealed[n][w]
    BY <1>1 DEF SealedNotOlder
  <2>1. n \in Machines
    BY FleetAssumption
  <2> QED
    BY <1>3, <1>4, <2>1, StateIsNat DEF SealInv, SealedNotOlder
<1>7. HalfWritten' /\ WritesArePlanned'
  BY <1>1 DEF SealInv, HalfWritten, WritesArePlanned
<1> QED
  BY <1>5, <1>6, <1>7 DEF SealInv

LEMMA RebootSealInv ==
  ASSUME SealInv, NEW m \in Machines, RebootNow(m), TypeOK'
  PROVE  SealInv'
<1>1. /\ UNCHANGED <<sealed, latest, run, phase, todo, half>>
      /\ plain' = [plain EXCEPT ![m] = Restored(m)]
  BY DEF RebootNow, Reboot
<1>2. \A v \in Values : Restored(m)[v] = sealed[m][v] \/ Restored(m)[v] = 0
  BY DEF Restored, Nothing
<1>3. \A n \in Machines : \A v \in Values :
        plain'[n][v] = IF n = m THEN Restored(m)[v] ELSE plain[n][v]
  BY <1>1 DEF SealInv, TypeOK, FleetTypeOK
<1>4. Newest'
  <2> SUFFICES ASSUME NEW n \in Machines, NEW v \in Values
               PROVE  /\ plain'[n][v] <= latest[v] /\ sealed[n][v] <= latest[v]
                      /\ phase # "idle" => /\ plain'[n][v] <= run.bytes[v]
                                           /\ sealed[n][v] <= run.bytes[v]
                                           /\ run.bytes[v] <= latest[v]
    BY <1>1 DEF Newest
  <2> QED
    BY <1>2, <1>3, StateIsNat DEF SealInv, Newest
<1>5. SealedNotOlder'
  <2> SUFFICES ASSUME NEW n \in Sealing, NEW v \in Values PROVE plain'[n][v] <= sealed[n][v]
    BY <1>1 DEF SealedNotOlder
  <2>1. n \in Machines
    BY FleetAssumption
  <2> QED
    BY <1>2, <1>3, <2>1, StateIsNat DEF SealInv, SealedNotOlder
<1>6. HalfWritten'
  <2>1. CASE half
    BY <1>1, <2>1, HalfStays DEF SealInv
  <2>2. CASE ~half
    BY <1>1, <2>2 DEF HalfWritten
  <2> QED
    BY <2>1, <2>2 DEF SealInv, TypeOK
<1>7. WritesArePlanned'
  BY <1>1 DEF SealInv, WritesArePlanned
<1> QED
  BY <1>4, <1>5, <1>6, <1>7 DEF SealInv

(* The loops that write no value, and the passage between loops.           *)
LEMMA LoopSealInv ==
  ASSUME SealInv, TypeOK', Loop
  PROVE  SealInv'
<1>1. /\ UNCHANGED <<plain, sealed, half, run, latest>>
      /\ phase # "idle" /\ phase' # "idle"
      /\ todo = {} /\ todo' = Work(phase')
  BY DEF Loop, Looping, After, fleet, machines
<1>2. ~half
  BY <1>1 DEF SealInv, HalfWritten, IsNext
<1>3. WritesArePlanned'
  <2> SUFFICES ASSUME phase' = "write" PROVE todo' \subseteq Values \X Machines
    BY DEF WritesArePlanned
  <2>1. Work("write") = Planned
    BY DEF Work
  <2> QED
    BY <1>1, <2>1 DEF Planned
<1>4. \A v \in Values : latest[v] <= latest'[v]
  BY <1>1 DEF SealInv, TypeOK, FleetTypeOK
<1> QED
  BY <1>1, <1>2, <1>3, <1>4, QuietSealInv

LEMMA OtherStepSealInv ==
  ASSUME SealInv, TypeOK',
         \/ \E m \in Machines : Ask(m) \/ Preflight(m) \/ Unseal(m)
         \/ \E e \in Entries : Retire(e) \/ Activate(e)
         \/ \E v \in Values, e \in Entries : Restart(v, e)
  PROVE  SealInv'
<1>1. UNCHANGED <<plain, sealed, half, run, latest, phase>> /\ phase # "write"
  BY DEF Ask, Preflight, Unseal, Retire, Activate, Restart, Turn, fleet, machines
<1>2. ~half
  BY <1>1 DEF SealInv, HalfWritten
<1>3. WritesArePlanned'
  BY <1>1 DEF WritesArePlanned
<1>4. \A v \in Values : latest[v] <= latest'[v]
  BY <1>1 DEF SealInv, TypeOK, FleetTypeOK
<1> QED
  BY <1>1, <1>2, <1>3, <1>4, QuietSealInv

LEMMA WorldSealInv ==
  ASSUME SealInv, TypeOK', World, UNCHANGED operator
  PROVE  SealInv'
<1>1. UNCHANGED <<plain, sealed, half, run, phase, todo>>
  BY DEF World, Rotate, Publish, Repair, Cut, Mend, Stop, StartByHand, machines, operator
<1>2. \A v \in Values : latest[v] <= latest'[v]
  <2> SUFFICES ASSUME NEW v \in Values PROVE latest[v] <= latest'[v]
    OBVIOUS
  <2>1. latest[v] \in Nat
    BY DEF SealInv, TypeOK, FleetTypeOK
  <2>2. latest \in [Values -> 1 .. MaxBytes]
    BY DEF SealInv, TypeOK, FleetTypeOK
  <2>3. CASE \E w \in Values : Rotate(w)
    BY <2>1, <2>2, <2>3 DEF Rotate
  <2>4. CASE UNCHANGED latest
    BY <2>1, <2>4
  <2> QED
    BY <2>3, <2>4 DEF World, Publish, Repair, Cut, Mend, Stop, StartByHand
<1>3. WritesArePlanned'
  BY <1>1 DEF SealInv, WritesArePlanned
<1> QED
  BY <1>1, <1>2, <1>3, QuietSealInv

LEMMA NextSealInv == SealInv /\ [Next]_vars => SealInv'
<1> SUFFICES ASSUME SealInv, [Next]_vars PROVE SealInv'
  OBVIOUS
<1>1. TypeOK'
  BY NextTypeOK DEF SealInv
<1>2. CASE \E retire \in BOOLEAN : BeginWhole(retire) \/ BeginOnly(retire)
  BY <1>2, BeginsAreRuns, BeginSealInv DEF SealInv
<1>3. ASSUME NEW v \in Values, NEW m \in Machines, Seal(v, m) \/ Write(v, m) PROVE SealInv'
  BY <1>1, <1>3, SealSealInv, WriteSealInv
<1>4. CASE Loop
  BY <1>1, <1>4, LoopSealInv
<1>5. CASE Return \/ RefuseUnfit \/ Unreachable \/ Break \/ \E e \in Entries : BreakAttach(e)
  <2>1. Forget /\ UNCHANGED <<plain, sealed, latest>>
    BY <1>5 DEF Return, RefuseUnfit, Unreachable, Break, BreakAttach, fleet, machines
  <2> QED
    BY <1>1, <2>1, ForgetSealInv
<1>6. CASE \/ \E m \in Machines : Ask(m) \/ Preflight(m) \/ Unseal(m)
           \/ \E e \in Entries : Retire(e) \/ Activate(e)
           \/ \E v \in Values, e \in Entries : Restart(v, e)
  BY <1>1, <1>6, OtherStepSealInv
<1>7. CASE \E m \in Machines : RebootNow(m)
  BY <1>1, <1>7, RebootSealInv
<1>8. CASE World /\ UNCHANGED operator
  BY <1>1, <1>8, WorldSealInv
<1>9. CASE UNCHANGED vars
  <2>1. UNCHANGED <<plain, sealed, half, run, phase, todo, latest>>
    BY <1>9 DEF vars, fleet, machines, operator
  <2>2. \A v \in Values : latest[v] <= latest'[v]
    BY <2>1 DEF SealInv, TypeOK, FleetTypeOK
  <2>3. WritesArePlanned'
    BY <2>1 DEF SealInv, WritesArePlanned
  <2> QED
    BY <1>1, <2>1, <2>2, <2>3, QuietSealInv
<1> QED
  BY <1>2, <1>3, <1>4, <1>5, <1>6, <1>7, <1>8, <1>9 DEF Next, Unrestricted, Step

(* No machine that seals ever holds a copy older than the plaintext beside *)
(* it, wherever a run is interrupted and whenever a machine reboots.       *)
THEOREM CopiesKeepUp == Spec => []SealedNotOlder
<1>1. SealInv => SealedNotOlder
  BY DEF SealInv
<1> QED
  BY InitSealInv, NextSealInv, <1>1, PTL DEF Spec

-----------------------------------------------------------------------------
(* Why a machine can open what it holds: the loop that installs unsealers  *)
(* is over, for every machine the run writes to, before the loop that      *)
(* writes begins.                                                          *)

Unsealed ==
  /\ phase = "unseal" => Sealing \cap Written \subseteq unsealer \cup todo
  /\ phase = "write" => /\ Sealing \cap Written \subseteq unsealer
                        /\ todo \subseteq Planned

OpenInv == TypeOK /\ Unsealed /\ OpensWhatItHolds

LEMMA InitOpenInv == Init => OpenInv
<1> SUFFICES ASSUME Init PROVE OpenInv
  OBVIOUS
<1>1. TypeOK
  BY InitTypeOK
<1> QED
  BY <1>1 DEF Init, FleetInit, Nothing, OpenInv, Unsealed, OpensWhatItHolds

(* A step that writes no copy, takes no unsealer away and does not move    *)
(* either of the two loops.                                                *)
LEMMA QuietOpenInv ==
  ASSUME OpenInv, TypeOK', UNCHANGED <<sealed, unsealer>>,
         \/ UNCHANGED <<phase, todo, run>>
         \/ phase' \notin {"unseal", "write"}
  PROVE  OpenInv'
BY DEF OpenInv, OpensWhatItHolds, Unsealed, Written, Planned, MachinesOf

LEMMA UnsealOpenInv ==
  ASSUME OpenInv, TypeOK', NEW m \in Machines, Unseal(m)
  PROVE  OpenInv'
<1>1. /\ UNCHANGED <<sealed, phase, run>> /\ phase = "unseal"
      /\ unsealer' = unsealer \cup {m} /\ todo' = todo \ {m}
  BY DEF Unseal, Turn, Done
<1>2. Written' = Written
  BY <1>1 DEF Written, Planned, MachinesOf
<1> QED
  BY <1>1, <1>2 DEF OpenInv, OpensWhatItHolds, Unsealed

LEMMA LoopOpenInv ==
  ASSUME OpenInv, TypeOK', Loop
  PROVE  OpenInv'
<1>1. /\ UNCHANGED <<sealed, unsealer, run>> /\ todo = {}
      /\ phase \in DOMAIN After
      /\ phase' = After[phase] /\ todo' = Work(phase')
  BY DEF Loop, Looping, fleet, machines
<1>2. Planned' = Planned /\ Written' = Written
  BY <1>1 DEF Written, Planned, MachinesOf
<1>3. phase' = "unseal" => todo' = Sealing \cap Written
  BY <1>1 DEF Work
<1>4. phase' = "write" => todo' = Planned /\ phase = "unseal"
  <2>1. Work("write") = Planned
    BY DEF Work
  <2>2. \A p \in DOMAIN After : After[p] = "write" => p = "unseal"
    BY DEF After
  <2> QED
    BY <1>1, <2>1, <2>2
<1> QED
  BY <1>1, <1>2, <1>3, <1>4 DEF OpenInv, OpensWhatItHolds, Unsealed

LEMMA SealOpenInv ==
  ASSUME OpenInv, TypeOK', NEW v \in Values, NEW m \in Machines, Seal(v, m)
  PROVE  OpenInv'
<1>1. /\ UNCHANGED <<unsealer, phase, todo, run>>
      /\ phase = "write" /\ <<v, m>> \in todo /\ m \in Sealing
      /\ sealed' = [sealed EXCEPT ![m][v] = run.bytes[v]]
  BY DEF Seal, Turn
<1>2. m \in unsealer
  <2>1. <<v, m>> \in Planned
    BY <1>1 DEF OpenInv, Unsealed
  <2>2. m \in Written
    BY <2>1 DEF Written
  <2> QED
    BY <1>1, <2>2 DEF OpenInv, Unsealed
<1>3. \A n \in Machines : \A w \in Values : n # m => sealed'[n][w] = sealed[n][w]
  BY <1>1 DEF OpenInv, TypeOK, FleetTypeOK
<1>4. OpensWhatItHolds'
  BY <1>1, <1>2, <1>3 DEF OpenInv, OpensWhatItHolds
<1>5. Unsealed'
  BY <1>1 DEF OpenInv, Unsealed, Written, Planned, MachinesOf
<1> QED
  BY <1>4, <1>5 DEF OpenInv

LEMMA WriteOpenInv ==
  ASSUME OpenInv, TypeOK', NEW v \in Values, NEW m \in Machines, Write(v, m)
  PROVE  OpenInv'
<1>1. /\ UNCHANGED <<sealed, unsealer, phase, run>> /\ phase = "write"
      /\ todo' = todo \ {<<v, m>>}
  BY DEF Write, Turn, Done
<1> QED
  BY <1>1 DEF OpenInv, OpensWhatItHolds, Unsealed, Written, Planned, MachinesOf

LEMMA NextOpenInv == OpenInv /\ [Next]_vars => OpenInv'
<1> SUFFICES ASSUME OpenInv, [Next]_vars PROVE OpenInv'
  OBVIOUS
<1>1. TypeOK'
  BY NextTypeOK DEF OpenInv
<1>2. CASE \E retire \in BOOLEAN : BeginWhole(retire) \/ BeginOnly(retire)
  <2>1. UNCHANGED <<sealed, unsealer>> /\ phase' = "ask"
    BY <1>2 DEF BeginWhole, BeginOnly, Begin, fleet, machines
  <2> QED
    BY <1>1, <2>1, QuietOpenInv
<1>3. ASSUME NEW m \in Machines, Unseal(m) PROVE OpenInv'
  BY <1>1, <1>3, UnsealOpenInv
<1>4. ASSUME NEW v \in Values, NEW m \in Machines, Seal(v, m) \/ Write(v, m) PROVE OpenInv'
  BY <1>1, <1>4, SealOpenInv, WriteOpenInv
<1>5. CASE Loop
  BY <1>1, <1>5, LoopOpenInv
<1>6. CASE \/ \E m \in Machines : Ask(m) \/ Preflight(m)
           \/ \E e \in Entries : Retire(e) \/ Activate(e)
           \/ \E v \in Values, e \in Entries : Restart(v, e)
  <2>1. UNCHANGED <<sealed, unsealer, phase>> /\ phase \notin {"unseal", "write"}
    BY <1>6 DEF Ask, Preflight, Retire, Activate, Restart, Turn, fleet, machines
  <2> QED
    BY <1>1, <2>1, QuietOpenInv
<1>7. CASE Return \/ RefuseUnfit \/ Unreachable \/ Break \/ \E e \in Entries : BreakAttach(e)
  <2>1. UNCHANGED <<sealed, unsealer>> /\ phase' = "idle"
    BY <1>7 DEF Return, RefuseUnfit, Unreachable, Break, BreakAttach, Forget, fleet, machines
  <2> QED
    BY <1>1, <2>1, QuietOpenInv
<1>8. CASE \E m \in Machines : RebootNow(m)
  <2>1. UNCHANGED <<sealed, unsealer, phase, todo, run>>
    BY <1>8 DEF RebootNow, Reboot
  <2> QED
    BY <1>1, <2>1, QuietOpenInv
<1>9. CASE World /\ UNCHANGED operator
  <2>1. UNCHANGED <<sealed, unsealer, phase, todo, run>>
    BY <1>9 DEF World, Rotate, Publish, Repair, Cut, Mend, Stop, StartByHand, machines, operator
  <2> QED
    BY <1>1, <2>1, QuietOpenInv
<1>10. CASE UNCHANGED vars
  <2>1. UNCHANGED <<sealed, unsealer, phase, todo, run>>
    BY <1>10 DEF vars, fleet, machines, operator
  <2> QED
    BY <1>1, <2>1, QuietOpenInv
<1> QED
  BY <1>2, <1>3, <1>4, <1>5, <1>6, <1>7, <1>8, <1>9, <1>10 DEF Next, Unrestricted, Step

(* Every machine that holds a sealed copy has the unsealer that opens it   *)
(* at boot, wherever a run is interrupted.                                 *)
THEOREM CopiesCanBeOpened == Spec => []OpensWhatItHolds
<1>1. OpenInv => OpensWhatItHolds
  BY DEF OpenInv
<1> QED
  BY InitOpenInv, NextOpenInv, <1>1, PTL DEF Spec

-----------------------------------------------------------------------------
(* What the two together are for: `Value`, of every value of a machine     *)
(* that seals.  The copy is the run's before the plaintext is, and a boot  *)
(* finds the unsealer and makes the plaintext what the copy is.            *)

LEMMA SealIsPromised ==
  ASSUME SealInv, NEW m \in Sealing, NEW v \in Values,
         NEW w \in Values, NEW n \in Machines, Seal(w, n)
  PROVE  [Promise(m, v)!Next]_(Promise(m, v)!promise)
<1>1. /\ UNCHANGED <<plain, latest>> /\ phase = "write"
      /\ sealed' = [sealed EXCEPT ![n][w] = run.bytes[w]]
  BY DEF Seal, Turn
<1>2. m \in Machines
  BY FleetAssumption
<1>3. sealed'[m][v] = IF m = n /\ v = w THEN run.bytes[v] ELSE sealed[m][v]
  BY <1>1, <1>2 DEF SealInv, TypeOK, FleetTypeOK
<1>4. /\ sealed[m][v] <= run.bytes[v] /\ run.bytes[v] <= latest[v]
      /\ sealed[m][v] \in Nat /\ run.bytes[v] \in Nat /\ latest[v] \in Nat
  BY <1>1, <1>2, StateIsNat DEF SealInv, Newest
<1>5. CASE sealed'[m][v] = sealed[m][v]
  BY <1>1, <1>5 DEF Promise!promise
<1>6. CASE sealed'[m][v] = run.bytes[v] /\ run.bytes[v] # sealed[m][v]
  <2>1. sealed'[m][v] \in sealed[m][v] + 1 .. latest[v]
    BY <1>4, <1>6
  <2> QED
    BY <1>1, <2>1 DEF Promise!Next, Promise!Seal
<1> QED
  BY <1>3, <1>5, <1>6

LEMMA WriteIsPromised ==
  ASSUME SealInv, NEW m \in Sealing, NEW v \in Values,
         NEW w \in Values, NEW n \in Machines, Write(w, n)
  PROVE  [Promise(m, v)!Next]_(Promise(m, v)!promise)
<1>1. /\ UNCHANGED <<sealed, latest>> /\ phase = "write" /\ IsNext(<<w, n>>)
      /\ n \in Sealing => half
      /\ plain' = [plain EXCEPT ![n][w] = run.bytes[w]]
  BY DEF Write, Turn, IsNext
<1>2. m \in Machines
  BY FleetAssumption
<1>3. plain'[m][v] = IF m = n /\ v = w THEN run.bytes[v] ELSE plain[m][v]
  BY <1>1, <1>2 DEF SealInv, TypeOK, FleetTypeOK
<1>4. CASE m = n /\ v = w
  <2>1. sealed[m][v] = run.bytes[v]
    BY <1>1, <1>4, WrittenIsSealed
  <2>2. CASE sealed[m][v] # 0
    BY <1>1, <1>3, <1>4, <2>1, <2>2 DEF Promise!Next, Promise!Place
  <2>3. CASE sealed[m][v] = 0
    <3>1. plain[m][v] <= 0 /\ plain[m][v] \in Nat
      BY <1>2, <2>3, StateIsNat DEF SealInv, SealedNotOlder
    <3>2. plain'[m][v] = plain[m][v]
      BY <1>3, <1>4, <2>1, <2>3, <3>1
    <3> QED
      BY <1>1, <3>2 DEF Promise!promise
  <2> QED
    BY <2>2, <2>3
<1>5. CASE ~(m = n /\ v = w)
  BY <1>1, <1>3, <1>5 DEF Promise!promise
<1> QED
  BY <1>4, <1>5

LEMMA RebootIsPromised ==
  ASSUME SealInv, OpenInv, NEW m \in Sealing, NEW v \in Values, NEW n \in Machines, RebootNow(n)
  PROVE  [Promise(m, v)!Next]_(Promise(m, v)!promise)
<1>1. UNCHANGED <<sealed, latest>> /\ plain' = [plain EXCEPT ![n] = Restored(n)]
  BY DEF RebootNow, Reboot
<1>2. m \in Machines
  BY FleetAssumption
<1>3. plain'[m][v] = IF m = n THEN Restored(m)[v] ELSE plain[m][v]
  BY <1>1, <1>2 DEF SealInv, TypeOK, FleetTypeOK
<1>4. CASE m # n
  BY <1>1, <1>3, <1>4 DEF Promise!promise
<1>5. CASE m = n /\ sealed[m][v] # 0
  <2>1. plain'[m][v] = sealed[m][v]
    BY <1>2, <1>3, <1>5 DEF OpenInv, OpensWhatItHolds, Restored
  <2> QED
    BY <1>1, <1>5, <2>1 DEF Promise!Next, Promise!Place
<1>6. CASE m = n /\ sealed[m][v] = 0
  <2>1. plain[m][v] <= 0 /\ plain[m][v] \in Nat
    BY <1>2, <1>6, StateIsNat DEF SealInv, SealedNotOlder
  <2>2. Restored(m)[v] = 0
    BY <1>6 DEF Restored, Nothing
  <2>3. plain'[m][v] = plain[m][v]
    BY <1>3, <1>6, <2>1, <2>2
  <2> QED
    BY <1>1, <2>3 DEF Promise!promise
<1> QED
  BY <1>4, <1>5, <1>6

LEMMA RotateIsPromised ==
  ASSUME SealInv, NEW m \in Sealing, NEW v \in Values, NEW w \in Values, Rotate(w)
  PROVE  [Promise(m, v)!Next]_(Promise(m, v)!promise)
<1>1. UNCHANGED <<plain, sealed>> /\ latest' = [latest EXCEPT ![w] = @ + 1]
  BY DEF Rotate, machines
<1>2. latest'[v] = IF v = w THEN latest[v] + 1 ELSE latest[v]
  BY <1>1 DEF SealInv, TypeOK, FleetTypeOK
<1> QED
  BY <1>1, <1>2 DEF Promise!Next, Promise!Rotate, Promise!promise

LEMMA NextIsPromised ==
  ASSUME SealInv, OpenInv, [Next]_vars, NEW m \in Sealing, NEW v \in Values
  PROVE  [Promise(m, v)!Next]_(Promise(m, v)!promise)
<1>1. ASSUME NEW w \in Values, NEW n \in Machines, Seal(w, n) \/ Write(w, n)
      PROVE  [Promise(m, v)!Next]_(Promise(m, v)!promise)
  BY <1>1, SealIsPromised, WriteIsPromised
<1>2. ASSUME NEW n \in Machines, RebootNow(n)
      PROVE  [Promise(m, v)!Next]_(Promise(m, v)!promise)
  BY <1>2, RebootIsPromised
<1>3. ASSUME NEW w \in Values, Rotate(w)
      PROVE  [Promise(m, v)!Next]_(Promise(m, v)!promise)
  BY <1>3, RotateIsPromised
<1>4. CASE UNCHANGED <<plain, sealed, latest>>
  BY <1>4 DEF Promise!promise
<1>5. CASE \/ \E retire \in BOOLEAN : BeginWhole(retire) \/ BeginOnly(retire)
           \/ \E n \in Machines : Ask(n) \/ Preflight(n) \/ Unseal(n)
           \/ \E e \in Entries : Retire(e) \/ Activate(e) \/ BreakAttach(e)
           \/ \E w \in Values, e \in Entries : Restart(w, e)
           \/ Loop \/ Return \/ RefuseUnfit \/ Unreachable \/ Break
  <2>1. UNCHANGED <<plain, sealed, latest>>
    BY <1>5 DEF BeginWhole, BeginOnly, Begin, Ask, Preflight, Unseal, Retire, Activate, BreakAttach,
                Restart, Loop, Return, RefuseUnfit, Unreachable, Break, fleet, machines
  <2> QED
    BY <1>4, <2>1
<1>6. CASE World /\ UNCHANGED operator
  <2>1. (\E w \in Values : Rotate(w)) \/ UNCHANGED <<plain, sealed, latest>>
    BY <1>6 DEF World, Publish, Repair, Cut, Mend, Stop, StartByHand, machines
  <2> QED
    BY <1>3, <1>4, <2>1
<1>7. CASE UNCHANGED vars
  BY <1>4, <1>7 DEF vars, fleet, machines
<1> QED
  BY <1>1, <1>2, <1>5, <1>6, <1>7 DEF Next, Unrestricted, Step

LEMMA InitIsPromised ==
  ASSUME Init, NEW m \in Sealing, NEW v \in Values
  PROVE  Promise(m, v)!Init
<1>1. m \in Machines
  BY FleetAssumption
<1>2. plain[m][v] = 0 /\ sealed[m][v] = 0 /\ latest[v] = 1
  BY <1>1 DEF Init, FleetInit, Nothing
<1> QED
  BY <1>2 DEF Promise!Init

(* A run over a fleet that breaks and reboots is, for each value of each   *)
(* machine that seals, what `Value` promises, and no boot takes the        *)
(* plaintext away.                                                         *)
THEOREM PromisesKept == Spec => KeepsPromises
<1> DEFINE Initially == \A m \in Sealing, v \in Values : Promise(m, v)!Init
           Stepwise == \A m \in Sealing, v \in Values :
                         [Promise(m, v)!Next]_(Promise(m, v)!promise)
<1>1. Init => Initially
  BY InitIsPromised
<1>2. SealInv /\ OpenInv /\ [Next]_vars => [Stepwise]_vars
  BY NextIsPromised
<1>3. KeepsPromises <=> Initially /\ [][Stepwise]_vars
  BY DEF KeepsPromises
<1> HIDE DEF Initially, Stepwise
<1> QED
  BY InitSealInv, NextSealInv, InitOpenInv, NextOpenInv, <1>1, <1>2, <1>3, PTL DEF Spec

(* The same of one value, in the form of the specification it implements.  *)
THEOREM ImplementsValue ==
  ASSUME NEW m \in Sealing, NEW v \in Values
  PROVE  Spec => Promise(m, v)!Spec
<1>1. Init => Promise(m, v)!Init
  BY InitIsPromised
<1>2. SealInv /\ OpenInv /\ [Next]_vars => [Promise(m, v)!Next]_(Promise(m, v)!promise)
  BY NextIsPromised
<1> QED
  BY InitSealInv, NextSealInv, InitOpenInv, NextOpenInv, <1>1, <1>2, PTL DEF Spec, Promise!Spec

-----------------------------------------------------------------------------
(* What the order of the loops is for: each leaves behind what a later one *)
(* relies on, and no step of the world takes it away.                      *)


Concerned == Written \cup MachinesOf(Taken)
PastRetire == {"unseal", "write", "activate", "restart", "done"}
PastPreflight == {"retire"} \cup PastRetire
PastWrite == {"activate", "restart", "done"}
PastActivate == {"restart", "done"}

(* A loop goes through what it was given, and the run through the build's  *)
(* own entries.                                                            *)
TodoIsWork == phase \in DOMAIN After => todo \subseteq Work(phase)

RunIsOfBuild ==
  /\ phase = "idle" => holds = {}
  /\ phase # "idle" => run.keys \subseteq Named(run.build)
  /\ \A e \in holds : On[e] \in MachinesOf(Taken)

(* No account the run concerns fails the preflight once it is past it.     *)
Verified ==
  /\ phase = "preflight" => UserScope \cap Concerned \subseteq fit \cup todo
  /\ phase \in PastPreflight => UserScope \cap Concerned \subseteq fit

(* What the build does not name, on a machine of the run that answered, is *)
(* known, then still to be retired, and then gone.                         *)
Leftover(m) == {e \in Here(m) \ Named(run.build) : held[e] # 0}
Answered == MachinesOf(Taken) \ skipped

Retired ==
  /\ phase = "ask" => \A m \in Answered \ todo : Leftover(m) \subseteq holds
  /\ phase = "preflight" => \A m \in Answered : Leftover(m) \subseteq holds
  /\ (phase = "retire" /\ run.retire) => \A m \in Answered : Leftover(m) \subseteq todo
  /\ (phase \in PastRetire /\ run.retire) => \A m \in Answered : Leftover(m) = {}

(* What has been activated holds its artifact.                             *)
InPlace(e) == held[e] = Artifact[run.build][e]
Activated ==
  /\ phase = "activate" => \A e \in Taken \ todo : InPlace(e)
  /\ phase \in PastActivate => \A e \in Taken : InPlace(e)

(* What has been written is there, or was lost by a machine that keeps no  *)
(* copies; on one that does, the copy and what opens it are there as well. *)
Arrived(v, m) ==
  /\ plain[m][v] = run.bytes[v] \/ m \in rebooted \ Sealing
  /\ m \in Sealing => sealed[m][v] = run.bytes[v] /\ m \in unsealer
Wrote ==
  /\ phase = "write" => \A v \in Values, m \in Machines :
       <<v, m>> \in Planned \ todo => Arrived(v, m)
  /\ phase \in PastWrite => \A v \in Values, m \in Machines :
       <<v, m>> \in Planned => Arrived(v, m)

OrderInv ==
  /\ SealInv /\ OpenInv
  /\ TodoIsWork /\ RunIsOfBuild
  /\ Verified /\ Retired /\ Activated /\ Wrote

-----------------------------------------------------------------------------
(* The kinds of step. *)

Ended == phase' = "idle" /\ holds' = {}

Began ==
  /\ phase = "idle" /\ phase' = "ask"
  /\ \E keys \in SUBSET Named(build) :
       /\ run'.keys = keys /\ run'.build = build
       /\ todo' = MachinesOf(keys \ Unitless)
  /\ UNCHANGED <<held, holds, skipped>>

(* Nothing of the run's moves, and nothing it verified, retired, sealed or *)
(* activated is undone.                                                    *)
Aside ==
  /\ UNCHANGED <<phase, todo, run, holds, skipped, held, sealed, unsealer, moved>>
  /\ fit \subseteq fit'

LEMMA StepKinds ==
  ASSUME TypeOK, [Next]_vars
  PROVE  \/ Ended \/ Began \/ Aside
         \/ \E m \in Machines : Ask(m) \/ Preflight(m) \/ Unseal(m)
         \/ \E e \in Entries : Retire(e) \/ Activate(e)
         \/ \E v \in Values, m \in Machines : Seal(v, m) \/ Write(v, m)
         \/ \E v \in Values, e \in Entries : Restart(v, e)
         \/ Loop
<1>1. CASE Return \/ RefuseUnfit \/ Unreachable \/ Break \/ \E e \in Entries : BreakAttach(e)
  BY <1>1 DEF Return, RefuseUnfit, Unreachable, Break, BreakAttach, Forget, Ended
<1>2. CASE \E retire \in BOOLEAN : BeginWhole(retire) \/ BeginOnly(retire)
  <2>1. PICK keys \in SUBSET Named(build), wanted \in SUBSET Values, retire \in BOOLEAN :
          Begin(keys, wanted, retire)
    <3>1. CASE \E retire \in BOOLEAN : BeginWhole(retire)
      BY <3>1 DEF BeginWhole
    <3>2. CASE \E retire \in BOOLEAN : BeginOnly(retire)
      BY <3>2 DEF BeginOnly
    <3> QED
      BY <1>2, <3>1, <3>2
  <2>2. run'.keys = keys /\ run'.build = build
    BY <2>1 DEF Begin
  <2> QED
    BY <2>1, <2>2 DEF Begin, Began, fleet, machines
<1>3. CASE \E m \in Machines : RebootNow(m)
  BY <1>3 DEF RebootNow, Reboot, Aside
<1>4. CASE World /\ UNCHANGED operator
  BY <1>4 DEF World, Rotate, Publish, Repair, Cut, Mend, Stop, StartByHand, machines, operator,
              Aside
<1>5. CASE UNCHANGED vars
  BY <1>5 DEF vars, fleet, machines, operator, Aside
<1> QED
  BY <1>1, <1>2, <1>3, <1>4, <1>5 DEF Next, Unrestricted, Step

(* What a run concerns is its own, and stays while it lasts.               *)
LEMMA RunStays ==
  ASSUME UNCHANGED run
  PROVE  Taken' = Taken /\ Planned' = Planned /\ Written' = Written /\ Concerned' = Concerned
<1>1. Taken' = Taken /\ Planned' = Planned
  BY DEF Taken, Planned
<1> QED
  BY <1>1 DEF Written, Concerned

LEMMA WorkOf ==
  /\ Work("ask") = MachinesOf(Taken)
  /\ Work("preflight") = UserScope \cap Concerned
  /\ Work("retire") = IF run.retire THEN holds ELSE {}
  /\ Work("unseal") = Sealing \cap Written
  /\ Work("write") = Planned
  /\ Work("activate") = Taken
  /\ Work("restart") = Rotations
BY DEF Work, Concerned

LEMMA LoopPhases ==
  ASSUME Loop
  PROVE  /\ phase \in DOMAIN After /\ phase' = After[phase]
         /\ todo = {} /\ todo' = Work(phase')
         /\ UNCHANGED <<run, holds, skipped, moved, rebooted, fit, held, plain, sealed, unsealer>>
         /\ phase' = "preflight" => phase = "ask"
         /\ phase' = "retire" => phase = "preflight"
         /\ phase' \in PastRetire => phase = "retire" \/ phase \in PastRetire
         /\ phase' \in PastPreflight => phase = "preflight" \/ phase \in PastPreflight
         /\ phase' = "write" => phase = "unseal"
         /\ phase' \in PastWrite => phase = "write" \/ phase \in PastWrite
         /\ phase' = "activate" => phase = "write"
         /\ phase' \in PastActivate => phase = "activate" \/ phase \in PastActivate
         /\ phase' \notin {"idle", "ask"}
<1>1. /\ phase \in DOMAIN After /\ phase' = After[phase]
      /\ todo = {} /\ todo' = Work(phase')
      /\ UNCHANGED <<run, holds, skipped, moved, rebooted, fit, held, plain, sealed, unsealer>>
  BY DEF Loop, Looping, fleet, machines
<1> QED
  BY <1>1 DEF After, PastRetire, PastPreflight, PastWrite, PastActivate

LEMMA NextTodoIsWork ==
  ASSUME OrderInv, [Next]_vars
  PROVE  TodoIsWork'
<1>1. TypeOK /\ TodoIsWork
  BY DEF OrderInv, OpenInv
<1>2. CASE Ended
  BY <1>2 DEF Ended, TodoIsWork, After
<1>3. CASE Began
  <2>1. PICK keys : run'.keys = keys /\ todo' = MachinesOf(keys \ Unitless)
    BY <1>3 DEF Began
  <2>2. todo' = Work("ask")'
    BY <2>1 DEF Work, Taken
  <2> QED
    BY <1>3, <2>2 DEF Began, TodoIsWork
<1>4. CASE Aside
  <2>1. Work(phase)' = Work(phase)
    BY <1>4, RunStays DEF Aside, Work, Rotations
  <2> QED
    BY <1>1, <1>4, <2>1 DEF Aside, TodoIsWork
<1>5. CASE Loop
  <2>1. Work(phase)' = Work(phase')
    BY <1>5, LoopPhases, RunStays DEF Work, Rotations
  <2> QED
    BY <1>5, <2>1, LoopPhases DEF TodoIsWork
<1>6. CASE \/ \E m \in Machines : Ask(m) \/ Preflight(m) \/ Unseal(m)
           \/ \E e \in Entries : Retire(e) \/ Activate(e)
           \/ \E v \in Values, m \in Machines : Seal(v, m) \/ Write(v, m)
           \/ \E v \in Values, e \in Entries : Restart(v, e)
  <2>1. /\ UNCHANGED <<phase, run>> /\ todo' \subseteq todo
        /\ phase # "ask" => UNCHANGED holds
        /\ phase # "write" => UNCHANGED moved
    BY <1>6 DEF Ask, Preflight, Unseal, Retire, Activate, Seal, Write, Restart, Turn, Done
  <2>2. Work(phase)' = Work(phase)
    BY <2>1, RunStays DEF Work, Rotations
  <2> QED
    BY <1>1, <2>1, <2>2 DEF TodoIsWork
<1> QED
  BY <1>1, <1>2, <1>3, <1>4, <1>5, <1>6, StepKinds

LEMMA NextRunIsOfBuild ==
  ASSUME OrderInv, [Next]_vars
  PROVE  RunIsOfBuild'
<1>1. TypeOK /\ RunIsOfBuild /\ TodoIsWork
  BY DEF OrderInv, OpenInv
<1>2. CASE Ended
  BY <1>2 DEF Ended, RunIsOfBuild
<1>3. CASE Began
  BY <1>1, <1>3 DEF Began, RunIsOfBuild
<1>4. ASSUME NEW m \in Machines, Ask(m) PROVE RunIsOfBuild'
  <2>1. /\ UNCHANGED <<phase, run>> /\ phase = "ask" /\ m \in todo
        /\ holds' \subseteq holds \cup Here(m)
    BY <1>4 DEF Ask
  <2>2. m \in MachinesOf(Taken) /\ Taken' = Taken
    BY <1>1, <2>1, WorkOf, RunStays DEF TodoIsWork, After
  <2> QED
    BY <1>1, <2>1, <2>2 DEF RunIsOfBuild, Here
<1>5. CASE \/ Aside \/ Loop
           \/ \E m \in Machines : Preflight(m) \/ Unseal(m)
           \/ \E e \in Entries : Retire(e) \/ Activate(e)
           \/ \E v \in Values, m \in Machines : Seal(v, m) \/ Write(v, m)
           \/ \E v \in Values, e \in Entries : Restart(v, e)
  <2>1. UNCHANGED <<run, holds>> /\ (phase = "idle" <=> phase' = "idle")
    BY <1>5, LoopPhases DEF Aside, Preflight, Unseal, Retire, Activate, Seal, Write, Restart, After
  <2>2. Taken' = Taken
    BY <2>1, RunStays
  <2> QED
    BY <1>1, <2>1, <2>2 DEF RunIsOfBuild
<1> QED
  BY <1>1, <1>2, <1>3, <1>4, <1>5, StepKinds

-----------------------------------------------------------------------------
(* A machine that fails the preflight is left as it is.                    *)

LEMMA NextVerified ==
  ASSUME OrderInv, [Next]_vars
  PROVE  Verified'
<1>1. TypeOK /\ Verified
  BY DEF OrderInv, OpenInv
<1> USE DEF PastPreflight, PastRetire
<1>2. CASE Ended \/ Began
  BY <1>2 DEF Ended, Began, Verified
<1>3. CASE Aside
  BY <1>1, <1>3, RunStays DEF Aside, Verified
<1>4. CASE Loop
  <2>1. phase' = "preflight" => todo' = UserScope \cap Concerned
    BY <1>4, LoopPhases, WorkOf
  <2>2. phase' \in PastPreflight => UserScope \cap Concerned \subseteq fit
    BY <1>1, <1>4, LoopPhases DEF Verified
  <2>3. fit' = fit /\ Concerned' = Concerned
    BY <1>4, LoopPhases, RunStays
  <2> QED
    BY <2>1, <2>2, <2>3 DEF Verified
<1>5. ASSUME NEW m \in Machines, Preflight(m) PROVE Verified'
  <2>1. /\ UNCHANGED <<phase, run, fit>> /\ phase = "preflight"
        /\ m \in fit /\ todo' = todo \ {m}
    BY <1>5 DEF Preflight, Turn, Done, fleet, machines
  <2> QED
    BY <1>1, <2>1, RunStays DEF Verified
<1>6. CASE \/ \E m \in Machines : Ask(m) \/ Unseal(m)
           \/ \E e \in Entries : Retire(e) \/ Activate(e)
           \/ \E v \in Values, m \in Machines : Seal(v, m) \/ Write(v, m)
           \/ \E v \in Values, e \in Entries : Restart(v, e)
  <2>1. UNCHANGED <<phase, run, fit>> /\ phase # "preflight"
    BY <1>6 DEF Ask, Unseal, Retire, Activate, Seal, Write, Restart, Turn, fleet, machines
  <2> QED
    BY <1>1, <2>1, RunStays DEF Verified
<1> QED
  BY <1>1, <1>2, <1>3, <1>4, <1>5, <1>6, StepKinds

(* What a loop of the run touches is on a machine the run concerns.        *)
LEMMA TouchesConcerned ==
  ASSUME OrderInv
  PROVE  /\ phase = "retire" => \A e \in todo : On[e] \in Concerned
         /\ phase = "unseal" => todo \subseteq Concerned
         /\ phase = "write" => \A v \in Values, m \in Machines :
              <<v, m>> \in todo => m \in Concerned /\ <<v, m>> \in Planned
         /\ phase = "activate" => \A e \in todo : e \in Taken /\ On[e] \in MachinesOf(Taken)
         /\ phase = "restart" => \A v \in Values, e \in Entries :
              <<v, e>> \in todo => On[e] \in Concerned
<1>1. TodoIsWork /\ RunIsOfBuild
  BY DEF OrderInv
<1>2. phase \in {"retire", "unseal", "write", "activate", "restart"} => phase \in DOMAIN After
  BY DEF After
<1>3. CASE phase = "retire"
  BY <1>1, <1>2, <1>3, WorkOf DEF TodoIsWork, RunIsOfBuild, Concerned
<1>4. CASE phase = "unseal"
  BY <1>1, <1>2, <1>4, WorkOf DEF TodoIsWork, Concerned
<1>5. CASE phase = "write"
  BY <1>1, <1>2, <1>5, WorkOf DEF TodoIsWork, Concerned, Written
<1>6. CASE phase = "activate"
  BY <1>1, <1>2, <1>6, WorkOf DEF TodoIsWork, MachinesOf
<1>7. CASE phase = "restart"
  BY <1>1, <1>2, <1>7, WorkOf DEF TodoIsWork, Rotations, Concerned, MachinesOf
<1> QED
  BY <1>3, <1>4, <1>5, <1>6, <1>7

LEMMA UnfitStaysUntouched ==
  ASSUME OrderInv, [Next]_vars, operator' # operator, ~\E n \in Machines : Reboot(n),
         NEW m \in UserScope \ fit
  PROVE  Untouched(m)
<1>1. phase \in PastPreflight => m \notin Concerned
  BY DEF OrderInv, Verified
<1>2. TypeOK
  BY DEF OrderInv, OpenInv
<1>3. m \in Machines /\ Here(m) \subseteq Entries /\ \A e \in Here(m) : On[e] = m
  BY FleetAssumption DEF Here
<1>4. ASSUME NEW e \in Entries,
             Retire(e) \/ Activate(e) \/ BreakAttach(e) \/ \E v \in Values : Restart(v, e)
      PROVE  Untouched(m)
  <2>1. On[e] \in Concerned /\ phase \in PastPreflight
    <3>1. CASE Retire(e) \/ Activate(e) \/ BreakAttach(e)
      <4>1. phase \in {"retire", "activate"} /\ e \in todo
        BY <3>1 DEF Retire, Activate, BreakAttach, Turn
      <4> QED
        BY <4>1, TouchesConcerned DEF Concerned, PastPreflight, PastRetire
    <3>2. ASSUME NEW v \in Values, Restart(v, e)
          PROVE  On[e] \in Concerned /\ phase \in PastPreflight
      <4>1. phase = "restart" /\ <<v, e>> \in todo
        BY <3>2 DEF Restart, Turn
      <4> QED
        BY <4>1, TouchesConcerned DEF PastPreflight, PastRetire
    <3> QED
      BY <1>4, <3>1, <3>2
  <2>2. On[e] # m
    BY <1>1, <2>1
  <2>3. /\ UNCHANGED <<plain, sealed, unsealer>>
        /\ \A f \in Entries \ {e} : /\ held'[f] = held[f] /\ opened'[f] = opened[f]
                                    /\ f \in running <=> f \in running'
    <3>1. CASE Retire(e) \/ BreakAttach(e)
      BY <1>2, <3>1 DEF Retire, BreakAttach, TypeOK, FleetTypeOK
    <3>2. CASE Activate(e)
      BY <1>2, <3>2 DEF Activate, Started, TypeOK, FleetTypeOK
    <3>3. CASE \E v \in Values : Restart(v, e)
      BY <1>2, <3>3 DEF Restart, Started, TypeOK, FleetTypeOK
    <3> QED
      BY <1>4, <3>1, <3>2, <3>3
  <2> QED
    BY <1>3, <2>2, <2>3 DEF Untouched
<1>5. ASSUME NEW n \in Machines, Unseal(n) PROVE Untouched(m)
  <2>1. phase = "unseal" /\ n \in todo
    BY <1>5 DEF Unseal, Turn
  <2>2. n # m
    BY <1>1, <2>1, TouchesConcerned DEF PastPreflight, PastRetire
  <2> QED
    BY <1>5, <2>2 DEF Unseal, Untouched
<1>6. ASSUME NEW v \in Values, NEW n \in Machines, Seal(v, n) \/ Write(v, n)
      PROVE  Untouched(m)
  <2>1. phase = "write" /\ <<v, n>> \in todo
    BY <1>6 DEF Seal, Write, Turn
  <2>2. n # m
    BY <1>1, <2>1, TouchesConcerned DEF PastPreflight, PastRetire
  <2>3. /\ UNCHANGED <<unsealer, held, running, opened>>
        /\ \A o \in Machines \ {n} : plain'[o] = plain[o] /\ sealed'[o] = sealed[o]
    BY <1>2, <1>6 DEF Seal, Write, TypeOK, FleetTypeOK
  <2> QED
    BY <1>3, <2>2, <2>3 DEF Untouched
<1>7. CASE \/ Return \/ RefuseUnfit \/ Unreachable \/ Break \/ Loop
           \/ \E retire \in BOOLEAN : BeginWhole(retire) \/ BeginOnly(retire)
           \/ \E n \in Machines : Ask(n) \/ Preflight(n)
  <2>1. UNCHANGED <<plain, sealed, unsealer, held, running, opened>>
    BY <1>7 DEF Return, RefuseUnfit, Unreachable, Break, Loop, BeginWhole, BeginOnly, Begin,
                Ask, Preflight, fleet, machines
  <2> QED
    BY <2>1 DEF Untouched
<1>8. ~\E n \in Machines : RebootNow(n)
  BY DEF RebootNow
<1>9. ~UNCHANGED operator /\ ~UNCHANGED vars
  BY DEF vars
<1> QED
  BY <1>4, <1>5, <1>6, <1>7, <1>8, <1>9 DEF Next, Unrestricted, Step

-----------------------------------------------------------------------------
(* A machine that answered has been rid of what the build does not name by *)
(* the time anything is activated on it.                                   *)

LEMMA NextRetired ==
  ASSUME OrderInv, [Next]_vars
  PROVE  Retired'
<1>1. TypeOK /\ Retired /\ RunIsOfBuild
  BY DEF OrderInv, OpenInv
<1> USE DEF PastRetire
<1>2. CASE Ended
  BY <1>2 DEF Ended, Retired
<1>3. CASE Began
  <2>1. phase' = "ask" /\ todo' = MachinesOf(Taken)'
    BY <1>3 DEF Began, Taken
  <2> QED
    BY <2>1 DEF Retired, Answered
<1>4. ASSUME UNCHANGED <<run, held>> PROVE \A m : Leftover(m)' = Leftover(m)
  BY <1>4 DEF Leftover
<1>5. CASE Aside
  <2>1. UNCHANGED <<phase, todo, run, holds, skipped, held>> /\ Answered' = Answered
    BY <1>5, RunStays DEF Aside, Answered
  <2> QED
    BY <1>1, <1>4, <2>1 DEF Retired
<1>6. ASSUME NEW m \in Machines, Ask(m) PROVE Retired'
  <2>1. /\ UNCHANGED <<phase, run, held>> /\ phase = "ask" /\ todo' = todo \ {m}
    BY <1>6 DEF Ask, Done, fleet, machines
  <2>2. CASE holds' = holds \cup {e \in Here(m) \ Named(run.build) : held[e] # 0} /\ UNCHANGED skipped
    <3>1. Answered' = Answered /\ Leftover(m) \subseteq holds' /\ holds \subseteq holds'
      BY <2>1, <2>2, RunStays DEF Answered, Leftover
    <3> QED
      BY <1>1, <1>4, <2>1, <3>1 DEF Retired
  <2>3. CASE skipped' = skipped \cup {m} /\ UNCHANGED holds
    <3>1. Answered' = Answered \ {m}
      BY <2>1, <2>3, RunStays DEF Answered
    <3> QED
      BY <1>1, <1>4, <2>1, <2>3, <3>1 DEF Retired
  <2> QED
    BY <1>6, <2>2, <2>3 DEF Ask
<1>7. ASSUME NEW e \in Entries, Retire(e) PROVE Retired'
  <2>1. /\ UNCHANGED <<phase, run, skipped>> /\ phase = "retire" /\ todo' = todo \ {e}
        /\ held' = [held EXCEPT ![e] = 0]
    BY <1>7 DEF Retire, Turn, Done
  <2>2. Answered' = Answered
    BY <2>1, RunStays DEF Answered
  <2>3. \A m : Leftover(m)' = Leftover(m) \ {e}
    BY <1>1, <2>1 DEF Leftover, Here, TypeOK, FleetTypeOK
  <2> QED
    BY <1>1, <2>1, <2>2, <2>3 DEF Retired
<1>8. ASSUME NEW e \in Entries, Activate(e) PROVE Retired'
  <2>1. /\ UNCHANGED <<phase, run, skipped>> /\ phase = "activate" /\ e \in todo
        /\ \A f \in Entries \ {e} : held'[f] = held[f]
    BY <1>1, <1>8 DEF Activate, Turn, TypeOK, FleetTypeOK
  <2>2. e \in Named(run.build)
    <3>1. e \in Taken
      BY <2>1, TouchesConcerned
    <3> QED
      BY <1>1, <2>1, <3>1 DEF RunIsOfBuild, Taken
  <2>3. \A m : Leftover(m)' = Leftover(m)
    BY <2>1, <2>2 DEF Leftover, Here
  <2>4. Answered' = Answered
    BY <2>1, RunStays DEF Answered
  <2> QED
    BY <1>1, <2>1, <2>3, <2>4 DEF Retired
<1>9. CASE Loop
  <2>1. /\ UNCHANGED <<run, holds, skipped, held>> /\ Answered' = Answered
    BY <1>9, LoopPhases, RunStays DEF Answered
  <2>2. phase' = "preflight" => \A m \in Answered : Leftover(m) \subseteq holds
    BY <1>1, <1>9, LoopPhases DEF Retired
  <2>3. (phase' = "retire" /\ run.retire) => \A m \in Answered : Leftover(m) \subseteq todo'
    BY <1>1, <1>9, LoopPhases, WorkOf DEF Retired
  <2>4. (phase' \in PastRetire /\ run.retire) => \A m \in Answered : Leftover(m) = {}
    BY <1>1, <1>9, LoopPhases DEF Retired
  <2>5. phase' # "ask"
    BY <1>9, LoopPhases
  <2> QED
    BY <1>4, <2>1, <2>2, <2>3, <2>4, <2>5 DEF Retired
<1>10. CASE \/ \E m \in Machines : Preflight(m) \/ Unseal(m)
            \/ \E v \in Values, m \in Machines : Seal(v, m) \/ Write(v, m)
            \/ \E v \in Values, e \in Entries : Restart(v, e)
  <2>1. UNCHANGED <<phase, run, holds, skipped, held>> /\ phase \notin {"ask", "retire"}
    BY <1>10 DEF Preflight, Unseal, Seal, Write, Restart, Turn, fleet, machines
  <2>2. Answered' = Answered
    BY <2>1, RunStays DEF Answered
  <2> QED
    BY <1>1, <1>4, <2>1, <2>2 DEF Retired
<1> QED
  BY <1>1, <1>2, <1>3, <1>5, <1>6, <1>7, <1>8, <1>9, <1>10, StepKinds

-----------------------------------------------------------------------------
(* What a run has activated stays in place until it ends.                  *)

LEMMA NextActivated ==
  ASSUME OrderInv, [Next]_vars
  PROVE  Activated'
<1>1. TypeOK /\ Activated
  BY DEF OrderInv, OpenInv
<1> USE DEF PastActivate
<1>2. CASE Ended \/ Began
  BY <1>2 DEF Ended, Began, Activated
<1>3. ASSUME NEW e \in Entries, Activate(e) PROVE Activated'
  <2>1. /\ UNCHANGED <<phase, run>> /\ phase = "activate" /\ todo' = todo \ {e}
        /\ held' = [held EXCEPT ![e] = Artifact[run.build][e]]
    BY <1>3 DEF Activate, Turn, Done
  <2>2. InPlace(e)' /\ \A f \in Entries : InPlace(f) => InPlace(f)'
    BY <1>1, <2>1 DEF InPlace, TypeOK, FleetTypeOK
  <2>3. Taken' = Taken /\ Taken \subseteq Entries
    BY <1>1, <2>1, RunStays DEF Taken, TypeOK
  <2> QED
    BY <1>1, <2>1, <2>2, <2>3 DEF Activated
<1>4. CASE Loop
  <2>1. /\ UNCHANGED <<run, held>> /\ Taken' = Taken
        /\ phase' = "activate" => todo' = Taken
    BY <1>4, LoopPhases, RunStays, WorkOf
  <2>2. phase' \in PastActivate => \A e \in Taken : InPlace(e)
    BY <1>1, <1>4, LoopPhases DEF Activated
  <2> QED
    BY <2>1, <2>2 DEF Activated, InPlace
<1>5. CASE \/ Aside
           \/ \E m \in Machines : Ask(m) \/ Preflight(m) \/ Unseal(m)
           \/ \E e \in Entries : Retire(e)
           \/ \E v \in Values, m \in Machines : Seal(v, m) \/ Write(v, m)
           \/ \E v \in Values, e \in Entries : Restart(v, e)
  <2>1. /\ UNCHANGED <<phase, run>>
        /\ phase \in {"activate", "restart", "done"} => UNCHANGED held
        /\ phase = "activate" => UNCHANGED todo
    BY <1>5 DEF Aside, Ask, Preflight, Unseal, Retire, Seal, Write, Restart, Turn, fleet, machines
  <2>2. Taken' = Taken
    BY <2>1, RunStays
  <2> QED
    BY <1>1, <2>1, <2>2 DEF Activated, InPlace
<1> QED
  BY <1>1, <1>2, <1>3, <1>4, <1>5, StepKinds

-----------------------------------------------------------------------------
(* What a run has written stays written until it ends, on every machine    *)
(* that keeps copies and on every other that does not reboot.              *)

LEMMA ArrivedStays ==
  ASSUME NEW v \in Values, NEW m \in Machines, Arrived(v, m),
         run' = run, sealed'[m][v] = sealed[m][v], unsealer \subseteq unsealer',
         rebooted \subseteq rebooted',
         plain'[m][v] = plain[m][v] \/ plain'[m][v] = run.bytes[v]
           \/ (plain'[m] = Restored(m) /\ m \in rebooted')
  PROVE  Arrived(v, m)'
<1>1. CASE m \in Sealing
  BY <1>1 DEF Arrived, Restored
<1>2. CASE m \notin Sealing
  BY <1>2 DEF Arrived
<1> QED
  BY <1>1, <1>2

LEMMA WroteStays ==
  ASSUME Wrote, UNCHANGED <<phase, run>>, phase = "write" => UNCHANGED todo,
         \A v \in Values, m \in Machines : Arrived(v, m) => Arrived(v, m)'
  PROVE  Wrote'
BY RunStays DEF Wrote, PastWrite

LEMMA WritesArrive ==
  ASSUME OrderInv, NEW v \in Values, NEW m \in Machines, Write(v, m)
  PROVE  Arrived(v, m)'
<1>1. TypeOK /\ SealInv /\ OpenInv
  BY DEF OrderInv, OpenInv
<1>2. /\ UNCHANGED <<run, sealed, unsealer>> /\ phase = "write" /\ IsNext(<<v, m>>)
      /\ plain' = [plain EXCEPT ![m][v] = run.bytes[v]] /\ (m \in Sealing => half)
  BY DEF Write, Turn, IsNext
<1>3. plain'[m][v] = run.bytes[v]
  BY <1>1, <1>2 DEF TypeOK, FleetTypeOK
<1>4. m \in Sealing => sealed[m][v] = run.bytes[v]
  <2> SUFFICES ASSUME m \in Sealing PROVE sealed[m][v] = run.bytes[v]
    OBVIOUS
  <2>1. PICK w \in Values, n \in Sealing : IsNext(<<w, n>>) /\ sealed[n][w] = run.bytes[w]
    BY <1>1, <1>2 DEF SealInv, HalfWritten
  <2>2. <<w, n>> = <<v, m>>
    BY <1>2, <2>1, NextIsOne, FleetAssumption
  <2> QED
    BY <2>1, <2>2
<1>5. m \in Sealing => m \in unsealer
  <2>1. m \in Written
    BY <1>1, <1>2 DEF OpenInv, Unsealed, Written, IsNext
  <2> QED
    BY <1>1, <1>2, <2>1 DEF OpenInv, Unsealed
<1> QED
  BY <1>2, <1>3, <1>4, <1>5 DEF Arrived

LEMMA NextWrote ==
  ASSUME OrderInv, [Next]_vars
  PROVE  Wrote'
<1>1. TypeOK /\ Wrote
  BY DEF OrderInv, OpenInv
<1> USE DEF PastWrite
<1>2. CASE Ended \/ Began
  BY <1>2 DEF Ended, Began, Wrote
<1>3. ASSUME NEW v \in Values, NEW m \in Machines, Write(v, m) PROVE Wrote'
  <2>1. /\ UNCHANGED <<phase, run, sealed, unsealer, rebooted>> /\ phase = "write"
        /\ todo' = todo \ {<<v, m>>}
        /\ \A w \in Values, n \in Machines :
             <<w, n>> # <<v, m>> => plain'[n][w] = plain[n][w]
    BY <1>1, <1>3 DEF Write, Turn, Done, TypeOK, FleetTypeOK
  <2>2. \A w \in Values, n \in Machines :
          (<<w, n>> # <<v, m>> /\ Arrived(w, n)) => Arrived(w, n)'
    BY <2>1 DEF Arrived
  <2>3. Arrived(v, m)' /\ Planned' = Planned
    BY <1>3, <2>1, WritesArrive, RunStays
  <2> QED
    BY <1>1, <2>1, <2>2, <2>3 DEF Wrote
<1>4. ASSUME NEW v \in Values, NEW m \in Machines, Seal(v, m) PROVE Wrote'
  <2>1. /\ UNCHANGED <<phase, run, todo, plain, unsealer, rebooted>> /\ phase = "write"
        /\ sealed' = [sealed EXCEPT ![m][v] = run.bytes[v]]
    BY <1>4 DEF Seal, Turn
  <2>2. \A w \in Values, n \in Machines : Arrived(w, n) => Arrived(w, n)'
    BY <1>1, <2>1 DEF Arrived, TypeOK, FleetTypeOK
  <2> QED
    BY <1>1, <2>1, <2>2, WroteStays
<1>5. CASE Loop
  <2>1. /\ UNCHANGED <<run, plain, sealed, unsealer, rebooted>> /\ Planned' = Planned
        /\ phase' = "write" => todo' = Planned
    BY <1>5, LoopPhases, RunStays, WorkOf
  <2>2. phase' \in PastWrite =>
          \A v \in Values, m \in Machines : <<v, m>> \in Planned => Arrived(v, m)
    BY <1>1, <1>5, LoopPhases DEF Wrote
  <2> QED
    BY <2>1, <2>2 DEF Wrote, Arrived
<1>6. ASSUME NEW m \in Machines, RebootNow(m), phase # "idle" PROVE Wrote'
  <2>1. /\ UNCHANGED <<phase, run, todo, sealed, unsealer>>
        /\ plain' = [plain EXCEPT ![m] = Restored(m)] /\ rebooted' = rebooted \cup {m}
    BY <1>6 DEF RebootNow, Reboot
  <2>2. \A w \in Values, n \in Machines : Arrived(w, n) => Arrived(w, n)'
    <3> SUFFICES ASSUME NEW w \in Values, NEW n \in Machines, Arrived(w, n)
                 PROVE  Arrived(w, n)'
      OBVIOUS
    <3>1. plain'[n] = IF n = m THEN Restored(m) ELSE plain[n]
      BY <1>1, <2>1 DEF TypeOK, FleetTypeOK
    <3> QED
      BY <2>1, <3>1, ArrivedStays
  <2> QED
    BY <1>1, <2>1, <2>2, WroteStays
<1>7. CASE \/ \E m \in Machines : Ask(m) \/ Preflight(m) \/ Unseal(m)
           \/ \E e \in Entries : Retire(e) \/ Activate(e)
           \/ \E v \in Values, e \in Entries : Restart(v, e)
           \/ World /\ UNCHANGED operator
           \/ UNCHANGED vars
  <2>1. /\ UNCHANGED <<phase, run, plain, sealed, rebooted>> /\ unsealer \subseteq unsealer'
        /\ phase = "write" => UNCHANGED todo
    <3>1. CASE World /\ UNCHANGED operator
      BY <3>1 DEF World, Rotate, Publish, Repair, Cut, Mend, Stop, StartByHand, machines, operator
    <3>2. CASE UNCHANGED vars
      BY <3>2 DEF vars, fleet, machines, operator
    <3>3. CASE \/ \E m \in Machines : Ask(m) \/ Preflight(m) \/ Unseal(m)
               \/ \E e \in Entries : Retire(e) \/ Activate(e)
               \/ \E v \in Values, e \in Entries : Restart(v, e)
      BY <3>3 DEF Ask, Preflight, Unseal, Retire, Activate, Restart, Turn, fleet, machines
    <3> QED
      BY <1>7, <3>1, <3>2, <3>3
  <2>2. \A w \in Values, n \in Machines : Arrived(w, n) => Arrived(w, n)'
    BY <2>1 DEF Arrived
  <2> QED
    BY <1>1, <2>1, <2>2, WroteStays
<1>8. ASSUME NEW m \in Machines, RebootNow(m), phase = "idle" PROVE Wrote'
  BY <1>8 DEF RebootNow, Wrote
<1>9. CASE \E retire \in BOOLEAN : BeginWhole(retire) \/ BeginOnly(retire)
  BY <1>9 DEF BeginWhole, BeginOnly, Begin, Wrote
<1>10. CASE Return \/ RefuseUnfit \/ Unreachable \/ Break \/ \E e \in Entries : BreakAttach(e)
  BY <1>10 DEF Return, RefuseUnfit, Unreachable, Break, BreakAttach, Forget, Wrote
<1> QED
  BY <1>3, <1>4, <1>5, <1>6, <1>7, <1>8, <1>9, <1>10 DEF Next, Unrestricted, Step

-----------------------------------------------------------------------------
LEMMA InitOrderInv == Init => OrderInv
<1> SUFFICES ASSUME Init PROVE OrderInv
  OBVIOUS
<1>1. SealInv /\ OpenInv
  BY InitSealInv, InitOpenInv
<1>2. phase = "idle" /\ holds = {}
  BY DEF Init
<1> QED
  BY <1>1, <1>2 DEF OrderInv, TodoIsWork, RunIsOfBuild, Verified, Retired, Activated, Wrote,
                    After, PastRetire, PastPreflight, PastWrite, PastActivate

LEMMA NextOrderInv == OrderInv /\ [Next]_vars => OrderInv'
<1> SUFFICES ASSUME OrderInv, [Next]_vars PROVE OrderInv'
  OBVIOUS
<1>1. SealInv' /\ OpenInv'
  BY NextSealInv, NextOpenInv DEF OrderInv
<1> QED
  BY <1>1, NextTodoIsWork, NextRunIsOfBuild, NextVerified, NextRetired, NextActivated, NextWrote
     DEF OrderInv

(* The one kind of step that puts an artifact in place is a turn of the    *)
(* loop that activates.                                                    *)
LEMMA ActivationIsTurn ==
  ASSUME TypeOK, [Next]_vars, NEW e \in Entries, phase = "activate", held'[e] # held[e]
  PROVE  /\ e \in todo /\ \A other \in todo \ {e} : At[run.build][e] < At[run.build][other]
<1>1. ASSUME NEW f \in Entries, Activate(f) \/ BreakAttach(f)
      PROVE  /\ Turn("activate", f, On[f])
             /\ \A g \in Entries \ {f} : held'[g] = held[g]
  BY <1>1 DEF Activate, BreakAttach, TypeOK, FleetTypeOK
<1>2. PICK f \in Entries : Activate(f) \/ BreakAttach(f)
  <2>1. CASE \/ Return \/ RefuseUnfit \/ Unreachable \/ Break \/ Loop
             \/ \E retire \in BOOLEAN : BeginWhole(retire) \/ BeginOnly(retire)
             \/ UNCHANGED vars
    BY <2>1 DEF Return, RefuseUnfit, Unreachable, Break, Loop, BeginWhole, BeginOnly, Begin,
                vars, fleet, machines
  <2>2. CASE World
    BY <2>2 DEF World, Rotate, Publish, Repair, Cut, Mend, Stop, StartByHand, machines
  <2>3. CASE \/ \E n \in Machines : Ask(n) \/ Preflight(n) \/ Unseal(n) \/ RebootNow(n)
             \/ \E v \in Values, n \in Machines : Seal(v, n) \/ Write(v, n)
             \/ \E v \in Values, f \in Entries : Restart(v, f)
             \/ \E f \in Entries : Retire(f)
    BY <2>3 DEF Ask, Preflight, Unseal, RebootNow, Reboot, Seal, Write, Restart, Retire, Turn,
                fleet, machines
  <2> QED
    BY <2>1, <2>2, <2>3 DEF Next, Unrestricted, Step
<1>3. e = f
  BY <1>1, <1>2
<1> QED
  BY <1>1, <1>2, <1>3 DEF Turn, Earlier

(* A machine whose account fails the preflight has nothing put on it and   *)
(* nothing taken off it by any step of a run: no artifact, no value, no    *)
(* copy, no unsealer and no restart.                                       *)
THEOREM UnfitMachinesAreLeft == Spec => UnfitIsUntouched
<1> DEFINE Left ==
      (operator' # operator /\ ~\E m \in Machines : Reboot(m)) =>
        \A m \in UserScope \ fit : Untouched(m)
<1>1. OrderInv /\ [Next]_vars => [Left]_vars
  BY UnfitStaysUntouched
<1>2. Spec => [][Left]_vars
  BY <1>1, InitOrderInv, NextOrderInv, PTL DEF Spec
<1> QED
  BY <1>2 DEF UnfitIsUntouched

(* In a run asked to retire, nothing is activated on a machine that        *)
(* answered while it holds what the build does not name.                   *)
THEOREM RetiredBeforeActivated == Spec => RetiresBeforeActivating
<1> DEFINE Rid == \A e \in Entries :
       (phase = "activate" /\ run.retire /\ held'[e] # held[e] /\ On[e] \notin skipped) =>
         \A f \in Here(On[e]) \ Named(run.build) : held[f] = 0
<1>1. OrderInv /\ [Next]_vars => [Rid]_vars
  <2> SUFFICES ASSUME OrderInv, [Next]_vars, NEW e \in Entries, phase = "activate", run.retire,
                      held'[e] # held[e], On[e] \notin skipped
               PROVE  \A f \in Here(On[e]) \ Named(run.build) : held[f] = 0
    OBVIOUS
  <2>1. e \in todo
    BY ActivationIsTurn DEF OrderInv, OpenInv
  <2>2. On[e] \in Answered
    BY <2>1, TouchesConcerned DEF Answered
  <2> QED
    BY <2>2 DEF OrderInv, Retired, PastRetire, Leftover
<1>2. Spec => [][Rid]_vars
  BY <1>1, InitOrderInv, NextOrderInv, PTL DEF Spec
<1> QED
  BY <1>2 DEF RetiresBeforeActivating

(* An entry is activated only after every entry that the walk puts before  *)
(* it: a run that is cut off leaves one boundary.                          *)
THEOREM BoundaryIsOne == Spec => OneBoundary
<1> DEFINE Cleared == \A e \in Entries :
       (phase = "activate" /\ held'[e] # held[e]) =>
         \A f \in Taken : At[run.build][f] < At[run.build][e]
                            => held[f] = Artifact[run.build][f]
<1>1. OrderInv /\ [Next]_vars => [Cleared]_vars
  <2> SUFFICES ASSUME OrderInv, [Next]_vars, NEW e \in Entries, phase = "activate",
                      held'[e] # held[e], NEW f \in Taken, At[run.build][f] < At[run.build][e]
               PROVE  held[f] = Artifact[run.build][f]
    OBVIOUS
  <2>1. TypeOK /\ f \in Entries /\ run.build \in Builds
    BY DEF OrderInv, OpenInv, TypeOK, Taken
  <2>2. At[run.build][f] \in Nat /\ At[run.build][e] \in Nat
    BY <2>1, WalkAssumption
  <2>3. e \in todo /\ \A other \in todo \ {e} : At[run.build][e] < At[run.build][other]
    BY <2>1, ActivationIsTurn
  <2>4. f \notin todo
    BY <2>2, <2>3
  <2> QED
    BY <2>4 DEF OrderInv, Activated, InPlace
<1>2. Spec => [][Cleared]_vars
  BY <1>1, InitOrderInv, NextOrderInv, PTL DEF Spec
<1> QED
  BY <1>2 DEF OneBoundary

(* An artifact is put in place only where every value its units open is    *)
(* the run's own, unless the machine lost it to a reboot.                  *)
THEOREM ActivatedOnItsValues == Spec => ActivatesOnItsValues
<1> DEFINE Fresh == \A e \in Entries :
       (phase = "activate" /\ held'[e] # held[e] /\ held'[e] # 0) =>
         \A v \in Reads[e] : \/ plain[On[e]][v] = run.bytes[v]
                             \/ On[e] \in rebooted \ Sealing
<1>1. OrderInv /\ [Next]_vars => [Fresh]_vars
  <2> SUFFICES ASSUME OrderInv, [Next]_vars, NEW e \in Entries, phase = "activate",
                      held'[e] # held[e], NEW v \in Reads[e]
               PROVE  plain[On[e]][v] = run.bytes[v] \/ On[e] \in rebooted \ Sealing
    OBVIOUS
  <2>1. v \in Values /\ On[e] \in Machines /\ On[e] \in Delivery[v]
    BY FleetAssumption
  <2>2. e \in Taken
    BY ActivationIsTurn, TouchesConcerned DEF OrderInv, OpenInv
  <2>3. On[e] \in MachinesOf(run.keys)
    BY <2>2 DEF Taken, MachinesOf
  <2>4. <<v, On[e]>> \in Planned
    BY <2>1, <2>3 DEF Planned
  <2> QED
    BY <2>1, <2>4 DEF OrderInv, Wrote, PastWrite, Arrived
<1>2. Spec => [][Fresh]_vars
  BY <1>1, InitOrderInv, NextOrderInv, PTL DEF Spec
<1> QED
  BY <1>2 DEF ActivatesOnItsValues

(* A run that reaches its end has put its own artifact and its own bytes   *)
(* everywhere it was answerable for.                                       *)
THEOREM CompletedRunsLeave == Spec => []CompletedRunLeaves
<1>1. OrderInv => CompletedRunLeaves
  <2> SUFFICES ASSUME OrderInv, phase = "done"
               PROVE  /\ \A e \in Taken : held[e] = Artifact[run.build][e]
                      /\ \A w \in Planned :
                           plain[w[2]][w[1]] = run.bytes[w[1]] \/ w[2] \in rebooted \ Sealing
    BY DEF CompletedRunLeaves
  <2>1. \A e \in Taken : held[e] = Artifact[run.build][e]
    BY DEF OrderInv, Activated, PastActivate, InPlace
  <2>2. ASSUME NEW w \in Planned
        PROVE  plain[w[2]][w[1]] = run.bytes[w[1]] \/ w[2] \in rebooted \ Sealing
    <3>1. w[1] \in Values /\ w[2] \in Machines /\ w = <<w[1], w[2]>>
      BY DEF Planned
    <3> QED
      BY <3>1 DEF OrderInv, Wrote, PastWrite, Arrived
  <2> QED
    BY <2>1, <2>2
<1> QED
  BY <1>1, InitOrderInv, NextOrderInv, PTL DEF Spec

-----------------------------------------------------------------------------
(* Why a completed run reaches its readers.  An entry that the run found   *)
(* on the bytes of its file falls behind them only by a write of this run, *)
(* and then the pair is among those that moved; the last loop goes through *)
(* every reader of those, and what it restarts opens the file again.       *)

Stale(e, v) == opened[e][v] # plain[On[e]][v]

Followed ==
  /\ phase # "idle" => \A e \in running \ run.behind : \A v \in Reads[e] :
       Stale(e, v) => <<v, On[e]>> \in moved
  /\ phase = "restart" => \A e \in (Taken \cap running) \ run.behind : \A v \in Reads[e] :
       Stale(e, v) => <<v, e>> \in todo

ReachInv == TypeOK /\ Followed /\ ReachesReaders

(* A process that is started opens the bytes that are there. *)
LEMMA StartedIsFresh ==
  ASSUME TypeOK, NEW e \in Entries, Started(e), UNCHANGED plain
  PROVE  /\ e \in running' => \A v \in Reads[e] : ~Stale(e, v)'
         /\ \A f \in Entries \ {e} : /\ opened'[f] = opened[f]
                                     /\ f \in running' <=> f \in running
<1>1. \A f \in Entries \ {e} : opened'[f] = opened[f] /\ (f \in running' <=> f \in running)
  BY DEF Started, TypeOK, FleetTypeOK
<1>2. ASSUME e \in running', NEW v \in Reads[e] PROVE ~Stale(e, v)'
  <2>1. Starts(e, plain[On[e]])
    BY <1>2 DEF Started
  <2>2. opened'[e] = Opening(e, plain[On[e]])
    BY <2>1 DEF Started, TypeOK, FleetTypeOK
  <2>3. v \in Values
    BY FleetAssumption
  <2> QED
    BY <2>2, <2>3 DEF Opening, Stale
<1> QED
  BY <1>1, <1>2

(* A step within a loop: whoever is behind its file afterwards was so      *)
(* before, or has just had it written; and the last loop keeps it.         *)
LEMMA FollowsOn ==
  ASSUME ReachInv, TypeOK', UNCHANGED <<phase, run>>, moved \subseteq moved',
         \A e \in running' : \A v \in Reads[e] : Stale(e, v)' =>
           \/ e \in running /\ Stale(e, v)
           \/ phase \notin {"restart", "done"} /\ <<v, On[e]>> \in moved',
         phase = "restart" => \A e \in running' : \A v \in Reads[e] :
           Stale(e, v)' /\ <<v, e>> \in todo => <<v, e>> \in todo'
  PROVE  ReachInv'
<1>1. Taken' = Taken /\ Taken \subseteq Entries
  BY DEF Taken, ReachInv, TypeOK
<1>2. ASSUME phase # "idle", NEW e \in running' \ run.behind, NEW v \in Reads[e], Stale(e, v)'
      PROVE  <<v, On[e]>> \in moved'
  BY <1>2 DEF ReachInv, Followed
<1>3. ASSUME phase = "restart", NEW e \in (Taken \cap running') \ run.behind, NEW v \in Reads[e],
             Stale(e, v)'
      PROVE  <<v, e>> \in todo'
  <2>1. e \in running /\ Stale(e, v)
    BY <1>3
  <2>2. <<v, e>> \in todo
    BY <1>3, <2>1 DEF ReachInv, Followed
  <2> QED
    BY <1>3, <2>2
<1>4. ASSUME phase = "done", NEW e \in (Taken \cap running') \ run.behind, NEW v \in Reads[e]
      PROVE  ~Stale(e, v)'
  <2> SUFFICES ASSUME Stale(e, v)' PROVE FALSE
    OBVIOUS
  <2>1. e \in running /\ Stale(e, v)
    BY <1>4
  <2> QED
    BY <1>4, <2>1 DEF ReachInv, ReachesReaders, Stale
<1>5. Followed'
  BY <1>1, <1>2, <1>3 DEF Followed
<1>6. ReachesReaders'
  BY <1>1, <1>4 DEF ReachesReaders, Stale
<1> QED
  BY <1>5, <1>6 DEF ReachInv

(* A step that leaves files and processes alone, or that ends the run.     *)
LEMMA QuietReachInv ==
  ASSUME ReachInv, TypeOK', UNCHANGED <<plain, running, opened, phase, run, moved>>,
         phase = "restart" => UNCHANGED todo
  PROVE  ReachInv'
<1>1. \A e, v : Stale(e, v)' <=> Stale(e, v)
  BY DEF Stale
<1> QED
  BY <1>1, FollowsOn

LEMMA EndReachInv ==
  ASSUME TypeOK', phase' = "idle"
  PROVE  ReachInv'
BY DEF ReachInv, Followed, ReachesReaders

LEMMA BeginReachInv ==
  ASSUME ReachInv, TypeOK', NEW keys \in SUBSET Entries, NEW wanted \in SUBSET Values,
         NEW retire \in BOOLEAN, Begin(keys, wanted, retire)
  PROVE  ReachInv'
<1>1. /\ UNCHANGED <<plain, running, opened>> /\ phase' = "ask" /\ run'.behind = Behind
  BY DEF Begin, fleet, machines
<1>2. \A e \in running \ Behind : \A v \in Reads[e] : ~Stale(e, v)
  BY DEF Behind, Stale
<1>3. \A e, v : Stale(e, v)' <=> Stale(e, v)
  BY <1>1 DEF Stale
<1> QED
  BY <1>1, <1>2, <1>3 DEF ReachInv, Followed, ReachesReaders

LEMMA LoopReachInv ==
  ASSUME ReachInv, TypeOK', Loop
  PROVE  ReachInv'
<1>1. /\ UNCHANGED <<plain, running, opened, run, moved>> /\ phase # "idle"
      /\ todo = {} /\ todo' = Work(phase')
      /\ phase' = "done" => phase = "restart"
  BY DEF Loop, Looping, After, fleet, machines
<1>2. Taken' = Taken /\ Taken \subseteq Entries
  BY <1>1 DEF Taken, ReachInv, TypeOK
<1>3. \A e, v : Stale(e, v)' <=> Stale(e, v)
  BY <1>1 DEF Stale
<1>4. ASSUME phase' = "restart", NEW e \in (Taken \cap running) \ run.behind, NEW v \in Reads[e],
             Stale(e, v)
      PROVE  <<v, e>> \in todo'
  <2>1. v \in Values /\ <<v, On[e]>> \in moved
    BY <1>1, <1>2, <1>4, FleetAssumption DEF ReachInv, Followed
  <2>2. <<v, e>> \in Rotations
    BY <1>4, <2>1 DEF Rotations
  <2> QED
    BY <1>1, <1>4, <2>2 DEF Work
<1>5. Followed'
  BY <1>1, <1>2, <1>3, <1>4 DEF ReachInv, Followed
<1>6. ReachesReaders'
  <2> SUFFICES ASSUME phase' = "done", NEW e \in (Taken \cap running) \ run.behind,
                      NEW v \in Reads[e]
               PROVE  ~Stale(e, v)
    BY <1>1, <1>2, <1>3 DEF ReachesReaders, Stale
  <2> QED
    BY <1>1 DEF ReachInv, Followed
<1> QED
  BY <1>5, <1>6 DEF ReachInv

LEMMA WriteReachInv ==
  ASSUME ReachInv, TypeOK', NEW v \in Values, NEW m \in Machines, Write(v, m)
  PROVE  ReachInv'
<1>1. /\ phase = "write" /\ UNCHANGED <<running, opened, phase, run>>
      /\ plain' = [plain EXCEPT ![m][v] = run.bytes[v]]
      /\ moved' = IF plain[m][v] # run.bytes[v] THEN moved \cup {<<v, m>>} ELSE moved
  BY DEF Write, Turn
<1>2. \A n \in Machines : \A w \in Values :
        plain'[n][w] = IF n = m /\ w = v THEN run.bytes[v] ELSE plain[n][w]
  BY <1>1 DEF ReachInv, TypeOK, FleetTypeOK
<1>3. ASSUME NEW e \in running', NEW w \in Reads[e], Stale(e, w)'
      PROVE  Stale(e, w) \/ <<w, On[e]>> \in moved'
  <2>1. w \in Values /\ On[e] \in Machines
    BY <1>1, FleetAssumption DEF ReachInv, TypeOK, FleetTypeOK
  <2>2. CASE On[e] = m /\ w = v /\ plain[m][v] # run.bytes[v]
    BY <1>1, <2>2
  <2>3. CASE plain'[On[e]][w] = plain[On[e]][w]
    BY <1>1, <1>3, <2>3 DEF Stale
  <2> QED
    BY <1>2, <2>1, <2>2, <2>3
<1>4. moved \subseteq moved'
  BY <1>1
<1> QED
  BY <1>1, <1>3, <1>4, FollowsOn

(* What a step does to one process: it is gone, or it opened what is there.*)
Renewed(e) ==
  /\ e \in running' => \A v \in Reads[e] : ~Stale(e, v)'
  /\ \A f \in Entries \ {e} : opened'[f] = opened[f] /\ (f \in running' <=> f \in running)

LEMMA RenewedReachInv ==
  ASSUME ReachInv, TypeOK', NEW e \in Entries, Renewed(e), UNCHANGED <<plain, phase, run, moved>>,
         phase = "restart" => todo \ (Values \X {e}) \subseteq todo'
  PROVE  ReachInv'
<1>1. running' \subseteq Entries
  BY DEF TypeOK, FleetTypeOK
<1>2. ASSUME NEW f \in running', NEW v \in Reads[f], Stale(f, v)'
      PROVE  f # e /\ f \in running /\ Stale(f, v)
  <2>1. f # e
    BY <1>2 DEF Renewed
  <2> QED
    BY <1>1, <1>2, <2>1 DEF Renewed, Stale
<1>3. ASSUME phase = "restart", NEW f \in running', NEW v \in Reads[f], Stale(f, v)',
             <<v, f>> \in todo
      PROVE  <<v, f>> \in todo'
  BY <1>2, <1>3
<1> QED
  BY <1>2, <1>3, FollowsOn

LEMMA ProcessReachInv ==
  ASSUME ReachInv, TypeOK', NEW e \in Entries,
         \/ Retire(e) \/ Activate(e) \/ \E v \in Values : Restart(v, e)
         \/ (Stop(e) \/ StartByHand(e)) /\ UNCHANGED operator
  PROVE  ReachInv'
<1>1. TypeOK
  BY DEF ReachInv
<1>2. ASSUME Retire(e) \/ (Stop(e) /\ UNCHANGED operator)
      PROVE  ReachInv'
  <2>1. /\ UNCHANGED <<plain, phase, run, moved>>
        /\ phase = "restart" => UNCHANGED todo
    BY <1>2 DEF Retire, Stop, Turn, operator
  <2>2. Renewed(e)
    BY <1>1, <1>2 DEF Retire, Stop, Renewed, TypeOK, FleetTypeOK
  <2> QED
    BY <2>1, <2>2, RenewedReachInv
<1>3. ASSUME StartByHand(e), UNCHANGED operator PROVE ReachInv'
  <2>1. UNCHANGED <<plain, phase, run, moved, todo>>
    BY <1>3 DEF StartByHand, operator
  <2>2. Started(e)
    BY <1>3 DEF StartByHand, Started
  <2>3. Renewed(e)
    BY <1>1, <2>1, <2>2, StartedIsFresh DEF Renewed
  <2> QED
    BY <2>1, <2>3, RenewedReachInv
<1>4. CASE Activate(e)
  <2>1. UNCHANGED <<plain, phase, run, moved>> /\ phase # "restart"
    BY <1>4 DEF Activate, Turn
  <2>2. CASE Started(e)
    <3>1. Renewed(e)
      BY <1>1, <2>1, <2>2, StartedIsFresh DEF Renewed
    <3> QED
      BY <2>1, <3>1, RenewedReachInv
  <2>3. CASE UNCHANGED <<running, opened>>
    BY <2>1, <2>3, QuietReachInv
  <2> QED
    BY <1>4, <2>2, <2>3 DEF Activate
<1>5. ASSUME NEW v \in Values, Restart(v, e) PROVE ReachInv'
  <2>1. /\ UNCHANGED <<plain, phase, run, moved>> /\ todo' = todo \ {<<v, e>>}
    BY <1>5 DEF Restart, Done
  <2>2. todo \ (Values \X {e}) \subseteq todo'
    BY <2>1
  <2>3. Renewed(e)
    <3>1. CASE e \in running
      <4>1. Started(e)
        BY <1>5, <3>1 DEF Restart
      <4> QED
        BY <1>1, <2>1, <4>1, StartedIsFresh DEF Renewed
    <3>2. CASE e \notin running
      BY <1>5, <3>2 DEF Restart, Renewed
    <3> QED
      BY <3>1, <3>2
  <2> QED
    BY <2>1, <2>2, <2>3, RenewedReachInv
<1> QED
  BY <1>2, <1>3, <1>4, <1>5

(* A reboot takes every process of the machine with the files it opened,   *)
(* and starts the entries it starts on the files it puts back.             *)
LEMMA RebootReachInv ==
  ASSUME ReachInv, TypeOK', NEW m \in Machines, RebootNow(m)
  PROVE  ReachInv'
<1>1. /\ UNCHANGED <<phase, todo, run, moved>>
      /\ plain' = [plain EXCEPT ![m] = Restored(m)]
      /\ running' = (running \ Here(m)) \cup BackUp(m)
      /\ opened' = [e \in Entries |->
                      IF e \in BackUp(m) THEN Opening(e, Restored(m))
                      ELSE IF e \in Here(m) THEN Nothing ELSE opened[e]]
  BY DEF RebootNow, Reboot
<1>2. \A n \in Machines : plain'[n] = IF n = m THEN Restored(m) ELSE plain[n]
  BY <1>1 DEF ReachInv, TypeOK, FleetTypeOK
<1>3. ASSUME NEW e \in running', NEW v \in Reads[e], Stale(e, v)'
      PROVE  e \in running /\ Stale(e, v)
  <2>1. e \in Entries /\ v \in Values /\ On[e] \in Machines
    BY FleetAssumption DEF TypeOK, FleetTypeOK
  <2>2. e \notin BackUp(m)
    <3> SUFFICES ASSUME e \in BackUp(m) PROVE FALSE
      OBVIOUS
    <3>1. On[e] = m /\ opened'[e] = Opening(e, Restored(m))
      BY <1>1, <2>1 DEF BackUp, Here
    <3>2. plain'[On[e]][v] = Restored(m)[v]
      BY <1>2, <3>1
    <3> QED
      BY <1>3, <2>1, <3>1, <3>2 DEF Opening, Stale
  <2>3. e \in running /\ On[e] # m
    BY <1>1, <2>1, <2>2 DEF Here
  <2> QED
    BY <1>1, <1>2, <1>3, <2>1, <2>2, <2>3 DEF Stale, Here
<1> QED
  BY <1>1, <1>3, FollowsOn

LEMMA InitReachInv == Init => ReachInv
<1> SUFFICES ASSUME Init PROVE ReachInv
  OBVIOUS
<1>1. TypeOK
  BY InitTypeOK
<1> QED
  BY <1>1 DEF Init, ReachInv, Followed, ReachesReaders

LEMMA NextReachInv == ReachInv /\ [Next]_vars => ReachInv'
<1> SUFFICES ASSUME ReachInv, [Next]_vars PROVE ReachInv'
  OBVIOUS
<1>1. TypeOK'
  BY NextTypeOK DEF ReachInv
<1>2. CASE \E retire \in BOOLEAN : BeginWhole(retire) \/ BeginOnly(retire)
  BY <1>1, <1>2, BeginsAreRuns, BeginReachInv DEF ReachInv
<1>3. CASE \/ \E e \in Entries : Retire(e) \/ Activate(e)
           \/ \E v \in Values, e \in Entries : Restart(v, e)
           \/ \E e \in Entries : (Stop(e) \/ StartByHand(e)) /\ UNCHANGED operator
  BY <1>1, <1>3, ProcessReachInv
<1>4. ASSUME NEW v \in Values, NEW m \in Machines, Write(v, m) PROVE ReachInv'
  BY <1>1, <1>4, WriteReachInv
<1>5. CASE Loop
  BY <1>1, <1>5, LoopReachInv
<1>6. CASE \E m \in Machines : RebootNow(m)
  BY <1>1, <1>6, RebootReachInv
<1>7. CASE Return \/ RefuseUnfit \/ Unreachable \/ Break \/ \E e \in Entries : BreakAttach(e)
  <2>1. phase' = "idle"
    BY <1>7 DEF Return, RefuseUnfit, Unreachable, Break, BreakAttach, Forget
  <2> QED
    BY <1>1, <2>1, EndReachInv
<1>8. CASE \/ \E m \in Machines : Ask(m) \/ Preflight(m) \/ Unseal(m)
           \/ \E v \in Values, m \in Machines : Seal(v, m)
  <2>1. UNCHANGED <<plain, running, opened, phase, run, moved>> /\ phase # "restart"
    BY <1>8 DEF Ask, Preflight, Unseal, Seal, Turn, fleet, machines
  <2> QED
    BY <1>1, <2>1, QuietReachInv
<1>9. CASE \/ (\/ \E v \in Values : Rotate(v)
               \/ Publish
               \/ \E m \in Machines : Repair(m) \/ Cut(m) \/ Mend(m)) /\ UNCHANGED operator
           \/ UNCHANGED vars
  <2>1. UNCHANGED <<plain, running, opened, phase, run, moved, todo>>
    BY <1>9 DEF Rotate, Publish, Repair, Cut, Mend, machines, operator, vars, fleet
  <2> QED
    BY <1>1, <2>1, QuietReachInv
<1> QED
  BY <1>2, <1>3, <1>4, <1>5, <1>6, <1>7, <1>8, <1>9 DEF Next, Unrestricted, Step, World

(* What a completed run wrote has reached every process it answers for:    *)
(* none of its entries runs on other bytes than its file holds, unless it  *)
(* already did when the run began.                                         *)
THEOREM ReadersAreReached == Spec => []ReachesReaders
<1>1. ReachInv => ReachesReaders
  BY DEF ReachInv
<1> QED
  BY InitReachInv, NextReachInv, <1>1, PTL DEF Spec
=============================================================================
