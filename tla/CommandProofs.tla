---------------------------- MODULE CommandProofs ----------------------------
(***************************************************************************)
(* What Command promises of every record, of every value source and of     *)
(* every selection: a fault in them is met before a machine is changed,    *)
(* an invite leaves the files of one minting, and never spoils a source.   *)
(***************************************************************************)
EXTENDS Command, TLAPS

-----------------------------------------------------------------------------
(* Why nothing is refused half way.  What the run decided before it        *)
(* dialled, and what it asked of the plan before its first change, is all  *)
(* that the later steps need of the record.                                *)

Decided ==
  /\ \A e \in Taken : Diallable(e)
  /\ \A e \in Keys : record.entries[e].reads # "unknown"
  /\ \A m \in WrittenTo : MachineOf(record, m) /\ MachineAddress(record, m)

Scoped == \A m \in TakenOn \cup WrittenTo : MachineScope(record, m)

Dialling == {"asking", "verifying"} \cup Mutating

RefusalInv ==
  /\ changed \in BOOLEAN
  /\ phase \in {"idle", "reading", "preparing"} => held = {}
  /\ phase \in Dialling => Decided /\ held \subseteq TakenOn
  /\ phase = "asking" => todo \subseteq TakenOn
  /\ phase \in Dialling \ {"asking"} => Scoped
  /\ phase \in Mutating => todo \subseteq Items(phase)
  /\ changed => phase \in Mutating \cup {"returned", "broken"}

(* The two ways the code collects the machines written to agree. *)
LEMMA WrittenIsWrittenTo == WrittenTo = Written(record, Goes)
<1> DEFINE paths == Required(record, DOMAIN Goes)
<1>1. Written(record, Goes) = UNION {Goes[path[1]] : path \in paths}
  BY DEF Written
<1>2. ASSUME NEW m \in WrittenTo PROVE \E path \in paths : m \in Goes[path[1]]
  <2>1. PICK path \in paths : \E write \in {path} \X Goes[path[1]] : m = write[2]
    BY DEF WrittenTo, Writes
  <2> QED
    BY <2>1
<1>3. ASSUME NEW path \in paths, NEW m \in Goes[path[1]] PROVE m \in WrittenTo
  <2>1. <<path, m>> \in Writes
    BY DEF Writes
  <2>2. <<path, m>>[2] = m
    OBVIOUS
  <2> QED
    BY <2>1, <2>2 DEF WrittenTo
<1> QED
  BY <1>1, <1>2, <1>3

LEMMA SealingIsWritten == Sealing(record, Goes) \subseteq WrittenTo
BY WrittenIsWrittenTo DEF Sealing

(* A run decides from the record and its own flags, which stay.            *)
LEMMA DecisionsStay ==
  ASSUME UNCHANGED <<record, run>>
  PROVE  /\ Taken' = Taken /\ TakenOn' = TakenOn /\ WrittenTo' = WrittenTo
         /\ Goes' = Goes
         /\ Decided' <=> Decided
         /\ Scoped' <=> Scoped
<1>1. Keys' = Keys /\ Named' = Named
  BY DEF Keys, Named
<1>2. Taken' = Taken
  BY <1>1 DEF Taken
<1>3. TakenOn' = TakenOn
  BY <1>2 DEF TakenOn
<1>4. Goes' = Goes
  BY <1>1 DEF Goes
<1>5. WrittenTo' = WrittenTo
  BY <1>4 DEF WrittenTo, Writes
<1>6. \A e : Diallable(e)' <=> Diallable(e)
  BY DEF Diallable
<1>7. Decided' <=> Decided
  BY <1>1, <1>2, <1>5, <1>6 DEF Decided
<1>8. Scoped' <=> Scoped
  BY <1>3, <1>5 DEF Scoped
<1> QED
  BY <1>2, <1>3, <1>4, <1>5, <1>7, <1>8

(* `Prepared` is enough for every later question to the record.            *)
LEMMA PreparedDecides ==
  ASSUME NEW program, Prepared(program)
  PROVE  Decided
BY WrittenIsWrittenTo DEF Prepared, Decided, Seals, Walkable

LEMMA EverythingIsFit ==
  ASSUME RefusalInv, phase \in Mutating, NEW item \in todo
  PROVE  Fit(phase, item)
<1>1. Decided /\ Scoped /\ held \subseteq TakenOn /\ item \in Items(phase)
  BY DEF RefusalInv, Dialling, Mutating
<1>2. CASE phase = "retiring"
  BY <1>1, <1>2 DEF Items, Scoped, Fit
<1>3. CASE phase = "unsealing"
  BY <1>1, <1>3, SealingIsWritten DEF Items, Scoped, Decided, Fit
<1>4. CASE phase = "writing"
  BY <1>1, <1>4 DEF Items, Scoped, Decided, Fit
<1>5. CASE phase = "activating"
  <2>1. item \in Taken /\ Diallable(item)
    BY <1>1, <1>5 DEF Items, Decided
  <2>2. Declared(record, item)
    BY <2>1 DEF Diallable, Activation
  <2> QED
    BY <1>5, <2>1, <2>2 DEF Diallable, Fit
<1>6. CASE phase = "restarting"
  BY <1>1, <1>6 DEF Items, Decided, Taken, Fit
<1> QED
  BY <1>2, <1>3, <1>4, <1>5, <1>6 DEF Mutating

LEMMA InitRefusalInv == Init => RefusalInv
BY DEF Init, RefusalInv, Dialling, Mutating

(* The steps that neither dial nor change a machine.                       *)
LEMMA QuietRefusalInv ==
  ASSUME RefusalInv, changed' = FALSE, phase' \notin Dialling,
         phase' \in {"idle", "reading", "preparing"} => held' = {}
  PROVE  RefusalInv'
BY DEF RefusalInv, Dialling, Mutating

LEMMA NextRefusalInv == RefusalInv /\ [Next]_vars => RefusalInv'
<1> SUFFICES ASSUME RefusalInv, [Next]_vars PROVE RefusalInv'
  OBVIOUS
<1>1. ASSUME NEW invocation \in Invocations, Invoke(invocation) PROVE RefusalInv'
  BY <1>1, QuietRefusalInv DEF Invoke, RefusalInv, Dialling, Mutating
<1>2. ASSUME NEW target \in Targets, Read(target) PROVE RefusalInv'
  BY <1>2, QuietRefusalInv DEF Read, RefusalInv, Dialling, Mutating
<1>3. CASE Show
  BY <1>3, QuietRefusalInv DEF Show, RefusalInv, Dialling, Mutating
<1>4. ASSUME NEW program \in Programs, Prepare(program) PROVE RefusalInv'
  <2>1. CASE ~Prepared(program)
    BY <1>4, <2>1, QuietRefusalInv DEF Prepare, RefusalInv, Dialling, Mutating
  <2>2. CASE Prepared(program)
    <3>1. Decided' /\ TakenOn' = TakenOn
      BY <1>4, <2>2, PreparedDecides, DecisionsStay DEF Prepare
    <3> QED
      BY <1>4, <2>2, <3>1 DEF Prepare, RefusalInv, Dialling, Mutating
  <2> QED
    BY <2>1, <2>2
<1>5. ASSUME NEW m \in Machines, Unreadable(m) \/ Scopeless(m) PROVE RefusalInv'
  BY <1>5, QuietRefusalInv DEF Unreadable, Scopeless, RefusalInv, Dialling, Mutating
<1>6. ASSUME NEW m \in Machines, Ask(m) PROVE RefusalInv'
  <2>1. /\ UNCHANGED <<record, run, changed>> /\ phase = "asking"
        /\ phase' \in {"asking", "refused"}
        /\ m \in todo /\ todo' = todo \ {m} /\ held' \subseteq held \cup {m}
    BY <1>6 DEF Ask
  <2>2. (Decided' <=> Decided) /\ TakenOn' = TakenOn
    BY <2>1, DecisionsStay
  <2> QED
    BY <2>1, <2>2 DEF RefusalInv, Dialling, Mutating
<1>7. CASE Question
  <2>1. UNCHANGED <<record, run, held, changed>> /\ phase = "asking"
    BY <1>7 DEF Question
  <2>2. (Decided' <=> Decided) /\ (Scoped' <=> Scoped) /\ TakenOn' = TakenOn
    BY <2>1, DecisionsStay
  <2>3. CASE Scoped
    <3>1. phase' = "verifying"
      BY <1>7, <2>3 DEF Question, Scoped
    <3> QED
      BY <2>1, <2>2, <2>3, <3>1 DEF RefusalInv, Dialling, Mutating
  <2>4. CASE ~Scoped
    <3>1. phase' = "refused"
      BY <1>7, <2>4 DEF Question, Scoped
    <3> QED
      BY <2>1, <3>1, QuietRefusalInv DEF RefusalInv, Dialling, Mutating
  <2> QED
    BY <2>3, <2>4
<1>8. ASSUME NEW m \in Machines, Preflight(m) PROVE RefusalInv'
  <2>1. /\ UNCHANGED <<record, run, held, changed>> /\ phase = "verifying"
        /\ phase' \in {"verifying", "refused"}
    BY <1>8 DEF Preflight
  <2>2. (Decided' <=> Decided) /\ (Scoped' <=> Scoped) /\ TakenOn' = TakenOn
    BY <2>1, DecisionsStay
  <2> QED
    BY <2>1, <2>2 DEF RefusalInv, Dialling, Mutating
<1>9. CASE Loop
  <2>1. /\ UNCHANGED <<record, run, held, changed>>
        /\ phase \in DOMAIN After /\ phase' = After[phase] /\ todo' = Items(After[phase])
    BY <1>9 DEF Loop
  <2>2. (Decided' <=> Decided) /\ (Scoped' <=> Scoped) /\ TakenOn' = TakenOn
    BY <2>1, DecisionsStay
  <2>3. todo' = Items(phase)'
    BY <2>1, DecisionsStay DEF Items
  <2>4. /\ phase \in Dialling \ {"asking"}
        /\ phase' \in Mutating \cup {"returned"}
    BY <2>1 DEF After, Dialling, Mutating
  <2> QED
    BY <2>1, <2>2, <2>3, <2>4 DEF RefusalInv, Dialling, Mutating
<1>10. ASSUME NEW item \in todo, Change(item) PROVE RefusalInv'
  <2>1. Fit(phase, item)
    BY <1>10, EverythingIsFit DEF Change
  <2>2. /\ UNCHANGED <<record, run, held, phase>> /\ phase \in Mutating
        /\ todo' \subseteq todo /\ changed' \in BOOLEAN
    BY <1>10, <2>1 DEF Change
  <2>3. (Decided' <=> Decided) /\ (Scoped' <=> Scoped) /\ TakenOn' = TakenOn
    BY <2>2, DecisionsStay
  <2>4. Items(phase)' = Items(phase)
    BY <2>2, DecisionsStay DEF Items
  <2> QED
    BY <2>2, <2>3, <2>4 DEF RefusalInv, Dialling, Mutating
<1>11. CASE Break
  BY <1>11 DEF Break, RefusalInv, Dialling, Mutating
<1>12. CASE Address
  <2>1. changed = FALSE
    BY <1>12 DEF Address, RefusalInv, Mutating
  <2>2. changed' = FALSE
    BY <1>12, <2>1 DEF Address
  <2>3. phase' \in {"refused", "minting", "coordinating"}
    BY <1>12, Zenon DEF Address
  <2> QED
    BY <2>2, <2>3, QuietRefusalInv DEF Dialling, Mutating
<1>13. CASE Coordinate
  <2>1. changed = FALSE
    BY <1>13 DEF Coordinate, RefusalInv, Mutating
  <2>2. phase' = "refused" => changed' = FALSE
    BY <1>13, <2>1 DEF Coordinate
  <2>3. phase' \in {"refused", "returned"} /\ changed' \in BOOLEAN
    BY <1>13, <2>1 DEF Coordinate
  <2> QED
    BY <2>2, <2>3 DEF RefusalInv, Dialling, Mutating
<1>14. CASE \/ NotHeld \/ AnswerLost \/ Filled \/ Interrupt \/ Return
            \/ \E item \in todo : Fill(item)
            \/ phase = "minting" /\ \E wrote \in SUBSET (Declares \cup {"stray"}) : Mint(wrote)
  <2>1. changed' = FALSE /\ phase' \in {"idle", "filling", "returned", "refused", "broken"}
    BY <1>14 DEF NotHeld, AnswerLost, Filled, Interrupt, Return, Fill, Mint, RefusalInv, Mutating
  <2>2. phase' = "idle" => held' = {}
    BY <1>14 DEF NotHeld, AnswerLost, Filled, Interrupt, Return, Fill, Mint
  <2> QED
    BY <2>1, <2>2, QuietRefusalInv DEF Dialling, Mutating
<1>15. CASE UNCHANGED vars
  <2>1. UNCHANGED <<record, run, held, phase, todo, changed>>
    BY <1>15 DEF vars
  <2>2. (Decided' <=> Decided) /\ (Scoped' <=> Scoped) /\ TakenOn' = TakenOn
    BY <2>1, DecisionsStay
  <2>3. Items(phase)' = Items(phase)
    BY <2>1, DecisionsStay DEF Items
  <2> QED
    BY <2>1, <2>2, <2>3 DEF RefusalInv, Dialling, Mutating
<1> QED
  BY <1>1, <1>2, <1>3, <1>4, <1>5, <1>6, <1>7, <1>8, <1>9, <1>10, <1>11, <1>12, <1>13, <1>14,
     <1>15
     DEF Next

(* A run refused for a fault of the record or of the source has changed no *)
(* machine, whatever the record and the source are.                        *)
THEOREM FaultsAreMetFirst == Spec => []RefusedUnchanged
<1>1. RefusalInv => RefusedUnchanged
  BY DEF RefusalInv, RefusedUnchanged, Mutating
<1> QED
  BY <1>1, InitRefusalInv, NextRefusalInv, PTL DEF Spec

-----------------------------------------------------------------------------
(* What a credential leaves in the source.                                 *)

Minted(file) ==
  <<Credential, file>> \in DOMAIN source.at /\ source.at[<<Credential, file>>] = minted

Untouched == {"reading", "preparing", "minting", "coordinating", "refused"} \cup Dialling

MintInv ==
  /\ DOMAIN source = {"named", "directory", "at"}
  /\ phase \in Untouched => source.at = before
  /\ phase \in Dialling => run.verb = "apply"
  /\ phase = "coordinating" => run.verb # "invite"
  /\ phase = "filling" => \A file \in Declares \ todo : Minted(file)
  /\ (phase = "returned" /\ run.verb = "invite") => \A file \in Declares : Minted(file)

(* The one step that writes to the source writes one file of the credential. *)
LEMMA FillWrites ==
  ASSUME NEW file, Fill(file), DOMAIN source = {"named", "directory", "at"}
  PROVE  /\ DOMAIN source' = DOMAIN source
         /\ source'.named = source.named /\ source'.directory = source.directory
         /\ DOMAIN source'.at = DOMAIN source.at \cup {<<Credential, file>>}
         /\ Minted(file)'
         /\ \A other : Minted(other) => Minted(other)'
<1> DEFINE new == [path \in DOMAIN source.at \cup {<<Credential, file>>} |->
                     IF path = <<Credential, file>> THEN minted ELSE source.at[path]]
<1>1. source' = [source EXCEPT !.at = new]
  BY DEF Fill
<1>2. Credential' = Credential /\ minted' = minted
  BY DEF Fill, Credential
<1>3. source'.at = new
  BY <1>1
<1>4. /\ DOMAIN source' = DOMAIN source
      /\ source'.named = source.named /\ source'.directory = source.directory
  BY <1>1
<1>5. DOMAIN source'.at = DOMAIN source.at \cup {<<Credential, file>>}
  BY <1>3
<1>6. Minted(file)'
  BY <1>2, <1>3 DEF Minted
<1>7. ASSUME NEW other, Minted(other) PROVE Minted(other)'
  BY <1>2, <1>3, <1>7 DEF Minted
<1> QED
  BY <1>4, <1>5, <1>6, <1>7

LEMMA MintedStays ==
  ASSUME UNCHANGED <<record, source, minted>>
  PROVE  Declares' = Declares /\ \A file : Minted(file)' <=> Minted(file)
BY DEF Declares, Credential, Minted

LEMMA InitMintInv == Init => MintInv
BY SourcesAssumption DEF Init, MintInv, Untouched, Dialling, Mutating

LEMMA NextMintInv == MintInv /\ [Next]_vars => MintInv'
<1> SUFFICES ASSUME MintInv, [Next]_vars PROVE MintInv'
  OBVIOUS
<1> USE DEF Untouched, Dialling, Mutating
<1>1. ASSUME NEW invocation \in Invocations, Invoke(invocation) PROVE MintInv'
  BY <1>1 DEF Invoke, MintInv
<1>2. ASSUME NEW target \in Targets, Read(target) PROVE MintInv'
  BY <1>2 DEF Read, MintInv
<1>3. CASE Show
  BY <1>3 DEF Show, MintInv
<1>4. ASSUME NEW program \in Programs, Prepare(program) PROVE MintInv'
  BY <1>4 DEF Prepare, MintInv
<1>5. ASSUME NEW m \in Machines, Ask(m) \/ Unreadable(m) \/ Scopeless(m) \/ Preflight(m)
      PROVE MintInv'
  <2>1. /\ UNCHANGED <<source, run, before>> /\ phase \in {"asking", "verifying"}
        /\ phase' \in {phase, "refused"}
    BY <1>5 DEF Ask, Unreadable, Scopeless, Preflight
  <2> QED
    BY <2>1 DEF MintInv
<1>6. CASE Question
  BY <1>6 DEF Question, MintInv
<1>7. CASE Loop
  <2>1. /\ UNCHANGED <<source, run, before>>
        /\ phase \in Dialling \ {"asking"} /\ phase' \in Mutating \cup {"returned"}
    BY <1>7 DEF Loop, After
  <2> QED
    BY <2>1 DEF MintInv
<1>8. ASSUME NEW item \in todo, Change(item) PROVE MintInv'
  BY <1>8 DEF Change, MintInv
<1>9. CASE Break \/ NotHeld \/ AnswerLost \/ Interrupt \/ Return
  BY <1>9 DEF Break, NotHeld, AnswerLost, Interrupt, Return, MintInv
<1>10. CASE Address
  <2>1. /\ UNCHANGED <<source, run, before>> /\ phase = "preparing"
        /\ phase' \in {"refused", "minting", "coordinating"}
    BY <1>10, Zenon DEF Address
  <2>2. phase' = "coordinating" => run.verb # "invite"
    <3>1. PICK registered :
            phase' = IF registered \/ ~Coordinated \/ (run.verb = "invite" /\ ~Mintable)
                       THEN "refused"
                     ELSE IF run.verb = "invite" THEN "minting" ELSE "coordinating"
      BY <1>10, Zenon DEF Address
    <3> QED
      BY <3>1
  <2> QED
    BY <2>1, <2>2 DEF MintInv
<1>11. CASE Coordinate
  BY <1>11 DEF Coordinate, MintInv
<1>12. CASE phase = "minting" /\ \E wrote \in SUBSET (Declares \cup {"stray"}) : Mint(wrote)
  <2>1. PICK wrote : Mint(wrote)
    BY <1>12
  <2>2. CASE ~Whole(wrote)
    BY <2>1, <2>2 DEF Mint, MintInv
  <2>3. CASE Whole(wrote)
    <3>1. /\ UNCHANGED source /\ phase' = "filling" /\ todo' = Declares /\ Declares' = Declares
      BY <2>1, <2>3 DEF Mint, Whole, Declares, Credential
    <3> QED
      BY <3>1 DEF MintInv
  <2> QED
    BY <2>2, <2>3
<1>13. ASSUME NEW file \in todo, Fill(file) PROVE MintInv'
  <2>1. DOMAIN source' = {"named", "directory", "at"} /\ phase = "filling" /\ phase' = phase
    BY <1>13, FillWrites DEF Fill, MintInv
  <2>2. Declares' = Declares /\ todo' = todo \ {file}
    BY <1>13 DEF Fill, Declares, Credential
  <2>3. \A other \in Declares \ todo : Minted(other)'
    BY <1>13, <2>1, FillWrites DEF MintInv
  <2>4. Minted(file)'
    BY <1>13, FillWrites DEF MintInv
  <2> QED
    BY <2>1, <2>2, <2>3, <2>4 DEF MintInv
<1>14. CASE Filled
  <2>1. Declares' = Declares /\ \A file : Minted(file)' <=> Minted(file)
    BY <1>14, MintedStays DEF Filled
  <2> QED
    BY <1>14, <2>1 DEF Filled, MintInv
<1>15. CASE UNCHANGED vars
  <2>1. Declares' = Declares /\ \A file : Minted(file)' <=> Minted(file)
    BY <1>15, MintedStays DEF vars
  <2> QED
    BY <1>15, <2>1 DEF vars, MintInv
<1> QED
  BY <1>1, <1>2, <1>3, <1>4, <1>5, <1>6, <1>7, <1>8, <1>9, <1>10, <1>11, <1>12, <1>13, <1>14,
     <1>15
     DEF Next

(* An invite that returns leaves every file of the minting it made; one    *)
(* the command refuses leaves the source as it was.                        *)
THEOREM InvitesAreWhole == Spec => []CompletedMint
<1>1. MintInv => CompletedMint
  BY DEF MintInv, CompletedMint, Minted, Untouched
<1> QED
  BY <1>1, InitMintInv, NextMintInv, PTL DEF Spec

(* A credential no machine receives never makes of a source that `apply`   *)
(* takes one that it refuses.                                              *)
THEOREM InvitesKeepSources == Spec => InviteKeepsSourceFit
<1> DEFINE Kept == (/\ Credential \in DOMAIN record.values
                    /\ record.values[Credential].delivery = {}
                    /\ Check(record, source, Delivered(record)))
                      => Check(record, source', Delivered(record))
<1>1. MintInv /\ [Next]_vars => [Kept]_source
  <2> SUFFICES ASSUME MintInv, [Next]_vars, source' # source,
                      record.values[Credential].delivery = {},
                      Check(record, source, Delivered(record))
               PROVE  Check(record, source', Delivered(record))
    OBVIOUS
  <2>1. PICK file \in todo : Fill(file)
    BY DEF Next, vars, Invoke, Read, Show, Prepare, Ask, Unreadable, Scopeless, Preflight,
           Question, Loop, Change, Break, Address, Coordinate, NotHeld, Mint, AnswerLost,
           Filled, Interrupt, Return
  <2>2. /\ source'.named = source.named /\ source'.directory = source.directory
        /\ DOMAIN source'.at = DOMAIN source.at \cup {<<Credential, file>>}
    BY <2>1, FillWrites DEF MintInv
  <2>3. Credential \notin Delivered(record)
    BY DEF Delivered
  <2>4. <<Credential, file>>[1] = Credential
    OBVIOUS
  <2>5. Held(source', Delivered(record)) = Held(source, Delivered(record))
    BY <2>2, <2>3, <2>4 DEF Held
  <2> QED
    BY <2>2, <2>5 DEF Check
<1>2. Spec => [][Kept]_source
  BY <1>1, InitMintInv, NextMintInv, PTL DEF Spec
<1> QED
  BY <1>2 DEF InviteKeepsSourceFit
=============================================================================
