------------------------------- MODULE Report -------------------------------
(***************************************************************************)
(* `status` of src/cli/report.py, the page of src/view that serves it, and *)
(* `rollback`: questions asked one after another of machines that go on    *)
(* changing between any two of them.                                       *)
(*                                                                         *)
(* What a machine holds is a set of things, an entry and whose build of it *)
(* each: "this" is the build being reported on.                            *)
(***************************************************************************)
EXTENDS Naturals, FiniteSets

CONSTANTS
  Machines, Entries, Values, Files,  \* numbered in key order
  On,           \* [Entries -> Machines]
  RealiserOf,   \* [Entries -> Realisers]
  Named,        \* the entries the build places; the others are of earlier builds
  Realised,     \* those of them that declare a unit
  Addressed,    \* the machines that declare an address
  FilesOf,      \* [Values -> SUBSET Files]
  Delivery,     \* [Values -> SUBSET Machines]
  Sealing,      \* the machines whose record says their copies are sealed
  Reaches,      \* per machine, the published realisers that realise its scope
  Begins,       \* per entry, the entries whose image file is named <its name>_...
  MachineStates,\* the states a machine may be in
  MaxChanges    \* bound: how often the world changes a machine during a report

Realisers == {"flakelet", "image"}
Things == Entries \X {"this", "earlier"}

ASSUME ReportAssumption ==
  /\ IsFiniteSet(Entries)
  /\ On \in [Entries -> Machines]
  /\ RealiserOf \in [Entries -> Realisers]
  /\ Named \subseteq Entries /\ Realised \subseteq Named
  /\ FilesOf \in [Values -> SUBSET Files]
  /\ Delivery \in [Values -> SUBSET Machines]
  /\ Begins \in [Entries -> SUBSET Entries]
  /\ \A e \in Entries : e \in Begins[e]
  /\ MachineStates \subseteq
       [up : BOOLEAN, tool : [Realisers -> {"works", "fails", "missing"}],
        holds : SUBSET Things, shown : SUBSET Entries,
        present : SUBSET Files, copies : [Files -> {"opens", "absent", "unreadable"}],
        unsealer : BOOLEAN]

VARIABLES
  machine,   \* per machine, the state it is in
  phase,     \* the loop of `status` that is running, "idle" for none
  only,      \* what --only named, nothing for everything
  todo,      \* what the loop has left to ask
  answers,   \* the records told so far
  unasked,   \* the machines the report could not ask
  silent,    \* the machines that failed to answer some question of it (history)
  changes    \* changes the world may still make

report == <<phase, only, todo, answers, unasked, silent>>
vars == <<machine, report, changes>>

Init ==
  /\ machine \in [Machines -> MachineStates]
  /\ phase = "idle" /\ only = {} /\ todo = {} /\ answers = {}
  /\ unasked = {} /\ silent = {}
  /\ changes = MaxChanges

-----------------------------------------------------------------------------
Selected == IF only = {} THEN Named ELSE only

Asked == {On[e] : e \in Selected} \cap Addressed

ValuesOf(m) == {v \in Values : m \in Delivery[v] /\ FilesOf[v] # {}}

Work(p) ==
  CASE p = "entries"  -> Selected
    [] p = "values"   -> {m \in Asked : ValuesOf(m) # {}}
    [] p = "holdings" -> {m \in Asked : Reaches[m] # {}}
    [] OTHER          -> {}

After == [entries |-> "values", values |-> "holdings", holdings |-> "done"]

Begin(keys) ==
  /\ phase = "idle"
  /\ only' = keys
  /\ phase' = "entries"
  /\ todo' = IF keys = {} THEN Named ELSE keys
  /\ UNCHANGED <<machine, answers, unasked, silent, changes>>

(* The questions are put in key order, each when the one before is answered. *)
Turn(p, item) == phase = p /\ item \in todo /\ \A other \in todo : item <= other

-----------------------------------------------------------------------------
(* The question about one entry: how it exits, in the cases `_answered`    *)
(* tells apart.  An endpoint answers for a name it does not hold with an   *)
(* empty list or with a status of its own.                                 *)
Exits(e, s) ==
  CASE e \notin Realised                    -> {"unrealised"}
    [] e \in Realised /\ On[e] \notin Addressed -> {"undialled"}
    [] e \in Realised /\ On[e] \in Addressed /\ ~s.up -> {"unreachable"}
    [] OTHER ->
         CASE s.tool[RealiserOf[e]] = "missing" -> {"missing"}
           [] s.tool[RealiserOf[e]] = "fails"   -> {"failed"}
           [] OTHER -> IF RealiserOf[e] = "flakelet" /\ ({e} \X {"this", "earlier"}) \cap s.holds = {}
                         THEN {"failed", "answered"} ELSE {"answered"}

(* Mutant: the first image the machine lists under the entry's name.       *)
HeldFirst(e, s) ==
  LET images == {thing \in s.holds : thing[1] \in Begins[e] /\ RealiserOf[thing[1]] = "image"}
  IN IF <<e, "earlier">> \in images THEN {<<e, "earlier">>} ELSE images

(* `_held`: this build's image where it is attached, otherwise whichever   *)
(* of the images under the entry's name the listing has first.             *)
Held(e, s) ==
  LET images == {thing \in s.holds : thing[1] \in Begins[e] /\ RealiserOf[thing[1]] = "image"}
  IN IF <<e, "this">> \in images THEN {<<e, "this">>} ELSE images

(* What an endpoint's answer says of an entry; `shown` are the entries all *)
(* of whose configuration files are what this build would assemble.  Where *)
(* no image is listed the answer is the word the tool gave this build's    *)
(* image before the listing, and absence is no word, or "detached".        *)
ReadAttachment(e, s) ==
  IF Held(e, s) = {} THEN {"absent", "the tool's word"}
  ELSE {IF thing # <<e, "this">> THEN "holds another image"
        ELSE IF e \in s.shown THEN "current" ELSE "another configuration" :
          thing \in Held(e, s)}

ReadStatus(e, s) ==
  CASE RealiserOf[e] = "image"      -> ReadAttachment(e, s)
    [] RealiserOf[e] = "flakelet" /\ <<e, "this">> \in s.holds -> {"this build's units"}
    [] RealiserOf[e] = "flakelet" /\ <<e, "this">> \notin s.holds ->
         IF <<e, "earlier">> \in s.holds THEN {"other units"} ELSE {"absent"}

Verdicts(e, s, exit) ==
  CASE exit = "unrealised"  -> {"realises nothing"}
    [] exit = "undialled"   -> {"not dialled"}
    [] exit = "unreachable" -> {"unreachable"}
    [] exit = "missing"     -> {"no endpoint"}
    [] exit = "failed"      -> {"absent"}
    [] exit = "answered"    -> ReadStatus(e, s)

(* Mutant: only a machine that is unreachable counts as not asked.         *)
EndpointAnsweredIfReached(exit) == exit # "unreachable"

EndpointAnswered(exit) == exit \in {"unrealised", "failed", "answered"}

AskEntry(e) ==
  /\ Turn("entries", e)
  /\ todo' = todo \ {e}
  /\ \E exit \in Exits(e, machine[On[e]]) :
       /\ \E verdict \in Verdicts(e, machine[On[e]], exit) :
            answers' = answers \cup
              {[about |-> "entry", key |-> e, machine |-> On[e], says |-> verdict]}
       /\ IF EndpointAnswered(exit) THEN UNCHANGED unasked ELSE unasked' = unasked \cup {On[e]}
       /\ silent' = IF exit \in {"undialled", "unreachable", "missing"}
                      THEN silent \cup {On[e]} ELSE silent
  /\ UNCHANGED <<machine, phase, only, changes>>

(* An endpoint that exits well and prints what is no status of its own ends *)
(* the report in a refusal: it is a third way for a tool to fail.           *)
Misread(e) ==
  /\ Turn("entries", e)
  /\ e \in Realised /\ On[e] \in Addressed /\ RealiserOf[e] = "flakelet"
  /\ machine[On[e]].up /\ machine[On[e]].tool["flakelet"] = "fails"
  /\ phase' = "refused" /\ todo' = {}
  /\ UNCHANGED <<machine, only, answers, unasked, silent, changes>>

-----------------------------------------------------------------------------
(* One question about every file delivered to a machine, with the trial of *)
(* its copies in it where the record says they are sealed.  The trial may  *)
(* break, and then prints nothing.                                         *)

Present(v, s) == FilesOf[v] \subseteq s.present

(* `_verdict`: a copy that is not there is the plainer fact. *)
Verdict(words) ==
  IF "absent" \in words THEN "no copy"
  ELSE IF words \subseteq {"opens"} THEN "opens" ELSE "closed"

Seals(m, s) ==
  IF m \notin Sealing THEN {[v \in Values |-> "unasked"]}
  ELSE IF ~s.unsealer THEN {[v \in Values |-> "unchecked"]}
  ELSE {[v \in Values |-> Verdict({s.copies[f] : f \in FilesOf[v]})],
        [v \in Values |-> "unasked"]}

(* A machine that is not up answers nothing, and the report goes on. *)
AskValues(m) ==
  /\ Turn("values", m)
  /\ todo' = todo \ {m}
  /\ IF machine[m].up
       THEN /\ \E seal \in Seals(m, machine[m]) :
                 answers' = answers \cup
                   {[about |-> "value", key |-> v, machine |-> m,
                     says |-> <<Present(v, machine[m]), seal[v]>>] : v \in ValuesOf(m)}
            /\ UNCHANGED <<unasked, silent>>
       ELSE /\ unasked' = unasked \cup {m} /\ silent' = silent \cup {m}
            /\ UNCHANGED answers
  /\ UNCHANGED <<machine, phase, only, changes>>

-----------------------------------------------------------------------------
(* `holdings_of`: what the machine answers that it holds, over the         *)
(* realisers that reach it and whose tool is there.                        *)
HoldingsOf(m, s) ==
  {thing \in s.holds : RealiserOf[thing[1]] \in Reaches[m] /\ s.tool[RealiserOf[thing[1]]] = "works"}

(* Mutant: the entries of the selection claim what is held, and no other.  *)
ClaimedBySelection(thing) == thing[1] \in Selected

(* `claims`: the build places the entry, whichever build of it this is. *)
Claimed(thing) == thing[1] \in Named

(* A tool that is there and fails makes the answer one the command cannot  *)
(* read, and the report ends in a refusal.                                 *)
Readable(m, s) == \A r \in Reaches[m] : s.tool[r] # "fails"

AskHoldings(m) ==
  /\ Turn("holdings", m)
  /\ ~machine[m].up \/ Readable(m, machine[m])
  /\ todo' = todo \ {m}
  /\ IF machine[m].up
       THEN /\ answers' = answers \cup
                 {[about |-> "holding", key |-> thing, machine |-> m, says |-> "unnamed"] :
                    thing \in {t \in HoldingsOf(m, machine[m]) : ~Claimed(t)}}
            /\ UNCHANGED <<unasked, silent>>
       ELSE /\ unasked' = unasked \cup {m} /\ silent' = silent \cup {m}
            /\ UNCHANGED answers
  /\ UNCHANGED <<machine, phase, only, changes>>

Unreadable(m) ==
  /\ Turn("holdings", m)
  /\ machine[m].up /\ ~Readable(m, machine[m])
  /\ phase' = "refused" /\ todo' = {}
  /\ UNCHANGED <<machine, only, answers, unasked, silent, changes>>

Loop ==
  /\ phase \in DOMAIN After /\ todo = {}
  /\ phase' = After[phase]
  /\ todo' = Work(After[phase])
  /\ UNCHANGED <<machine, only, answers, unasked, silent, changes>>

(* How the command exits. *)
ExitStatus == IF phase = "done" /\ unasked = {} THEN 0 ELSE 1

(* The next report starts from nothing: the view keeps no answer either. *)
Return ==
  /\ phase \in {"done", "refused"}
  /\ phase' = "idle" /\ only' = {} /\ answers' = {} /\ unasked' = {} /\ silent' = {}
  /\ UNCHANGED <<machine, todo, changes>>

(* `rollback` of one flakelet entry, by whoever runs it. *)
Rollback(e) ==
  /\ changes > 0
  /\ e \in Realised /\ RealiserOf[e] = "flakelet" /\ On[e] \in Addressed
  /\ machine[On[e]].up /\ machine[On[e]].tool["flakelet"] = "works"
  /\ <<e, "this">> \in machine[On[e]].holds
  /\ machine' = [machine EXCEPT ![On[e]].holds = (@ \ {<<e, "this">>}) \cup {<<e, "earlier">>}]
  /\ changes' = changes - 1
  /\ UNCHANGED report

(* An apply, a reboot, a person or the network: a machine is in another    *)
(* state the next time it is asked.                                        *)
World(m) ==
  /\ changes > 0 /\ phase \in DOMAIN After
  /\ \E s \in MachineStates : machine' = [machine EXCEPT ![m] = s]
  /\ changes' = changes - 1
  /\ UNCHANGED report

Next ==
  \/ \E keys \in {{}} \cup {{e} : e \in Named} : Begin(keys)
  \/ \E e \in Entries : AskEntry(e) \/ Misread(e) \/ Rollback(e)
  \/ \E m \in Machines : AskValues(m) \/ AskHoldings(m) \/ Unreadable(m) \/ World(m)
  \/ Loop \/ Return

Spec == Init /\ [][Next]_vars

-----------------------------------------------------------------------------
Answers(about) == {a \in answers : a.about = about}

(* The exit status is zero exactly when every machine of the selection     *)
(* answered every question, and then every entry and every value delivered *)
(* to those machines has one answer: a machine that was silent at any of   *)
(* the three times it was asked is never passed over.                      *)
ExitZeroMeansAsked ==
  phase = "done" =>
    /\ ExitStatus = 0 <=> silent = {}
    /\ {a.key : a \in Answers("entry")} = Selected
    /\ Cardinality(Answers("entry")) = Cardinality(Selected)
    /\ ExitStatus = 0 =>
         \A m \in {On[e] : e \in Selected \cap Realised} : \A v \in ValuesOf(m) :
           \E a \in Answers("value") : a.key = v /\ a.machine = m

True(a, s) ==
  CASE a.about = "entry" ->
         /\ a.says = "absent" =>
              \/ s.tool[RealiserOf[a.key]] = "fails"
              \/ \A thing \in s.holds : thing[1] # a.key
         /\ a.says = "the tool's word" => \A thing \in s.holds : thing[1] # a.key
         /\ a.says = "current" => <<a.key, "this">> \in s.holds /\ a.key \in s.shown
         /\ a.says = "this build's units" <=>
              /\ <<a.key, "this">> \in s.holds
              /\ a.key \in Realised /\ On[a.key] \in Addressed
              /\ RealiserOf[a.key] = "flakelet"
              /\ s.up /\ s.tool["flakelet"] = "works"
         /\ a.says = "holds another image" =>
              /\ <<a.key, "this">> \notin s.holds
              /\ \E thing \in s.holds : thing[1] \in Begins[a.key]
    [] a.about = "value" ->
         /\ a.says[1] <=> \A f \in FilesOf[a.key] : f \in s.present
         /\ a.says[2] = "opens" =>
              s.unsealer /\ \A f \in FilesOf[a.key] : s.copies[f] = "opens"
    [] a.about = "holding" -> a.key \in s.holds /\ s.up

(* Every answer is true of its machine at the moment it was asked, and of  *)
(* nothing the report was not told: absence comes from an endpoint that    *)
(* answered, `current` from this build's image with this build's files.    *)
AnswersAreTrue ==
  [][\A a \in answers' \ answers : machine[a.machine].up => True(a, machine[a.machine])]_vars

(* A restriction bounds the machines that are asked and decides nothing    *)
(* about what counts as unnamed: no machine outside the selection is       *)
(* questioned, no entry of the build is an orphan, and everything else an  *)
(* asked machine holds is listed.                                          *)
OnlyBoundsMachines ==
  [][\A m \in Machines : (phase = "holdings" /\ todo' = todo \ {m} /\ m \in todo) =>
       /\ m \in {On[e] : e \in Selected}
       /\ (machine[m].up /\ Readable(m, machine[m])) =>
            \A thing \in machine[m].holds :
              (\E a \in answers' : a.about = "holding" /\ a.machine = m /\ a.key = thing)
                <=> /\ thing[1] \notin Named
                    /\ RealiserOf[thing[1]] \in Reaches[m]
                    /\ machine[m].tool[RealiserOf[thing[1]]] = "works"]_vars

(* "`absent` is an endpoint's own answer and nothing else gives it"        *)
(* (src/docs/operator.md:625): nothing that is held is reported absent.    *)
AbsentIsNotHeld ==
  [][\A a \in answers' \ answers :
       (a.about = "entry" /\ a.says = "absent") =>
         \A thing \in machine[a.machine].holds : thing[1] # a.key]_vars
=============================================================================
