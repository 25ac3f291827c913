---------------------------- MODULE ReportProofs ----------------------------
(***************************************************************************)
(* What `status` promises of every deployment and of machines in every     *)
(* state, however they change while they are being asked.                  *)
(***************************************************************************)
EXTENDS Report, FiniteSetTheorems, TLAPS

Telling == {"entries", "values", "holdings", "done"}

States ==
  [up : BOOLEAN, tool : [Realisers -> {"works", "fails", "missing"}],
   holds : SUBSET Things, shown : SUBSET Entries,
   present : SUBSET Files, copies : [Files -> {"opens", "absent", "unreadable"}],
   unsealer : BOOLEAN]

(* What a loop of the report has not asked yet, by what it goes through.   *)
LeftOf(p) == IF phase = p THEN todo ELSE {}

Typed ==
  /\ machine \in [Machines -> States]
  /\ only \subseteq Named
  /\ phase \in {"idle", "refused"} \cup Telling
  /\ phase = "idle" => answers = {} /\ unasked = {}

TodoIsWork ==
  /\ phase = "entries" => todo \subseteq Selected
  /\ phase = "values" => todo \subseteq {m \in Asked : ValuesOf(m) # {}}
  /\ phase = "holdings" => todo \subseteq {m \in Asked : Reaches[m] # {}}

(* Every entry asked about has one answer, and a machine that cannot be    *)
(* dialled is among those that were not asked.                             *)
EntriesTold ==
  LET asked == Selected \ LeftOf("entries") IN
  /\ \A a \in Answers("entry") : a.key \in asked
  /\ \A a, b \in Answers("entry") : a.key = b.key => a = b
  /\ \A e \in asked : \E a \in Answers("entry") : a.key = e
  /\ \A e \in asked \cap Realised : On[e] \in Addressed \/ On[e] \in unasked

ValueTold(m, v) == \E a \in Answers("value") : a.key = v /\ a.machine = m
ValuesTold ==
  \A m \in Asked \ LeftOf("values") : m \in unasked \/ \A v \in ValuesOf(m) : ValueTold(m, v)

(* No machine's holdings are told before it is asked for them.             *)
HoldingsUntold ==
  /\ phase \in {"entries", "values"} => Answers("holding") = {}
  /\ \A a \in Answers("holding") : a.machine \notin LeftOf("holdings")

ReportInv ==
  /\ Typed /\ unasked = silent /\ TodoIsWork
  /\ phase \in Telling => EntriesTold
  /\ phase \in {"values", "holdings", "done"} => ValuesTold
  /\ HoldingsUntold

-----------------------------------------------------------------------------
LEMMA SelectedAreEntries ==
  ASSUME Typed
  PROVE  Selected \subseteq Named /\ Selected \subseteq Entries
BY ReportAssumption DEF Typed, Selected

(* A question is put to the machine of an entry, and moves nothing but     *)
(* what the report has been told.                                          *)
LEMMA AskEntryTells ==
  ASSUME NEW e \in Entries, AskEntry(e)
  PROVE  \E exit \in Exits(e, machine[On[e]]) : \E verdict \in Verdicts(e, machine[On[e]], exit) :
           /\ phase = "entries" /\ e \in todo /\ todo' = todo \ {e}
           /\ answers' = answers \cup
                {[about |-> "entry", key |-> e, machine |-> On[e], says |-> verdict]}
           /\ unasked' = IF EndpointAnswered(exit) THEN unasked ELSE unasked \cup {On[e]}
           /\ silent' = IF exit \in {"undialled", "unreachable", "missing"}
                          THEN silent \cup {On[e]} ELSE silent
           /\ UNCHANGED <<machine, phase, only>>
BY DEF AskEntry, Turn

LEMMA ExitsAre ==
  ASSUME NEW e, NEW s, NEW exit \in Exits(e, s)
  PROVE  /\ exit \in {"unrealised", "undialled", "unreachable", "missing", "failed", "answered"}
         /\ EndpointAnswered(exit) <=> exit \notin {"undialled", "unreachable", "missing"}
         /\ e \notin Realised <=> exit = "unrealised"
         /\ (e \in Realised /\ On[e] \notin Addressed) <=> exit = "undialled"
<1>1. CASE e \notin Realised
  BY <1>1 DEF Exits, EndpointAnswered
<1>2. CASE e \in Realised /\ On[e] \notin Addressed
  BY <1>2 DEF Exits, EndpointAnswered
<1>3. CASE e \in Realised /\ On[e] \in Addressed /\ ~s.up
  BY <1>3 DEF Exits, EndpointAnswered
<1>4. CASE e \in Realised /\ On[e] \in Addressed /\ s.up
  <2>1. exit \in {"missing", "failed", "answered"}
    <3>1. Exits(e, s) = CASE s.tool[RealiserOf[e]] = "missing" -> {"missing"}
                          [] s.tool[RealiserOf[e]] = "fails"   -> {"failed"}
                          [] OTHER -> IF RealiserOf[e] = "flakelet"
                                           /\ ({e} \X {"this", "earlier"}) \cap s.holds = {}
                                        THEN {"failed", "answered"} ELSE {"answered"}
      BY <1>4 DEF Exits
    <3>2. CASE s.tool[RealiserOf[e]] = "missing"
      BY <3>1, <3>2
    <3>3. CASE s.tool[RealiserOf[e]] = "fails"
      BY <3>1, <3>3
    <3>4. CASE s.tool[RealiserOf[e]] \notin {"missing", "fails"}
      BY <3>1, <3>4
    <3> QED
      BY <3>2, <3>3, <3>4
  <2> QED
    BY <1>4, <2>1 DEF EndpointAnswered
<1> QED
  BY <1>1, <1>2, <1>3, <1>4

-----------------------------------------------------------------------------
LEMMA InitReportInv == Init => ReportInv
<1> SUFFICES ASSUME Init PROVE ReportInv
  OBVIOUS
<1>1. machine \in [Machines -> States]
  BY ReportAssumption DEF Init, States
<1> QED
  BY <1>1 DEF Init, ReportInv, Typed, TodoIsWork, HoldingsUntold, Answers, LeftOf, Telling

LEMMA BeginReportInv ==
  ASSUME ReportInv, NEW keys, keys = {} \/ \E e \in Named : keys = {e}, Begin(keys)
  PROVE  ReportInv'
<1>1. /\ phase = "idle" /\ phase' = "entries" /\ only' = keys
      /\ UNCHANGED <<machine, answers, unasked, silent>>
      /\ todo' = Selected' /\ answers = {}
  BY DEF Begin, Selected, ReportInv, Typed
<1>2. Typed' /\ TodoIsWork' /\ HoldingsUntold'
  BY <1>1 DEF ReportInv, Typed, TodoIsWork, HoldingsUntold, Answers, Telling
<1>3. LeftOf("entries")' = Selected' /\ Answers("entry")' = {}
  BY <1>1 DEF LeftOf, Answers
<1>4. EntriesTold'
  BY <1>3 DEF EntriesTold
<1> QED
  BY <1>1, <1>2, <1>4 DEF ReportInv

LEMMA AskEntryReportInv ==
  ASSUME ReportInv, NEW e \in Entries, AskEntry(e)
  PROVE  ReportInv'
<1>1. PICK exit \in Exits(e, machine[On[e]]) :
        \E verdict \in Verdicts(e, machine[On[e]], exit) :
           /\ phase = "entries" /\ e \in todo /\ todo' = todo \ {e}
           /\ answers' = answers \cup
                {[about |-> "entry", key |-> e, machine |-> On[e], says |-> verdict]}
           /\ unasked' = IF EndpointAnswered(exit) THEN unasked ELSE unasked \cup {On[e]}
           /\ silent' = IF exit \in {"undialled", "unreachable", "missing"}
                          THEN silent \cup {On[e]} ELSE silent
           /\ UNCHANGED <<machine, phase, only>>
  BY AskEntryTells
<1>2. PICK verdict \in Verdicts(e, machine[On[e]], exit) :
           answers' = answers \cup
                {[about |-> "entry", key |-> e, machine |-> On[e], says |-> verdict]}
  BY <1>1
<1> DEFINE told == [about |-> "entry", key |-> e, machine |-> On[e], says |-> verdict]
<1>3. unasked' = silent'
  BY <1>1, ExitsAre DEF ReportInv
<1>4. /\ Answers("entry")' = Answers("entry") \cup {told}
      /\ Answers("holding")' = Answers("holding")
  BY <1>2 DEF Answers
<1>5. Typed' /\ TodoIsWork' /\ HoldingsUntold'
  BY <1>1, <1>4 DEF ReportInv, Typed, TodoIsWork, HoldingsUntold, Selected, LeftOf, Telling
<1>6. EntriesTold'
  <2>1. EntriesTold /\ e \in Selected
    BY <1>1 DEF ReportInv, TodoIsWork, Telling
  <2>2. /\ Selected' = Selected
        /\ (Selected \ LeftOf("entries"))' = (Selected \ LeftOf("entries")) \cup {e}
        /\ e \notin Selected \ LeftOf("entries")
    BY <1>1, <2>1 DEF Selected, LeftOf
  <2>3. told.key = e
    OBVIOUS
  <2>4. e \in Realised => On[e] \in Addressed \/ On[e] \in unasked'
    BY <1>1, ExitsAre
  <2>5. unasked \subseteq unasked'
    BY <1>1
  <2>6. \A a \in Answers("entry") : a.key # e
    BY <2>1, <2>2 DEF EntriesTold
  <2>7. \A a \in Answers("entry")' : a.key \in (Selected \ LeftOf("entries"))'
    BY <1>4, <2>1, <2>2, <2>3 DEF EntriesTold
  <2>8. \A a, b \in Answers("entry")' : a.key = b.key => a = b
    BY <1>4, <2>1, <2>3, <2>6 DEF EntriesTold
  <2>9. \A f \in (Selected \ LeftOf("entries"))' : \E a \in Answers("entry")' : a.key = f
    BY <1>4, <2>1, <2>2, <2>3 DEF EntriesTold
  <2>10. \A f \in (Selected \ LeftOf("entries"))' \cap Realised :
           On[f] \in Addressed \/ On[f] \in unasked'
    BY <2>1, <2>2, <2>4, <2>5 DEF EntriesTold
  <2> QED
    BY <2>7, <2>8, <2>9, <2>10 DEF EntriesTold
<1> QED
  BY <1>1, <1>3, <1>5, <1>6 DEF ReportInv

(* A question that tells nothing of entries leaves what was told of them.  *)
LEMMA EntriesStayTold ==
  ASSUME EntriesTold, UNCHANGED only, Answers("entry")' = Answers("entry"),
         LeftOf("entries")' = LeftOf("entries"), unasked \subseteq unasked'
  PROVE  EntriesTold'
<1>1. Selected' = Selected
  BY DEF Selected
<1> QED
  BY <1>1 DEF EntriesTold

LEMMA AskValuesReportInv ==
  ASSUME ReportInv, NEW m \in Machines, AskValues(m)
  PROVE  ReportInv'
<1>1. /\ phase = "values" /\ phase' = phase /\ m \in todo /\ todo' = todo \ {m}
      /\ UNCHANGED <<machine, only>>
  BY DEF AskValues, Turn
<1>2. \/ /\ unasked' = unasked \cup {m} /\ silent' = silent \cup {m} /\ UNCHANGED answers
      \/ /\ UNCHANGED <<unasked, silent>>
         /\ \E seal \in Seals(m, machine[m]) :
              answers' = answers \cup
                {[about |-> "value", key |-> v, machine |-> m,
                  says |-> <<Present(v, machine[m]), seal[v]>>] : v \in ValuesOf(m)}
  BY DEF AskValues
<1>3. /\ Answers("entry")' = Answers("entry") /\ Answers("holding")' = Answers("holding")
      /\ answers \subseteq answers'
      /\ m \in unasked' \/ \A v \in ValuesOf(m) : ValueTold(m, v)'
  <2>1. CASE unasked' = unasked \cup {m} /\ UNCHANGED answers
    BY <2>1 DEF Answers
  <2>2. ASSUME NEW seal,
               answers' = answers \cup
                {[about |-> "value", key |-> v, machine |-> m,
                  says |-> <<Present(v, machine[m]), seal[v]>>] : v \in ValuesOf(m)}
        PROVE  /\ Answers("entry")' = Answers("entry") /\ Answers("holding")' = Answers("holding")
               /\ answers \subseteq answers' /\ \A v \in ValuesOf(m) : ValueTold(m, v)'
    <3> DEFINE told(v) == [about |-> "value", key |-> v, machine |-> m,
                           says |-> <<Present(v, machine[m]), seal[v]>>]
    <3>1. \A v : told(v).about = "value" /\ told(v).key = v /\ told(v).machine = m
      OBVIOUS
    <3>2. answers' = answers \cup {told(v) : v \in ValuesOf(m)}
      BY <2>2
    <3> HIDE DEF told
    <3>3. Answers("entry")' = Answers("entry") /\ Answers("holding")' = Answers("holding")
      BY <3>1, <3>2 DEF Answers
    <3>4. \A v \in ValuesOf(m) : ValueTold(m, v)'
      BY <3>1, <3>2 DEF ValueTold, Answers
    <3> QED
      BY <3>2, <3>3, <3>4
  <2> QED
    BY <1>2, <2>1, <2>2
<1>4. Typed' /\ TodoIsWork' /\ unasked' = silent' /\ HoldingsUntold'
  BY <1>1, <1>2, <1>3 DEF ReportInv, Typed, TodoIsWork, HoldingsUntold, Selected, Asked, LeftOf,
                          Telling
<1>5. EntriesTold'
  <2>1. EntriesTold /\ LeftOf("entries")' = LeftOf("entries") /\ unasked \subseteq unasked'
    BY <1>1, <1>2 DEF ReportInv, LeftOf, Telling
  <2> QED
    BY <1>1, <1>3, <2>1, EntriesStayTold
<1>6. ValuesTold'
  <2>1. ValuesTold /\ Asked' = Asked
    BY <1>1 DEF ReportInv, Asked, Selected
  <2>2. \A n, v : ValueTold(n, v) => ValueTold(n, v)'
    BY <1>3 DEF ValueTold, Answers
  <2>3. (Asked \ LeftOf("values"))' \subseteq (Asked \ LeftOf("values")) \cup {m}
    BY <1>1, <2>1 DEF LeftOf
  <2>4. unasked \subseteq unasked'
    BY <1>2
  <2> QED
    BY <1>3, <2>1, <2>2, <2>3, <2>4 DEF ValuesTold
<1> QED
  BY <1>4, <1>5, <1>6, <1>1 DEF ReportInv

LEMMA AskHoldingsReportInv ==
  ASSUME ReportInv, NEW m \in Machines, AskHoldings(m)
  PROVE  ReportInv'
<1>1. /\ phase = "holdings" /\ phase' = phase /\ m \in todo /\ todo' = todo \ {m}
      /\ UNCHANGED <<machine, only>>
  BY DEF AskHoldings, Turn
<1>2. \/ /\ unasked' = unasked \cup {m} /\ silent' = silent \cup {m} /\ UNCHANGED answers
      \/ /\ UNCHANGED <<unasked, silent>>
         /\ answers' = answers \cup
              {[about |-> "holding", key |-> thing, machine |-> m, says |-> "unnamed"] :
                 thing \in {t \in HoldingsOf(m, machine[m]) : ~Claimed(t)}}
  BY DEF AskHoldings
<1>3. /\ Answers("entry")' = Answers("entry") /\ Answers("value")' = Answers("value")
      /\ \A a \in Answers("holding")' : a \in Answers("holding") \/ a.machine = m
  BY <1>2 DEF Answers
<1>4. Typed' /\ TodoIsWork' /\ unasked' = silent' /\ HoldingsUntold'
  BY <1>1, <1>2, <1>3 DEF ReportInv, Typed, TodoIsWork, HoldingsUntold, Selected, Asked, LeftOf,
                          Telling
<1>5. EntriesTold'
  <2>1. EntriesTold /\ LeftOf("entries")' = LeftOf("entries") /\ unasked \subseteq unasked'
    BY <1>1, <1>2 DEF ReportInv, LeftOf, Telling
  <2> QED
    BY <1>1, <1>3, <2>1, EntriesStayTold
<1>6. ValuesTold'
  <2>1. ValuesTold /\ Asked' = Asked /\ LeftOf("values")' = LeftOf("values") /\ unasked \subseteq unasked'
    BY <1>1, <1>2 DEF ReportInv, Asked, Selected, LeftOf
  <2>2. \A n, v : ValueTold(n, v)' <=> ValueTold(n, v)
    BY <1>3 DEF ValueTold
  <2> QED
    BY <2>1, <2>2 DEF ValuesTold
<1> QED
  BY <1>4, <1>5, <1>6, <1>1 DEF ReportInv

LEMMA LoopReportInv ==
  ASSUME ReportInv, Loop
  PROVE  ReportInv'
<1>1. /\ phase \in {"entries", "values", "holdings"} /\ todo = {}
      /\ phase' = After[phase] /\ todo' = Work(After[phase])
      /\ UNCHANGED <<machine, only, answers, unasked, silent>>
  BY DEF Loop, After
<1>2. /\ phase = "entries" => phase' = "values" /\ todo' = {m \in Asked : ValuesOf(m) # {}}
      /\ phase = "values" => phase' = "holdings" /\ todo' = {m \in Asked : Reaches[m] # {}}
      /\ phase = "holdings" => phase' = "done" /\ todo' = {}
  BY <1>1 DEF After, Work
<1>3. Selected' = Selected /\ Asked' = Asked
  BY <1>1 DEF Selected, Asked
<1>4. \A about : Answers(about)' = Answers(about)
  BY <1>1 DEF Answers
<1>5. Typed' /\ TodoIsWork'
  BY <1>1, <1>2, <1>3 DEF ReportInv, Typed, TodoIsWork, Telling
<1>6. HoldingsUntold'
  <2>1. phase' = "holdings" => Answers("holding") = {}
    BY <1>1, <1>2 DEF ReportInv, HoldingsUntold
  <2> QED
    BY <1>1, <1>2, <1>4, <2>1 DEF ReportInv, HoldingsUntold, LeftOf
<1>7. EntriesTold'
  <2>1. EntriesTold /\ LeftOf("entries") = {} /\ LeftOf("entries")' = {}
    BY <1>1, <1>2 DEF ReportInv, LeftOf, Telling
  <2> QED
    BY <1>1, <1>4, <2>1, EntriesStayTold
<1>8. ValuesTold'
  <2>1. \A n, v : ValueTold(n, v)' <=> ValueTold(n, v)
    BY <1>4 DEF ValueTold
  <2>2. CASE phase = "entries"
    <3>1. \A m \in (Asked \ LeftOf("values"))' : ValuesOf(m) = {}
      BY <1>1, <1>2, <1>3, <2>2 DEF LeftOf
    <3> QED
      BY <3>1 DEF ValuesTold
  <2>3. CASE phase \in {"values", "holdings"}
    <3>1. ValuesTold /\ LeftOf("values") = {} /\ LeftOf("values")' = {}
      BY <1>1, <1>2, <2>3 DEF ReportInv, LeftOf
    <3> QED
      BY <1>1, <1>3, <2>1, <3>1 DEF ValuesTold
  <2> QED
    BY <1>1, <2>2, <2>3
<1> QED
  BY <1>1, <1>5, <1>6, <1>7, <1>8 DEF ReportInv

(* The world, and a rollback, change a machine and nothing of the report.  *)
LEMMA WorldReportInv ==
  ASSUME ReportInv, UNCHANGED report, machine' \in [Machines -> States]
  PROVE  ReportInv'
<1>1. UNCHANGED <<phase, only, todo, answers, unasked, silent>>
  BY DEF report
<1>2. /\ Selected' = Selected /\ Asked' = Asked
      /\ \A about : Answers(about)' = Answers(about)
      /\ \A p : LeftOf(p)' = LeftOf(p)
  BY <1>1 DEF Selected, Asked, Answers, LeftOf
<1>3. Typed' /\ TodoIsWork' /\ HoldingsUntold'
  BY <1>1, <1>2 DEF ReportInv, Typed, TodoIsWork, HoldingsUntold
<1>4. phase \in Telling => EntriesTold'
  BY <1>1, <1>2, EntriesStayTold DEF ReportInv
<1>5. phase \in {"values", "holdings", "done"} => ValuesTold'
  BY <1>1, <1>2 DEF ReportInv, ValuesTold, ValueTold
<1> QED
  BY <1>1, <1>3, <1>4, <1>5 DEF ReportInv

LEMMA NextReportInv == ReportInv /\ [Next]_vars => ReportInv'
<1> SUFFICES ASSUME ReportInv, [Next]_vars PROVE ReportInv'
  OBVIOUS
<1>1. ASSUME NEW keys \in {{}} \cup {{e} : e \in Named}, Begin(keys) PROVE ReportInv'
  BY <1>1, BeginReportInv
<1>2. ASSUME NEW e \in Entries, AskEntry(e) PROVE ReportInv'
  BY <1>2, AskEntryReportInv
<1>3. ASSUME NEW m \in Machines, AskValues(m) \/ AskHoldings(m) PROVE ReportInv'
  BY <1>3, AskValuesReportInv, AskHoldingsReportInv
<1>4. CASE (\E e \in Entries : Misread(e)) \/ (\E m \in Machines : Unreadable(m))
  <2>1. /\ phase' = "refused" /\ todo' = {}
        /\ UNCHANGED <<machine, only, answers, unasked, silent>>
    BY <1>4 DEF Misread, Unreadable
  <2>2. HoldingsUntold'
    BY <2>1 DEF HoldingsUntold, LeftOf
  <2> QED
    BY <2>1, <2>2 DEF ReportInv, Typed, TodoIsWork, Telling
<1>5. CASE Loop
  BY <1>5, LoopReportInv
<1>6. CASE Return
  <2>1. phase' = "idle" /\ only' = {} /\ answers' = {} /\ unasked' = {} /\ silent' = {} /\ UNCHANGED machine
    BY <1>6 DEF Return
  <2> QED
    BY <2>1 DEF ReportInv, Typed, TodoIsWork, HoldingsUntold, Answers, Telling
<1>7. ASSUME NEW e \in Entries, Rollback(e) PROVE ReportInv'
  <2>1. On[e] \in Machines /\ machine \in [Machines -> States]
    BY ReportAssumption DEF ReportInv, Typed
  <2>2. machine' = [machine EXCEPT ![On[e]].holds = (@ \ {<<e, "this">>}) \cup {<<e, "earlier">>}]
    BY <1>7 DEF Rollback
  <2>3. (machine[On[e]].holds \ {<<e, "this">>}) \cup {<<e, "earlier">>} \subseteq Things
    BY <2>1 DEF States, Things
  <2> DEFINE old == machine[On[e]]
             new == [old EXCEPT !.holds = (@ \ {<<e, "this">>}) \cup {<<e, "earlier">>}]
  <2>4. new \in States
    BY <2>1, <2>3 DEF States
  <2>5. machine' = [machine EXCEPT ![On[e]] = new]
    BY <2>2
  <2> HIDE DEF new
  <2>6. machine' \in [Machines -> States]
    BY <2>1, <2>4, <2>5
  <2> QED
    BY <1>7, <2>6, WorldReportInv DEF Rollback
<1>8. ASSUME NEW m \in Machines, World(m) PROVE ReportInv'
  <2>1. machine' \in [Machines -> States]
    BY <1>8, ReportAssumption DEF World, ReportInv, Typed, States
  <2> QED
    BY <1>8, <2>1, WorldReportInv DEF World
<1>9. CASE UNCHANGED vars
  BY <1>9, WorldReportInv DEF vars, ReportInv, Typed
<1> QED
  BY <1>1, <1>2, <1>3, <1>4, <1>5, <1>6, <1>7, <1>8, <1>9 DEF Next

-----------------------------------------------------------------------------
LEMMA OneAnswerEach ==
  ASSUME ReportInv, phase = "done"
  PROVE  Cardinality(Answers("entry")) = Cardinality(Selected)
<1> DEFINE E == Answers("entry")
           key == [a \in E |-> a.key]
<1>1. EntriesTold /\ LeftOf("entries") = {}
  BY DEF ReportInv, LeftOf, Telling
<1>2. IsFiniteSet(Selected)
  BY SelectedAreEntries, ReportAssumption, FS_Subset DEF ReportInv
<1>3. /\ key \in [E -> Selected]
      /\ \A a, b \in E : key[a] = key[b] => a = b
      /\ \A e \in Selected : \E a \in E : key[a] = e
  BY <1>1 DEF EntriesTold
<1> HIDE DEF key, E
<1>4. key \in Injection(E, Selected) /\ key \in Surjection(E, Selected)
  BY <1>3 DEF Injection, Surjection, IsInjective
<1>5. Cardinality(E) = Cardinality(Selected)
  BY <1>2, <1>4, FS_Injection
<1> QED
  BY <1>5 DEF E

LEMMA ReportInvTells == ReportInv => ExitZeroMeansAsked
<1> SUFFICES ASSUME ReportInv, phase = "done"
             PROVE  /\ ExitStatus = 0 <=> silent = {}
                    /\ {a.key : a \in Answers("entry")} = Selected
                    /\ Cardinality(Answers("entry")) = Cardinality(Selected)
                    /\ ExitStatus = 0 =>
                         \A m \in {On[e] : e \in Selected \cap Realised} : \A v \in ValuesOf(m) :
                           \E a \in Answers("value") : a.key = v /\ a.machine = m
  BY DEF ExitZeroMeansAsked
<1>1. /\ EntriesTold /\ ValuesTold /\ unasked = silent
      /\ LeftOf("entries") = {} /\ LeftOf("values") = {}
  BY DEF ReportInv, LeftOf, Telling
<1>2. ExitStatus = 0 <=> unasked = {}
  BY DEF ExitStatus
<1>3. {a.key : a \in Answers("entry")} = Selected
  BY <1>1 DEF EntriesTold
<1>4. ASSUME unasked = {}, NEW e \in Selected \cap Realised, NEW v \in ValuesOf(On[e])
      PROVE  ValueTold(On[e], v)
  <2>1. On[e] \in Addressed
    BY <1>1, <1>4 DEF EntriesTold
  <2>2. On[e] \in Asked
    BY <2>1 DEF Asked
  <2> QED
    BY <1>1, <1>4, <2>2 DEF ValuesTold
<1> QED
  BY <1>1, <1>2, <1>3, <1>4, OneAnswerEach DEF ValueTold

(* A report exits zero exactly when no machine it concerns was silent, and *)
(* then it has told everything it was asked.                               *)
THEOREM ZeroMeansAsked == Spec => []ExitZeroMeansAsked
BY InitReportInv, NextReportInv, ReportInvTells, PTL DEF Spec

-----------------------------------------------------------------------------
(* Every answer is true of its machine when it is given.                   *)

LEMMA AnsweredByAWorkingTool ==
  ASSUME Typed, NEW e \in Entries, machine[On[e]].up,
         NEW exit \in Exits(e, machine[On[e]])
  PROVE  LET s == machine[On[e]] IN
         /\ exit = "answered" => /\ e \in Realised /\ On[e] \in Addressed
                                 /\ s.tool[RealiserOf[e]] = "works"
         /\ exit = "failed" => /\ s.tool[RealiserOf[e]] = "fails" \/ <<e, "this">> \notin s.holds
                               /\ \/ s.tool[RealiserOf[e]] = "fails"
                                  \/ \A thing \in s.holds : thing[1] # e
         /\ (e \in Realised /\ On[e] \in Addressed /\ s.tool[RealiserOf[e]] = "works"
               /\ <<e, "this">> \in s.holds) => exit = "answered"
<1> DEFINE s == machine[On[e]]
           r == RealiserOf[e]
           none == ({e} \X {"this", "earlier"}) \cap s.holds = {}
<1>1. s \in States /\ r \in Realisers
  BY ReportAssumption DEF Typed
<1>2. s.tool[r] \in {"works", "fails", "missing"} /\ s.holds \subseteq Things
  BY <1>1 DEF States
<1>3. none => <<e, "this">> \notin s.holds /\ \A thing \in s.holds : thing[1] # e
  BY <1>2 DEF Things
<1>4. CASE e \notin Realised
  BY <1>4 DEF Exits
<1>5. CASE e \in Realised /\ On[e] \notin Addressed
  BY <1>5 DEF Exits
<1>6. CASE e \in Realised /\ On[e] \in Addressed
  <2>1. exit \in CASE s.tool[r] = "missing" -> {"missing"}
                   [] s.tool[r] = "fails"   -> {"failed"}
                   [] OTHER -> IF r = "flakelet" /\ none THEN {"failed", "answered"} ELSE {"answered"}
    BY <1>6 DEF Exits
  <2> HIDE DEF s, r
  <2>2. CASE s.tool[r] = "missing"
    <3>1. exit = "missing"
      BY <2>1, <2>2
    <3> QED
      BY <2>2, <3>1 DEF s, r
  <2>3. CASE s.tool[r] = "fails"
    <3>1. exit = "failed"
      BY <2>1, <2>3
    <3> QED
      BY <2>3, <3>1 DEF s, r
  <2>4. CASE s.tool[r] = "works"
    <3>1. exit \in IF r = "flakelet" /\ none THEN {"failed", "answered"} ELSE {"answered"}
      BY <2>1, <2>4
    <3>2. exit \in {"failed", "answered"} /\ (exit = "failed" => none)
      BY <3>1
    <3> QED
      BY <1>3, <1>6, <2>4, <3>2 DEF s, r
  <2> QED
    BY <1>2, <2>2, <2>3, <2>4 DEF s, r
<1> QED
  BY <1>4, <1>5, <1>6

LEMMA StatusIsTrue ==
  ASSUME Typed, NEW e \in Entries, NEW verdict \in ReadStatus(e, machine[On[e]])
  PROVE  LET s == machine[On[e]] IN
         /\ verdict \in {"absent", "the tool's word"} => \A thing \in s.holds : thing[1] # e
         /\ verdict = "current" => <<e, "this">> \in s.holds /\ e \in s.shown
         /\ verdict = "this build's units" <=> <<e, "this">> \in s.holds /\ RealiserOf[e] = "flakelet"
         /\ verdict = "holds another image" =>
              <<e, "this">> \notin s.holds /\ \E thing \in s.holds : thing[1] \in Begins[e]
<1> DEFINE s == machine[On[e]]
           images == {thing \in s.holds : thing[1] \in Begins[e] /\ RealiserOf[thing[1]] = "image"}
<1>1. s.holds \subseteq Things /\ RealiserOf[e] \in Realisers /\ e \in Begins[e]
  BY ReportAssumption DEF Typed, States
<1>2. CASE RealiserOf[e] = "image"
  <2>1. verdict \in ReadAttachment(e, s)
    BY <1>2 DEF ReadStatus
  <2>2. Held(e, s) = IF <<e, "this">> \in images THEN {<<e, "this">>} ELSE images
    BY DEF Held
  <2>3. \A thing \in s.holds : thing[1] = e => thing \in images
    BY <1>1, <1>2
  <2>4. <<e, "this">>[1] = e
    OBVIOUS
  <2>5. <<e, "this">> \in s.holds <=> <<e, "this">> \in images
    BY <2>3, <2>4
  <2>6. \A thing \in images : thing \in s.holds /\ thing[1] \in Begins[e]
    OBVIOUS
  <2> HIDE DEF images, s
  <2>7. CASE Held(e, s) = {}
    <3>1. verdict \in {"absent", "the tool's word"} /\ images = {}
      BY <2>1, <2>2, <2>7 DEF ReadAttachment
    <3> QED
      BY <1>2, <2>3, <2>5, <3>1 DEF s
  <2>8. CASE Held(e, s) # {}
    <3>1. PICK thing \in Held(e, s) :
            verdict = IF thing # <<e, "this">> THEN "holds another image"
                      ELSE IF e \in s.shown THEN "current" ELSE "another configuration"
      BY <2>1, <2>8 DEF ReadAttachment
    <3>2. CASE <<e, "this">> \in images
      <4>1. thing = <<e, "this">>
        BY <2>2, <3>2
      <4>2. /\ verdict \in {"current", "another configuration"}
            /\ verdict = "current" => e \in s.shown
        BY <3>1, <4>1
      <4> QED
        BY <1>2, <2>5, <3>2, <4>2 DEF s
    <3>3. CASE <<e, "this">> \notin images
      <4>1. thing \in images
        BY <2>2, <3>3
      <4>2. verdict = "holds another image"
        BY <3>1, <3>3, <4>1
      <4> QED
        BY <1>2, <2>5, <2>6, <3>3, <4>1, <4>2 DEF s
    <3> QED
      BY <3>2, <3>3
  <2> QED
    BY <2>7, <2>8
<1>3. CASE RealiserOf[e] = "flakelet"
  <2>1. verdict \in IF <<e, "this">> \in s.holds THEN {"this build's units"}
                    ELSE IF <<e, "earlier">> \in s.holds THEN {"other units"} ELSE {"absent"}
    BY <1>3 DEF ReadStatus
  <2>2. \A thing \in s.holds : thing[1] = e => thing = <<e, "this">> \/ thing = <<e, "earlier">>
    BY <1>1 DEF Things
  <2> HIDE DEF s
  <2>3. CASE <<e, "this">> \in s.holds
    <3>1. verdict = "this build's units"
      BY <2>1, <2>3
    <3> QED
      BY <1>3, <2>3, <3>1 DEF s
  <2>4. CASE <<e, "this">> \notin s.holds
    <3>1. /\ verdict \in {"other units", "absent"}
          /\ verdict = "absent" => <<e, "earlier">> \notin s.holds
      BY <2>1, <2>4
    <3> QED
      BY <1>3, <2>2, <2>4, <3>1 DEF s
  <2> QED
    BY <2>3, <2>4
<1> QED
  BY <1>1, <1>2, <1>3 DEF Realisers

LEMMA VerdictsAreTrue ==
  ASSUME Typed, NEW e \in Entries, machine[On[e]].up,
         NEW exit \in Exits(e, machine[On[e]]), NEW verdict \in Verdicts(e, machine[On[e]], exit)
  PROVE  True([about |-> "entry", key |-> e, machine |-> On[e], says |-> verdict], machine[On[e]])
<1> DEFINE s == machine[On[e]]
           told == [about |-> "entry", key |-> e, machine |-> On[e], says |-> verdict]
<1>1. told.about = "entry" /\ told.key = e /\ told.says = verdict
  OBVIOUS
<1> HIDE DEF told
<1>2. CASE exit = "answered"
  <2>1. verdict \in ReadStatus(e, s)
    BY <1>2 DEF Verdicts
  <2>2. e \in Realised /\ On[e] \in Addressed /\ s.tool[RealiserOf[e]] = "works"
    BY <1>2, AnsweredByAWorkingTool
  <2> QED
    BY <1>1, <2>1, <2>2, StatusIsTrue DEF True, told
<1>3. CASE exit # "answered"
  <2>1. /\ exit \in {"unrealised", "undialled", "unreachable", "missing", "failed"}
        /\ verdict \in {"realises nothing", "not dialled", "unreachable", "no endpoint", "absent"}
        /\ verdict = "absent" => exit = "failed"
    BY <1>3, ExitsAre DEF Verdicts
  <2>2. verdict = "absent" => \/ s.tool[RealiserOf[e]] = "fails"
                             \/ \A thing \in s.holds : thing[1] # e
    BY <2>1, AnsweredByAWorkingTool
  <2>3. ~ (/\ <<e, "this">> \in s.holds
           /\ e \in Realised /\ On[e] \in Addressed
           /\ RealiserOf[e] = "flakelet" /\ s.tool["flakelet"] = "works")
    BY <1>3, AnsweredByAWorkingTool
  <2> QED
    BY <1>1, <2>1, <2>2, <2>3 DEF True, told
<1> QED
  BY <1>2, <1>3

LEMMA SealsAreTrue ==
  ASSUME NEW m \in Machines, NEW s, NEW seal \in Seals(m, s), NEW v \in Values, seal[v] = "opens"
  PROVE  s.unsealer /\ \A f \in FilesOf[v] : s.copies[f] = "opens"
<1>1. s.unsealer /\ seal[v] = Verdict({s.copies[f] : f \in FilesOf[v]})
  BY DEF Seals
<1>2. {s.copies[f] : f \in FilesOf[v]} \subseteq {"opens"}
  BY <1>1 DEF Verdict
<1> QED
  BY <1>1, <1>2

LEMMA ValuesAreTrue ==
  ASSUME NEW m \in Machines, NEW seal \in Seals(m, machine[m]), NEW v \in Values
  PROVE  True([about |-> "value", key |-> v, machine |-> m,
               says |-> <<Present(v, machine[m]), seal[v]>>], machine[m])
<1> DEFINE told == [about |-> "value", key |-> v, machine |-> m,
                    says |-> <<Present(v, machine[m]), seal[v]>>]
<1>1. /\ told.about = "value" /\ told.key = v
      /\ told.says[1] = Present(v, machine[m]) /\ told.says[2] = seal[v]
  OBVIOUS
<1> HIDE DEF told
<1>2. Present(v, machine[m]) <=> \A f \in FilesOf[v] : f \in machine[m].present
  BY DEF Present
<1> QED
  BY <1>1, <1>2, SealsAreTrue DEF True, told

LEMMA StepsAreTrue ==
  ASSUME ReportInv, [Next]_vars,
         NEW a \in answers' \ answers, machine[a.machine].up
  PROVE  True(a, machine[a.machine])
<1>1. ASSUME NEW e \in Entries, AskEntry(e) PROVE True(a, machine[a.machine])
  <2>1. PICK exit \in Exits(e, machine[On[e]]) :
          \E verdict \in Verdicts(e, machine[On[e]], exit) :
            answers' = answers \cup
              {[about |-> "entry", key |-> e, machine |-> On[e], says |-> verdict]}
    BY <1>1 DEF AskEntry
  <2>2. PICK verdict \in Verdicts(e, machine[On[e]], exit) :
          a = [about |-> "entry", key |-> e, machine |-> On[e], says |-> verdict]
    BY <2>1
  <2>3. a.machine = On[e]
    BY <2>2
  <2> QED
    BY <2>2, <2>3, VerdictsAreTrue DEF ReportInv
<1>2. ASSUME NEW m \in Machines, AskValues(m) PROVE True(a, machine[a.machine])
  <2>1. PICK seal \in Seals(m, machine[m]) :
          answers' = answers \cup
            {[about |-> "value", key |-> v, machine |-> m,
              says |-> <<Present(v, machine[m]), seal[v]>>] : v \in ValuesOf(m)}
    BY <1>2 DEF AskValues
  <2>2. PICK v \in ValuesOf(m) :
          a = [about |-> "value", key |-> v, machine |-> m,
               says |-> <<Present(v, machine[m]), seal[v]>>]
    BY <2>1
  <2>3. a.machine = m /\ v \in Values
    BY <2>2 DEF ValuesOf
  <2> QED
    BY <2>2, <2>3, ValuesAreTrue
<1>3. ASSUME NEW m \in Machines, AskHoldings(m) PROVE True(a, machine[a.machine])
  <2>1. PICK thing \in HoldingsOf(m, machine[m]) :
          a = [about |-> "holding", key |-> thing, machine |-> m, says |-> "unnamed"]
    BY <1>3 DEF AskHoldings
  <2>2. a.about = "holding" /\ a.key = thing /\ a.machine = m /\ thing \in machine[m].holds
    BY <2>1 DEF HoldingsOf
  <2> QED
    BY <2>2 DEF True
<1>4. CASE Return
  BY <1>4 DEF Return
<1>5. ASSUME UNCHANGED answers PROVE FALSE
  BY <1>5
<1> QED
  BY <1>1, <1>2, <1>3, <1>4, <1>5
  DEF Next, Begin, Misread, Rollback, Unreadable, World, Loop, report, vars

(* Whatever a deployment declares and whatever happens to its machines     *)
(* between two questions, an answer is true of its machine when it is given. *)
THEOREM AnswersHold == Spec => AnswersAreTrue
<1>1. ReportInv /\ [Next]_vars => [\A a \in answers' \ answers :
                                    machine[a.machine].up => True(a, machine[a.machine])]_vars
  BY StepsAreTrue
<1> QED
  BY <1>1, InitReportInv, NextReportInv, PTL DEF Spec, AnswersAreTrue

-----------------------------------------------------------------------------
(* The one step that takes a machine off the holdings loop.                *)
Bounded(m) ==
  (phase = "holdings" /\ todo' = todo \ {m} /\ m \in todo) =>
     /\ m \in {On[e] : e \in Selected}
     /\ (machine[m].up /\ Readable(m, machine[m])) =>
          \A thing \in machine[m].holds :
            (\E a \in answers' : a.about = "holding" /\ a.machine = m /\ a.key = thing)
              <=> /\ thing[1] \notin Named
                  /\ RealiserOf[thing[1]] \in Reaches[m]
                  /\ machine[m].tool[RealiserOf[thing[1]]] = "works"

LEMMA StepsAreBounded ==
  ASSUME ReportInv, [Next]_vars, NEW m \in Machines
  PROVE  Bounded(m)
<1> SUFFICES ASSUME phase = "holdings", todo' = todo \ {m}, m \in todo
             PROVE  /\ m \in {On[e] : e \in Selected}
                    /\ (machine[m].up /\ Readable(m, machine[m])) =>
                         \A thing \in machine[m].holds :
                           (\E a \in answers' :
                              a.about = "holding" /\ a.machine = m /\ a.key = thing)
                             <=> /\ thing[1] \notin Named
                                 /\ RealiserOf[thing[1]] \in Reaches[m]
                                 /\ machine[m].tool[RealiserOf[thing[1]]] = "works"
  BY DEF Bounded
<1>1. m \in {On[e] : e \in Selected}
  BY DEF ReportInv, TodoIsWork, Asked
<1>2. (\E n \in Machines : AskHoldings(n) \/ Unreadable(n))
  BY DEF Next, Begin, AskEntry, Misread, Rollback, AskValues, World, Loop, Return, report, vars,
         Turn
<1>3. PICK n \in Machines : AskHoldings(n) \/ Unreadable(n)
  BY <1>2
<1>4. CASE Unreadable(n)
  <2>1. n = m
    BY <1>4 DEF Unreadable, Turn
  <2> QED
    BY <1>1, <1>4, <2>1 DEF Unreadable
<1>5. CASE AskHoldings(n)
  <2>1. n = m
    BY <1>5 DEF AskHoldings, Turn
  <2>2. SUFFICES ASSUME machine[m].up, Readable(m, machine[m]), NEW thing \in machine[m].holds
                 PROVE  (\E a \in answers' :
                           a.about = "holding" /\ a.machine = m /\ a.key = thing)
                          <=> thing \in HoldingsOf(m, machine[m]) /\ ~Claimed(thing)
    BY <1>1 DEF HoldingsOf, Claimed
  <2> DEFINE told(t) == [about |-> "holding", key |-> t, machine |-> m, says |-> "unnamed"]
             listed == {t \in HoldingsOf(m, machine[m]) : ~Claimed(t)}
  <2>3. answers' = answers \cup {told(t) : t \in listed}
    BY <1>5, <2>1, <2>2 DEF AskHoldings
  <2>4. \A t : told(t).about = "holding" /\ told(t).machine = m /\ told(t).key = t
    OBVIOUS
  <2>5. \A a \in answers : a.about = "holding" => a.machine # m
    BY DEF ReportInv, HoldingsUntold, Answers, LeftOf
  <2> HIDE DEF told, listed
  <2>6. (\E a \in answers' : a.about = "holding" /\ a.machine = m /\ a.key = thing)
          <=> thing \in listed
    BY <2>3, <2>4, <2>5
  <2> QED
    BY <2>6 DEF listed
<1> QED
  BY <1>3, <1>4, <1>5

(* --only bounds the machines that are asked and decides nothing about     *)
(* what counts as unnamed, of every deployment.                            *)
THEOREM OnlyBounds == Spec => OnlyBoundsMachines
<1>1. ReportInv /\ [Next]_vars => [\A m \in Machines : Bounded(m)]_vars
  BY StepsAreBounded
<1>2. [][\A m \in Machines : Bounded(m)]_vars <=> OnlyBoundsMachines
  BY PTL DEF OnlyBoundsMachines, Bounded
<1> QED
  BY <1>1, <1>2, InitReportInv, NextReportInv, PTL DEF Spec
=============================================================================
