# A TLA+ model of nixplan

nixplan plans a multi-machine service deployment in Nix and applies it with an
operator command. This directory models the parts of it that act: the order an
`apply` run walks, the run itself against machines that fail, the scripts it leaves
on them, what the command refuses and when, the report of what machines hold, and the
picture of it. TLC checks every model on small instances, and TLAPS proves for instances of
any size every safety property a passing run checks.

Contents: [the system](#the-system) - [the modules](#the-modules) -
[what the runs check](#what-the-runs-check) - [fairness](#fairness) -
[what is proved](#what-is-proved) - [findings](#what-the-runs-found) -
[what is left out](#what-is-left-out) - [what comes next](#what-comes-next).

## The system

| component | state it keeps | operations | what makes it correct |
| --- | --- | --- | --- |
| planner library (`src/lib`) | none: a pure evaluation | declarations to a plan: entries, slots, values, diagnostics | a slot names the provider the wire names |
| order (`src/cli/order.py`) | none between calls; stacks, counts and a heap within one | `walk`, `unsatisfied`, `reads` | a provider before its consumers; a cycle is announced and nothing else contradicted; a total order that depends on nothing but the plan |
| apply (`src/cli/apply.py`) | the lines of one run, the holdings it was told of, the values it moved; nothing between runs | `apply`, with `--only`, `--retire`, `--dry-run` | below |
| values (`src/cli/values.py`) | none | `delivered`, `reaching`, `required`, `check`, `sealing`, `sealer` | the bytes a run writes are exactly those of the machines it touches, and a run that cannot hold them refuses before it dials |
| remote scripts (`src/cli/remote.py`) | files, links and units of a machine | write, seal, restart, unsealer install, attach, activate, preflight, holdings, retire | a script cut off anywhere leaves a state the next one repairs |
| image realiser (`src/image`) | staged files, the pool, portabled's attachments | attach, detach, check | the image that runs is the one the build names |
| flakelet realiser (`src/flakelet`) | the endpoint's entries | add, remove | an unchanged entry is left alone |
| operator layer (`src/operator`) | the unsealer's links and its boot | restore, trial | a reboot brings back what was delivered |
| report (`src/cli/report.py`) | the answers told so far, the machines not asked | `status`, `rollback` | an answer is told from a silence, and an absence from both; what is said was true when it was said |
| enrollment (`src/cli/enrollment.py`) | the operator's value source; the coordination server's credentials | `invite`, `members`, `expel` | the files of a source are of one minting, and a source that was fit stays fit |
| deployment record (`src/cli/manifest.py`) | none: two documents a build wrote | `read`, and a function per field taken later | a fault of the record is met before a machine is changed |
| planner command (`src/cli/planner.py`) | none | `resolve`, `main`, a verb each | what refuses has done nothing |
| view (`src/view`) | none: each request asks again | `graph`, the live answers | no two boxes in one place; an arrow goes to the right unless it was announced |
| secrets backend (`src/secrets`) | two temporaries of one run | a rendered shell step | see [left out](#what-is-left-out) |
| performance checks, published modules | data and measurements | | |

The operator's machine talks to each machine by ssh, one command a step; the
machines share nothing with each other but what the run writes on them. A run
reads its build and its values once, asks every machine what it holds, verifies
the accounts of user-scope machines, retires what the build no longer names,
installs unsealers, writes values (the sealed copy, then the plaintext), copies
and activates artifacts in the walk's order, and restarts the readers of the
values that moved. Nothing records how far it got: the recovery from any failure
is to run it again.

What is hard about it: a run may end after any step, since the first step that
fails ends it; a machine may stop answering, or reboot, which empties `/run`,
between any two; operators work on the machines by hand; the next run sees only
what the machines hold, never what the last run knew. A report asks each machine several
questions at several moments, of machines that go on changing. The record is read field by
field by a dozen functions at four moments of a run, and each may refuse. `PROJECT.json`
lists the hazards one by one, each at its line.

## The modules

**`ReadGraph`** is the read relation of a plan, the graph made of it (`forward`) and the groups
its entries are put in (`components`). A plan key is a string the program only compares, so a key
is a natural number, `sorted` is `<`, and `Ascending` is `sorted` of a set. `Slots` are the
shapes `_read` tells apart, including the one it refuses. `StrongComponent` says what two entries
that reach each other are, with no algorithm.

**`Components`** is `_components`: Tarjan's algorithm made iterative. One step
is one pass of the `while work` loop, and the disjuncts of `Explore` are the ways a
pass ends: `Root` takes the next root, `Descend` stops at an unvisited consumer,
`Close` and `StayOpen` leave an entry that is or is not the root of a component.

**`Sequence`** is `sequence`: the heap loop over components. `Pop` is one pass,
`Return` and `Refuse` are the two ways out. It takes *any* partition of the
entries, since the function does, so that a refusal can be reached at all.

**`Walk`** composes the two as `walk` does, over the one graph they share: `Read` makes it or
refuses the plan (`Unreadable`), `Group` is Tarjan's loop, `Grouped` hands what it found to the
heap loop, and `Sequenced` is that loop. `Order`, `Broken` and `Cycles` are the fields of
`WalkResult`.

**`Fleet`** is the machines: what each holds of every value and entry, what its
processes opened when they started, and what happens to it while nobody applies
(`World`: the operator rotates a value, publishes a build, repairs an account;
the network cuts a machine off and gives it back; a unit is stopped or started by
hand; and a reboot). A generation of a value, and an artifact, is a number.

**`Apply`** is `apply` over that fleet. `phase` is the loop of the function the
run is in and `todo` what that loop has left; each action takes the least item
left in the loop's own order, so a run is deterministic and only failures and
the world interleave with it. `Begin` is everything decided before the first
dial: the build and the bytes are read then, and a rotation or a publication
during the run does not reach it. `BeginOnly` is a run that `--only` restricts to some entries
and values, in any mix. `Ask`, `Preflight`, `Retire`, `Unseal`, `Seal`,
`Write`, `Activate` and `Restart` are one command each. A run ends by `Return`, by
`RefuseUnfit` (a failed preflight), by `Unreachable` (a step against a machine that
does not answer), by `Break` (any other failure, before the step changed anything)
or by `BreakAttach` (an attach script cut off part way).

**`Attach`** is the script one image entry leaves behind `bin/attach`
(`src/image/default.nix`), statement by statement: `pc` is the statement it is at.
The entry is one unit that is shown one file, assembled on the machine from a text of
the build and a value, which names the unit in its `reload`. Portabled is what it
promises: it attaches, it names the image a unit runs from, and it does not detach an
image whose unit runs (`DetachRefused`). Around the script is what an `apply` and the
world do between two of them: `Deliver`, `Retire`, `Publish`, `Rotate`, `Reboot`, work
by hand, and `Break` at any statement. `Apply` sees the same script from outside, as
`Activate` and `BreakAttach`, without the staged file.

**`ValueFile`** is one value of one machine that seals: `seal_script` and `write_script`
(`src/cli/remote.py`) and the restore at boot (`src/operator/default.nix`), statement by
statement, each script a process in a slot of `script`. `file` maps the five names they
share to what has that name; a file a script still writes to carries its slot in `by` and
keeps it when it is renamed, which is all the model needs of inodes. What a build records of the
value's owner and mode is one of `Records`, and `owner` and `mode` of a file say whose each is,
`Root` being root's own: `Own` and `Admit` give a temporary its owner and its mode, `Restate` and
`Reown` are the `chmod` and the `chown` of the file in place, and the build may differ from run to
run, and from the one a restore is of. `Cut` takes the
connection from a script and not the script from the machine: it goes on, and when its
`cat` meets the end of its input is up to the network. `Begin`, `SealedThenWrite`, `Return`
and `GiveUp` are the run at the other end. A script with its connection acts with no
pause a person could act in, so a new run finds those of broken runs ended or waiting
for input (`Settled`); what a script does after that interleaves with the new run's.

**`Value`** is what those scripts promise of one value, seen from outside: a plaintext, a
copy, the operator's directory, and four things that may happen to them. `ValueFile`
implements it (`KeepsItsPromise`): `Shows` maps a file to the generation it shows, 0 while it
is not whole, `Move` of a seal to `Seal`, `Move` of a write or of the restore to `Place`, and
every other command to a stutter. Once a connection was cut nothing is promised, and `Value`
says so (`Cut`). `Apply`, which sees a script from outside, implements it too, for each value of
each machine that seals (`KeepsPromises`): `Seal` is `Seal`, and both a `Write` and a reboot, which
leaves what the unsealer opens, are `Place`. There it needs neither `Reboot` nor `Cut`: no boot
takes a plaintext away, and a step `Apply` takes is taken whole.

**`Picture`** is `graph` of `src/view/graph.py` on top of `Walk`: `Arrange` takes what the walk
over every placed entry returned and gives each strong component a column, `Draw` places the
entries and the values, each value before the first entry that reads it.

**`Report`** is `status`, `rollback`, and the page that serves a status
(`src/view/live.py`). `Begin` chooses what is reported on; `Turn` goes from one of the three
loops to the next; `AskEntry`, `AskValues` and `AskHoldings` are one question each, answered
by the machine as it is at that moment (`Exits`, `Held`, `ReadStatus`, `Verdict`...);
`Return` is the exit status; `World` changes a machine between any two. What a machine holds
is a set of pairs, an entry and whose build of it. `Begins` is the prefix by which `_held`
recognises an image, so that an entry may match another's, as one does in the run. Where no image
of an entry is listed, what is said is `absent` or the word the tool gave of it (`ReadAttachment`). A trial prints all of its lines
or none. `silent` is history: the machines that failed to answer something.

**`Record`** is `manifest.py`: each operator holds where the function of that name returns, on
records whose fields are the words their readers tell apart. **`Source`** is `values.py` over
the operator's directory of bytes. **`Command`** is one invocation after another on one record
and one source: `Resolves` and `Read` before anything, the membership verbs step by step
(`Coordinate`, `Mint`, `AnswerLost`, `Fill`, `Interrupt`), and `apply` for what it asks of the
record and of machines before, between and after its dials (`Prepare`, `Ask`, `Question`, then
`Loop` and `Change`, whose order inside a loop `Apply` has and this module does not). "refused"
is a refusal of the command's own, "broken" a step that a machine or an interrupt ended.

**`ComponentsProofs`**, **`SequenceProofs`**, **`WalkProofs`** (with the picture), **`ApplyProofs`**,
**`AttachProofs`**, **`CommandProofs`**, **`ReportProofs`** and **`ValueFileProofs`** hold the theorems
and the lemmas. The modules named `MC...` give the constants values.

The operators under a comment that begins with "Mutant" are plausible mistakes in
the definition below them. They are part of no specification: `PROJECT.json` names,
for each checked property, the one that breaks it, which is how each property is
known to depend on the code.

## What the runs check

| configuration | instance | result |
| --- | --- | --- |
| `Sequence.cfg` | all read graphs on three entries, all groupings of them in all orders | counts and heap agree with what is walked; providers first; lowest ready key first; only cycles refused |
| `Walk.cfg` | all 4096 read graphs on four placed entries; all plans of three with one slot each of any shape, onto those or an unplaced fourth, under all selections; two values and four sets of readers | the components are the strong components; the order honours every read outside a cycle; the announcement is exact; no read unaccounted for; the call ends in an order; the picture can be read |
| `Apply.cfg` | two machines, four entries, one value, two builds, two generations; runs of everything and of any one or two keys; one cut, one reboot, one break | the order of the loops and what a completed run leaves; a copy opens at boot; a value is at every step what `Value` promises |
| `ApplyByHand.cfg` | the same with one reboot, one stop by hand and one break | a completed run reaches the readers of what it wrote, whatever was done by hand; applying again converges |
| `AttachAccount.cfg` | three builds (a new text, a new image), two generations of the value, an account's pool; two breaks, one reboot, one stop and one start by hand, two publications, one retirement | what a script leaves whatever it met: one image, in the pool, and nothing else there; no process touched that need not be; convergence |
| `ValueFile.cfg` | two generations, two builds that record another owner and mode, a run and a script left over; one cut, one killed script, one reboot | no fragment or stray without the fault that excuses it; no file but the one in place has one record's mode and another's owner, and that one only between two commands; an answer means the run's own bytes, owner and mode; what was delivered survives; the copy is never the older; until a cut the scripts implement `Value`; convergence |
| `Status.cfg` | seven entries, three machines of which one declares no address, 40 states each, one change during the report; whole reports and restricted ones | exit status zero means everything was asked; every answer was true when given; a restriction bounds the machines and nothing else |
| `Command.cfg` | three sound records and every record one word away from one of them, six value sources, seven selections, dry and retiring or not; two mintings | a fault of the record or the source has changed no machine; an invite that returns zero leaves one minting; no invite makes a fit source unfit |
| `ApplyRecovery.cfg`, `AttachRecovery.cfg`, `ValueFileCut.cfg`, `StatusAbsent.cfg` | one break; one break and one publication; one cut; as `Status.cfg` | violated: see the [findings](#what-the-runs-found) |

The bounds, and why they are enough. Tarjan's special cases (a cross edge into a
closed component, a back edge over a closed child, two components with several
edges between them) all appear on four vertices, and `Walk.cfg` has every graph on them;
the tie between two ready components with a third in between needs three. The values of
`Picture` have the lowest and the highest key, so they come above and below the entries of a
column. In `Apply`, machine 1 keeps no
sealed copies and holds a flakelet entry, machine 2 is in user scope, seals, and
holds an image entry that the second build renames, so every branch of every
loop is taken; both builds are walked against plan-key order somewhere; the
entry with no unit is there to be skipped. Two builds and two generations are what
it takes to have something older. A restricted run of `Apply.cfg` names up to `MaxOnly` = 2 keys,
which has every pair of entries and every mix of an entry and a value; `ApplyByHand.cfg` and
`ApplyRecovery.cfg` name one. One fault of a kind lets it fall between any
two steps of any run; two kinds combine freely within a run's bound. In `Attach`, the
second break falls into the script that recovers from the first, and the second publication
brings back the first build, whose image may still be in the pool. In `ValueFile` the
second generation lets a script left over be older than the run under way, and the second record
lets a file be of two; of a third generation the safety properties are proved. In `Report` the
40 states are the nine ways two endpoints may work, fail or be missing, by four contents (none,
this build, an earlier one, both at once), and four of a machine that is down; one change can
fall between any two questions, and a second would have to undo it unseen. In `Command` a
record one word away from a sound one has one fault, and a refusal is of one fault; what two
would do is decided by the earlier. `MaxBytes`, `Records`, `Faults`, `MaxOnly`, `MaxChanges` and
`MaxMints` are bounds on the environment: no action of the code is guarded by one but `Mint`, whose
server stops minting, and `BeginOnly`, whose operator names no more keys.
`WaitsForBoot` is an assumption about operators, and the runs of `ValueFile` make it: what happens
without is among the disagreements [below](#what-the-runs-found).

## Fairness

`Walk` is a loop of one process: weak fairness of its step says that the interpreter goes on. In
`Apply`, weak fairness of `Step` says that a run that has begun goes on, which ssh's own timeouts
justify: a step ends with an answer or a failure. That the network comes back and that a refused
account is repaired are assumptions about people, stated as weak fairness of `Mend` and `Repair`,
and so is the operator applying the whole deployment again and again (strong fairness of
`BeginWhole`), which is the recovery the manual prescribes; in `Attach`, strong fairness of
`Deliver` and `Begin` says the same of one machine, and so does weak fairness of the run in
`ValueFile`, where weak fairness of each script also says that the network tells it in the end
that its connection is gone. No fairness is assumed of rotations, publications, faults, or work by
hand: they are bounded and may happen or not.

## What is proved

For every set of entries, graph and grouping (`SequenceProofs`, from `KeysAssumption`:
keys are natural numbers and finitely many): the type invariant; `WaitingCounts`, the
inductive invariant of the loop, that `waiting` counts exactly the unwalked providers
and the heap holds exactly the unwalked components with none; from it `ProviderFirst`,
`PassedOverOnlyWaiting` and `ReturnsAll`, each by its own strengthening; and
`RefusesOnlyCycles`: were there a ranking along which every read goes up, the unwalked
component of least rank would have every provider walked and so be in the heap, which
is empty when the loop refuses.

For every finite set of keys, every plan and every selection (`ComponentsProofs`, `WalkProofs`,
from `KeysAssumption`, and for the picture `ValuesAssumption`): `ComponentsFound`,
`OrderHonoursReads`, `AnnouncesExactly`, `NoReadUnaccounted` and `Legible`, and that `walk` never
refuses. No induction over paths is needed: `Reached` is the least set closed under the arrows, so
a set is shown to hold what is reached by showing that it is closed. Tarjan's loop keeps
`TarjanInv`: the visited are the held and the closed (`Numbers`); the stack of work is a path
through held entries (`OnPath`); what a visited entry leads to is visited or still to be scanned,
and nothing leads out of what is closed (`Seen`); a low index is the index of a held entry its
owner reaches, every held entry reaches the stack, and the stack reaches all that was visited
later (`Linked`); what was scanned leads to nothing held below the low index (`Lowered`). When an
entry's low index is its own, what is held from it up therefore reaches it and is reached from it,
and leads to nothing else held: that is a strong component, and it leads to none that is closed
later (`Grouping`). The strong components of a graph read each other in no circle, so by the
argument of `RefusesOnlyCycles` the heap loop ends in an order (`NeverRefused`); that the order
puts a component after all it reads from is `ProviderFirst`, and the rest is where an entry stands
in the order laid out from components (`Laid`). The picture's columns are the places of components
in it.

For every fleet, deployment, build history and pattern of faults, from `FleetAssumption` and
`WalkAssumption`: in `ApplyProofs` the type invariant; `SealedNotOlder`, where the invariant adds
that nothing on a machine is newer than what the run under way holds (`Newest`) and that between
the halves of a write the copy already has the run's bytes (`HalfWritten`, which needs that the
loop's next item is unique, `NextIsOne`); `OpensWhatItHolds`, where it adds that by the time the
write loop begins every sealing machine it will write to has its unsealer (`Unsealed`); from the
two, that `Apply` implements `Value` (`KeepsPromises`, step by step, which implies the first); and
`ReachesReaders`, where it adds that a reader that runs on bytes which are not there, and was not
behind when the run began, has what it reads among the values the run moved, and the restart of it
is still to come (`Followed`). The other five share an invariant: `UnfitIsUntouched` (`Verified`:
what is past the preflight loop was found fit, so that no retirement, unsealer, value, activation
or restart is of a machine that is not), `RetiresBeforeActivating` (`Retired`),
`ActivatesOnItsValues` (`Wrote`: what the write loop no longer has it has written), `OneBoundary`
and `CompletedRunLeaves` (`Activated`). It says of each loop what is left of it and of each loop
that ended what it did.

For every history of builds, in either scope and under every pattern of faults
(`AttachProofs`, from `AttachAssumption`): the type invariant; `OneImage` and
`AttachedIsPlaced`, from what the script knows of the attachment at each of its statements
(`AttachedAt`, `PooledAt`); `StoppedStaysStopped` and `LeavesWhatMatches`, where the
invariant follows a script that began on its own image, or on all of its artifact, from
statement to statement (`KeepsWhatItFound`); `ReadsWhatIsThere`: a process that fell
behind during a script has a reload coming (`ReloadIsComing`); and `PoolIsSwept`: in an account
where no script was broken, nothing rebooted, was started by hand or retired, the pool has at
every statement only what this script has still to take or has just put there (`SweptAt`).

For every set of records and sources (`CommandProofs`, from `SourcesAssumption`): `RefusedUnchanged`,
where the invariant (`RefusalInv`) says what each loop that was entered has found sound, so that
the ones that change machines meet no fault; `CompletedMint` and `InviteKeepsSourceFit`
(`MintInv`: what is filled is of the last minting, and only what the credential declares).

For every deployment, naming of images and set of machine states (`ReportProofs`, from
`ReportAssumption`): `ExitZeroMeansAsked`, `AnswersAreTrue` and `OnlyBoundsMachines`. The invariant
(`ReportInv`) says that whatever a loop no longer has to ask was asked, or its machine is among the
unasked, and that a machine that was silent is.

For any number of runs, builds, connections, generations, kills and reboots (`ValueFileProofs`,
from `ValueFileAssumption`): `NeverAFragment`, since until a cut a run has one script at a time, a
file is written by the script whose temporary it is, and a script past its `cat` holds all of it
(`Uncut`); `NeverWider`, since such a script has what it holds as root's until it has given it an
owner (`Holding`), and the file in place is of two records only while a script is between the two
commands that say its record again (`Stated`); `NoStray`, with cuts, since every temporary there has a script that
will move or remove it, even where two share it (`Tending`); and `SealedNotOlder`, with cuts,
kills and reboots, in any order. For that one, every command of a script is first shown to have
one of six effects on the five names and the runs' slots (`Effect`: `Kept`, `Removed`, `Moved`,
`Made`, `Received`, `Decrypted`), and the invariant is kept by effects: a copy that is whole has a
generation no later plaintext of a script under way is newer than (`CopiesLead`), because a write
starts only when the run's seal has answered, and no run's generation is older than the one before
(`Bounds`).

Where a run waits for the restore (`WaitsForBoot`, a hypothesis of these theorems): `ValueFile`
implements `Value`, since the generation an active script holds is its run's, and the copy's by the
time it writes the plaintext (`Generations`); `AnswersHold`: an answer finds the run's own bytes whole
at the name it was about (`Phase`), and until a cut the owner and the mode of the run's build
(`Says`); and `DeliveriesSurvive`: until a cut or a kill, what a completed
run delivered is there again after a boot, once the restore has ended (`Deliveries`).

Only model-checked: liveness (`Terminates`, three times `Converges`), which is outside the prover's
reach with `ENABLED`. What a run checks of a mutant or finds violated is not a theorem.

## What the runs found

1. `ApplyRecovery.cfg`: a run broken after a value's write and before its restarts leaves a
   running reader on the previous bytes; the run after it finds the file `unchanged`,
   restarts nobody, and re-activating an unchanged artifact replaces no process. The manual
   (`docs/operator.md:1143`) calls a second run the recovery.
2. `AttachRecovery.cfg`: a script cut off between attaching and starting leaves an attached image
   with nothing running, and every later script starts nothing (`image/default.nix:509`). One
   cut off between putting a file in place and reloading its readers loses the reload: the next
   finds the bytes equal (`:263`, `:384`). The run stops at the first; `ReadsWhatIsThere`, which
   excepts a process that was behind when the script began, says how far the second goes.
3. `ValueFileCut.cfg`: a connection lost, or a command interrupted, before all of a payload was
   sent is the end of `cat`'s input and no failure of it: the script moves a fragment into
   place (`cli/remote.py:460`), which its docstring rules out.
4. `StatusAbsent.cfg`: a tool that is on the machine and fails exits with neither zero nor one of
   the statuses that mean silence, and what the machine holds is reported `absent`
   (`cli/report.py:529`), which `docs/operator.md:625` keeps for an endpoint's own answer.

1 and 2 are one pattern: a step decides what to do from what it changed itself, and the
change outlives the step.

More disagreements were met on the way, and no run is spent on them.

- On a file that is there the write script sets the mode of the record before its owner
  (`cli/remote.py:465`, `:479`). One just moved into place has both already; one whose bytes did not
  change, of a build that records another owner, has the new mode and the old owner between the two
  commands, and until the next run if the script is killed there, against the docstring
  (`:414-415`). `NeverWider` excepts that window by name: without the exception TLC finds it at once.
- The docstring of `sequence` (`cli/order.py:113-114`) says that components neither of which reads
  into the other are ordered by their lowest plan key; a heap of ready components gives less,
  and `PassedOverOnlyWaiting` is what holds.
- The manual (`docs/operator.md:693-696`) says of a machine that seals nothing and rebooted that a
  second run restarts the readers of what it writes; a reader that found no file at boot is
  down, and the restart starts nothing that does not run (`cli/remote.py:494`), which the tests
  of the user scope expect.
- A machine unreachable at the question of what it holds is passed over (`cli/apply.py:191`); one
  that is back before the first step against it is never asked, the run completes, and its
  unreachability has surfaced nowhere, against `cli/apply.py:167-170`.
- Where a run overlaps the restore, the restore, which asks for the plaintext early and moves late
  (`operator/default.nix:157`, `:167`), puts the previous copy over a delivery
  (`docs/operator.md:850`). The next run puts it right.
- A dry run does not make every refusal its help and `Nobody` (`cli/apply.py:412-416`, `461-463`)
  promise: what depends on a machine's answer, with the fields of the record that only then are
  read, it cannot meet.
- `invite` fills a source that `apply` then refuses where the credential is delivered to a machine
  and has a program (`cli/planner.py:288-289`); the documented deployments deliver it to none
  (`docs/cluster.md:399-400`, `docs/operator.md:1086`).
- The step of the secrets backend fetches a value once for the copy and again for the plaintext
  (`secrets/backend.nix:130`, `:137`), so a rotation in between leaves the copy the older of the
  two (`docs/secrets.md:137-138`); its trap names INT, TERM and HUP and does not exit (`:116`), so a
  signal to the shell alone removes the temporaries, the step goes on, and the next fetch makes
  one anew, with the shell's umask, where `docs/secrets.md:127` has one for the whole step, made
  `0600`; and it answers neither `changed` nor `unchanged` (`docs/secrets.md:169-174`).

## What is left out

Of what is modelled: the copying of closures and ssh below the exit of a step; the generations
a flakelet endpoint keeps, of which only "an unchanged artifact is left alone" is used, the
endpoint not being in this repository; image entries of several units; in `Apply`, the staged
configuration files of an image, which `Attach` has; in `Attach`, a service manager or portabled
that fails to say what is attached, which the script takes for nothing attached
(`image/default.nix:495`, `:509`); in `ValueFile`, user scope, where `chown` is
left out of every script; the statements of `unsealer_script`: an install cut off between its
links and the reload is called unchanged by the next, and the manager reads the links at the
boot they are for; in `Command`, files the operator cannot read, an artifact the
record names that is no longer in the store, which is no refusal but a copy that fails, the modes of minted files, and
`diagnose.py`, which prints two attributes of a build; in `Report`, the wording of a line. Two
operators at once are nowhere: nothing locks a fleet and the documentation promises nothing. A
reboot is orderly: what was moved into place is on the disk.

Of the rest: the planner library and the readings (`read.nix`) are evaluation, without state or
steps. The secrets backend renders one shell step for another tool, a loop over the pairs that tool
lists, whose remote half is `ValueFile`'s two scripts without the trap, the comparison and the
answer; what reading it showed is above. `page.py`, the documents of the view and its server
serve and keep nothing. The performance checks and the published modules are not part of a
deployment.

## What comes next

1. An abstract specification of one entry on one machine (held, running, read) that `Apply`'s
   machines and `Attach` both implement, so that `BreakAttach` and `Activate` are justified by the
   script rather than beside it.
2. The rendered step of `src/secrets/backend.nix` as a third implementation of `Value`.
3. The resolution of a wire to the slots `ReadGraph` starts from (`src/lib`).
4. Proofs: that the script of `Attach`, run to its end, does to a machine what `Activate` of `Apply`
   does, once 1 states it.
