# A verification project for rtux

rtux (the crate and binary are called `pressured`) is a root daemon for a Linux
desktop.  It keeps the machine usable when memory runs short: it pins the
desktop's own services and the window the user looks at, pauses idle background
apps while memory pressure is high, kills one as a last resort, and undoes all
of it when the pressure clears.  Its correctness is about *undoing*: every write
goes to a kernel knob that outlives the function that wrote it, several threads
write the same knobs, and units come and go between any two steps.

These TLA+ modules model that control, TLC checks it on small machines, and
TLAPS proves the safety properties that matter most for machines of every size.

Line references are to the repository's files; `src/src/guard.rs` is written
`guard.rs`.

## 1. Inventory

| Component | State it keeps | Operations | Talks to |
|---|---|---|---|
| Reconcile loop (`main.rs` 180-327, `Daemon`) | `normal_streak`, PSI level, 1 s tick | read memory PSI, classify, run the rungs of that level, rescue the focus | calls the mitigator, the registry, the caps, the health meter |
| Mitigator (`mitigate.rs`) | `frozen`, `killed`, `oom_biased`, `claude_advised`, `last_freeze`, the cpu tracker | `bias_oom_toward_hogs`, `advise_claude_sessions`, `escalate`, `kill_worst`, `recover`, `thaw_foreground_related` | asks the classifier and judgment, writes `cgroup.freeze`, `cgroup.kill`, `oom_score_adj` |
| Attention (`ipc.rs` 400-620) | statics `FOREGROUND_PID`, `FOREGROUND`, `LIVE` | `do_foreground`, `do_touch` (one thread per connection) | calls the registry, writes `cgroup.freeze`, `oom_score_adj`, `cpu.weight` |
| Classifier (`classify.rs`, predicates of `ipc.rs`) | none of its own | Guaranteed / Focused / Active from the statics | read by every rung just before, and not while, it acts |
| Protection registry (`guard.rs` 35-160, 500-600) | statics `PROTECTIONS`, `TOUCHED` | `set_protection`, `clear_protection`, `apply` | writes `memory.min` over the tree, `user.oomd_avoid`, `memory.swap.max` |
| Control commands (`ipc.rs` `do_act`) | `USER_CAPPED` | freeze, thaw, cap, uncap, kill, protect, unprotect, list, budget | same knobs as everybody above |
| Caps (`guard.rs` 908-1035) | none but the kernel's `memory.high` | `cap_active_sessions`, `set_bulk_ceiling`, `protect_foreground`'s uncap | every 30 ticks |
| Sizing and admission (`guard.rs` 835-905, 1076-1195, `cli.rs` 162-275) | none | reserves, ceilings, `budget`, `admit` | read by the caps and by `pressured admit` |
| Spine health meter (`health.rs`) | `FaultMeter`'s last counters and the spine it watches, the `RING` of samples | `refresh_spine`, `tick`, `latest`, `peak` | the loop ticks it, `list` reads it, nothing decides by it |
| Judgment, ranker, trend, events, notify | bounded logs, per-unit activity | advisory | only `Precious`/`Ordinary` reaches a decision |
| Focus reporter (GNOME extension) | the last pid it sent | sends `foreground <pid>` on a focus change | the control socket |
| HUD, CLI | the last list it drew | draws, sends commands | the control socket |
| Service manager unit (`rtux.service`) | - | `Restart=on-failure` | restarts the daemon with empty statics; the kernel keeps its knobs |

What is hard here, in the order of how much of it there is:

* *Interleaving.*  The loop decides from the statics and acts in a later step;
  the handlers change the statics in between.  Nothing locks the kernel's knobs.
* *Stale records.*  `frozen`, `oom_biased` and `TOUCHED` are memories of writes
  others may have overwritten, and they are what undoing works from.
* *Ordering.*  `apply` snapshots under one lock and writes under another.
* *Two reads of one thing.*  `list` takes the window of fault samples twice; the
  caps' pass asks whether a user owns a ceiling and writes it later.
* *Crash and restart.*  Every record is in the daemon's memory; the knobs are not.
* *Exits and restarts of units*, at any moment, with a fresh cgroup at the old
  path.
* *Hysteresis and budgets*: settle time between freezes, normal readings before
  recovery, kills per episode, under a level that may flap and a reading that
  may fail.

`PROJECT.json` lists each hazard at its line with the properties that cover it,
and says of the others why none does.

What makes each component correct:

* *Ladder*: nothing the daemon paused or biased is forgotten; a unit is paused
  at most once per episode; the focused window is not left paused; freezes are
  spaced, kills are bounded, recovery is earned; an episode ends.
* *Registry*: no residue on a slice; a parent always covers its children; at
  rest the tree is what the registry asks for; a stale write is repaired.
* *Attention*: the statics agree with the last report; `LIVE` is bounded; what
  falls out of favour loses its pins.
* *Knobs of attention*: what is not in front, listed, commanded or of the spine has
  lost its pin, its -1000 and its boost; what is in front has them; the spine gets
  its own back.
* *Caps*: they follow attention; a user's own ceiling stands.
* *Health meter*: no fault is invented, none is missed for long, the class named is
  the one that took most, and the numbers of one reply fit together.
* *Sizing and admission*: reserves and ceilings partition RAM; an absurd
  request is refused; not being able to ask is not a refusal.

## 2. Modules

    Presence ----> Ladder ----> LadderHistory ----> LadderHistoryProofs
       |  |          |  \             \                  (uses LadderProofs)
       |  |          |   MCLadder ---> MCLadderHistory
       |  |  Pausing-+   LadderProofs (uses PresenceProofs)
       |  |  (abstract)
       |  +-> Favour ----> FavourHistory ---> MCFavour
       |                        \-----------> FavourProofs (uses PresenceProofs)
       +----> PresenceProofs
    Protections ---> ProtectionsHistory ---> MCProtections
                            \---------> ProtectionsProofs
    Sizing ----> Admission ---> MCAdmission
                      \-------> AdmissionProofs (uses Counting)
    FaultMeter ---> MCFaultMeter
          \-------> FaultMeterProofs (uses Counting)

`PROJECT.json` maps every definition to the lines it stands for.

### Presence: who the user is with

State: `fgPid` = `FOREGROUND_PID`, `foreground` = `FOREGROUND`, `live` = `LIVE`
(instants become ticks left), `req` = where each connection thread is in its
request, `alive` = the cgroups that exist.  `do_foreground` is `FocusStore`
(the atomic store before any lock), `FocusThaw`, then under the `FOREGROUND` lock
`FocusUnchanged` or `FocusRelease` followed by `FocusPin`.  `do_touch` is `Touch`
(re-rank, truncate to `MAX_LIVE`), one `TouchRelease` per evicted unit and
`TouchPin`.  A thread at `pin` holds the lock.  The module holds the control
only; what a step writes to a knob is conjoined by the module that owns the knob.

`WindowScope` and `WindowKin` are constants: a pid keeps its cgroup and the
cgroups of its descendants while it lives, and a pid is not reused.

### Ladder: the tick

`phase` is where the loop is inside a tick.  One action is one look at a unit or
one write: `Tick` reads pressure; `BiasExamine`/`BiasWrite`, `FreezeExamine`/`Freeze`
and `KillExamine`/`Kill` separate the look at a candidate from the act, so that a
handler's, a user's or a process's step may fall between.  `Recover` takes
`oom_biased`, `Unbias` neutralises one unit of it; `UnbiasDone` takes `frozen`,
`Resume` thaws one unit of it; `RescueBegin` lists the units and `RescueLook` decides
about one with the focus of that moment.  Candidates are examined largest first, as
`list_freezable_cgroups` sorts them.  Two steps are coarser than the code:
`do_foreground`'s own walk over the units (`FocusThaw`) is one step, though the rescue
that repeats it every tick is not, and so are the two writes of `protect_foreground`
to these knobs (`FocusPin`, `TouchPin`; `Favour` takes its writes one by one).

* `freeze[s]` is `cgroup.freeze`, with who asked for it: `run`, `daemon`, `user`.
  The kernel has one bit; the owner is a history tag and no guard reads it.
  A thaw (`Thaw`) may be refused: cgroup.freeze cannot be opened or written although
  the unit lives (`actions.rs` 14, an `Err` every caller prints).  `Stubborn` are the
  units of which that may happen, in a proof any of them; `unthawed` is what the
  journal says, the units of whose pause the last word is "failed to thaw".  It is
  history, no guard reads it.  The rescue tries such a unit again at the next tick;
  `recover` has taken it off its list before the write and forgets it.
* `oom[s]` is `oom_score_adj`: neutral, hog (+500) or protect (-1000), one value for
  a unit.  The code writes it process by process, as far as each write succeeds, and a
  process forked meanwhile inherits its parent's (`guard.rs` 1309-1318); what the
  properties say of `oom` is what the daemon asked for, not what a process it missed has.
* `frozen`, `killed`, `oomBiased`, `advised`, `cpuSeen` are the mitigator's.
* A cpu measurement, a client in flight, the swap level, a write error at the
  freeze or at a thaw and the PSI level are nondeterministic at the step that reads them.
* Time is the tick: `settling` counts down to the end of `FREEZE_SETTLE`.

The handlers' steps are Presence's with their writes to the two knobs
(`HandlerStep`); `User` is the four commands of `do_act` that write them;
`Lifecycle` is processes exiting and services coming back.

`Pausing` is the abstract promise of the freeze rung in four variables: what is
paused, the ledger of what was entered, the entries of a closed ledger not tried yet,
and what refused to wake.  A unit is entered at most once before the ledger is
closed, closing tries every entry once, and nothing is entered before all have been
tried.  `Ladder` implements it under `paused <- PausedByDaemon, ledger <- frozen,
closing <- Taken("resume"), reported <- unthawed`, where `Taken` is the part of a list
`recover` has taken and not come to.

`LadderHistory` adds three history variables that record the readings, the
freezes and the kills themselves, so that budgets and hysteresis are not stated
with the counters they are meant to check, and a fourth, `stayed`: the units the
classifier would call Guaranteed or Focused at the tick's reading and at every step
since.

### Favour: what attention is worth

Presence composed with the knobs attention is paid in.  `holds` says which units have
a pin (an entry of `PROTECTIONS`), a shield (`oom_score_adj` -1000) and a boost
(`cpu.weight` 1000); `high` is `memory.high` as `max`, the standing per-session cap or
the user's own; `marked` is `USER_CAPPED`.  `call[t]` is the request thread `t` is
writing, as the set of knobs it still has to write: `Program` gives them for
`protect_foreground`, `unprotect_cgroup`, `protect_cgroup`, `protect_one`, `cap`, `uncap` and
the two verdicts of the caps' pass, `Order` their order in the source.  One write is one
step (`Write`), so any other thread's may fall between two of them; `Complete` is the
last one of `protect_foreground`, after which `do_foreground` records the scope and drops
the lock.  `ReadBackFails` is `protect_one` giving up on the -1000 when another thread's
`apply` has spoiled what it reads back.  The loop's pass walks the spine, then looks at
each large app (`CapLook`) with the class it has at that moment and writes later.  The
registry is a set here; `Protections` has what one of its calls does to the tree.

`FavourHistory` adds what users asked for by hand, the pins and the last ceiling;
`overtaken`: the units that fell out of `LIVE` while another thread was still serving a
touch of theirs, until they are listed again; and `judged`: the units whose ceiling has been the pass's business alone since the pass
looked at them.  A unit leaves `judged` when it ends, when its class changes, and when a
request or a command is about to write its ceiling.

### FaultMeter: what the spine suffered

`spine` and `prev` are `FaultMeter`'s; `walk` is what the tick in progress has still to
read; `sum` is what it has so far; `ring` is `RING`; `ticks` is the loop's counter modulo
the 30 of a refresh.  `BeginTick` (with `refresh_spine` on every 30th), one `ReadCounter` per
cgroup and `EndTick` are a tick; `Fault` and `ComeOrGo` are the cgroups, which may end and
come back under the same path with a counter at zero between any two reads; `Restart`
is the daemon's.  `Reply` is the two reads of the window in `build_list`.  `since`,
`truth`, `unmetered` and `steady` are history: the faults the cgroups really took since they
were last looked at, and how long the tree has not changed.

### Protections: the registry

`registry` = `PROTECTIONS`, `touched` = `TOUCHED`, `holder` = who holds `TOUCHED`'s
lock, `call[t]` = where thread `t` is in its call, and the kernel's `min`
(`memory.min`), `avoid` (`user.oomd_avoid`), `pinned` (`memory.swap.max` = 0).
`SetBegin` / `ClearBegin` write the registry; `Snapshot` is the first half of
`apply` (drop the dead, compute `desired_min_map`), `Acquire`, `Write` one cgroup at
a time and `Finish` the second half under the other lock; `Avoid` and `SwapDoor`
the tail of `set_protection`.  The hash maps' order is arbitrary, so any
remaining cgroup may be written next, wanted ones before the zeroes.

`ProtectionsHistory` records which calls overlapped, so that what holds after one
that met no other can be stated in a run where most do.

### Sizing and Admission: can the machine afford one more app

`Sizing` is the arithmetic: `DesktopReserve`, `AppSliceHigh`, `CompositorMin`,
`Headroom`, `BudgetVerdict`, over words that saturate at `WordMax`.  `Admission` is
`pressured admit`: `run[l]` is a launcher and the daemon's thread that answers it,
with the readings it has taken so far (free memory and PSI, then the ceiling, then
what the apps hold); `high` and `held` are `app.slice`'s `memory.high` and
`memory.current`.  A request may stay unanswered at any point (`Unanswered`), may
find two graphical sessions (`ReadCeiling` with nothing found) and may be forced.
An app started with a want keeps to it: what a session takes beyond its want is
outside what a gate at the door can promise, and the properties do not claim it.
`sound[l]` is a history variable: the verdict was reached with the ceiling in place
and no other admitted app still to take what it asked for.

Definitions commented *Defect:* are one-line wrong versions of the definition
that follows them.  Nothing uses them; they show, put in its place, that the
property named in `PROJECT.json` "mutants" notices.

## 3. What the runs check

Runs that pass:

| Run | Machine | Shows |
|---|---|---|
| `ladder_units` | a browser with a helper unit nested in it; touches compete for one `LIVE` slot; both are commanded by a user and may refuse a thaw; the browser is restarted by systemd, the helper exits | `HogIsTracked`: no bias is lost whatever happens between two steps; `PausedIsTracked`: no pause is lost without a word, it is in `frozen`, about to be tried by `recover`, or reported as refused; `KeepsPausingPromise`: the ladder implements `Pausing` |
| `ladder_episode` | browser, terminal, tmux pane, compositor; a browser that may refuse a thaw; all counters at 2, fair | `FocusNotLeftPaused`: between ticks the focused window's units run, its tmux panes aside and but for refused thaws; `KillBudget`, `CalmBeforeRecovery`, `FreezesAreSpaced`; `StayedIsSpared`: a unit the user has stayed with since the reading is never frozen, killed or biased; and `EpisodeEnds` (liveness): a calm that lasts undoes every bias, and every pause but those whose thaw was refused and reported |
| `protections` | a slice with two leaves, a handler and the loop's pass over the spine, a leaf that exits and returns, fair | `ResidueIsTracked`, `ParentsCover`; `LoneCallRestores`: one call that meets no other leaves the whole tree as the registry asks; `AvoidMatchesRegistry`; `StaleIsRepaired` (liveness): what a stale snapshot wrote is put right by a later pass |
| `admission` | two launchers, wants of nothing, 0, 1, 2 and one that overflows the word, on a machine below the reserve and one above it; sessions and the ceiling come and go | `VerdictIsExact`, `RefusedForCause`, `NoOvershoot`, `HalvesOfOnePartition` |
| `favour` | a browser, an editor and a pane with a window each, an agent without one; two threads, each of which reports focus and touches | `DroppedIsReleased`, `FocusIsFavoured`: overlapping reports and touches neither leave the window in front without its protection nor leave protection behind, a touch that another thread's overtook being the one exception; `OneInFront`: nor give two windows something at the same moment |
| `favour_caps` | a browser, a pane and a unit of the spine, one thread, commands about the pane, a compositor that ends and is restarted, the loop's pass, fair | `DroppedIsReleased` with pins by hand; `JudgedIsEnforced`: what the pass judged has the ceiling of its class from the write on; `CapsFollowAttention` and `SpineIsKept` (liveness) |
| `meter` | two spine cgroups of two classes, a refresh every second tick | `NeverOverstates`, `MeterIsExact`, `WorstIsNamed` |
| `meter_reply` | one cgroup, a window of two samples, one reader | `ReplyIsConsistent` |

Runs that show a disagreement between the code and what the repository says of
it (each is a finding in `PROJECT.json`, with the line it quotes):

| Run | Shows |
|---|---|
| `ladder_v_oom` | `recover()` neutralises every unit it ever biased, the now focused one included, though `protect_foreground` had given it -1000 |
| `ladder_v_crash` | a restarted daemon does not know what its predecessor paused, and never wakes it |
| `protections_v_swap` | `clear_protection` leaves `memory.swap.max` at 0 |
| `favour_v_hand` | `protect_foreground` lifts a ceiling the user set by hand, and the standing pass then leaves the unit alone: focusing a capped hog once frees it for good |

What a stale `apply` snapshot may do: whenever calls overlap, the older map may be
written last, and the tree then disagrees with the registry at rest.
`LoneCallRestores` and `StaleIsRepaired` say what bounds the damage: the next call that
meets no other, at the latest one of the loop's passes every 30 ticks, writes
everything.

Likewise a touch that falls between the freeze scan and the freeze leaves the
touched unit paused until recovery, because the per-tick rescue knows focus only, and
a unit focused between the kill's scan and the kill is killed.  `StayedIsSpared` says who
is safe from that: whoever was focused or freshly touched when the tick read the
pressure, and has not stopped being so.  It does not catch either race.

And touches on two threads may leave a unit pinned that has already fallen out of
`LIVE`: `do_touch` protects its caller after it has dropped the lock, so the older touch
of a unit may come after the release a later touch of another unit owes it.
`DroppedIsReleased` excepts exactly the units so overtaken and says that nothing else
is left behind; TLC refutes it without that exception.

A thaw that fails at recovery leaves a live unit paused, in no list and never tried
again by the ladder (`mitigate.rs` 617).  `PausedIsTracked`, `KeepsPausingPromise` and
`EpisodeEnds` are stated with that outcome in them: it is the only way a pause outlives
its episode, and it never happens without the line in the journal.

### Bounds, and why they are enough

* *Units*: 2 to 4.  The interactions are pairwise: a unit that is focused or
  touched and one that is a candidate; a parent and a child; a precious and an
  ordinary one.  `Size` gives the browser and the pane distinct sizes above the
  floors, so that ordering matters, and leaves the terminal below them.
* *Threads*: one or two handlers beside the loop.  Two are what it takes for
  reports to overlap; the proofs are for any number (`FocusRuns`, `FocusFavoured`,
  `NoResidueIsLost`).
* *Symmetry* is used in `favour` only, between the browser and the editor, which appear
  alike in every constant, each with its window, and between the two threads; the run
  checks no liveness.
* `Stubborn`: both units of `ladder_units`, the browser of `ladder_episode`, so
  that a refused thaw happens beside ones that succeed; none in the runs that show a
  disagreement, which do not need a refused thaw.
* `MaxLive` = 1 makes every touch by another unit an eviction; `TouchTTL` = 1
  makes an entry expire at the next tick.  (3 and 300 s in the code.)
* `Settle`, `RecoverAfter`, `MaxFrozen` = 1 or 2 and `MaxKilled` = 1: small enough
  that the limit is reached and passed by a mutant, 2 where a counter must be
  seen half way.  The counters saturate at these bounds, so no state constraint
  is needed and no behaviour is cut.
* *Words and machines*: `WordMax` = 9 is above every machine (7 at most) and below
  the largest request in bytes (5 * 2), so that saturation matters; a machine of 1
  lies below the reserve of 3.  Two launchers are what it takes for verdicts to
  overlap.
* *Faults*: `MaxCount` = 2 lets a counter pass, meet or fall short of a dead one's
  total, and makes a tick's total uneven over two classes.  `RefreshEvery` = 2 gives every
  change a tick that misses it.  The readers have a run of their own because the
  window's contents do not depend on them; a window of two samples is one more than
  the reply may lag.
* *Values* of `memory.min`: two, or three with 0, so that a maximum over children
  differs from any and from a sum.

### Fairness, and why the code justifies it

* `WF(phase # "sleep" /\ Daemon)`: the loop is one thread and no step of a tick
  waits for anybody, so a tick once begun ends.
* `WF(ReadNormal)`: the loop wakes every second.  This is stated of the normal
  reading only, because a second one in a row may change nothing, and weak fairness
  of "some reading" would then demand that the pressure come back.
* `WF(HandlerStep(h))`: a connection thread that has read its request runs to
  its end; it waits only for the `FOREGROUND` lock, which is held across
  finitely many of the holder's own steps.
* `WF(LoopStep)` in `Favour`: the standing pass starts again every 30 ticks and no step
  of it waits.
* `WF(Keep)`, `WF(Finishing(t))`: the loop re-asserts the spine every 30 ticks,
  and a call once begun runs on.
* Nothing is assumed of users, windows, processes, systemd or pressure:
  `EpisodeEnds` and `WakesEverything` have "readings stay normal" as a premise,
  `StaleIsRepaired`, `CapsFollowAttention` and `SpineIsKept` "the other threads are quiet
  from some moment on".

Deadlock is checked in every run.

## 4. What is proved

All proofs are for every value of the constants that the named assumptions
admit: any number of units, windows, threads and values, any nesting.

*`PresenceProofs`.*  Lemmas about `do_touch`: what re-ranking and truncating `LIVE` keep
and drop (`RerankedFacts`, `TruncatedListed`), and that every step of a request keeps the
types.  Used by the ladder's proofs and Favour's.

*`LadderProofs`.*  The invariant is

    IInv == alive \subseteq Scopes /\ LadderTypeOK /\ PausedIsTracked
            /\ HogIsTracked /\ GoneIsClean /\ ScanIsFresh

`PausedIsTracked` is not inductive alone: a unit that exits must not come back
paused (`GoneIsClean`: a cgroup that does not exist carries no knob), and the
unit about to be frozen or biased must be one the scan found
(`ScanIsFresh`: what the freeze scan holds is not already in `frozen`), without which the
refinement's "entered at most once" fails.  From it follow
`NoPauseIsLost`, `NoBiasIsLost`, `ImplementsPausing` (initial states map to initial
states, each step to a step of `Pausing` or a stutter) and `FocusRuns`.  Most steps
do no more to a pause than end it or report it (`Wakes`); a recovery moves a unit from
`frozen` to `Taken("resume")` and from there to running or reported, one unit a step.
`FocusRuns` has an invariant of its own, `FInv`: `fgPid` names a window or none, every
thread's request is well-formed, and, while the rescue walks, only units it has still
to come to may be paused and in focus (`FocusWalked`).  Its proof rests on two lemmas
about when the loop goes back to sleep and when no report is before its thaw.  None of
these theorems assumes that a thaw succeeds: `Stubborn` may be every unit.  `TypeCorrect` is the whole of
`TypeOK`, the bound on `LIVE` included.

*`LadderHistoryProofs`.*  `HInv == CountersOK /\ KilledOK /\ HistoryOK` relates the
history variables to the program's counters (`calm` equals `streak`, `kills` is at
most the size of `killed` and zero at a recovery, `since + settling` is at least
`Settle`).  From it: `KillsAreBounded`, `FreezesSettle`, `RecoveryIsEarned`.
`StayingSpares` has the invariant `StayedOK`: nothing that has stayed sheltered is among
what the scan in progress holds.  It is kept because a candidate joins a scan only at a
step at which it is not sheltered (`CandidatesUnsheltered`), and used because the daemon
harms only what its scan holds (`DaemonHarms`) and nobody else harms at all.

*`FavourProofs`.*  `FocusFavoured` rests on two parts.  `Shape` ties a thread's call to the
step its request is at, and says that at most one thread is between the release of the
previous window and the record of the new one: that is the lock.  `Favoured` says that
the recorded foreground keeps its three knobs unless the lock's holder is releasing it,
because nobody else writes about a unit that is not touched, commanded or restarted.
`OneWindowInFront` is the other face of that lock: `SingleOK` says that its holder takes
everything from the window left before it gives the next one the first knob, and that
every other grant goes to a unit of the spine, a touched or a commanded one.
`NoProtectionLeaks` needs an account of who still owes a release (`Owed`): a unit that
holds a knob is in front, listed or overtaken (`Touched`), of the spine, pinned by hand,
being released, on a touch's list of units to release, or being favoured by a thread
that is about to record it.  That every unit whose touch is being served is listed or
overtaken (`Served \subseteq Touched`) is what lets any number of threads bring touches.
`JudgedEnforced` is the safety half of `CapsFollowAttention`, for any
number of threads: `EnforcedOK` says that between the look and the write the loop's call
carries the verdict the unit's class calls for *now*, and that from the write on the
ceiling is in force, since whoever else is about to write it takes the unit out of
`judged` first.

*`FaultMeterProofs`.*  `Remembered` is one relation between the meter and the kernel:
a counter exceeds what the meter remembers of its path by no more than the path has taken
since the meter looked.  `Restored` is the same as an equality, which holds as soon as
more ticks have begun since the last change than since the last refresh.  From them:
`NothingInvented`, `NothingMissed` and `TypeCorrect`; the last needs that a window of
samples has a worst one, which is the least-number principle applied to its bounds
(`BoundOf`, `GreatestOf`).  `BlameIsFair` and `RepliesAreConsistent` share the invariant
`WindowInv`: the running total is the sum of the tally over the classes seen, and the
sample a reply has half read is still in the window, as far back as samples have been
pushed since (`Answered`).

*`Counting`.*  A sum over a set is usually a fold, and what a fold computes is an
induction.  Here `Sums(f, n)` says that n is the number of cells of f's bar chart, a finite
set, so that the library's theorems on cardinality give what the proofs need: adding to
one bar adds to the sum (`SumGrows`), and a sum of bars of at most b is at most b for
each bar.

*`ProtectionsProofs`.*  The invariant has the types, who may hold the lock
(`HolderOK`, `WritingOK`), that a snapshot's domain is closed upwards and its
amounts grow upwards (`WantOK`), that slices stay (`SlicesStay`) and that a
cgroup that is gone has no protection (`GoneIsZero`).  From it: `TypeCorrect`, `NoResidueIsLost`,
`ParentsAlwaysCover`.  The point of the last two is that they survive stale
snapshots: a race can make the tree *old*, never *incoherent*.
`LoneCallsRestore` follows one call that meets no other through its pass (`LoneOK`): its
snapshot is the registry's, the cgroups it has visited have what the snapshot asks, and
the ones it never visits want nothing and have nothing because residue is tracked.
`PreferenceFollowsRegistry` rests on `PreferenceInv`, which says of every leaf whose last
call was undisturbed what that call's position implies for the leaf's preference.

*`AdmissionProofs`.*  `TwoHalves` is arithmetic alone: the compositor's pin and the
apps' ceiling fit in RAM together on any machine that has room for the
compositor's half at all.  `WallsAreExact` says that comparing a saturated request
with the tighter of two saturated walls decides as exact arithmetic does; the
invariant carries it through a request whose verdict comes last
(`VerdictComesLast`).  From it: `VerdictsAreExact`, `RefusalsHaveCause`,
`PartitionHolds`, `TypeCorrect`.  `AppsFitTogether` adds `RoomInv`: what the apps hold is the
sum of what each has taken, and once an app has been admitted by a sound verdict the wants
of all apps so admitted add up to no more than the ceiling.

Assumptions used, and what justifies them:

* `PresenceAssumption`, `LadderAssumption`: types; `RecoverAfter` at least 1
  (it is 10); a window's process is an app's, so its unit is not one systemd
  restarts (a pid does not come back).
* `SizingAssumption`, `AdmissionAssumption`: machine words (the clamps are ordered and
  below `u64::MAX`, no machine's RAM is `u64::MAX` bytes).  That an app holds no more
  than all apps together is a guard of `End`, a fact of the kernel's accounting.
* `FavourAssumption`: types, and the loop is not a connection thread.
  `FaultMeterAssumption`: types; the window and the refresh period are not zero; the
  classes are finitely many, as the enumeration in the source is.
* `ProtectionsAssumption`: `Up[c]` contains `c` and is closed upwards; only a cgroup
  with nothing below it comes and goes, which is what slices are.

Only model-checked: liveness (`EpisodeEnds`, `StaleIsRepaired`, `CapsFollowAttention`,
`SpineIsKept`), because fairness and ENABLED are outside the prover's reach.  Every
invariant and every action property of the passing runs is a theorem, and so is the
refinement of `Pausing`.

## 5. What is not modelled, and why

* Fault-in of swapped pages (`guard.rs` 200-520): reads memory, changes no knob.
* `/proc` and cgroup parsing, discovery of the compositor's and audio's units:
  pure I/O; their results are constants or nondeterministic inputs.
* Which candidates judgment calls precious, and the names behind `never_freeze`:
  constants of a unit.
* Logs, events, trend, notifications, rendering: nothing reads them to decide.
* The kernel's one `cgroup.freeze` bit is tagged with its owner; a unit the user
  paused that the daemon also enters is still the user's (in the code, recovery
  wakes it too, and in the model `Thaw` does).
* session.slice's standing `cpu.weight` and the cpu controllers: the same value on every
  pass, never taken back.
* A cap's number: who set it is what the properties tell apart.
* `pin_self`: a protect of the HUD's own unit, whose process also gets -600.
* The HUD (a user interface that redraws the last list) and the GNOME extension's own
  dedup and retry timers; the reports it may send are `Presence`'s inputs, in any order.

Comments that differ from the code and have no run of their own yet.
`kill_worst`'s doc (`mitigate.rs` 455, `main.rs` 231) says it fires when "freezing is
spent" or swap is nearly full; the code's only gate is the swap high-water mark.
`budget_verdict`'s test says "no ceiling is tight and never ok" (`guard.rs` 1755); a
slice whose `memory.high` is "max" is read as a ceiling of `u64::MAX`
(`cgroup.rs` 51), and the verdict may be "ok".

## 6. Plan

Done: the ladder (`Presence`, `Ladder`, `Pausing`, `LadderHistory`), the registry
(`Protections`), the gate at the door (`Sizing`, `Admission`), the knobs of attention and
the caps (`Favour`), the health meter (`FaultMeter`), each with its proofs.

Left, in order:

1. A run for each hazard `PROJECT.json` lists without a property, once the property can
   be put in the repository's own words: a unit focused between the kill's scan and its
   kill; a window in a unit nested under a paused one; residue of `memory.min` and of
   the foreground's -1000 across a crash; two admissions that overlap.
2. `FocusChannel`: the extension's deduplication and the two statics that may
   disagree.
3. `Hud`: toggles computed from a stale list.
4. An abstract specification of the registry (what a reader of the tree may rely on) and of
   the gate at the door, and proofs that `Protections` and `Admission` implement them; of
   the liveness properties, the lemmas that do not need ENABLED: that each pass of the loop
   shrinks what is left to repair.
