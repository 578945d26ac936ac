------------------------------- MODULE Ladder -------------------------------
(***************************************************************************)
(* The pressure ladder: the reactive half of Daemon::reconcile and the     *)
(* whole of Mitigator, with the attention handlers running beside it.  The *)
(* kernel state is what these actors fight over: cgroup.freeze and         *)
(* oom_score_adj of every unit.                                            *)
(*                                                                         *)
(* The loop examines one candidate per step and acts in a later one, so a  *)
(* focus change, a touch, a user's command or an exit may fall between the *)
(* look and the act.                                                       *)
(***************************************************************************)
EXTENDS Presence

CONSTANTS
  Size,         \* Size[s]: footprint (resident + swapped) of s
  FreezeFloor,  \* MIN_FREEZE_BYTES
  KillFloor,    \* MIN_KILL_BYTES
  WarnFloor,    \* the 128 MB below which a session is not counted
  Precious,     \* the units judgment::assess calls Precious (Claude sessions)
  Servers,      \* the units that may be answering a local client
  Terminals,    \* the units never_freeze keeps from a user's command
  Services,     \* the units of system.slice: systemd may restart them
  Mortal,       \* the units whose processes may exit
  Commanded,    \* the units users send commands about
  Busyness,     \* the measurable cpu activities, as an ordered set of numbers
  Unmeasured,   \* f64::INFINITY, above every measurable activity
  MaxFrozen, MaxKilled, WarnCount,
  Settle,       \* FREEZE_SETTLE, in ticks
  RecoverAfter, \* RECOVER_AFTER_NORMAL_SECS, in ticks
  Stubborn,     \* the units whose cgroup.freeze may refuse a thaw
  Panes,        \* the tmux-spawn scopes
  TmuxWindows   \* the windows that own a tmux client

ASSUME LadderAssumption ==
  /\ Size \in [Scopes -> Nat]
  /\ FreezeFloor \in Nat /\ KillFloor \in Nat /\ WarnFloor \in Nat
  /\ Precious \subseteq Scopes /\ Servers \subseteq Scopes
  /\ Terminals \subseteq Scopes /\ Services \subseteq Scopes
  /\ Commanded \subseteq Scopes /\ Mortal \subseteq Scopes
  /\ Stubborn \subseteq Scopes
  /\ Panes \subseteq Scopes /\ TmuxWindows \subseteq Windows
  /\ Busyness \subseteq Nat /\ Unmeasured \in Nat
  /\ \A b \in Busyness : b < Unmeasured
  /\ MaxFrozen \in Nat /\ MaxKilled \in Nat /\ WarnCount \in Nat
  /\ Settle \in Nat /\ RecoverAfter \in Nat \ {0}
  \* A window's process is an app's: no restart brings that pid back.
  /\ \A w \in Windows : WindowScope[w] \notin Services

VARIABLES
  phase,      \* where the reconcile loop is
  level,      \* the pressure level of the last reading
  streak,     \* Daemon::normal_streak, saturating at RecoverAfter
  settling,   \* ticks until the last freeze has had FREEZE_SETTLE
  todo,       \* candidates the current rung has still to look at
  eligible,   \* candidates it found eligible
  frozen, killed, oomBiased, advised, cpuSeen,   \* Mitigator's fields
  freeze,     \* cgroup.freeze, and who asked: "run", "daemon" or "user"
  unthawed,   \* the units of whose pause the journal's last word is "failed to thaw"
  oom         \* oom_score_adj: "neutral", "hog" (+500) or "protect" (-1000)

ladderVars == <<phase, level, streak, settling, todo, eligible,
                frozen, killed, oomBiased, advised, cpuSeen>>
pauses == <<freeze, unthawed>>
knobs == <<pauses, oom>>
vars  == <<presenceVars, ladderVars, knobs>>

Phases == {"sleep", "bias", "biasWrite", "advise", "escalate", "freezeScan",
           "kill", "killScan", "recover", "unbias", "resume", "rescue", "rescueWalk"}

\* classify_pressure of what read_psi read, or that it could not be read.
Levels == {"normal", "elevated", "critical", "unreadable"}

LadderTypeOK ==
  /\ phase \in Phases
  /\ level \in Levels
  /\ streak \in 0 .. RecoverAfter
  /\ settling \in 0 .. Settle
  /\ todo \subseteq Scopes
  /\ eligible \subseteq Scopes
  /\ frozen \subseteq Scopes
  /\ killed \subseteq Scopes
  /\ oomBiased \subseteq Scopes
  /\ advised \in BOOLEAN
  /\ cpuSeen \subseteq Scopes
  /\ freeze \in [Scopes -> {"run", "daemon", "user"}]
  /\ unthawed \subseteq Scopes
  /\ oom \in [Scopes -> {"neutral", "hog", "protect"}]

\* Every variable of the module holds a value of its type.
TypeOK == PresenceTypeOK /\ LadderTypeOK

Init ==
  /\ PresenceInit
  /\ phase = "sleep" /\ level = "normal"
  /\ streak = 0 /\ settling = 0
  /\ todo = {} /\ eligible = {}
  /\ frozen = {} /\ killed = {} /\ oomBiased = {}
  /\ advised = FALSE /\ cpuSeen = {}
  /\ freeze = [s \in Scopes |-> "run"] /\ unthawed = {}
  /\ oom = [s \in Scopes |-> "neutral"]

-----------------------------------------------------------------------------
(* Candidates and the writes to the kernel.                                *)

AtLeast(floor) == {s \in alive : Size[s] >= floor}

\* list_freezable_cgroups is sorted largest first; ties fall either way.
Largest(S) == {s \in S : \A t \in S : Size[t] <= Size[s]}

\* Defect: asks the scope recorded under the lock, which lags the window in front.
DeniedRecorded(s) == s \in Spine \/ s = foreground \/ TouchedRecently(s)

\* Mitigator::denied (the daemon's own cgroup is part of Spine).
Denied(s) == ProtectedFromEviction(s)

\* A write to a unit that has gone fails and changes nothing.
SetOom(s, adj)  == oom' = IF s \in alive THEN [oom EXCEPT ![s] = adj] ELSE oom

\* Defect: a thaw that fails is not reported.
ThawSilent(S) ==
  \E refused \in SUBSET {s \in S \cap alive \cap Stubborn : freeze[s] # "run"} :
    /\ freeze' = [s \in Scopes |-> IF s \in (S \cap alive) \ refused THEN "run" ELSE freeze[s]]
    /\ unthawed' = unthawed \ S

\* The daemon writes "0" to each of S.  A write that fails is reported and leaves
\* the unit as it was; that of a unit which runs changes nothing either way.
Thaw(S) ==
  \E refused \in SUBSET {s \in S \cap alive \cap Stubborn : freeze[s] # "run"} :
    /\ freeze' = [s \in Scopes |-> IF s \in (S \cap alive) \ refused THEN "run" ELSE freeze[s]]
    /\ unthawed' = (unthawed \ S) \cup refused

\* The cgroup goes with those below it, and their knobs with them.
Gone(s) ==
  /\ Leave(s)
  /\ freeze' = [t \in Scopes |-> IF t \in Subtree(s) THEN "run" ELSE freeze[t]]
  /\ unthawed' = unthawed \ Subtree(s)
  /\ oom' = [t \in Scopes |-> IF t \in Subtree(s) THEN "neutral" ELSE oom[t]]

\* Defect: the rescue at the end of the tick is left out.
AfterLadderAsleep(held) == "sleep"

\* The rest of the ladder once the rung of the level is done: the rescue runs
\* only while the mitigator holds something.
AfterLadder(held) == IF held = {} THEN "sleep" ELSE "rescue"

\* The focused window is a terminal with a tmux client in it.
FocusOwnsTmuxClient == fgPid \in TmuxWindows /\ WindowScope[fgPid] \in alive

\* thaw_foreground_related: the focused window's units and, when that window
\* owns a tmux client, every pane.
Rescued ==
  {s \in alive : /\ freeze[s] # "run"
                 /\ \/ ForegroundRelated(s)
                    \/ s \in Panes /\ FocusOwnsTmuxClient}

-----------------------------------------------------------------------------
(* OBSERVE: sleep a tick, read memory PSI and enter the ladder.            *)

\* Defect: pressure does not restart the count of normal readings.
StreakAfterKept(l) ==
  IF l = "normal" /\ streak < RecoverAfter THEN streak + 1 ELSE streak

\* Normal readings in a row, the one just made included; a failed reading is
\* neither here nor there.
StreakAfter(l) ==
  CASE l = "normal"     -> IF streak < RecoverAfter THEN streak + 1 ELSE streak
    [] l = "unreadable" -> streak
    [] OTHER            -> 0

Tick(l) ==
  /\ phase = "sleep"
  /\ level' = l
  /\ streak' = StreakAfter(l)
  /\ settling' = IF settling = 0 THEN 0 ELSE settling - 1
  /\ live' = Aged
  /\ UNCHANGED <<alive, fgPid, foreground, req, knobs,
                 frozen, killed, oomBiased, advised, cpuSeen, eligible>>

\* The reading failed: reconcile returns early and the tick is over.
ReadFails ==
  /\ Tick("unreadable")
  /\ UNCHANGED <<phase, todo>>

ReadPressure(l) ==
  /\ l \in {"elevated", "critical"}
  /\ Tick(l)
  /\ phase' = "bias"
  /\ todo' = AtLeast(FreezeFloor)

\* Defect: there is nothing to recover from unless something is frozen.
RecoveryDueIfFrozen == StreakAfter("normal") >= RecoverAfter /\ frozen # {}

RecoveryDue == StreakAfter("normal") >= RecoverAfter

ReadNormal ==
  /\ Tick("normal")
  /\ phase' = IF RecoveryDue THEN "recover" ELSE AfterLadder(frozen)
  /\ UNCHANGED todo

-----------------------------------------------------------------------------
(* bias_oom_toward_hogs                                                    *)

BiasExamine(s) ==
  /\ phase = "bias"
  /\ s \in Largest(todo)
  /\ todo' = todo \ {s}
  /\ IF Denied(s)
       THEN UNCHANGED <<phase, eligible>>
       ELSE phase' = "biasWrite" /\ eligible' = {s}
  /\ UNCHANGED <<presenceVars, knobs, level, streak, settling,
                 frozen, killed, oomBiased, advised, cpuSeen>>

\* Defect: only the last unit biased is remembered.
RememberedLast(s) == {s}

\* oom_biased with s pushed to it.
Remembered(s) == oomBiased \cup {s}

BiasWrite(s) ==
  /\ phase = "biasWrite"
  /\ s \in eligible
  /\ SetOom(s, "hog")
  /\ oomBiased' = Remembered(s)
  /\ eligible' = {}
  /\ phase' = "bias"
  /\ UNCHANGED <<presenceVars, pauses, level, streak, settling, todo,
                 frozen, killed, advised, cpuSeen>>

BiasDone ==
  /\ phase = "bias"
  /\ todo = {}
  /\ phase' = IF level = "critical" THEN "escalate" ELSE "advise"
  /\ UNCHANGED <<presenceVars, knobs, level, streak, settling, todo, eligible,
                 frozen, killed, oomBiased, advised, cpuSeen>>

\* claude_session_label finds a session in them.
ClaudeSessions == AtLeast(WarnFloor) \cap Precious

\* advise_claude_sessions: the notice is given once per accumulation.
Advise ==
  /\ phase = "advise"
  /\ advised' = (Cardinality(ClaudeSessions) >= WarnCount)
  /\ phase' = AfterLadder(frozen)
  /\ UNCHANGED <<presenceVars, knobs, level, streak, settling, todo, eligible,
                 frozen, killed, oomBiased, cpuSeen>>

-----------------------------------------------------------------------------
(* escalate: pause one candidate, the idlest and then the largest.         *)

\* Defect: the rung does not wait for the last freeze to settle.
MayFreezeUnsettled == Cardinality(frozen) < MaxFrozen

MayFreeze == Cardinality(frozen) < MaxFrozen /\ settling = 0

EscalateHeld ==
  /\ phase = "escalate"
  /\ ~MayFreeze
  /\ phase' = "kill"
  /\ UNCHANGED <<presenceVars, knobs, level, streak, settling, todo, eligible,
                 frozen, killed, oomBiased, advised, cpuSeen>>

EscalateBegin ==
  /\ phase = "escalate"
  /\ MayFreeze
  /\ phase' = "freezeScan"
  /\ todo' = AtLeast(FreezeFloor)
  /\ eligible' = {}
  /\ UNCHANGED <<presenceVars, knobs, level, streak, settling,
                 frozen, killed, oomBiased, advised, cpuSeen>>

\* Defect: asks the kernel what is paused now, not the list what was.
CoveredWhilePaused(s) == \E t \in {s} \cup Above[s] : freeze[t] # "run"

\* Already in the mitigator's list, or under something that is.
Covered(s) == s \in frozen \/ Above[s] \cap frozen # {}

\* What serving_local_clients can answer: only a service listens for local
\* clients, and whether one is connected differs from instant to instant.
ServingLocalClients(s) == IF s \in Servers THEN BOOLEAN ELSE {FALSE}

FreezeExamine(s, serving) ==
  /\ phase = "freezeScan"
  /\ s \in Largest(todo)
  /\ serving \in ServingLocalClients(s)
  /\ todo' = todo \ {s}
  /\ eligible' = IF s \in alive /\ ~Denied(s) /\ ~Covered(s) /\ ~serving
                   THEN eligible \cup {s}
                   ELSE eligible
  /\ UNCHANGED <<presenceVars, knobs, phase, level, streak, settling,
                 frozen, killed, oomBiased, advised, cpuSeen>>

\* What cpu_activity can answer: nothing on first sight or when cpu.stat
\* cannot be read, else a measurement.
Activity(s) == IF s \in cpuSeen THEN Busyness \cup {Unmeasured} ELSE {Unmeasured}

\* pick_freeze_index over S.
FreezePicks(S, act) ==
  {s \in S : \A t \in S : \/ act[s] < act[t]
                          \/ act[s] = act[t] /\ Size[s] >= Size[t]}

\* Ranks the eligible and freezes the first whose write succeeds.  broken is
\* the set whose write fails; a unit that has gone always fails.
Freeze(s, act, broken) ==
  /\ phase = "freezeScan"
  /\ todo = {}
  /\ \A t \in eligible : act[t] \in Activity(t)
  /\ eligible \ alive \subseteq broken
  /\ s \in FreezePicks(eligible \ broken, act)
  /\ freeze' = [freeze EXCEPT ![s] = IF @ = "user" THEN "user" ELSE "daemon"]
  /\ unthawed' = unthawed \ {s}
  /\ frozen' = frozen \cup {s}
  /\ settling' = Settle
  /\ cpuSeen' = cpuSeen \cup (eligible \cap alive)
  /\ phase' = "kill"
  /\ eligible' = {}
  /\ UNCHANGED <<presenceVars, oom, level, streak, todo,
                 killed, oomBiased, advised>>

\* Nothing was eligible, or every write failed.
FreezeNothing(broken) ==
  /\ phase = "freezeScan"
  /\ todo = {}
  /\ eligible \ alive \subseteq broken
  /\ eligible \subseteq broken
  /\ cpuSeen' = cpuSeen \cup (eligible \cap alive)
  /\ phase' = "kill"
  /\ eligible' = {}
  /\ UNCHANGED <<presenceVars, knobs, level, streak, settling, todo,
                 frozen, killed, oomBiased, advised>>

-----------------------------------------------------------------------------
(* kill_worst: at the precipice, SIGKILL one candidate.                    *)

\* Defect: one kill too many (<= for <).
MayKillPastLimit == Cardinality(killed) <= MaxKilled

MayKill == Cardinality(killed) < MaxKilled

\* precipice: swap_used_fraction() >= SWAP_HIGH_WATER at this instant.
KillHeld(precipice) ==
  /\ phase = "kill"
  /\ ~precipice \/ ~MayKill
  /\ phase' = AfterLadder(frozen)
  /\ UNCHANGED <<presenceVars, knobs, level, streak, settling, todo, eligible,
                 frozen, killed, oomBiased, advised, cpuSeen>>

KillBegin(precipice) ==
  /\ phase = "kill"
  /\ precipice
  /\ MayKill
  /\ phase' = "killScan"
  /\ todo' = AtLeast(KillFloor)
  /\ UNCHANGED <<presenceVars, knobs, level, streak, settling, eligible,
                 frozen, killed, oomBiased, advised, cpuSeen>>

KillExamine(s) ==
  /\ phase = "killScan"
  /\ s \in Largest(todo)
  /\ todo' = todo \ {s}
  /\ eligible' = IF Denied(s) \/ s \in killed THEN eligible ELSE eligible \cup {s}
  /\ UNCHANGED <<presenceVars, knobs, phase, level, streak, settling,
                 frozen, killed, oomBiased, advised, cpuSeen>>

\* Of S, what judgment::assess does not call Precious.
Ordinary(S) == S \ Precious

\* pick_victim_index: the largest Ordinary, else the largest Precious.
Victims(S) ==
  IF Ordinary(S) = {} THEN Largest(S) ELSE Largest(Ordinary(S))

\* cgroup.kill takes every process of the unit, so the unit goes.
Kill(s) ==
  /\ phase = "killScan"
  /\ todo = {}
  /\ s \in Victims(eligible) \cap alive
  /\ Gone(s)
  /\ killed' = killed \cup {s}
  /\ phase' = AfterLadder(frozen)
  /\ eligible' = {}
  /\ UNCHANGED <<fgPid, foreground, live, req, level, streak, settling,
                 todo, frozen, oomBiased, advised, cpuSeen>>

\* Nobody was eligible, or the one picked is already gone: no second choice.
KillNothing ==
  /\ phase = "killScan"
  /\ todo = {}
  /\ eligible = {} \/ Victims(eligible) \ alive # {}
  /\ phase' = AfterLadder(frozen)
  /\ eligible' = {}
  /\ UNCHANGED <<presenceVars, knobs, level, streak, settling, todo,
                 frozen, killed, oomBiased, advised, cpuSeen>>

-----------------------------------------------------------------------------
(* recover: both lists are taken whole before the first write, so a write   *)
(* that fails is not tried again.                                          *)

Recover ==
  /\ phase = "recover"
  /\ killed' = {}
  /\ advised' = FALSE
  /\ todo' = oomBiased
  /\ oomBiased' = {}
  /\ phase' = "unbias"
  /\ UNCHANGED <<presenceVars, knobs, level, streak, settling, eligible, frozen, cpuSeen>>

\* Of one unit: a neutral score whatever it has by now.
Unbias(s) ==
  /\ phase = "unbias"
  /\ s \in todo
  /\ SetOom(s, "neutral")
  /\ todo' = todo \ {s}
  /\ UNCHANGED <<presenceVars, pauses, phase, level, streak, settling, eligible,
                 frozen, killed, oomBiased, advised, cpuSeen>>

UnbiasDone ==
  /\ phase = "unbias"
  /\ todo = {}
  /\ todo' = frozen
  /\ frozen' = {}
  /\ phase' = IF frozen = {} THEN AfterLadder({}) ELSE "resume"
  /\ UNCHANGED <<presenceVars, knobs, level, streak, settling, eligible,
                 killed, oomBiased, advised, cpuSeen>>

Resume(s) ==
  /\ phase = "resume"
  /\ s \in todo
  /\ Thaw({s})
  /\ todo' = todo \ {s}
  /\ UNCHANGED <<presenceVars, oom, phase, level, streak, settling, eligible,
                 frozen, killed, oomBiased, advised, cpuSeen>>

ResumeDone ==
  /\ phase = "resume"
  /\ todo = {}
  /\ phase' = AfterLadder(frozen)
  /\ UNCHANGED <<presenceVars, knobs, level, streak, settling, todo, eligible,
                 frozen, killed, oomBiased, advised, cpuSeen>>

-----------------------------------------------------------------------------
(* The focus rescue that ends every tick: list_freezable_cgroups, then each *)
(* unit with the focus of that moment.                                     *)

RescueBegin ==
  /\ phase = "rescue"
  /\ todo' = alive
  /\ phase' = "rescueWalk"
  /\ UNCHANGED <<presenceVars, knobs, level, streak, settling, eligible,
                 frozen, killed, oomBiased, advised, cpuSeen>>

RescueLook(s) ==
  /\ phase = "rescueWalk"
  /\ s \in Largest(todo)
  /\ Thaw({s} \cap Rescued)
  /\ todo' = todo \ {s}
  /\ UNCHANGED <<presenceVars, oom, phase, level, streak, settling, eligible,
                 frozen, killed, oomBiased, advised, cpuSeen>>

RescueDone ==
  /\ phase = "rescueWalk"
  /\ todo = {}
  /\ phase' = "sleep"
  /\ UNCHANGED <<presenceVars, knobs, level, streak, settling, todo, eligible,
                 frozen, killed, oomBiased, advised, cpuSeen>>

Daemon ==
  \/ ReadFails
  \/ \E l \in Levels : ReadPressure(l)
  \/ ReadNormal
  \/ \E s \in Scopes : \/ BiasExamine(s)
                       \/ BiasWrite(s)
                       \/ \E serving \in BOOLEAN : FreezeExamine(s, serving)
                       \/ \E act \in [eligible -> Busyness \cup {Unmeasured}],
                             broken \in SUBSET eligible : Freeze(s, act, broken)
                       \/ KillExamine(s)
                       \/ Kill(s)
                       \/ Unbias(s)
                       \/ Resume(s)
                       \/ RescueLook(s)
  \/ BiasDone
  \/ Advise
  \/ EscalateHeld
  \/ EscalateBegin
  \/ \E broken \in SUBSET eligible : FreezeNothing(broken)
  \/ \E precipice \in BOOLEAN : KillHeld(precipice) \/ KillBegin(precipice)
  \/ KillNothing
  \/ Recover \/ UnbiasDone \/ ResumeDone
  \/ RescueBegin \/ RescueDone

-----------------------------------------------------------------------------
(* The handlers' steps with what they write to the two knobs.              *)

ProtectForeground(s) ==
  /\ SetOom(s, "protect")
  /\ Thaw({s})

HandlerStep(h) ==
  \/ /\ FocusThaw(h)
     /\ Thaw(Rescued)
     /\ UNCHANGED oom
  \/ /\ FocusUnchanged(h)
     /\ UNCHANGED knobs
  \/ /\ FocusRelease(h)
     /\ SetOom(foreground, "neutral")
     /\ UNCHANGED pauses
  \/ /\ FocusPin(h)
     /\ ProtectForeground(req[h].scope)
  \/ \E p \in Scopes : /\ TouchRelease(h, p)
                       /\ SetOom(p, "neutral")
                       /\ UNCHANGED pauses
  \/ /\ TouchPin(h)
     /\ ProtectForeground(req[h].scope)

Attend(h) ==
  /\ \/ \E w \in Windows : FocusStore(h, w)
     \/ \E s \in Typists : Touch(h, s)
  /\ UNCHANGED knobs

-----------------------------------------------------------------------------
(* do_act, the commands a user sends: one write each.                      *)

\* What a client's command may never freeze, kill or pin.
NeverFreeze == Spine \cup Terminals

\* permitted_target looks at every unit on the path, not the last alone.
Permitted(s) == ({s} \cup Above[s]) \cap NeverFreeze = {}

UserFreeze(s) ==
  /\ s \in alive /\ Permitted(s)
  /\ freeze' = [freeze EXCEPT ![s] = IF @ = "daemon" THEN "daemon" ELSE "user"]
  /\ UNCHANGED <<presenceVars, ladderVars, unthawed, oom>>

\* One that fails is answered as such and leaves everything as it was.
UserThaw(s) ==
  /\ s \in alive
  /\ freeze' = [freeze EXCEPT ![s] = "run"]
  /\ unthawed' = unthawed \ {s}
  /\ UNCHANGED <<presenceVars, ladderVars, oom>>

UserUnprotect(s) ==
  /\ s \in alive /\ Permitted(s)
  /\ SetOom(s, "neutral")
  /\ UNCHANGED <<presenceVars, ladderVars, pauses>>

UserKill(s) ==
  /\ Permitted(s)
  /\ s \notin Services
  /\ Gone(s)
  /\ UNCHANGED <<fgPid, foreground, live, req, ladderVars>>

User == \E s \in Commanded : UserFreeze(s) \/ UserThaw(s) \/ UserUnprotect(s) \/ UserKill(s)

\* Processes exit and services come back on their own.
Lifecycle ==
  \E s \in Scopes : /\ \/ s \in Mortal /\ Gone(s)
                      \/ /\ s \in Services
                         /\ Return(s)
                         /\ UNCHANGED knobs
                   /\ UNCHANGED <<fgPid, foreground, live, req, ladderVars>>

-----------------------------------------------------------------------------
Next ==
  \/ Daemon
  \/ \E h \in Handlers : /\ HandlerStep(h) \/ Attend(h)
                         /\ UNCHANGED ladderVars
  \/ User
  \/ Lifecycle

Spec == Init /\ [][Next]_vars

\* The loop is scheduled (no step of a tick blocks), and so is every connection
\* thread once it has a request.  Nothing is assumed of users, windows or
\* pressure: the loop's waking is stated of the normal reading alone, for a
\* second one in a row may change nothing, and then WF of "some reading" would
\* make the pressure return.
Fairness ==
  /\ WF_vars(phase # "sleep" /\ Daemon)
  /\ WF_vars(ReadNormal)
  /\ \A h \in Handlers : WF_vars(HandlerStep(h) /\ UNCHANGED ladderVars)

\* The daemon dies; systemd (Restart=on-failure) starts it again with empty
\* statics and an empty Mitigator, while the kernel keeps its knobs.
Crash ==
  /\ Forget
  /\ phase' = "sleep" /\ level' = "normal"
  /\ streak' = 0 /\ settling' = 0
  /\ todo' = {} /\ eligible' = {}
  /\ frozen' = {} /\ killed' = {} /\ oomBiased' = {}
  /\ advised' = FALSE /\ cpuSeen' = {}
  /\ UNCHANGED <<alive, knobs>>

-----------------------------------------------------------------------------
(* Properties                                                              *)

PausedByDaemon == {s \in Scopes : freeze[s] = "daemon"}

\* What recover() has taken out of a list and not come to yet.
Taken(list) == IF phase = list THEN todo ELSE {}

\* Whatever handlers and users do in the meantime, a unit the daemon paused is
\* in Mitigator.frozen, the only list recover() wakes from, or recover() is about
\* to come to it, or the journal says that it could not be woken: no pause is
\* lost without a word.
PausedIsTracked == PausedByDaemon \subseteq frozen \cup Taken("resume") \cup unthawed

\* A unit carrying the +500 of bias_hog_oom is in Mitigator.oom_biased, the only
\* list recover() returns to neutral, or recover() is about to come to it: no app
\* stays the preferred OOM victim.
HogIsTracked == {s \in Scopes : oom[s] = "hog"} \subseteq oomBiased \cup Taken("unbias")

\* The freeze rung keeps the promise of Pausing: a unit is paused at most once
\* per episode (no flap after a focus rescue), and recovery tries to wake every
\* one of the lot once, and reports those it could not wake.
P == INSTANCE Pausing WITH paused <- PausedByDaemon, ledger <- frozen,
                           closing <- Taken("resume"), reported <- unthawed
KeepsPausingPromise == P!Spec

\* Between two ticks, with no focus report half way through its thaw, nothing
\* the focused window owns is left paused by the daemon, but for a unit whose
\* thaw was refused and reported (reconcile's focus rescue and do_foreground's
\* thaw between them leave no gap).
FocusNotLeftPaused ==
  (/\ phase = "sleep"
   /\ fgPid # NoWindow
   /\ WindowScope[fgPid] \notin Spine
   /\ \A h \in Handlers : req[h].at # "thaw")
  => \A s \in PausedByDaemon \ unthawed : ~ForegroundRelated(s)

\* Once readings stay normal, everything the daemon paused runs again, but for
\* what it said it could not wake, and no unit keeps the hog bias (recover, after
\* its hysteresis).
EpisodeEnds ==
  <>[](level = "normal") =>
    <>[](PausedByDaemon \subseteq unthawed /\ \A s \in Scopes : oom[s] # "hog")
=============================================================================
