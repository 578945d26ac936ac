------------------------ MODULE LadderHistoryProofs ------------------------
(***************************************************************************)
(* Proofs of the episode properties of LadderHistory: what the counters of *)
(* Daemon and Mitigator are for, stated with the recorded history instead. *)
(* The invariant relates each history variable to the counter that guards  *)
(* the step: calm is the streak, kills is bounded by the size of killed,   *)
(* and since makes up for what is left of settling.                        *)
(***************************************************************************)
EXTENDS LadderHistory, LadderProofs, FiniteSetTheorems, TLAPS

\* The loop's counters and where it may be while they hold a value.
CountersOK ==
  /\ streak \in 0 .. RecoverAfter
  /\ settling \in 0 .. Settle
  /\ phase = "freezeScan" => settling = 0
  /\ phase = "recover" => streak = RecoverAfter

\* The kill rung collects only units it has not killed, below its budget.
KilledOK ==
  /\ IsFiniteSet(killed)
  /\ Cardinality(killed) <= MaxKilled
  /\ phase \notin {"biasWrite", "freezeScan", "killScan"} => eligible = {}
  /\ phase = "killScan" => /\ Cardinality(killed) < MaxKilled
                           /\ eligible \cap killed = {}

HistoryOK ==
  /\ calm = streak
  /\ kills \in Nat /\ kills <= Cardinality(killed)
  /\ phase = "recover" => kills = 0
  /\ since \in 0 .. Settle /\ since + settling >= Settle

HInv == CountersOK /\ KilledOK /\ HistoryOK

-----------------------------------------------------------------------------
(* The steps that matter, and what every other step leaves alone.          *)

LEMMA TickCases ==
  ASSUME Ticked
  PROVE  ReadFails \/ (\E l \in Levels : ReadPressure(l)) \/ ReadNormal
BY DEF Ticked, Daemon, BiasExamine, BiasWrite, BiasDone, Advise, EscalateHeld, EscalateBegin,
       FreezeExamine, Freeze, FreezeNothing, KillHeld, KillBegin, KillExamine, Kill, KillNothing,
       Recover, Unbias, UnbiasDone, Resume, ResumeDone, RescueBegin, RescueLook, RescueDone

\* A step of somebody else, or of nobody.
Outside == UNCHANGED ladderVars

LEMMA OutsideCases == ASSUME [Next]_vars, ~Daemon PROVE Outside
BY DEF Next, User, UserFreeze, UserThaw, UserUnprotect, UserKill, Lifecycle, Outside, vars

\* What follows the beginning of a recovery, and the focus rescue.
Unwinding ==
  \/ \E s \in Scopes : Unbias(s) \/ Resume(s) \/ RescueLook(s)
  \/ UnbiasDone \/ ResumeDone \/ RescueBegin \/ RescueDone

\* A step of the loop that neither reads, freezes, kills nor begins a recovery.
Bookkeeping ==
  \/ \E s \in Scopes : \/ BiasExamine(s)
                       \/ BiasWrite(s)
                       \/ \E serving \in BOOLEAN : FreezeExamine(s, serving)
                       \/ KillExamine(s)
  \/ BiasDone \/ Advise \/ EscalateHeld \/ EscalateBegin
  \/ \E broken \in SUBSET eligible : FreezeNothing(broken)
  \/ \E precipice \in BOOLEAN : KillHeld(precipice) \/ KillBegin(precipice)
  \/ KillNothing \/ Unwinding

LEMMA BookkeepingCounters ==
  ASSUME Bookkeeping, CountersOK, KilledOK
  PROVE  /\ CountersOK' /\ KilledOK'
         /\ UNCHANGED <<streak, settling, killed, alive>>
         /\ phase # "sleep" /\ phase' # "recover"
         /\ phase = "freezeScan" => frozen' = frozen
<1> USE DEF CountersOK, KilledOK, presenceVars, AfterLadder
<1>1. CASE (\E s \in Scopes : BiasExamine(s) \/ BiasWrite(s)) \/ BiasDone \/ Advise
  BY <1>1 DEF BiasExamine, BiasWrite, BiasDone, Advise
<1>2. CASE \/ EscalateHeld \/ EscalateBegin
           \/ \E s \in Scopes, serving \in BOOLEAN : FreezeExamine(s, serving)
           \/ \E broken \in SUBSET eligible : FreezeNothing(broken)
  BY <1>2 DEF EscalateHeld, EscalateBegin, MayFreeze, FreezeExamine, FreezeNothing
<1>3. CASE \E precipice \in BOOLEAN : KillHeld(precipice) \/ KillBegin(precipice)
  BY <1>3 DEF KillHeld, KillBegin, MayKill
<1>4. CASE KillNothing \/ (\E s \in Scopes : KillExamine(s))
  BY <1>4 DEF KillNothing, KillExamine
<1>5. CASE Unwinding
  BY <1>5 DEF Unwinding, Unbias, UnbiasDone, Resume, ResumeDone, RescueBegin, RescueLook, RescueDone
<1> QED BY <1>1, <1>2, <1>3, <1>4, <1>5 DEF Bookkeeping

LEMMA DaemonCases ==
  ASSUME Daemon
  PROVE  \/ Bookkeeping \/ Recover
         \/ ReadFails \/ (\E l \in Levels : ReadPressure(l)) \/ ReadNormal
         \/ \E s \in Scopes : \E act, broken : Freeze(s, act, broken)
         \/ \E s \in Scopes : Kill(s)
BY DEF Daemon, Bookkeeping, Unwinding

-----------------------------------------------------------------------------
(* One lemma per kind of step.                                             *)

LEMMA UpToFacts ==
  ASSUME NEW b \in Nat, NEW n \in Nat
  PROVE  /\ UpTo(b, n) \in 0 .. b
         /\ n <= b => UpTo(b, n) = n
         /\ n > b => UpTo(b, n) = b
BY DEF UpTo

LEMMA StillKeeps ==
  ASSUME HInv, Record, ~Ticked, ~DaemonFroze, ~DaemonKilled, CountersOK', KilledOK',
         UNCHANGED <<streak, killed>>, settling' = settling,
         phase' = "recover" => phase = "recover"
  PROVE  HInv'
BY DEF HInv, HistoryOK, Record

LEMMA OutsideKeeps == ASSUME HInv, Record, ~Ticked, Outside PROVE HInv'
<1>1. ~DaemonFroze /\ ~DaemonKilled
  BY DEF Outside, ladderVars, DaemonFroze, DaemonKilled
<1>2. CountersOK' /\ KilledOK'
  BY DEF HInv, CountersOK, KilledOK, Outside, ladderVars
<1> QED
  BY <1>1, <1>2, StillKeeps DEF Outside, ladderVars

LEMMA BookkeepingKeeps == ASSUME HInv, Record, Bookkeeping PROVE HInv'
<1>1. /\ CountersOK' /\ KilledOK'
      /\ UNCHANGED <<streak, settling, killed, alive>>
      /\ phase # "sleep" /\ phase' # "recover"
      /\ phase = "freezeScan" => frozen' = frozen
  BY BookkeepingCounters DEF HInv
<1> QED
  BY <1>1, StillKeeps DEF Ticked, DaemonFroze, DaemonKilled

\* A tick counts the reading in calm and in the streak alike, and lets one tick
\* of settling pass.
LEMMA TickKeeps == ASSUME HInv, Record, Ticked PROVE HInv'
<1>1. RecoverAfter \in Nat \ {0} /\ Settle \in Nat
  BY LadderAssumption DEF LadderAssumption
<1>2. phase = "sleep" /\ ~DaemonFroze /\ ~DaemonKilled
  BY DEF Ticked, DaemonFroze, DaemonKilled
<1>3. since' = UpTo(Settle, since + 1) /\ settling' = IF settling = 0 THEN 0 ELSE settling - 1
  BY <1>2, TickCases DEF Record, ReadFails, ReadPressure, ReadNormal, Tick
<1>4. since' \in 0 .. Settle /\ settling' \in 0 .. Settle /\ since' + settling' >= Settle
  BY <1>1, <1>3, UpToFacts DEF HInv, HistoryOK, CountersOK, UpTo
<1>5. killed' = killed /\ eligible' = eligible /\ phase' \notin {"freezeScan", "killScan", "biasWrite"}
  BY <1>2, TickCases DEF ReadFails, ReadPressure, ReadNormal, Tick, AfterLadder
<1>6. KilledOK'
  BY <1>2, <1>5 DEF HInv, KilledOK
<1>7. /\ streak' \in 0 .. RecoverAfter
      /\ calm' = streak'
      /\ phase' = "recover" => streak' = RecoverAfter /\ calm' = RecoverAfter
  <2>1. CASE ReadFails
    BY <1>2, <2>1 DEF ReadFails, Tick, StreakAfter, Record, HInv, CountersOK, HistoryOK
  <2>2. CASE \E l \in Levels : ReadPressure(l)
    BY <1>1, <2>2 DEF ReadPressure, Tick, StreakAfter, Record
  <2>3. CASE ReadNormal
    <3>1. calm' = UpTo(RecoverAfter, calm + 1)
      BY <2>3 DEF ReadNormal, Tick, Record
    <3>2. streak' = IF streak < RecoverAfter THEN streak + 1 ELSE streak
      BY <2>3 DEF ReadNormal, Tick, StreakAfter
    <3>3. phase' = "recover" => streak' >= RecoverAfter
      BY <2>3 DEF ReadNormal, Tick, RecoveryDue, AfterLadder
    <3> QED
      BY <1>1, <3>1, <3>2, <3>3, UpToFacts DEF HInv, CountersOK, HistoryOK, UpTo
  <2> QED BY <2>1, <2>2, <2>3, TickCases
<1>8. kills' \in {kills, 0} /\ (calm' = RecoverAfter => kills' = 0)
  BY <1>2 DEF Record
<1>9. kills' \in Nat /\ kills' <= Cardinality(killed')
  BY <1>5, <1>8, FS_CardinalityType DEF HInv, HistoryOK, KilledOK
<1> QED
  BY <1>4, <1>5, <1>6, <1>7, <1>8, <1>9 DEF HInv, CountersOK, HistoryOK

LEMMA FreezeKeeps ==
  ASSUME HInv, Record, NEW s, NEW act, NEW broken, Freeze(s, act, broken)
  PROVE  HInv'
<1>1. Settle \in Nat
  BY LadderAssumption DEF LadderAssumption
<1>2. /\ phase = "freezeScan" /\ phase' = "kill" /\ settling' = Settle
      /\ UNCHANGED <<streak, killed>> /\ eligible' = {}
  BY DEF Freeze
<1>3. CountersOK' /\ KilledOK'
  BY <1>1, <1>2 DEF HInv, CountersOK, KilledOK
<1>4. calm' = calm /\ kills' = kills /\ since' \in {since, 0}
  BY <1>2 DEF Record, Ticked, DaemonKilled
<1>5. since' \in 0 .. Settle /\ since' + settling' >= Settle
  <2>1. since \in 0 .. Settle
    BY DEF HInv, HistoryOK
  <2>2. since' \in 0 .. Settle
    BY <1>1, <1>4, <2>1
  <2>3. \A n \in 0 .. Settle : n + Settle >= Settle
    BY <1>1
  <2> QED
    BY <1>2, <2>2, <2>3
<1>6. kills' \in Nat /\ kills' <= Cardinality(killed') /\ calm' = streak'
  BY <1>2, <1>4 DEF HInv, HistoryOK
<1> QED
  BY <1>2, <1>3, <1>5, <1>6 DEF HInv, HistoryOK

\* A kill adds a unit that was not in killed, so the size of killed keeps up.
LEMMA KillKeeps == ASSUME HInv, Record, NEW s, Kill(s) PROVE HInv'
<1>1. /\ phase = "killScan" /\ phase' \in {"sleep", "rescue"}
      /\ UNCHANGED <<streak, settling>> /\ eligible' = {}
      /\ killed' = killed \cup {s}
  BY DEF Kill, AfterLadder
<1>2. s \notin killed /\ IsFiniteSet(killed) /\ Cardinality(killed) < MaxKilled
  BY <1>1 DEF Kill, Victims, Ordinary, Largest, HInv, KilledOK
<1>3. IsFiniteSet(killed') /\ Cardinality(killed') = Cardinality(killed) + 1
  BY <1>1, <1>2, FS_AddElement
<1>4. MaxKilled \in Nat /\ Cardinality(killed) \in Nat
  BY <1>2, FS_CardinalityType, LadderAssumption DEF LadderAssumption
<1>5. CountersOK' /\ KilledOK'
  BY <1>1, <1>2, <1>3, <1>4 DEF HInv, CountersOK, KilledOK
<1>6. calm' = calm /\ since' = since /\ kills' \in {kills, kills + 1}
  BY <1>1 DEF Record, Ticked, DaemonFroze
<1> QED
  BY <1>1, <1>3, <1>4, <1>5, <1>6 DEF HInv, HistoryOK

LEMMA RecoverKeeps == ASSUME HInv, Record, Recover PROVE HInv'
<1>1. /\ phase = "recover" /\ phase' = "unbias"
      /\ UNCHANGED <<streak, settling, eligible, alive>> /\ killed' = {}
  BY DEF Recover, presenceVars
<1>2. IsFiniteSet({}) /\ Cardinality({}) = 0
  BY FS_EmptySet
<1>3. CountersOK' /\ KilledOK'
  BY <1>1, <1>2, LadderAssumption DEF LadderAssumption, HInv, CountersOK, KilledOK
<1>4. calm' = calm /\ since' = since /\ kills' = kills
  BY <1>1 DEF Record, Ticked, DaemonFroze, DaemonKilled
<1> QED
  BY <1>1, <1>2, <1>3, <1>4 DEF HInv, HistoryOK

LEMMA HistoryInv == ASSUME HInv, [HistoryNext]_<<vars, history>> PROVE HInv'
<1>1. CASE UNCHANGED <<vars, history>>
  BY <1>1 DEF vars, ladderVars, history, HInv, CountersOK, KilledOK, HistoryOK
<1>2. CASE HistoryNext /\ Ticked
  BY <1>2, TickKeeps DEF HistoryNext
<1>3. CASE HistoryNext /\ ~Ticked /\ Daemon
  <2>1. ~ReadFails /\ ~(\E l \in Levels : ReadPressure(l)) /\ ~ReadNormal
    BY <1>3 DEF Ticked, ReadFails, ReadPressure, ReadNormal, Tick
  <2> QED
    BY <1>3, <2>1, DaemonCases, BookkeepingKeeps, FreezeKeeps, KillKeeps, RecoverKeeps
       DEF HistoryNext
<1>4. CASE HistoryNext /\ ~Ticked /\ ~Daemon
  BY <1>4, OutsideCases, OutsideKeeps DEF HistoryNext
<1> QED BY <1>1, <1>2, <1>3, <1>4

THEOREM HistoryInvariance == HistorySpec => []HInv
<1>1. HistoryInit => HInv
  BY LadderAssumption, FS_EmptySet
     DEF LadderAssumption, HistoryInit, Init, HInv, CountersOK, KilledOK, HistoryOK
<1>2. HInv /\ [HistoryNext]_<<vars, history>> => HInv'
  BY HistoryInv
<1> QED
  BY <1>1, <1>2, PTL DEF HistorySpec

-----------------------------------------------------------------------------
\* However the level flaps, the daemon kills at most MaxKilled units between
\* two stretches of RecoverAfter normal readings.
THEOREM KillsAreBounded == HistorySpec => []KillBudget
<1>1. HInv => KillBudget
  BY FS_CardinalityType, LadderAssumption
     DEF LadderAssumption, HInv, HistoryOK, KilledOK, KillBudget
<1> QED
  BY <1>1, HistoryInvariance, PTL

\* Two freezes are at least FREEZE_SETTLE apart.
THEOREM FreezesSettle == HistorySpec => FreezesAreSpaced
<1>1. HInv => (DaemonFroze => since >= Settle)
  BY LadderAssumption DEF LadderAssumption, HInv, CountersOK, HistoryOK, DaemonFroze
<1> QED
  BY <1>1, HistoryInvariance, PTL DEF FreezesAreSpaced

\* No recovery without RecoverAfter normal readings and none elevated between.
THEOREM RecoveryIsEarned == HistorySpec => CalmBeforeRecovery
<1>1. HInv => (Recovered => calm >= RecoverAfter)
  BY LadderAssumption DEF LadderAssumption, HInv, CountersOK, HistoryOK, Recovered
<1> QED
  BY <1>1, HistoryInvariance, PTL DEF CalmBeforeRecovery

-----------------------------------------------------------------------------
(* The unit the user has stayed with.                                      *)

\* What a scan holds it found unsheltered, and what has stayed sheltered since
\* the reading it cannot have found.
StayedOK == stayed \subseteq Sheltered /\ stayed \cap eligible = {}

\* A step of the loop harms only what its scan holds.
LEMMA DaemonHarms == ASSUME IInv, Daemon PROVE Harmed \subseteq eligible
<1>1. oom \in [Scopes -> {"neutral", "hog", "protect"}]
  BY DEF IInv, LadderTypeOK
<1>2. CASE UNCHANGED <<frozen, killed, oom>>
  BY <1>2 DEF Harmed
<1>3. ASSUME NEW s \in Scopes, BiasWrite(s) PROVE Harmed \subseteq eligible
  <2>1. \A t \in Scopes : oom'[t] = "hog" /\ oom[t] # "hog" => t = s
    BY <1>1, <1>3 DEF BiasWrite, SetOom
  <2> QED BY <1>3, <2>1 DEF BiasWrite, Harmed
<1>4. ASSUME NEW s, NEW act, NEW broken, Freeze(s, act, broken) PROVE Harmed \subseteq eligible
  BY <1>4 DEF Freeze, FreezePicks, Harmed
<1>5. ASSUME NEW s \in Scopes, Kill(s) PROVE Harmed \subseteq eligible
  <2>1. s \in eligible
    BY <1>5 DEF Kill, Victims, Ordinary, Largest
  <2>2. \A t \in Scopes : oom'[t] \in {"neutral", oom[t]}
    BY <1>1, <1>5 DEF Kill, Gone
  <2> QED BY <1>5, <2>1, <2>2 DEF Kill, Harmed
<1>6. CASE Recover
  BY <1>6 DEF Recover, Harmed, knobs
<1>7. CASE ReadFails \/ (\E l \in Levels : ReadPressure(l)) \/ ReadNormal
  BY <1>2, <1>7 DEF ReadFails, ReadPressure, ReadNormal, Tick, knobs
<1>8. CASE Bookkeeping
  <2>1. CASE \E s \in Scopes : BiasWrite(s)
    BY <1>3, <2>1
  <2>2. CASE \/ \E s \in Scopes : BiasExamine(s) \/ KillExamine(s)
             \/ \E s \in Scopes, serving \in BOOLEAN : FreezeExamine(s, serving)
             \/ BiasDone \/ Advise \/ EscalateHeld \/ EscalateBegin
             \/ \E broken \in SUBSET eligible : FreezeNothing(broken)
             \/ \E precipice \in BOOLEAN : KillHeld(precipice) \/ KillBegin(precipice)
             \/ KillNothing
    BY <1>2, <2>2 DEF BiasExamine, KillExamine, FreezeExamine, BiasDone, Advise, EscalateHeld,
                      EscalateBegin, FreezeNothing, KillHeld, KillBegin, KillNothing, knobs
  <2>3. ASSUME NEW s \in Scopes, Unbias(s) PROVE Harmed \subseteq eligible
    <3>1. \A t \in Scopes : oom'[t] \in {"neutral", oom[t]}
      BY <1>1, <2>3 DEF Unbias, SetOom
    <3> QED BY <2>3, <3>1 DEF Unbias, Harmed
  <2>4. CASE \/ \E s \in Scopes : Resume(s) \/ RescueLook(s)
             \/ UnbiasDone \/ ResumeDone \/ RescueBegin \/ RescueDone
    BY <2>4 DEF Resume, RescueLook, UnbiasDone, ResumeDone, RescueBegin, RescueDone, knobs, Harmed
  <2> QED BY <1>8, <2>1, <2>2, <2>3, <2>4 DEF Bookkeeping, Unwinding
<1> QED BY <1>3, <1>4, <1>5, <1>6, <1>7, <1>8, DaemonCases

\* Somebody else's step harms nobody.
LEMMA OthersHarmNobody ==
  ASSUME IInv, [Next]_vars, ~Daemon PROVE Harmed = {}
<1>1. Bystander \/ UNCHANGED vars
  BY HandlerBystands, UserBystands, LifecycleBystands DEF Next
<1> QED BY <1>1 DEF Bystander, Harmed, vars, ladderVars, knobs

\* A candidate joins a scan only at a moment when it is not sheltered.
LEMMA CandidatesUnsheltered ==
  ASSUME Daemon, ~Ticked
  PROVE  \A s \in eligible' : s \in eligible \/ s \notin Sheltered
<1>1. ASSUME NEW s \in Scopes, NEW serving, FreezeExamine(s, serving)
      PROVE  \A t \in eligible' : t \in eligible \/ t \notin Sheltered
  BY <1>1 DEF FreezeExamine, Denied, Sheltered
<1>2. CASE \E s \in Scopes : BiasExamine(s) \/ KillExamine(s)
  BY <1>2 DEF BiasExamine, KillExamine, Denied, Sheltered
<1>3. CASE eligible' \subseteq eligible
  BY <1>3
<1>4. ASSUME NEW s, NEW act, NEW broken, Freeze(s, act, broken) \/ Kill(s) PROVE eligible' \subseteq eligible
  BY <1>4 DEF Freeze, Kill
<1>5. CASE \/ \E s \in Scopes : BiasWrite(s)
           \/ BiasDone \/ Advise \/ EscalateHeld \/ EscalateBegin
           \/ \E broken \in SUBSET eligible : FreezeNothing(broken)
           \/ \E precipice \in BOOLEAN : KillHeld(precipice) \/ KillBegin(precipice)
           \/ KillNothing \/ Recover \/ Unwinding
  BY <1>3, <1>5 DEF BiasWrite, BiasDone, Advise, EscalateHeld, EscalateBegin, FreezeNothing,
                    KillHeld, KillBegin, KillNothing, Recover, Unwinding, Unbias, UnbiasDone,
                    Resume, ResumeDone, RescueBegin, RescueLook, RescueDone
<1>6. ~ReadFails /\ ~(\E l \in Levels : ReadPressure(l)) /\ ~ReadNormal
  BY DEF Ticked, ReadFails, ReadPressure, ReadNormal, Tick
<1> QED BY <1>1, <1>2, <1>3, <1>4, <1>5, <1>6, DaemonCases DEF Bookkeeping

LEMMA StayedKeeps ==
  ASSUME HInv, HInv', StayedOK, [HistoryNext]_<<vars, history>>
  PROVE  StayedOK'
<1>1. CASE UNCHANGED <<vars, history>>
  BY <1>1 DEF vars, presenceVars, ladderVars, history, StayedOK, Sheltered, ProtectedFromEviction,
              ForegroundRelated, TouchedRecently
<1>2. CASE HistoryNext /\ phase' = "sleep"
  <2>1. stayed' = {}
    BY <1>2 DEF HistoryNext, Record
  <2> QED BY <2>1 DEF StayedOK
<1>3. CASE HistoryNext /\ Ticked
  <2>1. phase' \notin {"biasWrite", "freezeScan", "killScan"}
    BY <1>3, TickCases DEF ReadFails, ReadPressure, ReadNormal, Tick, AfterLadder, Ticked
  <2>2. eligible' = {}
    BY <2>1 DEF HInv, KilledOK
  <2>3. stayed' \subseteq Sheltered'
    BY <1>3 DEF HistoryNext, Record
  <2> QED BY <2>2, <2>3 DEF StayedOK
<1>4. CASE HistoryNext /\ ~Ticked /\ phase' # "sleep"
  <2>1. stayed' \subseteq stayed \cap Sheltered'
    BY <1>4 DEF HistoryNext, Record
  <2>2. \A s \in eligible' : s \in eligible \/ s \notin Sheltered
    <3>1. CASE Daemon
      BY <1>4, <3>1, CandidatesUnsheltered
    <3>2. CASE ~Daemon
      BY <1>4, <3>2, OutsideCases DEF HistoryNext, Outside, ladderVars
    <3> QED BY <3>1, <3>2
  <2> QED BY <2>1, <2>2 DEF StayedOK
<1> QED BY <1>1, <1>2, <1>3, <1>4 DEF HistoryNext

\* A unit the user was with at the tick's reading and has not left since is
\* never frozen, killed or biased in that tick, whatever happens between the
\* look at a candidate and the act on it.
THEOREM StayingSpares == HistorySpec => StayedIsSpared
<1>1. HistoryInit => StayedOK /\ IInv
  BY InitInv DEF HistoryInit, StayedOK
<1>2. HInv /\ HInv' /\ StayedOK /\ [HistoryNext]_<<vars, history>> => StayedOK'
  BY StayedKeeps
<1>3. IInv /\ [HistoryNext]_<<vars, history>> => IInv'
  BY NextInv DEF HistoryNext
<1>4. IInv /\ StayedOK /\ [HistoryNext]_<<vars, history>> => [stayed \cap Harmed = {}]_<<vars, history>>
  <2> SUFFICES ASSUME IInv, StayedOK, HistoryNext PROVE stayed \cap Harmed = {}
    OBVIOUS
  <2>1. CASE Daemon
    BY <2>1, DaemonHarms DEF StayedOK
  <2>2. CASE ~Daemon
    BY <2>2, OthersHarmNobody DEF HistoryNext
  <2> QED BY <2>1, <2>2
<1> QED
  BY <1>1, <1>2, <1>3, <1>4, HistoryInvariance, PTL DEF HistorySpec, StayedIsSpared
=============================================================================
