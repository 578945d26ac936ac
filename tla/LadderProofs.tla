---------------------------- MODULE LadderProofs ----------------------------
(***************************************************************************)
(* Proofs about Ladder, for every set of units and windows, every size,    *)
(* every number of handler threads and every value of the limits.          *)
(*                                                                         *)
(* PausedIsTracked is not inductive alone.  recover() writes only to units *)
(* that exist, so it also takes that a unit that has gone carries no pause *)
(* and no bias (GoneIsClean); and the promise of Pausing, that no unit is  *)
(* entered twice, takes that a scan in progress has collected no unit of   *)
(* the list (ScanIsFresh).  A thaw may be refused: Wakes says what every   *)
(* thaw, refused or not, and every other step but a freeze keeps to.       *)
(***************************************************************************)
EXTENDS Ladder, PresenceProofs, TLAPS

GoneIsClean == \A s \in Scopes \ alive : freeze[s] = "run" /\ oom[s] = "neutral"

ScanIsFresh == phase = "freezeScan" => eligible \cap frozen = {}

\* Every step writes req[h] of one thread and keeps req a function.
ReqIsFunction == req = [h \in Handlers |-> req[h]]

IInv ==
  /\ alive \subseteq Scopes
  /\ LadderTypeOK
  /\ PausedIsTracked
  /\ HogIsTracked
  /\ GoneIsClean
  /\ ScanIsFresh

-----------------------------------------------------------------------------
(* The writes to the two knobs.                                            *)

\* Nothing is paused, and a report that a unit could not be woken is made of one
\* that stays as it is and withdrawn for one that runs.
Wakes ==
  /\ PausedByDaemon' \subseteq PausedByDaemon
  /\ PausedByDaemon' \cap unthawed \subseteq unthawed'
  /\ (PausedByDaemon \ PausedByDaemon') \cap unthawed' = {}
  /\ unthawed' \subseteq Scopes

\* A thaw keeps the knob typed, only wakes, and leaves each of its set running
\* or reported.
LEMMA ThawFacts ==
  ASSUME NEW S, Thaw(S), GoneIsClean, unthawed \subseteq Scopes,
         freeze \in [Scopes -> {"run", "daemon", "user"}]
  PROVE  /\ freeze' \in [Scopes -> {"run", "daemon", "user"}]
         /\ Wakes
         /\ \A s \in Scopes : freeze[s] = "run" => freeze'[s] = "run"
         /\ \A s \in S \cap alive \cap Scopes : freeze'[s] = "run" \/ s \in unthawed'
<1> PICK refused \in SUBSET {s \in S \cap alive \cap Stubborn : freeze[s] # "run"} :
         /\ freeze' = [s \in Scopes |-> IF s \in (S \cap alive) \ refused THEN "run" ELSE freeze[s]]
         /\ unthawed' = (unthawed \ S) \cup refused
  BY DEF Thaw
<1>1. refused \subseteq Scopes
  BY LadderAssumption DEF LadderAssumption
<1>2. \A s \in Scopes : freeze'[s] = IF s \in (S \cap alive) \ refused THEN "run" ELSE freeze[s]
  OBVIOUS
<1>3. PausedByDaemon' = PausedByDaemon \ ((S \cap alive) \ refused)
  BY <1>2 DEF PausedByDaemon
<1>4. PausedByDaemon \subseteq alive
  BY DEF PausedByDaemon, GoneIsClean
<1>5. Wakes
  BY <1>1, <1>3, <1>4 DEF Wakes
<1> QED
  BY <1>1, <1>2, <1>5

\* A write of the protected or neutral score makes no unit a hog and leaves a
\* unit that has gone alone.
LEMMA SetOomFacts ==
  ASSUME NEW s, NEW adj \in {"neutral", "protect"}, SetOom(s, adj),
         oom \in [Scopes -> {"neutral", "hog", "protect"}]
  PROVE  /\ oom' \in [Scopes -> {"neutral", "hog", "protect"}]
         /\ \A t \in Scopes : oom'[t] = "hog" => oom[t] = "hog"
         /\ \A t \in Scopes \ alive : oom'[t] = oom[t]
BY DEF SetOom

-----------------------------------------------------------------------------
(* One lemma per group of actions: the loop's reading and bookkeeping      *)
(* steps, its three effective rungs, and everybody else.                   *)

LEMMA InitInv == Init => IInv
<1> SUFFICES ASSUME Init PROVE IInv
  OBVIOUS
<1>1. LadderTypeOK
  <2>1. streak \in 0 .. RecoverAfter /\ settling \in 0 .. Settle
    BY LadderAssumption DEF LadderAssumption, Init
  <2>2. /\ freeze \in [Scopes -> {"run", "daemon", "user"}]
        /\ oom \in [Scopes -> {"neutral", "hog", "protect"}]
    BY DEF Init
  <2> QED
    BY <2>1, <2>2 DEF Init, LadderTypeOK, Phases, Levels
<1>2. PausedByDaemon = {} /\ {s \in Scopes : oom[s] = "hog"} = {}
  BY DEF Init, PausedByDaemon
<1>3. alive \subseteq Scopes /\ GoneIsClean
  BY DEF Init, PresenceInit, GoneIsClean
<1> QED
  BY <1>1, <1>2, <1>3 DEF IInv, PausedIsTracked, HogIsTracked, ScanIsFresh, Init

LEMMA ReadInv ==
  ASSUME IInv, ReadFails \/ (\E l \in Levels : ReadPressure(l)) \/ ReadNormal
  PROVE  IInv'
<1> USE DEF IInv, LadderTypeOK, Phases, Levels, PausedIsTracked, PausedByDaemon, HogIsTracked,
            GoneIsClean, ScanIsFresh, Taken, knobs, pauses, Tick, StreakAfter, LadderAssumption
<1>1. CASE ReadFails
  BY <1>1, LadderAssumption DEF ReadFails
<1>2. CASE \E l \in Levels : ReadPressure(l)
  BY <1>2, LadderAssumption DEF ReadPressure, AtLeast
<1>3. CASE ReadNormal
  BY <1>3, LadderAssumption DEF ReadNormal, RecoveryDue, AfterLadder
<1> QED BY <1>1, <1>2, <1>3

\* Biasing tracks before it looks at the next unit; its other steps, the advice
\* and the closed gates of escalate() and kill_worst() leave the lists alone.
LEMMA BiasInv ==
  ASSUME IInv,
         \/ \E s \in Scopes : BiasExamine(s) \/ BiasWrite(s)
         \/ BiasDone \/ Advise
  PROVE  IInv'
<1> USE DEF IInv, LadderTypeOK, Phases, Levels, PausedIsTracked, PausedByDaemon, HogIsTracked,
            GoneIsClean, ScanIsFresh, Taken, pauses
<1>1. CASE \E s \in Scopes : BiasExamine(s)
  BY <1>1 DEF BiasExamine, presenceVars, knobs
<1>2. ASSUME NEW s \in Scopes, BiasWrite(s) PROVE IInv'
  BY <1>2 DEF BiasWrite, Remembered, SetOom, presenceVars
<1>3. CASE BiasDone
  BY <1>3 DEF BiasDone, presenceVars, knobs
<1>4. CASE Advise
  BY <1>4 DEF Advise, AfterLadder, presenceVars, knobs
<1> QED BY <1>1, <1>2, <1>3, <1>4

\* A freeze is entered in the list in the step that makes it, and only a unit
\* that exists is frozen.
LEMMA FreezeInv ==
  ASSUME IInv, NEW s \in Scopes, NEW act, NEW broken, Freeze(s, act, broken)
  PROVE  IInv'
<1>1. s \in eligible \cap alive
  BY DEF Freeze, FreezePicks
<1>2. LadderTypeOK'
  BY LadderAssumption
     DEF LadderAssumption, IInv, LadderTypeOK, Phases, Levels, Freeze
<1>3. freeze'[s] \in {"daemon", "user"} /\ \A t \in Scopes \ {s} : freeze'[t] = freeze[t]
  BY DEF Freeze, IInv, LadderTypeOK
<1> QED
  BY <1>1, <1>2, <1>3
     DEF IInv, Freeze, PausedIsTracked, PausedByDaemon, HogIsTracked, GoneIsClean,
         ScanIsFresh, Taken, presenceVars

LEMMA EscalateInv ==
  ASSUME IInv,
         \/ EscalateHeld \/ EscalateBegin
         \/ \E s \in Scopes, serving \in BOOLEAN : FreezeExamine(s, serving)
         \/ \E broken : FreezeNothing(broken)
  PROVE  IInv'
<1> USE DEF IInv, LadderTypeOK, Phases, Levels, PausedIsTracked, PausedByDaemon, HogIsTracked,
            GoneIsClean, ScanIsFresh, Taken, presenceVars, knobs, pauses
<1>1. CASE EscalateHeld
  BY <1>1 DEF EscalateHeld
<1>2. CASE EscalateBegin
  BY <1>2 DEF EscalateBegin, AtLeast
<1>3. ASSUME NEW s \in Scopes, NEW serving, FreezeExamine(s, serving) PROVE IInv'
  BY <1>3 DEF FreezeExamine, Covered
<1>4. ASSUME NEW broken, FreezeNothing(broken) PROVE IInv'
  BY <1>4 DEF FreezeNothing
<1> QED BY <1>1, <1>2, <1>3, <1>4

\* Units that go take their pauses and their biases with them.
LEMMA GoneFacts ==
  ASSUME IInv, NEW s \in Scopes, Gone(s)
  PROVE  /\ alive' = alive \ Subtree(s)
         /\ freeze' \in [Scopes -> {"run", "daemon", "user"}]
         /\ oom' \in [Scopes -> {"neutral", "hog", "protect"}]
         /\ \A t \in Scopes \cap Subtree(s) : freeze'[t] = "run" /\ oom'[t] = "neutral"
         /\ \A t \in Scopes \ Subtree(s) : freeze'[t] = freeze[t] /\ oom'[t] = oom[t]
         /\ unthawed' = unthawed \ Subtree(s)
BY DEF Gone, Leave, IInv, LadderTypeOK

LEMMA KillInv ==
  ASSUME IInv,
         \/ \E precipice \in BOOLEAN : KillHeld(precipice) \/ KillBegin(precipice)
         \/ \E s \in Scopes : KillExamine(s) \/ Kill(s)
         \/ KillNothing
  PROVE  IInv'
<1> USE DEF IInv, LadderTypeOK, Phases, Levels, PausedIsTracked, PausedByDaemon, HogIsTracked,
            GoneIsClean, ScanIsFresh, Taken, pauses
<1>1. CASE \E precipice \in BOOLEAN : KillHeld(precipice) \/ KillBegin(precipice)
  BY <1>1 DEF KillHeld, KillBegin, AtLeast, AfterLadder, presenceVars, knobs
<1>2. CASE \E s \in Scopes : KillExamine(s)
  BY <1>2 DEF KillExamine, presenceVars, knobs
<1>3. ASSUME NEW s \in Scopes, Kill(s) PROVE IInv'
  <2>1. Gone(s)
    BY <1>3 DEF Kill
  <2> QED
    BY <1>3, <2>1, GoneFacts DEF Kill, AfterLadder
<1>4. CASE KillNothing
  BY <1>4 DEF KillNothing, AfterLadder, presenceVars, knobs
<1> QED BY <1>1, <1>2, <1>3, <1>4

\* Recovery takes a list before it goes through it: what it has not come to yet
\* is in the list it took.
LEMMA UnbiasInv ==
  ASSUME IInv, Recover \/ (\E s \in Scopes : Unbias(s)) \/ UnbiasDone
  PROVE  IInv'
<1> USE DEF IInv, LadderTypeOK, Phases, Levels, PausedIsTracked, PausedByDaemon, HogIsTracked,
            GoneIsClean, ScanIsFresh, Taken, pauses, presenceVars
<1>1. CASE Recover
  BY <1>1 DEF Recover, knobs
<1>2. ASSUME NEW s \in Scopes, Unbias(s) PROVE IInv'
  <2>1. SetOom(s, "neutral")
    BY <1>2 DEF Unbias
  <2>2. oom'[s] = "neutral"
    BY <2>1 DEF SetOom
  <2> QED
    BY <1>2, <2>1, <2>2, SetOomFacts DEF Unbias
<1>3. CASE UnbiasDone
  BY <1>3 DEF UnbiasDone, AfterLadder, knobs
<1> QED BY <1>1, <1>2, <1>3

LEMMA ResumeInv ==
  ASSUME IInv, (\E s \in Scopes : Resume(s)) \/ ResumeDone
  PROVE  IInv'
<1>1. ASSUME NEW s \in Scopes, Resume(s) PROVE IInv'
  <2>1. Thaw({s})
    BY <1>1 DEF Resume
  <2>2. /\ freeze' \in [Scopes -> {"run", "daemon", "user"}]
        /\ Wakes
        /\ \A t \in Scopes : freeze[t] = "run" => freeze'[t] = "run"
        /\ s \in alive => freeze'[s] = "run" \/ s \in unthawed'
    BY <2>1, ThawFacts DEF IInv, LadderTypeOK
  <2>3. PausedIsTracked'
    BY <1>1, <2>2 DEF Resume, Wakes, IInv, PausedIsTracked, PausedByDaemon, Taken, GoneIsClean
  <2> QED
    BY <1>1, <2>2, <2>3
       DEF Resume, Wakes, IInv, LadderTypeOK, HogIsTracked, GoneIsClean, ScanIsFresh, Taken,
           presenceVars
<1>2. CASE ResumeDone
  BY <1>2 DEF ResumeDone, AfterLadder, IInv, LadderTypeOK, Phases, Levels, PausedIsTracked,
              PausedByDaemon, HogIsTracked, GoneIsClean, ScanIsFresh, Taken, presenceVars, knobs,
              pauses
<1> QED BY <1>1, <1>2

LEMMA RescueInv ==
  ASSUME IInv, RescueBegin \/ (\E s \in Scopes : RescueLook(s)) \/ RescueDone
  PROVE  IInv'
<1>1. ASSUME NEW s \in Scopes, RescueLook(s) PROVE IInv'
  <2>1. Thaw({s} \cap Rescued)
    BY <1>1 DEF RescueLook
  <2>2. /\ freeze' \in [Scopes -> {"run", "daemon", "user"}]
        /\ Wakes
        /\ \A t \in Scopes : freeze[t] = "run" => freeze'[t] = "run"
    BY <2>1, ThawFacts DEF IInv, LadderTypeOK
  <2> QED
    BY <1>1, <2>2
       DEF RescueLook, Wakes, IInv, LadderTypeOK, Phases, Levels, PausedIsTracked, HogIsTracked,
           GoneIsClean, ScanIsFresh, Taken, presenceVars
<1>2. CASE RescueBegin \/ RescueDone
  BY <1>2 DEF RescueBegin, RescueDone, IInv, LadderTypeOK, Phases, Levels, PausedIsTracked,
              PausedByDaemon, HogIsTracked, GoneIsClean, ScanIsFresh, Taken, presenceVars, knobs,
              pauses
<1> QED BY <1>1, <1>2

LEMMA DaemonInv == ASSUME IInv, Daemon PROVE IInv'
BY ReadInv, BiasInv, FreezeInv, EscalateInv, KillInv, UnbiasInv, ResumeInv, RescueInv DEF Daemon

-----------------------------------------------------------------------------
(* Everybody who is not the loop.                                          *)

\* What the others keep to: the loop's variables stay, nobody pauses for the
\* daemon or biases a hog, and a unit that is not there stays clean.
Bystander ==
  /\ UNCHANGED ladderVars
  /\ alive' \subseteq Scopes
  /\ freeze' \in [Scopes -> {"run", "daemon", "user"}]
  /\ oom' \in [Scopes -> {"neutral", "hog", "protect"}]
  /\ Wakes
  /\ \A s \in Scopes : oom'[s] = "hog" => oom[s] = "hog"
  /\ GoneIsClean'

LEMMA BystanderInv == ASSUME IInv, Bystander PROVE IInv'
BY DEF Bystander, Wakes, IInv, LadderTypeOK, PausedIsTracked, HogIsTracked, ScanIsFresh, Taken,
       ladderVars

LEMMA HandlerBystands ==
  ASSUME IInv, NEW h, HandlerStep(h) \/ Attend(h), UNCHANGED ladderVars
  PROVE  Bystander
<1> DEFINE Typed == /\ freeze \in [Scopes -> {"run", "daemon", "user"}]
                    /\ oom \in [Scopes -> {"neutral", "hog", "protect"}]
                    /\ unthawed \subseteq Scopes
<1>1. Typed /\ alive \subseteq Scopes /\ GoneIsClean
  BY DEF IInv, LadderTypeOK
<1>2. ASSUME NEW S, Thaw(S), UNCHANGED <<alive, oom>> PROVE Bystander
  BY <1>1, <1>2, ThawFacts DEF Bystander, GoneIsClean
<1>3. ASSUME NEW s, SetOom(s, "neutral"), UNCHANGED <<alive, pauses>> PROVE Bystander
  BY <1>1, <1>3, SetOomFacts DEF Bystander, Wakes, GoneIsClean, PausedByDaemon, pauses
<1>4. ASSUME NEW s, ProtectForeground(s), UNCHANGED alive PROVE Bystander
  <2>1. SetOom(s, "protect") /\ Thaw({s})
    BY <1>4 DEF ProtectForeground
  <2> QED
    BY <1>1, <1>4, <2>1, ThawFacts, SetOomFacts DEF Bystander, GoneIsClean
<1>5. ASSUME UNCHANGED alive, UNCHANGED knobs PROVE Bystander
  BY <1>1, <1>5 DEF Bystander, Wakes, GoneIsClean, PausedByDaemon, knobs, pauses
<1>6. CASE FocusThaw(h) /\ Thaw(Rescued) /\ UNCHANGED oom
  BY <1>6, <1>2 DEF FocusThaw
<1>7. CASE FocusUnchanged(h) /\ UNCHANGED knobs
  BY <1>7, <1>5 DEF FocusUnchanged
<1>8. CASE FocusRelease(h) /\ SetOom(foreground, "neutral") /\ UNCHANGED pauses
  BY <1>8, <1>3 DEF FocusRelease
<1>9. CASE FocusPin(h) /\ ProtectForeground(req[h].scope)
  BY <1>9, <1>4 DEF FocusPin
<1>10. CASE \E p \in Scopes : TouchRelease(h, p) /\ SetOom(p, "neutral") /\ UNCHANGED pauses
  BY <1>10, <1>3 DEF TouchRelease
<1>11. CASE TouchPin(h) /\ ProtectForeground(req[h].scope)
  BY <1>11, <1>4 DEF TouchPin
<1>12. CASE Attend(h)
  BY <1>12, <1>5 DEF Attend, FocusStore, Touch
<1> QED
  BY <1>6, <1>7, <1>8, <1>9, <1>10, <1>11, <1>12 DEF HandlerStep

LEMMA UserBystands == ASSUME IInv, User PROVE Bystander
<1> PICK s \in Commanded : UserFreeze(s) \/ UserThaw(s) \/ UserUnprotect(s) \/ UserKill(s)
  BY DEF User
<1>1. s \in Scopes
  BY LadderAssumption DEF LadderAssumption
<1>2. /\ freeze \in [Scopes -> {"run", "daemon", "user"}]
      /\ oom \in [Scopes -> {"neutral", "hog", "protect"}]
      /\ alive \subseteq Scopes /\ unthawed \subseteq Scopes /\ GoneIsClean
  BY DEF IInv, LadderTypeOK
<1>3. CASE UserFreeze(s)
  BY <1>1, <1>2, <1>3
     DEF UserFreeze, Bystander, Wakes, GoneIsClean, PausedByDaemon, presenceVars
<1>4. CASE UserThaw(s)
  BY <1>1, <1>2, <1>4
     DEF UserThaw, Bystander, Wakes, GoneIsClean, PausedByDaemon, presenceVars
<1>5. CASE UserUnprotect(s)
  BY <1>2, <1>5, SetOomFacts
     DEF UserUnprotect, Bystander, Wakes, GoneIsClean, PausedByDaemon, presenceVars, pauses
<1>6. CASE UserKill(s)
  <2>1. Gone(s) /\ UNCHANGED ladderVars
    BY <1>6 DEF UserKill
  <2> QED
    BY <1>1, <1>2, <2>1, GoneFacts DEF Bystander, Wakes, GoneIsClean, PausedByDaemon
<1> QED BY <1>3, <1>4, <1>5, <1>6

LEMMA LifecycleBystands == ASSUME IInv, Lifecycle PROVE Bystander
<1> PICK s \in Scopes : /\ \/ s \in Mortal /\ Gone(s)
                           \/ s \in Services /\ Return(s) /\ UNCHANGED knobs
                        /\ UNCHANGED ladderVars
  BY DEF Lifecycle
<1>1. CASE Gone(s)
  BY <1>1, GoneFacts DEF Bystander, Wakes, GoneIsClean, PausedByDaemon, IInv, LadderTypeOK
<1>2. CASE Return(s) /\ UNCHANGED knobs
  BY <1>2 DEF Return, Bystander, Wakes, GoneIsClean, PausedByDaemon, IInv, LadderTypeOK, knobs,
              pauses
<1> QED BY <1>1, <1>2

LEMMA NextInv == ASSUME IInv, [Next]_vars PROVE IInv'
<1>1. CASE Daemon
  BY <1>1, DaemonInv
<1>2. CASE \E h \in Handlers : (HandlerStep(h) \/ Attend(h)) /\ UNCHANGED ladderVars
  BY <1>2, HandlerBystands, BystanderInv
<1>3. CASE User
  BY <1>3, UserBystands, BystanderInv
<1>4. CASE Lifecycle
  BY <1>4, LifecycleBystands, BystanderInv
<1>5. CASE UNCHANGED vars
  BY <1>5 DEF vars, presenceVars, ladderVars, knobs, pauses, IInv, LadderTypeOK, PausedIsTracked,
              PausedByDaemon, HogIsTracked, GoneIsClean, ScanIsFresh, Taken
<1> QED BY <1>1, <1>2, <1>3, <1>4, <1>5 DEF Next

-----------------------------------------------------------------------------
\* The inductive invariant holds in every reachable state.
THEOREM Invariance == Spec => []IInv
<1>1. Init => IInv
  BY InitInv
<1>2. IInv /\ [Next]_vars => IInv'
  BY NextInv
<1> QED
  BY <1>1, <1>2, PTL DEF Spec

LEMMA PresenceTyped ==
  ASSUME PresenceTypeOK, [Next]_vars
  PROVE  PresenceTypeOK'
<1> USE DEF presenceVars
<1>1. CASE UNCHANGED presenceVars
  BY <1>1 DEF PresenceTypeOK
<1>2. ASSUME NEW l, Tick(l) PROVE PresenceTypeOK'
  BY <1>2, AgedTyped DEF Tick
<1>3. ASSUME NEW s \in Scopes, Gone(s) \/ Return(s), UNCHANGED <<fgPid, foreground, live, req>>
      PROVE  PresenceTypeOK'
  BY <1>3, UnitsTyped DEF Gone
<1>4. ASSUME Daemon PROVE PresenceTypeOK'
  <2>1. CASE ReadFails \/ ReadNormal \/ \E l \in Levels : ReadPressure(l)
    BY <2>1, <1>2 DEF ReadFails, ReadNormal, ReadPressure
  <2>2. CASE \E s \in Scopes : Kill(s)
    BY <2>2, <1>3 DEF Kill
  <2>3. CASE \/ \E s \in Scopes :
                  \/ BiasExamine(s) \/ BiasWrite(s) \/ KillExamine(s)
                  \/ \E serving \in BOOLEAN : FreezeExamine(s, serving)
                  \/ \E act \in [eligible -> Busyness \cup {Unmeasured}],
                        broken \in SUBSET eligible : Freeze(s, act, broken)
             \/ BiasDone \/ Advise \/ EscalateHeld \/ EscalateBegin
             \/ \E broken \in SUBSET eligible : FreezeNothing(broken)
    BY <2>3, <1>1 DEF BiasExamine, BiasWrite, KillExamine, FreezeExamine, Freeze, BiasDone,
                      Advise, EscalateHeld, EscalateBegin, FreezeNothing
  <2>4. CASE \/ \E precipice \in BOOLEAN : KillHeld(precipice) \/ KillBegin(precipice)
             \/ KillNothing
    BY <2>4, <1>1 DEF KillHeld, KillBegin, KillNothing
  <2>5. CASE \/ \E s \in Scopes : Unbias(s) \/ Resume(s) \/ RescueLook(s)
             \/ Recover \/ UnbiasDone \/ ResumeDone \/ RescueBegin \/ RescueDone
    BY <2>5, <1>1 DEF Unbias, Resume, RescueLook, Recover, UnbiasDone, ResumeDone, RescueBegin,
                      RescueDone
  <2> QED BY <1>4, <2>1, <2>2, <2>3, <2>4, <2>5 DEF Daemon
<1>5. ASSUME NEW h \in Handlers, HandlerStep(h) \/ Attend(h) PROVE PresenceTypeOK'
  BY <1>5, RequestTyped DEF HandlerStep, Attend, RequestStep
<1>6. ASSUME User PROVE PresenceTypeOK'
  <2>1. PICK s \in Commanded : UserFreeze(s) \/ UserThaw(s) \/ UserUnprotect(s) \/ UserKill(s)
    BY <1>6 DEF User
  <2>2. s \in Scopes
    BY LadderAssumption DEF LadderAssumption
  <2>3. CASE UserKill(s)
    BY <1>3, <2>2, <2>3 DEF UserKill
  <2> QED BY <1>1, <2>1, <2>3 DEF UserFreeze, UserThaw, UserUnprotect
<1>7. ASSUME Lifecycle PROVE PresenceTypeOK'
  BY <1>3, <1>7 DEF Lifecycle
<1>8. CASE UNCHANGED vars
  BY <1>1, <1>8 DEF vars
<1> QED BY <1>4, <1>5, <1>6, <1>7, <1>8 DEF Next

\* Every variable of the mitigator, of the attention statics and of the kernel
\* keeps its type; LIVE in particular never holds more than MAX_LIVE entries.
THEOREM TypeCorrect == Spec => []TypeOK
<1>1. Init => PresenceTypeOK
  BY PresenceAssumption DEF Init, PresenceInit, PresenceTypeOK, PresenceAssumption, Idle
<1>2. PresenceTypeOK /\ [Next]_vars => PresenceTypeOK'
  BY PresenceTyped
<1>3. IInv => LadderTypeOK
  BY DEF IInv
<1> QED
  BY <1>1, <1>2, <1>3, Invariance, PTL DEF Spec, TypeOK

\* No pause of the daemon is ever lost without a word: the unit is in
\* Mitigator.frozen, recover() is about to come to it, or its thaw failed and
\* was reported.
THEOREM NoPauseIsLost == Spec => []PausedIsTracked
<1>1. IInv => PausedIsTracked
  BY DEF IInv
<1> QED
  BY <1>1, Invariance, PTL

\* No +500 bias is ever lost from Mitigator.oom_biased.
THEOREM NoBiasIsLost == Spec => []HogIsTracked
<1>1. IInv => HogIsTracked
  BY DEF IInv
<1> QED
  BY <1>1, Invariance, PTL

-----------------------------------------------------------------------------
(* Ladder implements Pausing.                                              *)

\* A step that only wakes and leaves the ledger alone is a Wake of Pausing.
LEMMA WakeStep ==
  ASSUME Wakes, unthawed \subseteq Scopes, UNCHANGED <<frozen, Taken("resume")>>
  PROVE  P!Next
<1> DEFINE S == (PausedByDaemon \ PausedByDaemon') \cup (unthawed \ unthawed')
                  \cup (unthawed' \ unthawed)
           refused == S \cap unthawed'
<1>1. S \in SUBSET Scopes
  BY DEF PausedByDaemon, Wakes
<1>2. P!Try(S, refused)
  BY DEF P!Try, Wakes
<1>3. P!Wake(S)
  BY <1>2 DEF P!Wake
<1> QED
  BY <1>1, <1>3 DEF P!Next

LEMMA FreezeEnters ==
  ASSUME IInv, NEW s \in Scopes, NEW act, NEW broken, Freeze(s, act, broken)
  PROVE  P!Enter(s)
<1>1. s \in eligible /\ s \notin frozen /\ frozen' = frozen \cup {s}
  BY DEF Freeze, FreezePicks, IInv, ScanIsFresh
<1>2. /\ freeze' = [freeze EXCEPT ![s] = IF @ = "user" THEN "user" ELSE "daemon"]
      /\ freeze \in [Scopes -> {"run", "daemon", "user"}]
  BY DEF Freeze, IInv, LadderTypeOK
<1>3. PausedByDaemon' \in {PausedByDaemon, PausedByDaemon \cup {s}}
  <2>1. CASE freeze[s] = "user"
    BY <1>2, <2>1 DEF PausedByDaemon
  <2>2. CASE freeze[s] # "user"
    BY <1>2, <2>2 DEF PausedByDaemon
  <2> QED BY <2>1, <2>2
<1>4. Taken("resume") = {} /\ Taken("resume")' = {} /\ unthawed' = unthawed \ {s}
  BY DEF Freeze, Taken
<1> QED
  BY <1>1, <1>3, <1>4 DEF P!Enter

\* recover() takes the list whole; an empty one leaves nothing to go through.
LEMMA UnbiasDoneCloses == ASSUME UnbiasDone PROVE P!Close
BY DEF UnbiasDone, AfterLadder, Taken, PausedByDaemon, knobs, pauses, P!Close

LEMMA ResumeUndoes ==
  ASSUME IInv, NEW s \in Scopes, Resume(s)
  PROVE  P!Undo(s)
<1> DEFINE refused == {s} \cap unthawed'
<1>1. /\ s \in todo /\ todo' = todo \ {s} /\ Thaw({s}) /\ UNCHANGED frozen
      /\ phase = "resume" /\ phase' = "resume"
  BY DEF Resume
<1>2. PICK kept \in SUBSET {t \in {s} \cap alive \cap Stubborn : freeze[t] # "run"} :
         /\ freeze' = [t \in Scopes |-> IF t \in ({s} \cap alive) \ kept THEN "run" ELSE freeze[t]]
         /\ unthawed' = (unthawed \ {s}) \cup kept
  BY <1>1 DEF Thaw
<1>3. PausedByDaemon' = PausedByDaemon \ (({s} \cap alive) \ kept)
  <2>1. \A t \in Scopes :
          freeze'[t] = IF t \in ({s} \cap alive) \ kept THEN "run" ELSE freeze[t]
    BY <1>2
  <2> QED BY <2>1 DEF PausedByDaemon
<1>4. PausedByDaemon \subseteq alive
  BY DEF PausedByDaemon, IInv, GoneIsClean
<1>5. P!Try({s}, kept)
  BY <1>2, <1>3, <1>4 DEF P!Try
<1> QED
  BY <1>1, <1>2, <1>5 DEF P!Undo, Taken

\* The other steps of the loop touch neither the list nor a pause, except that
\* the rescue thaws and a kill removes its unit.
LEMMA DaemonWakes ==
  ASSUME IInv, Daemon,
         ~ \E s \in Scopes : \E act, broken : Freeze(s, act, broken),
         ~UnbiasDone, ~ \E s \in Scopes : Resume(s)
  PROVE  Wakes /\ UNCHANGED <<frozen, Taken("resume")>>
<1> USE DEF PausedByDaemon, presenceVars, knobs, pauses, Taken
<1>0. unthawed \subseteq Scopes
  BY DEF IInv, LadderTypeOK
<1>1. CASE ReadFails \/ (\E l \in Levels : ReadPressure(l)) \/ ReadNormal
  BY <1>0, <1>1 DEF ReadFails, ReadPressure, ReadNormal, Tick, AfterLadder, Wakes
<1>2. CASE (\E s \in Scopes : BiasExamine(s) \/ BiasWrite(s)) \/ BiasDone \/ Advise
  BY <1>0, <1>2 DEF BiasExamine, BiasWrite, BiasDone, Advise, AfterLadder, Wakes
<1>3. CASE \/ EscalateHeld \/ EscalateBegin
           \/ \E s \in Scopes, serving \in BOOLEAN : FreezeExamine(s, serving)
           \/ \E broken \in SUBSET eligible : FreezeNothing(broken)
  BY <1>0, <1>3 DEF EscalateHeld, EscalateBegin, FreezeExamine, FreezeNothing, Wakes
<1>4. CASE \/ \E precipice \in BOOLEAN : KillHeld(precipice) \/ KillBegin(precipice)
           \/ \E s \in Scopes : KillExamine(s)
           \/ KillNothing
  BY <1>0, <1>4 DEF KillHeld, KillBegin, KillExamine, KillNothing, AfterLadder, Wakes
<1>5. ASSUME NEW s \in Scopes, Kill(s) PROVE Wakes /\ UNCHANGED <<frozen, Taken("resume")>>
  BY <1>0, <1>5, GoneFacts DEF Kill, AfterLadder, Wakes
<1>6. CASE \/ Recover \/ ResumeDone \/ RescueBegin \/ RescueDone
           \/ \E s \in Scopes : Unbias(s)
  BY <1>0, <1>6 DEF Recover, Unbias, ResumeDone, RescueBegin, RescueDone, AfterLadder, Wakes
<1>7. ASSUME NEW s \in Scopes, RescueLook(s) PROVE Wakes /\ UNCHANGED <<frozen, Taken("resume")>>
  <2>1. Thaw({s} \cap Rescued)
    BY <1>7 DEF RescueLook
  <2>2. Wakes
    BY <1>0, <2>1, ThawFacts DEF IInv, LadderTypeOK
  <2> QED BY <1>7, <2>2 DEF RescueLook
<1> QED BY <1>1, <1>2, <1>3, <1>4, <1>5, <1>6, <1>7 DEF Daemon

LEMMA StepRefines ==
  ASSUME IInv, [Next]_vars
  PROVE  [P!Next]_<<PausedByDaemon, frozen, Taken("resume"), unthawed>>
<1>0. unthawed \subseteq Scopes
  BY DEF IInv, LadderTypeOK
<1>1. CASE \E s \in Scopes : \E act, broken : Freeze(s, act, broken)
  BY <1>1, FreezeEnters DEF P!Next
<1>2. CASE UnbiasDone
  BY <1>2, UnbiasDoneCloses DEF P!Next
<1>3. CASE \E s \in Scopes : Resume(s)
  BY <1>3, ResumeUndoes DEF P!Next
<1>4. CASE /\ Daemon /\ ~UnbiasDone /\ ~ \E s \in Scopes : Resume(s)
           /\ ~ \E s \in Scopes : \E act, broken : Freeze(s, act, broken)
  BY <1>0, <1>4, DaemonWakes, WakeStep
<1>5. CASE Bystander
  BY <1>0, <1>5, WakeStep DEF Bystander, ladderVars, Taken
<1>6. CASE UNCHANGED vars
  BY <1>6 DEF vars, ladderVars, knobs, pauses, PausedByDaemon, Taken
<1> QED
  BY <1>1, <1>2, <1>3, <1>4, <1>5, <1>6, HandlerBystands, UserBystands, LifecycleBystands DEF Next

\* The freeze rung implements Pausing: one pause per unit and episode, and a
\* recovery that tries every unit of the list once, wakes it or reports it, and
\* is through with all of them before the next pause.
THEOREM ImplementsPausing == Spec => KeepsPausingPromise
<1>1. Init => P!Init
  BY DEF Init, P!Init, PausedByDaemon, Taken
<1>2. IInv /\ [Next]_vars => [P!Next]_P!vars
  BY StepRefines DEF P!vars
<1> QED
  BY <1>1, <1>2, Invariance, PTL DEF Spec, KeepsPausingPromise, P!Spec

-----------------------------------------------------------------------------
(* The focus is never left paused.                                         *)

NobodyThaws == \A h \in Handlers : req[h].at # "thaw"

\* FocusNotLeftPaused in a form the rescue's walk keeps: what the focused window
\* owns and is still paused, the walk has not come to.
FocusWalked ==
  (/\ phase \in {"sleep", "rescueWalk"}
   /\ fgPid # NoWindow
   /\ WindowScope[fgPid] \notin Spine
   /\ NobodyThaws)
  => \A s \in (PausedByDaemon \ unthawed) \ Taken("rescueWalk") : ~ForegroundRelated(s)

FInv ==
  /\ fgPid \in Windows \cup {NoWindow}
  /\ ReqIsFunction
  /\ FocusWalked

\* The loop goes back to sleep from an early return, from the rescue, or from a
\* rung that found the list empty.
LEMMA DaemonSleeps ==
  ASSUME Daemon, phase' \in {"sleep", "rescueWalk"}
  PROVE  \/ ReadFails \/ RescueBegin \/ RescueDone
         \/ \E s \in Scopes : RescueLook(s)
         \/ phase' = "sleep" /\ frozen' = {}
<1> USE DEF AfterLadder
<1>1. CASE (\E l \in Levels : ReadPressure(l)) \/ ReadNormal
  BY <1>1 DEF ReadPressure, ReadNormal, Tick
<1>2. CASE (\E s \in Scopes : BiasExamine(s) \/ BiasWrite(s)) \/ BiasDone \/ Advise
  BY <1>2 DEF BiasExamine, BiasWrite, BiasDone, Advise
<1>3. CASE \/ EscalateHeld \/ EscalateBegin
           \/ \E s \in Scopes, serving \in BOOLEAN : FreezeExamine(s, serving)
           \/ \E broken \in SUBSET eligible : FreezeNothing(broken)
  BY <1>3 DEF EscalateHeld, EscalateBegin, FreezeExamine, FreezeNothing
<1>4. ASSUME NEW s, NEW act, NEW broken, Freeze(s, act, broken) PROVE FALSE
  BY <1>4 DEF Freeze
<1>5. CASE \E precipice \in BOOLEAN : KillHeld(precipice) \/ KillBegin(precipice)
  BY <1>5 DEF KillHeld, KillBegin
<1>6. CASE KillNothing \/ \E s \in Scopes : KillExamine(s) \/ Kill(s)
  BY <1>6 DEF KillNothing, KillExamine, Kill
<1>7. CASE Recover \/ UnbiasDone \/ ResumeDone \/ \E s \in Scopes : Unbias(s) \/ Resume(s)
  BY <1>7 DEF Recover, UnbiasDone, ResumeDone, Unbias, Resume
<1> QED BY <1>1, <1>2, <1>3, <1>4, <1>5, <1>6, <1>7 DEF Daemon

LEMMA DaemonFrame == ASSUME Daemon PROVE UNCHANGED <<fgPid, req>>
BY DEF Daemon, ReadFails, ReadPressure, ReadNormal, Tick, BiasExamine, BiasWrite, BiasDone, Advise,
       EscalateHeld, EscalateBegin, FreezeExamine, Freeze, FreezeNothing, KillHeld, KillBegin,
       KillExamine, Kill, KillNothing, Recover, Unbias, UnbiasDone, Resume, ResumeDone,
       RescueBegin, RescueLook, RescueDone, presenceVars

\* Fewer pauses, fewer units and the same focus cannot break the property.
LEMMA FocusKept ==
  ASSUME FInv, UNCHANGED <<fgPid, phase, Taken("rescueWalk")>>,
         alive' \subseteq alive \cup Services, Wakes, NobodyThaws' => NobodyThaws
  PROVE  FocusWalked'
<1> SUFFICES ASSUME phase' \in {"sleep", "rescueWalk"}, fgPid # NoWindow,
                    WindowScope[fgPid] \notin Spine, NobodyThaws',
                    NEW s \in ((PausedByDaemon \ unthawed) \ Taken("rescueWalk"))',
                    ForegroundRelated(s)'
             PROVE  FALSE
  BY DEF FocusWalked
<1>1. WindowScope[fgPid] \in alive
  BY LadderAssumption DEF LadderAssumption, FInv, ForegroundRelated
<1>2. ForegroundRelated(s)
  BY <1>1 DEF ForegroundRelated
<1>3. s \in (PausedByDaemon \ unthawed) \ Taken("rescueWalk")
  BY DEF Wakes
<1> QED
  BY <1>2, <1>3 DEF FInv, FocusWalked

\* After a thaw a unit of the focused window that was in its set runs or has been
\* reported.
LEMMA RescueRuns ==
  ASSUME IInv, NEW S, Thaw(S \cap Rescued), UNCHANGED <<alive, fgPid>>
  PROVE  \A s \in (PausedByDaemon \ unthawed)' : s \in S => ~ForegroundRelated(s)'
<1> SUFFICES ASSUME NEW s \in (PausedByDaemon \ unthawed)', s \in S, ForegroundRelated(s)
             PROVE  FALSE
  BY DEF ForegroundRelated
<1>1. /\ Wakes
      /\ \A t \in (S \cap Rescued) \cap alive \cap Scopes : freeze'[t] = "run" \/ t \in unthawed'
  BY ThawFacts DEF IInv, LadderTypeOK
<1>2. s \in Scopes /\ freeze'[s] = "daemon" /\ s \notin unthawed'
  BY DEF PausedByDaemon
<1>3. freeze[s] = "daemon" /\ s \in alive
  BY <1>1, <1>2 DEF Wakes, PausedByDaemon, IInv, GoneIsClean
<1>4. s \in Rescued
  BY <1>3 DEF Rescued
<1> QED
  BY <1>1, <1>2, <1>3, <1>4

LEMMA DaemonFocus == ASSUME IInv, FInv, Daemon PROVE FInv'
<1>1. UNCHANGED <<fgPid, req>>
  BY DaemonFrame
<1>2. FocusWalked'
  <2>1. CASE phase' \notin {"sleep", "rescueWalk"}
    BY <2>1 DEF FocusWalked
  <2>2. CASE ReadFails
    <3>1. /\ UNCHANGED <<alive, freeze, unthawed, phase>> /\ Taken("rescueWalk")' = Taken("rescueWalk")
          /\ PausedByDaemon' = PausedByDaemon
      BY <2>2 DEF ReadFails, Tick, knobs, pauses, PausedByDaemon, Taken
    <3>2. Wakes
      BY <3>1 DEF Wakes, IInv, LadderTypeOK
    <3> QED
      BY <3>1, <3>2, <1>1, FocusKept DEF NobodyThaws
  <2>3. CASE RescueBegin
    <3>1. PausedByDaemon' \subseteq Taken("rescueWalk")'
      BY <2>3 DEF RescueBegin, Taken, knobs, pauses, PausedByDaemon, IInv, GoneIsClean
    <3> QED BY <3>1 DEF FocusWalked
  <2>4. ASSUME NEW s \in Scopes, RescueLook(s) PROVE FocusWalked'
    <3>1. Thaw({s} \cap Rescued) /\ UNCHANGED <<alive, phase>> /\ phase = "rescueWalk"
          /\ todo' = todo \ {s}
      BY <2>4 DEF RescueLook, presenceVars
    <3>2. \A t \in (PausedByDaemon \ unthawed)' : t \in {s} => ~ForegroundRelated(t)'
      BY <1>1, <3>1, RescueRuns
    <3>3. Wakes
      BY <3>1, ThawFacts DEF IInv, LadderTypeOK
    <3>4. ASSUME fgPid # NoWindow, WindowScope[fgPid] \notin Spine, NobodyThaws,
                 NEW t \in ((PausedByDaemon \ unthawed) \ Taken("rescueWalk"))'
          PROVE  ~ForegroundRelated(t)'
      <4>1. CASE t = s
        BY <3>2, <3>4, <4>1
      <4>2. CASE t # s
        <5>1. t \in (PausedByDaemon \ unthawed) \ Taken("rescueWalk")
          BY <3>1, <3>3, <4>2 DEF Wakes, Taken
        <5>2. ~ForegroundRelated(t)
          BY <3>1, <3>4, <5>1 DEF FInv, FocusWalked
        <5> QED BY <1>1, <3>1, <5>2 DEF ForegroundRelated
      <4> QED BY <4>1, <4>2
    <3> QED
      BY <1>1, <3>4 DEF FocusWalked, NobodyThaws
  <2>5. CASE RescueDone
    <3>1. /\ UNCHANGED <<alive, freeze, unthawed>> /\ phase = "rescueWalk" /\ todo = {}
          /\ PausedByDaemon' = PausedByDaemon /\ Taken("rescueWalk") = {}
      BY <2>5 DEF RescueDone, presenceVars, knobs, pauses, PausedByDaemon, Taken
    <3> QED
      BY <1>1, <3>1 DEF FInv, FocusWalked, NobodyThaws, ForegroundRelated
  <2>6. CASE phase' = "sleep" /\ frozen' = {}
    <3>1. PausedByDaemon' \subseteq unthawed'
      BY <2>6, DaemonInv DEF IInv, PausedIsTracked, Taken
    <3> QED BY <3>1 DEF FocusWalked
  <2> QED BY <2>1, <2>2, <2>3, <2>4, <2>5, <2>6, DaemonSleeps
<1> QED
  BY <1>1, <1>2 DEF FInv, ReqIsFunction

\* The steps of a thread: each writes its own entry of req, and only a report
\* of a window and its thaw start or end a stay at "thaw".
LEMMA HandlerFocus ==
  ASSUME IInv, FInv, NEW h \in Handlers, HandlerStep(h) \/ Attend(h), UNCHANGED ladderVars
  PROVE  FInv'
<1>1. Bystander
  BY HandlerBystands
<1>2. UNCHANGED <<alive, phase, todo>>
  BY DEF HandlerStep, Attend, FocusThaw, FocusUnchanged, FocusRelease, FocusPin, TouchRelease,
         TouchPin, FocusStore, Touch, ladderVars
<1>3. ASSUME NEW v, req' = [req EXCEPT ![h] = v], req[h].at # "thaw"
      PROVE  NobodyThaws' => NobodyThaws
  BY <1>3 DEF FInv, ReqIsFunction, NobodyThaws
<1>4. ReqIsFunction'
  BY DEF HandlerStep, Attend, FocusThaw, FocusUnchanged, FocusRelease, FocusPin, TouchRelease,
         TouchPin, FocusStore, Touch, FInv, ReqIsFunction
<1>5. ASSUME UNCHANGED fgPid, NobodyThaws' => NobodyThaws PROVE FInv'
  BY <1>1, <1>2, <1>4, <1>5, FocusKept DEF FInv, Bystander, Taken
<1>6. CASE FocusThaw(h) /\ Thaw(Rescued)
  <2>1. Thaw(Scopes \cap Rescued)
    <3>1. Scopes \cap Rescued = Rescued
      BY DEF Rescued, IInv
    <3> QED BY <1>6, <3>1
  <2>2. \A s \in (PausedByDaemon \ unthawed)' : ~ForegroundRelated(s)'
    BY <1>2, <1>6, <2>1, RescueRuns DEF FocusThaw, PausedByDaemon
  <2> QED
    BY <1>4, <1>6, <2>2 DEF FInv, FocusWalked, FocusThaw
<1>7. CASE FocusUnchanged(h) \/ FocusPin(h) \/ TouchPin(h) \/ \E s \in Typists : Touch(h, s)
  BY <1>3, <1>5, <1>7 DEF FocusUnchanged, FocusPin, TouchPin, Touch
<1>8. CASE FocusRelease(h)
  BY <1>3, <1>5, <1>8 DEF FocusRelease
<1>9. ASSUME NEW p, TouchRelease(h, p) PROVE FInv'
  <2>1. req' = [req EXCEPT ![h].drop = @ \ {p}] /\ req[h].at = "release"
    BY <1>9 DEF TouchRelease
  <2>2. req' = [req EXCEPT ![h] = [req[h] EXCEPT !.drop = @ \ {p}]]
    BY <2>1
  <2> QED
    BY <1>3, <1>5, <1>9, <2>1, <2>2 DEF TouchRelease
<1>10. ASSUME NEW w \in Windows, FocusStore(h, w) PROVE FInv'
  <2>1. fgPid' = w /\ UNCHANGED alive
    BY <1>10 DEF FocusStore
  <2>2. CASE WindowScope[w] \in alive \ Spine
    <3>1. req'[h].at = "thaw"
      BY <1>10, <2>2 DEF FocusStore, FInv, ReqIsFunction
    <3> QED
      BY <1>4, <2>1, <3>1 DEF FInv, FocusWalked, NobodyThaws
  <2>3. CASE WindowScope[w] \in Spine
    BY <1>4, <2>1, <2>3 DEF FInv, FocusWalked
  <2>4. CASE WindowScope[w] \notin alive
    BY <1>4, <2>1, <2>4 DEF FInv, FocusWalked, ForegroundRelated
  <2> QED BY <2>2, <2>3, <2>4
<1> QED
  BY <1>6, <1>7, <1>8, <1>9, <1>10 DEF HandlerStep, Attend

LEMMA OthersFocus == ASSUME IInv, FInv, User \/ Lifecycle PROVE FInv'
<1>1. Bystander
  BY UserBystands, LifecycleBystands
<1>2. UNCHANGED <<fgPid, req>> /\ alive' \subseteq alive \cup Services
  BY DEF User, Lifecycle, UserFreeze, UserThaw, UserUnprotect, UserKill, Gone, Leave, Return,
         presenceVars
<1>3. FocusWalked'
  BY <1>1, <1>2, FocusKept DEF Bystander, NobodyThaws, ladderVars, Taken
<1> QED
  BY <1>2, <1>3 DEF FInv, ReqIsFunction

LEMMA FocusInv == ASSUME IInv, FInv, [Next]_vars PROVE FInv'
<1>1. CASE UNCHANGED vars
  BY <1>1 DEF vars, presenceVars, ladderVars, knobs, pauses, FInv, ReqIsFunction, FocusWalked,
              ForegroundRelated, PausedByDaemon, NobodyThaws, Taken
<1> QED
  BY <1>1, DaemonFocus, HandlerFocus, OthersFocus DEF Next

\* Between ticks the window the user is in is never left paused by the daemon
\* without a word, whatever the interleaving of the rescue with reports, exits and
\* commands.
THEOREM FocusRuns == Spec => []FocusNotLeftPaused
<1>1. Init => FInv
  BY DEF Init, PresenceInit, FInv, ReqIsFunction, FocusWalked
<1>2. IInv /\ FInv /\ [Next]_vars => FInv'
  BY FocusInv
<1>3. FInv => FocusNotLeftPaused
  BY DEF FInv, FocusWalked, FocusNotLeftPaused, NobodyThaws, Taken
<1> QED
  BY <1>1, <1>2, <1>3, Invariance, PTL DEF Spec
=============================================================================
