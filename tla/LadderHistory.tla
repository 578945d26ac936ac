--------------------------- MODULE LadderHistory ---------------------------
(***************************************************************************)
(* Ladder with history variables that record what really happened (the     *)
(* readings, the daemon's pauses and its kills), so that properties of an  *)
(* episode need not be stated with the program's own counters.             *)
(***************************************************************************)
EXTENDS Ladder

VARIABLES
  calm,    \* normal readings since the last elevated or critical one, up to RecoverAfter
  kills,   \* daemon kills since the machine was last calm for RecoverAfter readings
  since,   \* ticks since the daemon last froze a unit, up to Settle
  stayed   \* the units the user has been with ever since the tick's reading

history == <<calm, kills, since, stayed>>

HistoryInit == Init /\ calm = 0 /\ kills = 0 /\ since = Settle /\ stayed = {}

UpTo(bound, n) == IF n > bound THEN bound ELSE n

\* A tick is the step that leaves "sleep" or, when the reading fails, stays.
Ticked == phase = "sleep" /\ Daemon
DaemonFroze == phase = "freezeScan" /\ phase' = "kill" /\ frozen' # frozen
DaemonKilled == phase = "killScan" /\ phase' # "killScan" /\ alive' # alive
Recovered == phase = "recover" /\ phase' # "recover"
Unbiased == phase = "unbias" /\ phase' = "unbias" /\ todo' # todo

\* Whom the classifier calls Guaranteed or Focused at this instant.
Sheltered == {s \in Scopes : ProtectedFromEviction(s)}

Record ==
  /\ calm' = CASE Ticked /\ level' = "normal" -> UpTo(RecoverAfter, calm + 1)
               [] Ticked /\ level' \in {"elevated", "critical"} -> 0
               [] OTHER -> calm
  /\ kills' = CASE DaemonKilled -> kills + 1
                [] Ticked /\ calm' = RecoverAfter -> 0
                [] OTHER -> kills
  /\ since' = CASE DaemonFroze -> 0
                [] Ticked -> UpTo(Settle, since + 1)
                [] OTHER -> since
  /\ stayed' = {s \in Sheltered' : phase' # "sleep" /\ (Ticked \/ s \in stayed)}

HistoryNext == Next /\ Record

HistorySpec == HistoryInit /\ [][HistoryNext]_<<vars, history>>

HistoryFairSpec == HistorySpec /\ Fairness

HistoryCrashSpec ==
  /\ HistoryInit
  /\ [][HistoryNext \/ (Crash /\ UNCHANGED history)]_<<vars, history>>
  /\ Fairness

\* recover() runs only after RecoverAfter normal readings with no elevated or
\* critical one between them; an unreadable PSI neither counts nor resets.
CalmBeforeRecovery == [][Recovered => calm >= RecoverAfter]_<<vars, history>>

\* However the level flaps, at most MaxKilled units are killed between two
\* stretches of RecoverAfter normal readings: a dip does not refill the budget.
KillBudget == kills <= MaxKilled

\* Two freezes are at least Settle ticks apart, in one episode or across two:
\* each is seen by the averaged signal before the next is decided.
FreezesAreSpaced == [][DaemonFroze => since >= Settle]_<<vars, history>>

\* Whom the daemon turns on in this step.
Harmed == (frozen' \ frozen) \cup (killed' \ killed)
            \cup {s \in Scopes : oom'[s] = "hog" /\ oom[s] # "hog"}

\* The look at a candidate and the act on it are steps apart, so a unit focused
\* in between may be hit; but one that the user was with at the tick's reading
\* and has not left since is never frozen, killed or biased in that tick,
\* whatever else is focused, touched, exits or comes back.
StayedIsSpared == [][stayed \cap Harmed = {}]_<<vars, history>>

-----------------------------------------------------------------------------
(* What the repository's own text says of these steps.                     *)

\* guard.rs: "Pinning WITHOUT biasing the OOM killer is not protection": the
\* scope kept pinned as the foreground keeps its -1000 through a recovery.
RecoveryKeepsFocusProtection ==
  [][Unbiased /\ foreground \in alive /\ oom[foreground] = "protect"
       => oom'[foreground] = "protect"]_<<vars, history>>

\* README.md: rtux "wakes everything back up the instant the pressure clears".
WakesEverything == <>[](level = "normal") => <>[](PausedByDaemon = {})
=============================================================================
