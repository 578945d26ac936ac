----------------------------- MODULE Admission -----------------------------
(***************************************************************************)
(* `pressured admit`: launchers that ask the daemon whether the machine    *)
(* can afford one more app, and run it unless the answer is "full".  The   *)
(* daemon answers each on a thread of its own from readings it takes one   *)
(* after the other, while other launchers' apps start, grow and end.       *)
(***************************************************************************)
EXTENDS Sizing

CONSTANTS
  Launchers,
  Rams,      \* the sizes of machine
  Loads,     \* what the rest of the machine may come to hold
  Asks       \* the wants in megabytes

ASSUME AdmissionAssumption ==
  /\ Rams \subseteq 0 .. WordMax /\ WordMax \notin Rams
  /\ Loads \subseteq Nat
  /\ Asks \subseteq 0 .. WordMax

VARIABLES
  ram,      \* the machine's, for ever
  high,     \* memory.high of app.slice
  held,     \* what the apps hold (memory.current of app.slice)
  other,    \* what everybody else holds
  run,      \* each launcher: where it is, and what its thread has read
  sound     \* history: the launcher's verdict was reached alone, see ReadHeld

machine == <<ram, high, held, other>>
vars == <<machine, run, sound>>

\* A launcher with a want and nothing read.
Fresh(at, want) ==
  [at |-> at, want |-> want, verdict |-> "none", taken |-> 0,
   pressed |-> FALSE, avail |-> 0, ceiling |-> NoSlice, held |-> 0]

Idle == Fresh("idle", NoAsk)

Runs == [at      : {"idle", "asking", "ceiling", "held",
                    "answered", "running", "refused"},
         want    : Asks \cup {NoAsk},
         verdict : {"none", "ok", "tight", "full"},
         taken   : Nat,
         pressed : BOOLEAN,
         avail   : 0 .. ram,
         ceiling : Nat \cup {NoSlice},
         held    : Nat]

\* Types; the ceiling, where there is one, lies within RAM, so that it is
\* never the ceiling that admits what the machine cannot hold.
TypeOK ==
  /\ ram \in Rams
  /\ high \in {NoSlice, WordMax} \cup 0 .. ram
  /\ held \in Nat /\ other \in Nat /\ held + other <= ram
  /\ run \in [Launchers -> Runs]
  /\ sound \in [Launchers -> BOOLEAN]

\* Before the login: no app.slice.
Init ==
  /\ ram \in Rams
  /\ high = NoSlice
  /\ held = 0 /\ other = 0
  /\ run = [l \in Launchers |-> Idle]
  /\ sound = [l \in Launchers |-> FALSE]

-----------------------------------------------------------------------------
(* The session and its ceiling.                                            *)

\* The user's manager creates app.slice without a limit.
Login ==
  /\ high = NoSlice
  /\ high' = WordMax
  /\ UNCHANGED <<ram, held, other, run, sound>>

\* Every process of the session ends, the launchers among them.
Logout ==
  /\ high # NoSlice
  /\ high' = NoSlice
  /\ held' = 0
  /\ run' = [l \in Launchers |-> Idle]
  /\ sound' = [l \in Launchers |-> FALSE]
  /\ UNCHANGED <<ram, other>>

\* set_bulk_ceiling, every 30 ticks: the daemon puts the limit (back).
SetBulkCeiling ==
  /\ high # NoSlice
  /\ high' = AppSliceHigh(ram)
  /\ UNCHANGED <<ram, held, other, run, sound>>

\* The rest of the machine takes and gives memory.
Elsewhere(n) ==
  /\ held + n <= ram
  /\ other' = n
  /\ UNCHANGED <<ram, high, held, run, sound>>

-----------------------------------------------------------------------------
(* cmd_admit and the daemon's thread that answers it.                      *)

\* exec takes the launcher's place; the daemon's thread ended with its reply.
Started(want) == Fresh("running", want)

\* --force does not ask.
AdmitForced(l, want) ==
  /\ high # NoSlice
  /\ run[l].at = "idle"
  /\ run' = [run EXCEPT ![l] = Started(want)]
  /\ UNCHANGED <<machine, sound>>

Ask(l, want) ==
  /\ high # NoSlice
  /\ run[l].at = "idle"
  /\ run' = [run EXCEPT ![l] = Fresh("asking", want)]
  /\ UNCHANGED <<machine, sound>>

\* ask_budget returned nothing: no daemon, one that died half way, or one that
\* does not know the question.
Unanswered(l) ==
  /\ run[l].at \in {"asking", "ceiling", "held"}
  /\ run' = [run EXCEPT ![l] = Fresh("answered", @.want)]
  /\ UNCHANGED <<machine, sound>>

MemAvailable == ram - (held + other)

\* MemAvailable, then PSI, which is whatever it is at that instant.
ReadFree(l, pressed) ==
  /\ run[l].at = "asking"
  /\ run' = [run EXCEPT ![l] = [@ EXCEPT !.at = "ceiling",
                                        !.avail = MemAvailable,
                                        !.pressed = pressed]]
  /\ UNCHANGED <<machine, sound>>

\* app_slice_path refuses to guess when there is a second graphical session.
ReadCeiling(l, found) ==
  /\ run[l].at = "ceiling"
  /\ run' = [run EXCEPT ![l] = [@ EXCEPT !.at = "held",
                                        !.ceiling = IF found THEN high ELSE NoSlice]]
  /\ UNCHANGED <<machine, sound>>

\* What an app still means to take, when it keeps to what it asked for.
Claims(k) ==
  /\ k \in Launchers
  /\ \/ run[k].at = "answered"
     \/ run[k].at = "running" /\ (run[k].want = NoAsk \/ run[k].taken < run[k].want * Megabyte)

Answer(r) ==
  BudgetVerdict(r.want, r.pressed, r.ceiling, Headroom(r.ceiling, held, r.avail))

\* The last reading, the verdict and the reply.
ReadHeld(l) ==
  /\ run[l].at = "held"
  /\ run' = [run EXCEPT ![l].at = "answered",
                        ![l].held = held,
                        ![l].verdict = Answer(run[l])]
  /\ sound' = [sound EXCEPT ![l] = /\ run[l].want # NoAsk
                                   /\ run[l].ceiling = high /\ high <= ram
                                   /\ \A k \in Launchers \ {l} : ~Claims(k)]
  /\ UNCHANGED machine

\* Defect: no answer is taken for a refusal.
RefusesUnlessAdmitted(verdict) == verdict \notin {"ok", "tight"}

\* admission_for: every verdict but "full" admits, the absent one included.
Refuses(verdict) == verdict = "full"

Decide(l) ==
  /\ run[l].at = "answered"
  /\ run' = [run EXCEPT ![l] = IF Refuses(@.verdict) THEN [@ EXCEPT !.at = "refused"]
                                                     ELSE Started(@.want)]
  /\ UNCHANGED <<machine, sound>>

-----------------------------------------------------------------------------
(* The apps.                                                               *)

\* An app started with a want keeps to it; one without takes what it likes.
Grow(l, n) ==
  /\ run[l].at = "running"
  /\ run[l].want # NoAsk => run[l].taken + n <= run[l].want * Megabyte
  /\ held + other + n <= ram
  /\ held' = held + n
  /\ run' = [run EXCEPT ![l].taken = @ + n]
  /\ UNCHANGED <<ram, high, other, sound>>

\* The app ends, or the launcher gives up.  One app holds no more than all.
End(l) ==
  /\ run[l].at \in {"running", "refused"}
  /\ run[l].taken <= held
  /\ held' = held - run[l].taken
  /\ run' = [run EXCEPT ![l] = Idle]
  /\ sound' = [sound EXCEPT ![l] = FALSE]
  /\ UNCHANGED <<ram, high, other>>

Step(l) ==
  \/ \E want \in Asks \cup {NoAsk} : AdmitForced(l, want) \/ Ask(l, want)
  \/ Unanswered(l)
  \/ \E pressed \in BOOLEAN : ReadFree(l, pressed)
  \/ \E found \in BOOLEAN : ReadCeiling(l, found)
  \/ ReadHeld(l)
  \/ Decide(l)
  \/ \E n \in 1 .. ram : Grow(l, n)
  \/ End(l)

Next ==
  \/ Login \/ Logout \/ SetBulkCeiling
  \/ \E n \in Loads : Elsewhere(n)
  \/ \E l \in Launchers : Step(l)

Spec == Init /\ [][Next]_vars

-----------------------------------------------------------------------------
(* Properties                                                              *)

\* With exact arithmetic and no subtraction: n more fits under both walls.
Fits(r, n) == n > 0 => r.held + n <= r.ceiling /\ n <= r.avail

ExactVerdict(r) ==
  IF r.pressed THEN "full"
  ELSE IF r.ceiling = NoSlice THEN "tight"
  ELSE IF r.want = NoAsk THEN (IF Fits(r, 1) THEN "ok" ELSE "full")
  ELSE IF ~Fits(r, r.want * Megabyte) THEN "full"
  ELSE IF ~Fits(r, 2 * r.want * Megabyte) THEN "tight"
  ELSE "ok"

\* build_budget: "Saturate rather than wrap": whatever is asked and whatever
\* the readings, saturation and the subtraction of what is held never change
\* the verdict from that of exact arithmetic over both walls.
VerdictIsExact ==
  \A l \in Launchers : run[l].verdict # "none" => run[l].verdict = ExactVerdict(run[l])

\* admission_for: "Fail open, always": a launch is refused only when the daemon
\* did answer and, by its readings, there was pressure or no room for it.
RefusedForCause ==
  \A l \in Launchers : run[l].at = "refused" =>
    run[l].verdict # "none" /\ ExactVerdict(run[l]) = "full"

\* "Run CMD only if the machine can afford it": as long as every app was
\* admitted by a verdict reached alone (the ceiling in place, no other admitted
\* app still growing), the apps together stay under the ceiling.
NoOvershoot ==
  (\A l \in Launchers : run[l].at = "running" => sound[l])
    => (high \in Nat => held <= high)

\* desktop_reserve: "They are the two halves of one partition": what the
\* compositor may pin and what the apps may hold fit in RAM together, whatever
\* the working set, on any machine that has the compositor's half at all.
HalvesOfOnePartition ==
  ram >= CompositorCap(ram) =>
    \A workingSet \in 0 .. ram : CompositorMin(ram, workingSet) + AppSliceHigh(ram) <= ram
=============================================================================
