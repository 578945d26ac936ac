-------------------------- MODULE AdmissionProofs --------------------------
(***************************************************************************)
(* Theorems about Sizing and Admission, for every size of machine and word *)
(* and any number of launchers.                                            *)
(***************************************************************************)
EXTENDS Admission, Counting

USE SizingAssumption, AdmissionAssumption DEF SizingAssumption, AdmissionAssumption

-----------------------------------------------------------------------------
(* Arithmetic.                                                             *)

\* The tighter of the two walls, saturated, refuses exactly what exact
\* arithmetic refuses, as long as the free memory is below the largest word.
LEMMA WallsAreExact ==
  ASSUME NEW n \in Nat, NEW ceiling \in Nat, NEW taken \in Nat, NEW avail \in Nat,
         avail < WordMax
  PROVE  Lesser(n, WordMax) > Lesser(SatSub(ceiling, taken), avail)
           <=> ~(n > 0 => taken + n <= ceiling /\ n <= avail)
BY DEF Lesser, SatSub

LEMMA ReserveOK ==
  ASSUME NEW r \in Nat
  PROVE  /\ DesktopReserve(r) \in ReserveFloor .. ReserveCap
         /\ AppSliceHigh(r) \in 0 .. r
         /\ CompositorCap(r) \in Nat
         /\ CompositorCap(r) <= DesktopReserve(r)
         /\ PinFloor <= CompositorCap(r)
<1>1. r \div 4 \in Nat
  OBVIOUS
<1>2. DesktopReserve(r) \in ReserveFloor .. ReserveCap
  BY <1>1 DEF DesktopReserve, Clamp, Larger, Lesser
<1>3. PICK d \in Nat : d = DesktopReserve(r) /\ ReserveFloor <= d
  BY <1>2
<1>4. d \div 2 \in Nat /\ d \div 2 <= d
  BY <1>3
<1> QED BY <1>2, <1>3, <1>4 DEF AppSliceHigh, SatSub, CompositorCap, Larger

\* desktop_reserve's two halves: on any machine that has the compositor's half
\* at all, what it may pin and what the apps may hold fit in RAM together.
THEOREM TwoHalves ==
  ASSUME NEW r \in Nat, r >= CompositorCap(r), NEW workingSet \in Nat
  PROVE  CompositorMin(r, workingSet) + AppSliceHigh(r) <= r
<1>1. CompositorMin(r, workingSet) \in Nat /\ CompositorMin(r, workingSet) <= CompositorCap(r)
  BY ReserveOK DEF CompositorMin, Clamp, Larger, Lesser
<1> QED BY <1>1, ReserveOK DEF AppSliceHigh, SatSub

-----------------------------------------------------------------------------
(* The invariant.                                                          *)

\* A request has no verdict while its thread is still reading.
VerdictComesLast ==
  \A l \in Launchers : run[l].at \in {"asking", "ceiling", "held"} => run[l].verdict = "none"

IInv == TypeOK /\ VerdictComesLast /\ VerdictIsExact /\ RefusedForCause

LEMMA AnswerIsExact ==
  ASSUME TypeOK, NEW r \in Runs, NEW s,
         s.pressed = r.pressed, s.ceiling = r.ceiling, s.want = r.want,
         s.avail = r.avail, s.held = held
  PROVE  Answer(r) \in {"ok", "tight", "full"} /\ Answer(r) = ExactVerdict(s)
<1>1. r.avail \in Nat /\ r.avail < WordMax /\ held \in Nat
  <2>1. ram \in Nat /\ ram < WordMax /\ held \in Nat
    BY DEF TypeOK
  <2>2. r.avail \in 0 .. ram
    BY DEF Runs
  <2> QED BY <2>1, <2>2
<1>2. /\ s.pressed = r.pressed /\ s.ceiling = r.ceiling /\ s.want = r.want
      /\ s.avail = r.avail /\ s.held = held
  OBVIOUS
<1>3. r.pressed \in BOOLEAN /\ r.ceiling \in Nat \cup {NoSlice} /\ r.want \in Asks \cup {NoAsk}
  BY DEF Runs
<1>4. CASE r.pressed
  BY <1>2, <1>4 DEF Answer, BudgetVerdict, ExactVerdict
<1>5. CASE ~r.pressed /\ r.ceiling = NoSlice
  BY <1>2, <1>5 DEF Answer, BudgetVerdict, ExactVerdict
<1>6. CASE ~r.pressed /\ r.ceiling # NoSlice /\ r.want = NoAsk
  <2>1. Lesser(SatSub(r.ceiling, held), r.avail) \in Nat
    BY <1>1, <1>3, <1>6 DEF Lesser, SatSub
  <2>2. Lesser(SatSub(r.ceiling, held), r.avail) = 0
          <=> ~(held + 1 <= r.ceiling /\ 1 <= r.avail)
    BY <1>1, <1>3, <1>6 DEF Lesser, SatSub
  <2> QED BY <1>2, <1>6, <2>1, <2>2 DEF Answer, BudgetVerdict, ExactVerdict, Headroom, Fits
<1>7. CASE ~r.pressed /\ r.ceiling # NoSlice /\ r.want # NoAsk
  <2> DEFINE n == r.want * Megabyte
             room == Lesser(SatSub(r.ceiling, held), r.avail)
  <2>1. r.want \in Nat /\ r.ceiling \in Nat
    <3>1. r.want \in Asks /\ r.ceiling \in Nat
      BY <1>3, <1>7
    <3>2. Asks \subseteq Nat
      OBVIOUS
    <3> QED BY <3>1, <3>2
  <2>2. n \in Nat /\ 2 * n \in Nat /\ 2 * r.want * Megabyte = 2 * n
    BY <2>1
  <2>3. WantBytes(r.want) = Lesser(n, WordMax)
    BY DEF WantBytes, SatMul
  <2> HIDE DEF n
  <2>4. SatMul(Lesser(n, WordMax), 2) = Lesser(2 * n, WordMax)
    BY <2>2 DEF SatMul, Lesser
  <2>5. Lesser(n, WordMax) > room <=> ~(n > 0 => held + n <= r.ceiling /\ n <= r.avail)
    BY <1>1, <2>1, <2>2, WallsAreExact
  <2>6. Lesser(2 * n, WordMax) > room
          <=> ~(2 * n > 0 => held + 2 * n <= r.ceiling /\ 2 * n <= r.avail)
    BY <1>1, <2>1, <2>2, WallsAreExact
  <2>7. Fits(s, r.want * Megabyte) <=> (n > 0 => held + n <= r.ceiling /\ n <= r.avail)
    BY <1>2 DEF Fits, n
  <2>8. Fits(s, 2 * r.want * Megabyte)
          <=> (2 * n > 0 => held + 2 * n <= r.ceiling /\ 2 * n <= r.avail)
    BY <1>2, <2>2 DEF Fits
  <2>9. Headroom(r.ceiling, held, r.avail) = room
    BY <1>7 DEF Headroom
  <2>10. Answer(r) = IF Lesser(n, WordMax) > room THEN "full"
                     ELSE IF Lesser(2 * n, WordMax) > room THEN "tight" ELSE "ok"
    BY <1>7, <2>3, <2>4, <2>9 DEF Answer, BudgetVerdict
  <2>11. ExactVerdict(s) = IF ~Fits(s, r.want * Megabyte) THEN "full"
                           ELSE IF ~Fits(s, 2 * r.want * Megabyte) THEN "tight" ELSE "ok"
    BY <1>2, <1>7 DEF ExactVerdict
  <2> HIDE DEF room
  <2> QED BY <2>5, <2>6, <2>7, <2>8, <2>10, <2>11
<1> QED BY <1>3, <1>4, <1>5, <1>6, <1>7

GoodRun(r) ==
  /\ r.at \in {"asking", "ceiling", "held"} => r.verdict = "none"
  /\ r.verdict # "none" => r.verdict = ExactVerdict(r)
  /\ r.at = "refused" => r.verdict # "none" /\ ExactVerdict(r) = "full"

MachineOK ==
  /\ ram \in Rams
  /\ high \in {NoSlice, WordMax} \cup 0 .. ram
  /\ held \in Nat /\ other \in Nat /\ held + other <= ram
  /\ sound \in [Launchers -> BOOLEAN]

LEMMA InvariantByRun ==
  IInv <=> MachineOK /\ run \in [Launchers -> Runs] /\ \A l \in Launchers : GoodRun(run[l])
BY DEF IInv, TypeOK, VerdictComesLast, VerdictIsExact, RefusedForCause, MachineOK, GoodRun

\* A step of one launcher that leaves its own record good keeps the invariant.
LEMMA OneLauncherMoves ==
  ASSUME IInv, ram' = ram, MachineOK', NEW l \in Launchers, NEW x \in Runs, GoodRun(x),
         run' = [run EXCEPT ![l] = x]
  PROVE  IInv'
<1>1. Runs' = Runs
  BY DEF Runs
<1>2. run' \in [Launchers -> Runs] /\ \A k \in Launchers : run'[k] \in {run[k], x}
  BY InvariantByRun
<1>3. \A k \in Launchers : GoodRun(run'[k])
  BY <1>2, InvariantByRun
<1>4. (MachineOK /\ run \in [Launchers -> Runs] /\ \A k \in Launchers : GoodRun(run[k]))'
  BY <1>1, <1>2, <1>3
<1> QED BY <1>4 DEF IInv, TypeOK, VerdictComesLast, VerdictIsExact, RefusedForCause,
                        MachineOK, GoodRun

LEMMA FreshIsGood ==
  ASSUME ram \in Nat, NEW want \in Asks \cup {NoAsk},
         NEW at \in {"idle", "asking", "answered", "running"}
  PROVE  Fresh(at, want) \in Runs /\ GoodRun(Fresh(at, want))
BY DEF Fresh, Runs, GoodRun

LEMMA IdleIsGood == ASSUME ram \in Nat PROVE Idle \in Runs /\ GoodRun(Idle)
BY FreshIsGood DEF Idle

LEMMA InitInvariant == Init => IInv
<1> SUFFICES ASSUME Init PROVE IInv
  OBVIOUS
<1>1. ram \in Rams /\ ram \in Nat
  BY DEF Init
<1>2. MachineOK
  BY <1>1 DEF Init, MachineOK
<1> QED BY <1>1, <1>2, IdleIsGood, InvariantByRun DEF Init

LEMMA MachineSteps ==
  ASSUME IInv, Login \/ Logout \/ SetBulkCeiling \/ \E n \in Loads : Elsewhere(n)
  PROVE  IInv'
<1>1. MachineOK /\ ram \in Nat
  <2>1. MachineOK
    BY InvariantByRun
  <2> QED BY <2>1 DEF MachineOK
<1>2. ram' = ram /\ Runs' = Runs
  BY DEF Login, Logout, SetBulkCeiling, Elsewhere, Runs
<1>3. MachineOK'
  <2>1. CASE Login
    BY <1>1, <2>1 DEF Login, MachineOK
  <2>2. CASE Logout
    BY <1>1, <2>2 DEF Logout, MachineOK
  <2>3. CASE SetBulkCeiling
    <3>1. AppSliceHigh(ram) \in 0 .. ram
      BY <1>1, ReserveOK
    <3> QED BY <1>1, <2>3, <3>1 DEF SetBulkCeiling, MachineOK
  <2>4. CASE \E n \in Loads : Elsewhere(n)
    BY <1>1, <2>4 DEF Elsewhere, MachineOK
  <2> QED BY <2>1, <2>2, <2>3, <2>4
<1>4. run' \in [Launchers -> Runs] /\ \A l \in Launchers : GoodRun(run'[l])
  <2>1. CASE Logout
    BY <1>1, <2>1, IdleIsGood DEF Logout
  <2>2. CASE ~Logout
    BY <2>2, InvariantByRun DEF Login, SetBulkCeiling, Elsewhere
  <2> QED BY <2>1, <2>2
<1>5. (MachineOK /\ run \in [Launchers -> Runs] /\ \A l \in Launchers : GoodRun(run[l]))'
  BY <1>2, <1>3, <1>4
<1> QED BY <1>5 DEF IInv, TypeOK, VerdictComesLast, VerdictIsExact, RefusedForCause,
                        MachineOK, GoodRun

LEMMA LauncherSteps ==
  ASSUME IInv, NEW l \in Launchers, Step(l)
  PROVE  IInv'
<1>1. MachineOK /\ run \in [Launchers -> Runs] /\ run[l] \in Runs /\ GoodRun(run[l])
  BY InvariantByRun
<1>2. ram \in Nat
  BY <1>1 DEF MachineOK
<1>3. ASSUME NEW want \in Asks \cup {NoAsk}, AdmitForced(l, want) PROVE IInv'
  <2>1. Started(want) \in Runs /\ GoodRun(Started(want))
    BY <1>2, FreshIsGood DEF Started
  <2>2. MachineOK' /\ ram' = ram
    BY <1>1, <1>3 DEF MachineOK, AdmitForced, machine
  <2> QED BY <1>3, <2>1, <2>2, OneLauncherMoves DEF AdmitForced
<1>4. ASSUME NEW want \in Asks \cup {NoAsk}, Ask(l, want) PROVE IInv'
  <2> DEFINE x == Fresh("asking", want)
  <2>1. x \in Runs /\ GoodRun(x)
    BY <1>2, FreshIsGood
  <2>2. MachineOK' /\ ram' = ram
    BY <1>1, <1>4 DEF MachineOK, Ask, machine
  <2> QED BY <1>4, <2>1, <2>2, OneLauncherMoves DEF Ask
<1>5. CASE Unanswered(l)
  <2> DEFINE x == Fresh("answered", run[l].want)
  <2>1. run[l].want \in Asks \cup {NoAsk}
    BY <1>1 DEF Runs
  <2>2. x \in Runs /\ GoodRun(x)
    BY <1>2, <2>1, FreshIsGood
  <2>3. MachineOK' /\ ram' = ram
    BY <1>1, <1>5 DEF MachineOK, Unanswered, machine
  <2> QED BY <1>5, <2>2, <2>3, OneLauncherMoves DEF Unanswered
<1>6. ASSUME NEW pressed \in BOOLEAN, ReadFree(l, pressed) PROVE IInv'
  <2> DEFINE a == ram - (held + other)
             x == [run[l] EXCEPT !.at = "ceiling", !.avail = a, !.pressed = pressed]
  <2>1. a \in 0 .. ram
    BY <1>1, <1>2 DEF MachineOK
  <2> HIDE DEF a
  <2>2. x \in Runs
    BY <1>1, <2>1 DEF Runs
  <2>3. x.verdict = "none" /\ x.at = "ceiling"
    BY <1>1, <1>6 DEF ReadFree, GoodRun, Runs
  <2>4. GoodRun(x)
    BY <2>3 DEF GoodRun
  <2>5. MachineOK' /\ ram' = ram /\ run' = [run EXCEPT ![l] = x]
    BY <1>1, <1>6 DEF MachineOK, ReadFree, MemAvailable, machine, a
  <2> QED BY <2>2, <2>4, <2>5, OneLauncherMoves
<1>7. ASSUME NEW found \in BOOLEAN, ReadCeiling(l, found) PROVE IInv'
  <2> DEFINE c == IF found THEN high ELSE NoSlice
             x == [run[l] EXCEPT !.at = "held", !.ceiling = c]
  <2>1. c \in Nat \cup {NoSlice}
    BY <1>1, <1>2 DEF MachineOK
  <2> HIDE DEF c
  <2>2. x \in Runs
    BY <1>1, <2>1 DEF Runs
  <2>3. x.verdict = "none" /\ x.at = "held"
    BY <1>1, <1>7 DEF ReadCeiling, GoodRun, Runs
  <2>4. GoodRun(x)
    BY <2>3 DEF GoodRun
  <2>5. MachineOK' /\ ram' = ram /\ run' = [run EXCEPT ![l] = x]
    BY <1>1, <1>7 DEF MachineOK, ReadCeiling, machine, c
  <2> QED BY <2>2, <2>4, <2>5, OneLauncherMoves
<1>8. CASE ReadHeld(l)
  <2> DEFINE v == Answer(run[l])
             x == [run[l] EXCEPT !.at = "answered", !.held = held, !.verdict = v]
  <2>1. held \in Nat
    BY <1>1 DEF MachineOK
  <2>2. /\ x.pressed = run[l].pressed /\ x.ceiling = run[l].ceiling /\ x.want = run[l].want
        /\ x.avail = run[l].avail /\ x.held = held /\ x.at = "answered" /\ x.verdict = v
    BY <1>1 DEF Runs
  <2>3. v \in {"ok", "tight", "full"} /\ v = ExactVerdict(x)
    BY <1>1, <2>2, AnswerIsExact DEF IInv
  <2>4. MachineOK' /\ ram' = ram /\ run' = [run EXCEPT ![l] = x]
    BY <1>1, <1>8 DEF MachineOK, ReadHeld, machine
  <2> HIDE DEF v
  <2>5. x \in Runs
    BY <1>1, <2>1, <2>3 DEF Runs
  <2>6. GoodRun(x)
    BY <2>2, <2>3 DEF GoodRun
  <2> QED BY <2>4, <2>5, <2>6, OneLauncherMoves
<1>9. CASE Decide(l) /\ Refuses(run[l].verdict)
  <2> DEFINE x == [run[l] EXCEPT !.at = "refused"]
  <2>1. x \in Runs /\ x.at = "refused" /\ x.verdict = "full"
    BY <1>1, <1>9 DEF Runs, Refuses
  <2>2. ExactVerdict(x) = ExactVerdict(run[l])
    BY <1>1 DEF Runs, ExactVerdict, Fits
  <2>3. GoodRun(x)
    BY <1>1, <1>9, <2>1, <2>2 DEF GoodRun, Refuses
  <2>4. MachineOK' /\ ram' = ram /\ run' = [run EXCEPT ![l] = x]
    BY <1>1, <1>9 DEF MachineOK, Decide, machine
  <2> QED BY <2>1, <2>3, <2>4, OneLauncherMoves
<1>10. CASE Decide(l) /\ ~Refuses(run[l].verdict)
  <2> DEFINE x == Started(run[l].want)
  <2>1. run[l].want \in Asks \cup {NoAsk}
    BY <1>1 DEF Runs
  <2>2. x \in Runs /\ GoodRun(x)
    BY <1>2, <2>1, FreshIsGood DEF Started
  <2>3. MachineOK' /\ ram' = ram /\ run' = [run EXCEPT ![l] = x]
    BY <1>1, <1>10 DEF MachineOK, Decide, machine
  <2> QED BY <2>2, <2>3, OneLauncherMoves
<1>11. ASSUME NEW n \in 1 .. ram, Grow(l, n) PROVE IInv'
  <2> DEFINE t == run[l].taken + n
             x == [run[l] EXCEPT !.taken = t]
  <2>1. t \in Nat
    BY <1>1, <1>2 DEF Runs
  <2> HIDE DEF t
  <2>2. x \in Runs /\ x.at = run[l].at /\ x.verdict = run[l].verdict
    BY <1>1, <2>1 DEF Runs
  <2>3. ExactVerdict(x) = ExactVerdict(run[l])
    BY <1>1 DEF Runs, ExactVerdict, Fits
  <2>4. GoodRun(x)
    BY <1>1, <2>2, <2>3 DEF GoodRun
  <2>5. MachineOK' /\ ram' = ram
    BY <1>1, <1>2, <1>11 DEF MachineOK, Grow
  <2>6. run' = [run EXCEPT ![l] = x]
    BY <1>11 DEF Grow, t
  <2> QED BY <2>2, <2>4, <2>5, <2>6, OneLauncherMoves
<1>12. CASE End(l)
  <2>1. run[l].taken \in Nat
    BY <1>1 DEF Runs
  <2>2. MachineOK' /\ ram' = ram
    BY <1>1, <1>2, <1>12, <2>1 DEF MachineOK, End
  <2>3. Idle \in Runs /\ GoodRun(Idle)
    BY <1>2, IdleIsGood
  <2> QED BY <1>12, <2>2, <2>3, OneLauncherMoves DEF End
<1> QED
  BY <1>3, <1>4, <1>5, <1>6, <1>7, <1>8, <1>9, <1>10, <1>11, <1>12 DEF Step, Decide

THEOREM Invariance == Spec => []IInv
<1>1. IInv /\ [Next]_vars => IInv'
  <2> SUFFICES ASSUME IInv, [Next]_vars PROVE IInv'
    OBVIOUS
  <2>1. CASE Login \/ Logout \/ SetBulkCeiling \/ \E n \in Loads : Elsewhere(n)
    BY <2>1, MachineSteps
  <2>2. CASE \E l \in Launchers : Step(l)
    BY <2>2, LauncherSteps
  <2>3. CASE UNCHANGED vars
    BY <2>3 DEF vars, machine, IInv, TypeOK, Runs, VerdictComesLast, VerdictIsExact, RefusedForCause
  <2> QED BY <2>1, <2>2, <2>3 DEF Next
<1> QED BY <1>1, InitInvariant, PTL DEF Spec

\* Every variable keeps its type, and the apps' ceiling stays within RAM.
THEOREM TypeCorrect == Spec => []TypeOK
BY Invariance, PTL DEF IInv

\* build_budget's and budget_verdict's saturating arithmetic decides as exact
\* arithmetic does, for any word, any request and any readings.
THEOREM VerdictsAreExact == Spec => []VerdictIsExact
BY Invariance, PTL DEF IInv

\* admission_for refuses only what the daemon answered "full" to, for cause.
THEOREM RefusalsHaveCause == Spec => []RefusedForCause
BY Invariance, PTL DEF IInv

\* The compositor's pin and the apps' ceiling are two halves of one partition.
THEOREM PartitionHolds == Spec => []HalvesOfOnePartition
<1>1. IInv => HalvesOfOnePartition
  <2> SUFFICES ASSUME IInv, ram >= CompositorCap(ram), NEW workingSet \in 0 .. ram
               PROVE  CompositorMin(ram, workingSet) + AppSliceHigh(ram) <= ram
    BY DEF HalvesOfOnePartition
  <2>1. ram \in Nat /\ workingSet \in Nat
    BY DEF IInv, TypeOK
  <2> QED BY <2>1, TwoHalves
<1> QED BY <1>1, Invariance, PTL
-----------------------------------------------------------------------------
(* The apps under their ceiling.  What they hold is the sum of what each   *)
(* has taken; what those admitted alone may still come to is the sum of    *)
(* their wants, and a verdict reached alone leaves room for one more.      *)

Taken == [l \in Launchers |-> run[l].taken]

\* Admitted by a verdict reached alone.
Admitted(l) ==
  /\ sound[l]
  /\ run[l].at = "running" \/ (run[l].at = "answered" /\ ~Refuses(run[l].verdict))

Committed == [l \in Launchers |-> IF Admitted(l) THEN run[l].want * Megabyte ELSE 0]

SessionOK ==
  /\ high \in {NoSlice, WordMax, AppSliceHigh(ram)}
  /\ high = NoSlice => \A l \in Launchers : run[l].at = "idle"

\* Only what runs has taken anything, and no more than it asked for.
LauncherOK(l) ==
  /\ run[l].at # "running" => run[l].taken = 0
  /\ run[l].at = "running" /\ run[l].want # NoAsk => run[l].taken <= run[l].want * Megabyte
  /\ sound[l] => /\ run[l].at \in {"answered", "running", "refused"}
                 /\ run[l].want # NoAsk
                 /\ high = AppSliceHigh(ram)

RoomIsLeft == (\E l \in Launchers : Admitted(l)) => \E n \in 0 .. high : Sums(Committed, n)

RoomInv ==
  /\ SessionOK
  /\ \A l \in Launchers : LauncherOK(l)
  /\ Sums(Taken, held)
  /\ RoomIsLeft

LEMMA AsksAreNat == Asks \subseteq Nat
OBVIOUS

LEMMA RoomFacts ==
  ASSUME IInv, RoomInv
  PROVE  /\ ram \in Nat /\ ram < WordMax /\ AppSliceHigh(ram) \in 0 .. ram
         /\ held \in Nat /\ held <= ram
         /\ \A l \in Launchers : run[l] \in Runs /\ run[l].taken \in Nat
         /\ \A l \in Launchers : Admitted(l) =>
              run[l].want \in Nat /\ run[l].want * Megabyte \in Nat /\ high \in Nat
         /\ Taken \in [Launchers -> Nat] /\ Committed \in [Launchers -> Nat]
<1>1. ram \in Nat /\ ram < WordMax /\ held \in Nat /\ held <= ram
  BY DEF IInv, TypeOK
<1>2. AppSliceHigh(ram) \in 0 .. ram
  BY <1>1, ReserveOK
<1>3. \A l \in Launchers : run[l] \in Runs
  BY DEF IInv, TypeOK
<1>4. \A l \in Launchers : run[l].taken \in Nat
  BY <1>3 DEF Runs
<1>5. ASSUME NEW l \in Launchers, Admitted(l)
      PROVE  run[l].want \in Nat /\ run[l].want * Megabyte \in Nat /\ high \in Nat
  <2>1. run[l].want \in Asks /\ high = AppSliceHigh(ram)
    BY <1>3, <1>5 DEF Admitted, RoomInv, LauncherOK, Runs
  <2>2. run[l].want \in Nat
    BY <2>1, AsksAreNat
  <2>3. high \in Nat
    BY <1>1, <1>2, <2>1
  <2>4. run[l].want * Megabyte \in Nat
    BY <2>2
  <2> QED BY <2>2, <2>3, <2>4
<1>6. Taken \in [Launchers -> Nat]
  BY <1>4 DEF Taken
<1>7. Committed \in [Launchers -> Nat]
  BY <1>5 DEF Committed
<1> QED BY <1>1, <1>2, <1>3, <1>4, <1>5, <1>6, <1>7

\* Room that was left is left when nobody is admitted and no ceiling moves.
LEMMA RoomStaysLeft ==
  ASSUME IInv, RoomInv, high' = high,
         \A l \in Launchers : Admitted(l)' => Admitted(l) /\ run'[l].want = run[l].want
  PROVE  RoomIsLeft'
<1> SUFFICES ASSUME NEW l \in Launchers, Admitted(l)'
             PROVE  \E n \in 0 .. high : Sums(Committed', n)
  BY DEF RoomIsLeft
<1>1. Admitted(l)
  OBVIOUS
<1>2. PICK n \in 0 .. high : Sums(Committed, n)
  BY <1>1 DEF RoomInv, RoomIsLeft
<1>3. high \in Nat
  BY <1>1, RoomFacts
<1>4. Committed \in [Launchers -> Nat]
  BY RoomFacts
<1>5. Committed' = [k \in Launchers |-> IF Admitted(k)' THEN run'[k].want * Megabyte ELSE 0]
  BY DEF Committed
<1>6. \A k \in Launchers : Admitted(k)' => run'[k].want * Megabyte = Committed[k]
  BY DEF Committed
<1>7. Committed' \in [Launchers -> Nat] /\ \A k \in Launchers : Committed'[k] <= Committed[k]
  <2>1. ASSUME NEW k \in Launchers PROVE Committed'[k] \in Nat /\ Committed'[k] <= Committed[k]
    BY <1>4, <1>5, <1>6
  <2> QED BY <1>5, <2>1
<1> DEFINE now == Committed'
<1> HIDE DEF now
<1>8. now \in [Launchers -> Nat] /\ \A k \in Launchers : now[k] <= Committed[k]
  BY <1>7 DEF now
<1>9. PICK m \in Nat : m <= n /\ Sums(now, m)
  BY <1>2, <1>4, <1>8, SumIsMonotone
<1> QED BY <1>3, <1>9 DEF now

\* A step of one launcher, of which no verdict comes, that takes d more.
LEMMA OneTakes ==
  ASSUME IInv, RoomInv, NEW l \in Launchers, NEW x, NEW d \in Nat,
         run' = [run EXCEPT ![l] = x], UNCHANGED <<ram, high>>,
         \A k \in Launchers \ {l} : sound'[k] = sound[k],
         held' = held + d, x.taken = run[l].taken + d,
         high # NoSlice, LauncherOK(l)',
         Admitted(l)' => Admitted(l) /\ x.want = run[l].want
  PROVE  RoomInv'
<1>1. run'[l] = x /\ \A k \in Launchers \ {l} : run'[k] = run[k]
  BY DEF IInv, TypeOK
<1>2. SessionOK'
  BY DEF RoomInv, SessionOK
<1>3. \A k \in Launchers : LauncherOK(k)'
  BY <1>1 DEF RoomInv, LauncherOK
<1>4. Sums(Taken, held)'
  <2>1. /\ Taken \in [Launchers -> Nat] /\ Taken[l] \in Nat /\ x.taken = Taken[l] + d
        /\ Sums(Taken, held)
    BY RoomFacts DEF RoomInv, Taken
  <2>2. /\ Taken' = [k \in Launchers |-> run'[k].taken]
        /\ \A k \in Launchers : run[k].taken = Taken[k]
    BY DEF Taken
  <2>3. Taken' \in [Launchers -> Nat] /\ Taken'[l] = Taken[l] + d
    BY <1>1, <2>1, <2>2
  <2>4. \A k \in Launchers \ {l} : Taken'[k] = Taken[k]
    BY <1>1, <2>2
  <2> DEFINE now == Taken'
  <2>5. now \in [Launchers -> Nat] /\ now[l] = Taken[l] + d /\ \A k \in Launchers \ {l} : now[k] = Taken[k]
    BY <2>3, <2>4
  <2> HIDE DEF now
  <2>6. Sums(now, held + d)
    BY <2>1, <2>5, SumGrows
  <2> QED BY <2>6 DEF now
<1>5. \A k \in Launchers : Admitted(k)' => Admitted(k) /\ run'[k].want = run[k].want
  BY <1>1 DEF Admitted
<1>6. RoomIsLeft'
  BY <1>5, RoomStaysLeft
<1> QED BY <1>2, <1>3, <1>4, <1>6 DEF RoomInv

\* A verdict that is not "full", reached alone, leaves room for what it admits:
\* what the others are admitted to they have taken already.
LEMMA VerdictLeavesRoom ==
  ASSUME IInv, IInv', RoomInv, NEW l \in Launchers, ReadHeld(l)
  PROVE  RoomIsLeft'
<1>1. /\ run[l].at = "held" /\ UNCHANGED <<ram, high, held>>
      /\ \A k \in Launchers \ {l} : run'[k] = run[k] /\ sound'[k] = sound[k]
      /\ run'[l] = [run[l] EXCEPT !.at = "answered", !.held = held, !.verdict = Answer(run[l])]
      /\ sound'[l] = /\ run[l].want # NoAsk
                     /\ run[l].ceiling = high /\ high <= ram
                     /\ \A k \in Launchers \ {l} : ~Claims(k)
  BY DEF ReadHeld, machine, IInv, TypeOK
<1>2. run[l] \in Runs /\ ~Admitted(l)
  BY <1>1, RoomFacts DEF Admitted
<1>3. /\ run'[l].at = "answered" /\ run'[l].held = held /\ run'[l].verdict = Answer(run[l])
      /\ run'[l].want = run[l].want /\ run'[l].ceiling = run[l].ceiling
  BY <1>1, <1>2 DEF Runs
<1>4. \A k \in Launchers \ {l} : (Admitted(k)' <=> Admitted(k)) /\ run'[k].want = run[k].want
  BY <1>1 DEF Admitted
<1>5. CASE ~Admitted(l)'
  BY <1>1, <1>4, <1>5, RoomStaysLeft
<1>6. CASE Admitted(l)'
  <2>1. /\ run[l].want # NoAsk /\ run[l].ceiling = high /\ high <= ram
        /\ \A k \in Launchers \ {l} : ~Claims(k)
    BY <1>1, <1>6 DEF Admitted
  <2>2. /\ ram \in Nat /\ ram < WordMax /\ held \in Nat /\ AppSliceHigh(ram) \in 0 .. ram
        /\ Committed \in [Launchers -> Nat] /\ Taken \in [Launchers -> Nat]
    BY RoomFacts
  <2>3. high = AppSliceHigh(ram) /\ high \in Nat
    <3>1. high # NoSlice
      BY <1>1 DEF RoomInv, SessionOK
    <3>2. high \in {WordMax, AppSliceHigh(ram)} /\ WordMax \in Nat
      BY <3>1 DEF RoomInv, SessionOK
    <3> QED BY <2>1, <2>2, <3>2
  <2> DEFINE w == run[l].want * Megabyte
  <2>4. run[l].want \in Nat /\ w \in Nat
    <3>1. run[l].want \in Asks
      BY <1>2, <2>1 DEF Runs
    <3>2. run[l].want \in Nat
      BY <3>1, AsksAreNat
    <3> QED BY <3>2
  <2>5. w > 0 => held + w <= high
    <3>1. Answer(run[l]) # "full" /\ Answer(run[l]) # "none"
      <4>1. ~Refuses(run'[l].verdict)
        BY <1>3, <1>6 DEF Admitted
      <4>2. Answer(run[l]) # "none"
        BY DEF Answer, BudgetVerdict
      <4> QED BY <1>3, <4>1, <4>2 DEF Refuses
    <3>2. ExactVerdict(run'[l]) # "full"
      BY <1>3, <3>1 DEF IInv, VerdictIsExact
    <3>3. Fits(run'[l], w)
      <4>1. run'[l].ceiling # NoSlice /\ run'[l].want # NoAsk
        BY <1>3, <2>1, <2>3
      <4> QED BY <1>3, <3>2, <4>1 DEF ExactVerdict
    <3> QED BY <1>3, <2>1, <3>3 DEF Fits
  <2> HIDE DEF w
  <2>6. \A k \in Launchers : Committed[k] <= Taken[k]
    <3> SUFFICES ASSUME NEW k \in Launchers PROVE Committed[k] <= Taken[k]
      OBVIOUS
    <3>1. Taken[k] \in Nat
      BY <2>2
    <3>2. CASE ~Admitted(k)
      BY <3>1, <3>2 DEF Committed
    <3>3. CASE Admitted(k)
      <4>1. k # l /\ ~Claims(k) /\ run[k].want # NoAsk
        BY <1>2, <2>1, <3>3 DEF Admitted, RoomInv, LauncherOK
      <4>2. run[k].at = "running" /\ ~(run[k].taken < run[k].want * Megabyte)
        BY <3>3, <4>1 DEF Admitted, Claims
      <4>3. run[k].want * Megabyte \in Nat /\ run[k].taken \in Nat
        BY <3>3, RoomFacts
      <4> QED BY <3>3, <4>2, <4>3 DEF Committed, Taken
    <3> QED BY <3>2, <3>3
  <2>7. PICK n \in Nat : n <= held /\ Sums(Committed, n)
    BY <2>2, <2>6, SumIsMonotone DEF RoomInv
  <2>8. n + w <= high
    <3>1. CASE w > 0
      BY <2>2, <2>3, <2>4, <2>5, <2>7, <3>1
    <3>2. CASE w = 0 /\ \E k \in Launchers : Admitted(k)
      <4>1. PICK m \in 0 .. high : Sums(Committed, m)
        BY <3>2 DEF RoomInv, RoomIsLeft
      <4>2. n = m
        BY <2>7, <4>1, SumIsUnique
      <4> QED BY <2>3, <3>2, <4>1, <4>2
    <3>3. CASE w = 0 /\ ~\E k \in Launchers : Admitted(k)
      <4>1. \A k \in Launchers : Committed[k] = 0
        BY <3>3 DEF Committed
      <4>2. n = 0
        BY <2>2, <2>7, <4>1, SumOfZeroes, SumIsUnique
      <4> QED BY <2>3, <3>3, <4>2
    <3> QED BY <2>4, <3>1, <3>2, <3>3
  <2> DEFINE now == Committed'
  <2>9. now = [k \in Launchers |-> IF Admitted(k)' THEN run'[k].want * Megabyte ELSE 0]
    BY DEF Committed
  <2>10. now[l] = Committed[l] + w
    BY <1>2, <1>3, <1>6, <2>4, <2>9 DEF Committed, w
  <2>11. \A k \in Launchers \ {l} : now[k] = Committed[k]
    BY <1>4, <2>9 DEF Committed
  <2>12. now \in [Launchers -> Nat]
    BY <2>2, <2>4, <2>9, <2>10, <2>11
  <2> HIDE DEF now
  <2>13. Sums(now, n + w)
    BY <2>2, <2>4, <2>7, <2>10, <2>11, <2>12, SumGrows
  <2>14. n + w \in 0 .. high
    BY <2>3, <2>4, <2>7, <2>8
  <2> QED BY <1>1, <2>13, <2>14 DEF RoomIsLeft, now
<1> QED BY <1>5, <1>6

\* What an app held is free again.
LEMMA EndFrees ==
  ASSUME IInv, RoomInv, NEW l \in Launchers, End(l)
  PROVE  RoomInv'
<1>1. /\ run'[l] = Idle /\ ~sound'[l] /\ held' = held - run[l].taken
      /\ \A k \in Launchers \ {l} : run'[k] = run[k] /\ sound'[k] = sound[k]
      /\ UNCHANGED <<ram, high>> /\ Idle.at = "idle" /\ Idle.taken = 0
      /\ run[l].at # "idle"
  BY DEF End, IInv, TypeOK, Idle, Fresh
<1>2. SessionOK' /\ \A k \in Launchers : LauncherOK(k)'
  BY <1>1 DEF RoomInv, SessionOK, LauncherOK
<1>3. \A k \in Launchers : Admitted(k)' => Admitted(k) /\ run'[k].want = run[k].want
  BY <1>1 DEF Admitted
<1>4. RoomIsLeft'
  BY <1>1, <1>3, RoomStaysLeft
<1>5. Sums(Taken, held)'
  <2> DEFINE now == Taken'
  <2>1. now = [k \in Launchers |-> run'[k].taken]
    BY DEF Taken
  <2>2. Taken \in [Launchers -> Nat] /\ Taken[l] \in Nat /\ Taken[l] = run[l].taken
    BY RoomFacts DEF Taken
  <2>3. Taken[l] = now[l] + Taken[l] /\ \A k \in Launchers \ {l} : now[k] = Taken[k]
    BY <1>1, <2>1, <2>2 DEF Taken
  <2>4. now \in [Launchers -> Nat]
    BY <1>1, <2>1, <2>2, <2>3
  <2> HIDE DEF now
  <2>5. Sums(now, held - Taken[l])
    BY <2>2, <2>3, <2>4, SumShrinks DEF RoomInv
  <2> QED BY <1>1, <2>2, <2>5 DEF now
<1> QED BY <1>2, <1>4, <1>5 DEF RoomInv

LEMMA LauncherRoom ==
  ASSUME IInv, IInv', RoomInv, NEW l \in Launchers, Step(l)
  PROVE  RoomInv'
<1>1. run[l] \in Runs /\ run[l].taken \in Nat /\ run[l].taken = run[l].taken + 0 /\ held + 0 = held
  BY RoomFacts
<1>2. LauncherOK(l) /\ SessionOK /\ (run[l].at # "idle" => high # NoSlice)
  BY DEF RoomInv, SessionOK
<1>3. \A at, want : Fresh(at, want).at = at /\ Fresh(at, want).want = want /\ Fresh(at, want).taken = 0
  BY DEF Fresh
<1>4. run'[l].want \in Asks \cup {NoAsk}
  BY DEF IInv, TypeOK, Runs
<1>5. \A x : run' = [run EXCEPT ![l] = x] => run'[l] = x /\ \A k \in Launchers \ {l} : run'[k] = run[k]
  BY DEF IInv, TypeOK
\* A request that starts, ends or moves on without a verdict admits nobody.
<1>6. ASSUME NEW x, run' = [run EXCEPT ![l] = x], UNCHANGED <<ram, high, held, sound>>,
             high # NoSlice, x.taken = 0, run[l].taken = 0,
             ~sound[l] \/ (x.at = "refused" /\ x.want = run[l].want)
                       \/ (x.at = "running" /\ Admitted(l) /\ x.want = run[l].want)
      PROVE  RoomInv'
  <2>1. run'[l] = x
    BY <1>5, <1>6
  <2>2. x.at = "running" /\ x.want # NoAsk => 0 <= x.want * Megabyte
    <3>1. x.want = NoAsk \/ x.want \in Nat
      BY <1>4, <2>1, AsksAreNat
    <3> QED BY <3>1, SizingAssumption DEF SizingAssumption
  <2>3. LauncherOK(l)'
    BY <1>2, <1>6, <2>1, <2>2 DEF LauncherOK
  <2>4. Admitted(l)' => Admitted(l) /\ x.want = run[l].want
    BY <1>6, <2>1 DEF Admitted
  <2>5. held' = held + 0 /\ x.taken = run[l].taken + 0 /\ 0 \in Nat
    BY <1>1, <1>6
  <2>6. \A k \in Launchers \ {l} : sound'[k] = sound[k]
    BY <1>6
  <2> QED BY <1>6, <2>3, <2>4, <2>5, <2>6, OneTakes
<1>7. ASSUME NEW want \in Asks \cup {NoAsk}, AdmitForced(l, want) \/ Ask(l, want)
      PROVE  RoomInv'
  <2>1. run[l].at = "idle" /\ high # NoSlice /\ UNCHANGED <<ram, high, held, sound>>
    BY <1>7 DEF AdmitForced, Ask, machine
  <2>2. run[l].taken = 0 /\ ~sound[l]
    BY <1>2, <2>1 DEF LauncherOK
  <2>3. PICK x : run' = [run EXCEPT ![l] = x] /\ x.taken = 0
    BY <1>3, <1>7 DEF AdmitForced, Ask, Started
  <2> QED BY <1>6, <2>1, <2>2, <2>3
<1>8. CASE Unanswered(l)
  <2>1. /\ run[l].at \in {"asking", "ceiling", "held"} /\ UNCHANGED <<ram, high, held, sound>>
        /\ run' = [run EXCEPT ![l] = Fresh("answered", run[l].want)]
    BY <1>8 DEF Unanswered, machine
  <2>2. run[l].taken = 0 /\ ~sound[l] /\ high # NoSlice
    BY <1>2, <2>1 DEF LauncherOK
  <2> DEFINE x == Fresh("answered", run[l].want)
  <2>3. run' = [run EXCEPT ![l] = x] /\ x.taken = 0
    BY <1>3, <2>1
  <2> HIDE DEF x
  <2> QED BY <1>6, <2>1, <2>2, <2>3
<1>9. ASSUME NEW pressed \in BOOLEAN, ReadFree(l, pressed) PROVE RoomInv'
  <2> DEFINE x == [run[l] EXCEPT !.at = "ceiling", !.avail = MemAvailable, !.pressed = pressed]
  <2>1. /\ run[l].at = "asking" /\ UNCHANGED <<ram, high, held, sound>>
        /\ run' = [run EXCEPT ![l] = x] /\ x.taken = run[l].taken
    BY <1>1, <1>9 DEF ReadFree, machine, Runs
  <2>2. run[l].taken = 0 /\ ~sound[l] /\ high # NoSlice
    BY <1>2, <2>1 DEF LauncherOK
  <2> HIDE DEF x
  <2> QED BY <1>6, <2>1, <2>2
<1>10. ASSUME NEW found \in BOOLEAN, ReadCeiling(l, found) PROVE RoomInv'
  <2> DEFINE c == IF found THEN high ELSE NoSlice
             x == [run[l] EXCEPT !.at = "held", !.ceiling = c]
  <2>1. /\ run[l].at = "ceiling" /\ UNCHANGED <<ram, high, held, sound>>
        /\ run' = [run EXCEPT ![l] = x] /\ x.taken = run[l].taken
    BY <1>1, <1>10 DEF ReadCeiling, machine, Runs
  <2>2. run[l].taken = 0 /\ ~sound[l] /\ high # NoSlice
    BY <1>2, <2>1 DEF LauncherOK
  <2> HIDE DEF x
  <2> QED BY <1>6, <2>1, <2>2
<1>11. CASE ReadHeld(l)
  <2> DEFINE x == [run[l] EXCEPT !.at = "answered", !.held = held, !.verdict = Answer(run[l])]
  <2>1. /\ run[l].at = "held" /\ UNCHANGED <<ram, high, held>>
        /\ run' = [run EXCEPT ![l] = x]
        /\ x.taken = run[l].taken /\ x.at = "answered" /\ x.want = run[l].want
        /\ \A k \in Launchers \ {l} : sound'[k] = sound[k]
        /\ sound'[l] => run[l].want # NoAsk /\ high <= ram
    BY <1>1, <1>11 DEF ReadHeld, machine, Runs, IInv, TypeOK
  <2> HIDE DEF x
  <2>2. run'[l] = x /\ \A k \in Launchers \ {l} : run'[k] = run[k]
    BY <1>5, <2>1
  <2>3. high # NoSlice /\ run[l].taken = 0
    BY <1>2, <2>1 DEF LauncherOK
  <2>4. high <= ram => high = AppSliceHigh(ram)
    <3>1. ram \in Nat /\ ram < WordMax
      BY RoomFacts
    <3>2. high \in {WordMax, AppSliceHigh(ram)}
      BY <1>2, <2>3 DEF SessionOK
    <3> QED BY <3>1, <3>2
  <2>5. \A k \in Launchers : LauncherOK(k)'
    BY <1>2, <2>1, <2>2, <2>3, <2>4 DEF RoomInv, LauncherOK
  <2>6. Taken' = Taken
    <3>1. \A k \in Launchers : run'[k].taken = run[k].taken
      BY <2>1, <2>2
    <3> QED BY <3>1 DEF Taken
  <2>7. RoomIsLeft'
    BY <1>11, VerdictLeavesRoom
  <2> QED BY <1>2, <2>1, <2>3, <2>5, <2>6, <2>7 DEF RoomInv, SessionOK
<1>12. CASE Decide(l)
  <2>1. /\ run[l].at = "answered" /\ UNCHANGED <<ram, high, held, sound>>
        /\ run' = [run EXCEPT ![l] = IF Refuses(run[l].verdict) THEN [run[l] EXCEPT !.at = "refused"]
                                     ELSE Fresh("running", run[l].want)]
    BY <1>12 DEF Decide, machine, Started
  <2>2. run[l].taken = 0 /\ high # NoSlice
    BY <1>2, <2>1 DEF LauncherOK
  <2>3. CASE Refuses(run[l].verdict)
    <3> DEFINE x == [run[l] EXCEPT !.at = "refused"]
    <3>1. x.at = "refused" /\ x.want = run[l].want /\ x.taken = run[l].taken /\ run' = [run EXCEPT ![l] = x]
      BY <1>1, <2>1, <2>3 DEF Runs
    <3> HIDE DEF x
    <3> QED BY <1>6, <2>1, <2>2, <3>1
  <2>4. CASE ~Refuses(run[l].verdict)
    <3> DEFINE x == Fresh("running", run[l].want)
    <3>1. run' = [run EXCEPT ![l] = x] /\ x.at = "running" /\ x.want = run[l].want /\ x.taken = 0
      BY <1>3, <2>1, <2>4
    <3> HIDE DEF x
    <3>2. sound[l] => Admitted(l)
      BY <2>1, <2>4 DEF Admitted
    <3> QED BY <1>6, <2>1, <2>2, <3>1, <3>2
  <2> QED BY <2>3, <2>4
<1>13. ASSUME NEW n \in 1 .. ram, Grow(l, n) PROVE RoomInv'
  <2> DEFINE t == run[l].taken + n
             x == [run[l] EXCEPT !.taken = t]
  <2>1. n \in Nat
    BY RoomFacts
  <2>2. /\ run[l].at = "running" /\ UNCHANGED <<ram, high, sound>> /\ held' = held + n
        /\ run[l].want # NoAsk => t <= run[l].want * Megabyte
        /\ run' = [run EXCEPT ![l] = x]
    BY <1>13 DEF Grow
  <2> HIDE DEF t
  <2>3. x.taken = t /\ x.at = run[l].at /\ x.want = run[l].want /\ x.verdict = run[l].verdict
    BY <1>1 DEF Runs
  <2> HIDE DEF x
  <2>4. run'[l] = x
    BY <1>5, <2>2
  <2>5. LauncherOK(l)' /\ (Admitted(l)' => Admitted(l) /\ x.want = run[l].want)
    BY <1>2, <2>2, <2>3, <2>4 DEF LauncherOK, Admitted
  <2>6. x.taken = run[l].taken + n
    BY <2>3 DEF t
  <2> QED BY <1>2, <2>1, <2>2, <2>5, <2>6, OneTakes
<1>14. CASE End(l)
  BY <1>14, EndFrees
<1> QED BY <1>7, <1>8, <1>9, <1>10, <1>11, <1>12, <1>13, <1>14 DEF Step

LEMMA MachineRoom ==
  ASSUME IInv, RoomInv, Login \/ Logout \/ SetBulkCeiling \/ \E n \in Loads : Elsewhere(n)
  PROVE  RoomInv'
<1>1. CASE Logout
  <2>1. /\ \A l \in Launchers : run'[l] = Idle /\ ~sound'[l]
        /\ Idle.at = "idle" /\ Idle.taken = 0 /\ held' = 0 /\ high' = NoSlice
    BY <1>1 DEF Logout, Idle, Fresh
  <2>2. Taken' = [l \in Launchers |-> 0]
    BY <2>1 DEF Taken
  <2>3. Sums([l \in Launchers |-> 0], 0)
    BY SumOfZeroes
  <2>4. RoomIsLeft' /\ SessionOK' /\ \A l \in Launchers : LauncherOK(l)'
    BY <2>1 DEF RoomIsLeft, Admitted, SessionOK, LauncherOK
  <2> QED BY <2>1, <2>2, <2>3, <2>4 DEF RoomInv
<1>2. CASE Login \/ SetBulkCeiling \/ \E n \in Loads : Elsewhere(n)
  <2>1. /\ UNCHANGED <<ram, held, run, sound>>
        /\ \/ high' = high
           \/ high = NoSlice /\ high' = WordMax
           \/ high # NoSlice /\ high' = AppSliceHigh(ram)
    BY <1>2 DEF Login, SetBulkCeiling, Elsewhere
  <2>2. WordMax # NoSlice /\ AppSliceHigh(ram) # NoSlice
    <3>1. AppSliceHigh(ram) \in Nat
      BY RoomFacts
    <3> QED BY <3>1
  <2>3. \A l \in Launchers : sound[l] => high = AppSliceHigh(ram) /\ high' = high
    <3>1. \A l \in Launchers : sound[l] => high = AppSliceHigh(ram)
      BY DEF RoomInv, LauncherOK
    <3> QED BY <2>1, <2>2, <3>1
  <2>4. SessionOK'
    BY <2>1, <2>2 DEF RoomInv, SessionOK
  <2>5. \A l \in Launchers : LauncherOK(l)'
    BY <2>1, <2>3 DEF RoomInv, LauncherOK
  <2>6. Taken' = Taken /\ Committed' = Committed
    BY <2>1 DEF Taken, Committed, Admitted
  <2>7. RoomIsLeft'
    BY <2>1, <2>3, <2>6 DEF RoomInv, RoomIsLeft, Admitted
  <2> QED BY <2>1, <2>4, <2>5, <2>6, <2>7 DEF RoomInv
<1> QED BY <1>1, <1>2

LEMMA InitRoom == Init => RoomInv
<1> SUFFICES ASSUME Init PROVE RoomInv
  OBVIOUS
<1>1. /\ \A l \in Launchers : run[l] = Idle /\ ~sound[l]
      /\ Idle.at = "idle" /\ Idle.taken = 0 /\ held = 0 /\ high = NoSlice
  BY DEF Init, Idle, Fresh
<1>2. Taken = [l \in Launchers |-> 0]
  BY <1>1 DEF Taken
<1>3. Sums([l \in Launchers |-> 0], 0)
  BY SumOfZeroes
<1>4. RoomIsLeft /\ SessionOK /\ \A l \in Launchers : LauncherOK(l)
  BY <1>1 DEF RoomIsLeft, Admitted, SessionOK, LauncherOK
<1> QED BY <1>1, <1>2, <1>3, <1>4 DEF RoomInv

\* Where everything that runs was admitted alone, what all have taken is below
\* what they asked for, and that is below the ceiling.
LEMMA RoomSuffices == IInv /\ RoomInv => NoOvershoot
<1> SUFFICES ASSUME IInv, RoomInv, high \in Nat,
                    \A l \in Launchers : run[l].at = "running" => sound[l]
             PROVE  held <= high
  BY DEF NoOvershoot
<1>1. /\ ram \in Nat /\ ram < WordMax /\ held \in Nat /\ held <= ram
      /\ Committed \in [Launchers -> Nat] /\ Taken \in [Launchers -> Nat]
      /\ Sums(Taken, held)
  BY RoomFacts DEF RoomInv
<1>2. \A l \in Launchers : Taken[l] <= Committed[l]
  <2> SUFFICES ASSUME NEW l \in Launchers PROVE Taken[l] <= Committed[l]
    OBVIOUS
  <2>1. Committed[l] \in Nat
    BY <1>1
  <2>2. CASE run[l].at = "running"
    <3>1. Admitted(l) /\ run[l].want # NoAsk
      BY <2>2 DEF Admitted, RoomInv, LauncherOK
    <3> QED BY <2>2, <3>1 DEF RoomInv, LauncherOK, Taken, Committed
  <2>3. CASE run[l].at # "running"
    BY <2>1, <2>3 DEF RoomInv, LauncherOK, Taken
  <2> QED BY <2>2, <2>3
<1>3. CASE \E l \in Launchers : Admitted(l)
  <2>1. PICK n \in 0 .. high : Sums(Committed, n)
    BY <1>3 DEF RoomInv, RoomIsLeft
  <2>2. PICK m \in Nat : m <= n /\ Sums(Taken, m)
    BY <1>1, <1>2, <2>1, SumIsMonotone
  <2>3. m = held
    BY <1>1, <2>2, SumIsUnique
  <2> QED BY <1>1, <2>1, <2>2, <2>3
<1>4. CASE ~\E l \in Launchers : Admitted(l)
  <2>1. \A l \in Launchers : Committed[l] = 0
    BY <1>4 DEF Committed
  <2>2. \A l \in Launchers : Taken[l] = 0
    BY <1>1, <1>2, <2>1
  <2>3. held = 0
    BY <1>1, <2>2, SumOfZeroes, SumIsUnique
  <2> QED BY <2>3
<1> QED BY <1>3, <1>4

\* "Run CMD only if the machine can afford it": as long as every app that runs
\* was admitted by a verdict reached alone, the apps stay under their ceiling
\* together, for any number of launchers, any machine and any wants.
THEOREM AppsFitTogether == Spec => []NoOvershoot
<1>1. IInv /\ IInv' /\ RoomInv /\ [Next]_vars => RoomInv'
  <2> SUFFICES ASSUME IInv, IInv', RoomInv, [Next]_vars PROVE RoomInv'
    OBVIOUS
  <2>1. CASE Login \/ Logout \/ SetBulkCeiling \/ \E n \in Loads : Elsewhere(n)
    BY <2>1, MachineRoom
  <2>2. CASE \E l \in Launchers : Step(l)
    BY <2>2, LauncherRoom
  <2>3. CASE UNCHANGED vars
    BY <2>3 DEF vars, machine, RoomInv, SessionOK, LauncherOK, Taken, RoomIsLeft, Committed, Admitted
  <2> QED BY <2>1, <2>2, <2>3 DEF Next
<1> QED BY <1>1, InitRoom, RoomSuffices, Invariance, PTL DEF Spec

=============================================================================
