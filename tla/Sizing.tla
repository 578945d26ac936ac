------------------------------- MODULE Sizing -------------------------------
(***************************************************************************)
(* How much memory each part of the machine may have: the arithmetic of    *)
(* guard.rs that splits RAM between the apps and the desktop, and the      *)
(* verdict on a request for more.  Amounts are u64 in the code: every      *)
(* operation that could leave 0 .. WordMax saturates instead.              *)
(***************************************************************************)
EXTENDS Naturals

CONSTANTS
  WordMax,        \* u64::MAX, which is also how memory.high "max" is read
  Megabyte,       \* the factor from want_mb to an amount
  ReserveFloor,   \* the 2 GB ...
  ReserveCap,     \* ... and 4 GB that clamp the desktop's reserve
  PinFloor,       \* the 512 MB below which the compositor's pin never goes
  NoAsk,          \* want: None
  NoSlice         \* app.slice is not there to be read

ASSUME SizingAssumption ==
  /\ WordMax \in Nat /\ Megabyte \in Nat \ {0}
  /\ ReserveFloor \in Nat /\ ReserveCap \in Nat /\ ReserveFloor <= ReserveCap
  /\ ReserveCap <= WordMax
  /\ PinFloor \in Nat /\ 2 * PinFloor <= ReserveFloor
  /\ NoAsk \notin Nat /\ NoSlice \notin Nat

-----------------------------------------------------------------------------
Lesser(a, b) == IF a < b THEN a ELSE b
Larger(a, b) == IF a < b THEN b ELSE a
Clamp(x, lo, hi) == Larger(lo, Lesser(x, hi))

\* Defect: subtraction that wraps.
SatSubWrapping(a, b) == IF a < b THEN (WordMax + 1) - (b - a) ELSE a - b

SatSub(a, b) == IF a < b THEN 0 ELSE a - b

\* Defect: multiplication that wraps.
SatMulWrapping(a, b) == (a * b) % (WordMax + 1)

SatMul(a, b) == Lesser(a * b, WordMax)

-----------------------------------------------------------------------------
(* The standing partition.                                                 *)

DesktopReserve(ram) == Clamp(ram \div 4, ReserveFloor, ReserveCap)

AppSliceHigh(ram) == SatSub(ram, DesktopReserve(ram))

CompositorCap(ram) == Larger(DesktopReserve(ram) \div 2, PinFloor)

\* Defect: the pin follows the working set wherever it goes.
CompositorMinUncapped(ram, workingSet) ==
  IF workingSet = 0 THEN CompositorCap(ram) ELSE Larger(workingSet, PinFloor)

\* compositor_min_for: a working set of zero is a measurement that failed.
CompositorMin(ram, workingSet) ==
  IF workingSet = 0 THEN CompositorCap(ram)
                    ELSE Clamp(workingSet, PinFloor, CompositorCap(ram))

-----------------------------------------------------------------------------
(* budget and budget_verdict.                                              *)

\* The bytes of a want in megabytes (ipc::build_budget).
WantBytes(want) == SatMul(want, Megabyte)

\* Defect: the looser wall.
HeadroomLooser(ceiling, held, avail) ==
  IF ceiling = NoSlice THEN avail ELSE Larger(SatSub(ceiling, held), avail)

\* The tighter of the two walls: the apps' ceiling and what is free.
Headroom(ceiling, held, avail) ==
  IF ceiling = NoSlice THEN avail ELSE Lesser(SatSub(ceiling, held), avail)

\* pressed: PSI some.avg10 at or above BUDGET_DENY_ABOVE_PSI.
BudgetVerdict(want, pressed, ceiling, headroom) ==
  IF pressed THEN "full"
  ELSE IF ceiling = NoSlice THEN "tight"
  ELSE IF want = NoAsk THEN (IF headroom = 0 THEN "full" ELSE "ok")
  ELSE IF WantBytes(want) > headroom THEN "full"
  ELSE IF SatMul(WantBytes(want), 2) > headroom THEN "tight"
  ELSE "ok"
=============================================================================
