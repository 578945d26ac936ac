------------------------- MODULE ProtectionsProofs -------------------------
(***************************************************************************)
(* Proofs about Protections, for every tree, every number of threads and   *)
(* every amount.  Between two recomputations the residue is in TOUCHED;    *)
(* during one, a cgroup already written carries what the holder wants of   *)
(* it (WritingOK), and what any thread wants covers every parent (WantOK), *)
(* however old its snapshot is.                                            *)
(***************************************************************************)
EXTENDS ProtectionsHistory, TLAPS

\* Only the holder of TOUCHED's lock is writing.
HolderOK == \A t \in Threads : call[t].at = "write" <=> holder = t

\* A map that gives every parent at least what its child has.
Covers(want) ==
  \A c \in DOMAIN want : \A d \in Up[c] : d \in DOMAIN want /\ want[c] <= want[d]

WantOK == \A t \in Threads : call[t].at \in {"lock", "write"} => Covers(call[t].want)

SlicesStay == Cgroups \ Mortal \subseteq alive

GoneIsZero == \A c \in Cgroups \ alive : min[c] = 0

\* What the recomputation of t has written is what it wants, unless the cgroup
\* has gone, and perhaps come back, since.
Written(t) ==
  /\ call[t].todo \subseteq DOMAIN call[t].want \cup touched
  /\ \A c \in Cgroups \ call[t].todo :
       min[c] = At(call[t].want, c) \/ (c \in Mortal /\ min[c] = 0) \/ c \notin alive

WritingOK == \A t \in Threads : call[t].at = "write" => Written(t)

IInv ==
  /\ TypeOK /\ HolderOK /\ WantOK /\ SlicesStay /\ GoneIsZero /\ WritingOK
  /\ ResidueIsTracked /\ ParentsCover

-----------------------------------------------------------------------------
(* Partial functions.                                                      *)

LEMMA PartialFacts ==
  ASSUME NEW S, NEW f \in Partial(S)
  PROVE  /\ DOMAIN f \subseteq S
         /\ f = [c \in DOMAIN f |-> f[c]]
         /\ \A c \in DOMAIN f : f[c] \in Values
BY DEF Partial

LEMMA PartialIntro ==
  ASSUME NEW S, NEW D \in SUBSET S, NEW f \in [D -> Values]
  PROVE  f \in Partial(S)
BY DEF Partial

LEMMA NothingPartial == \A S : Nothing \in Partial(S)
<1> SUFFICES ASSUME NEW S PROVE Nothing \in Partial(S)
  OBVIOUS
<1>1. Nothing \in [{} -> Values]
  BY DEF Nothing
<1> QED
  BY <1>1, PartialIntro

LEMMA WithoutPartial ==
  ASSUME NEW S, NEW f \in Partial(S), NEW T
  PROVE  Without(f, T) \in Partial(S)
<1>1. Without(f, T) \in [DOMAIN f \ T -> Values]
  BY PartialFacts DEF Without
<1>2. DOMAIN f \ T \in SUBSET S
  BY PartialFacts
<1> QED
  BY <1>1, <1>2, PartialIntro

LEMMA AtFacts ==
  ASSUME NEW f \in Partial(Cgroups), NEW c
  PROVE  At(f, c) \in Values \cup {0}
BY PartialFacts DEF At

LEMMA IdleTyped == Idle \in Calls
BY NothingPartial DEF Idle, Calls

\* The fields of a call that a step writes keep their types.
LEMMA CallTyped ==
  ASSUME NEW r \in Calls
  PROVE  /\ \A a \in {"snap", "avoid", "swap"} : [r EXCEPT !.at = a] \in Calls
         /\ \A w \in Partial(Cgroups) : [r EXCEPT !.at = "lock", !.want = w] \in Calls
         /\ \A T \in SUBSET Cgroups : /\ [r EXCEPT !.at = "write", !.todo = T] \in Calls
                                     /\ [r EXCEPT !.todo = T] \in Calls
BY DEF Calls

\* desired_min_map covers every parent.
LEMMA DesiredCovers ==
  ASSUME NEW prot \in Partial(Leaves), NEW want \in Partial(Cgroups), Desired(want, prot)
  PROVE  Covers(want)
<1> SUFFICES ASSUME NEW c \in DOMAIN want, NEW d \in Up[c]
             PROVE  d \in DOMAIN want /\ want[c] <= want[d]
  BY DEF Covers
<1>1. PICK l \in DOMAIN prot : c \in Up[l] /\ want[c] = prot[l]
  BY DEF Desired
<1>2. l \in Cgroups
  BY <1>1, PartialFacts, ProtectionsAssumption DEF ProtectionsAssumption
<1>3. d \in Up[l]
  BY <1>1, <1>2, ProtectionsAssumption DEF ProtectionsAssumption
<1> QED
  BY <1>1, <1>3 DEF Desired

-----------------------------------------------------------------------------
(* Types.                                                                  *)

LEMMA BeginTyped ==
  ASSUME TypeOK, NEW t \in Threads, NEW l \in Leaves,
         (\E v \in Values : SetBegin(t, l, v)) \/ ClearBegin(t, l)
  PROVE  TypeOK'
<1>1. CASE ClearBegin(t, l)
  <2>1. registry' \in Partial(Leaves)
    BY <1>1, WithoutPartial DEF ClearBegin, TypeOK
  <2>2. [Idle EXCEPT !.at = "unavoid", !.op = "clear", !.leaf = l] \in Calls
    BY IdleTyped DEF Calls
  <2>3. call' \in [Threads -> Calls]
    BY <1>1, <2>2 DEF ClearBegin, TypeOK
  <2> QED
    BY <1>1, <2>1, <2>3 DEF ClearBegin, TypeOK, kernel
<1>2. ASSUME NEW v \in Values, SetBegin(t, l, v) PROVE TypeOK'
  <2>1. registry' \in [DOMAIN registry \cup {l} -> Values]
    BY <1>2, PartialFacts DEF SetBegin, TypeOK
  <2>2. DOMAIN registry \cup {l} \in SUBSET Leaves
    BY PartialFacts DEF TypeOK
  <2>3. registry' \in Partial(Leaves)
    BY <2>1, <2>2, PartialIntro
  <2>4. [Idle EXCEPT !.at = "snap", !.leaf = l, !.val = v] \in Calls
    BY IdleTyped DEF Calls
  <2>5. call' \in [Threads -> Calls]
    BY <1>2, <2>4 DEF SetBegin, TypeOK
  <2> QED
    BY <1>2, <2>3, <2>5 DEF SetBegin, TypeOK, kernel
<1> QED BY <1>1, <1>2

LEMMA SnapshotTyped ==
  ASSUME TypeOK, NEW t \in Threads,
         NEW want \in [UNION {Up[l] : l \in DOMAIN registry \cap alive} -> Values],
         Snapshot(t, want)
  PROVE  TypeOK' /\ want \in Partial(Cgroups)
<1>1. UNION {Up[l] : l \in DOMAIN registry \cap alive} \in SUBSET Cgroups
  BY ProtectionsAssumption DEF ProtectionsAssumption, TypeOK
<1>2. want \in Partial(Cgroups)
  BY <1>1, PartialIntro
<1>3. registry' \in Partial(Leaves)
  BY WithoutPartial DEF Snapshot, TypeOK
<1>4. call' \in [Threads -> Calls]
  BY <1>2, CallTyped DEF Snapshot, TypeOK
<1> QED
  BY <1>2, <1>3, <1>4 DEF Snapshot, TypeOK, kernel

LEMMA ApplyTyped ==
  ASSUME TypeOK, NEW t \in Threads,
         Unavoid(t) \/ Acquire(t) \/ Finish(t) \/ \E c \in Cgroups : Write(t, c)
  PROVE  TypeOK'
<1>1. call[t] \in Calls /\ call[t].want \in Partial(Cgroups) /\ call[t].todo \subseteq Cgroups
  BY DEF TypeOK, Calls
<1>2. DOMAIN call[t].want \subseteq Cgroups
  BY <1>1, PartialFacts
<1>3. CASE Unavoid(t)
  BY <1>3, CallTyped DEF Unavoid, TypeOK, shared
<1>4. CASE Acquire(t)
  <2>1. DOMAIN call[t].want \cup touched \in SUBSET Cgroups
    BY <1>2 DEF TypeOK
  <2>2. call' \in [Threads -> Calls]
    BY <1>1, <1>4, <2>1, CallTyped DEF Acquire, ToWrite, TypeOK
  <2> QED
    BY <1>4, <2>2 DEF Acquire, ToWrite, TypeOK, kernel
<1>5. ASSUME NEW c \in Cgroups, Write(t, c) PROVE TypeOK'
  <2>1. At(call[t].want, c) \in Values \cup {0}
    BY <1>1, AtFacts
  <2>2. call' = [call EXCEPT ![t] = [call[t] EXCEPT !.todo = call[t].todo \ {c}]]
    BY <1>5 DEF Write, Amount
  <2>3. call[t].todo \ {c} \in SUBSET Cgroups
    BY <1>1
  <2>4. call' \in [Threads -> Calls]
    BY <1>1, <2>2, <2>3, CallTyped DEF TypeOK
  <2> QED
    BY <1>5, <2>1, <2>4 DEF Write, Amount, TypeOK, shared
<1>6. CASE Finish(t)
  <2>1. call' \in [Threads -> Calls]
    BY <1>1, <1>6, CallTyped, IdleTyped DEF Finish, TypeOK
  <2> QED
    BY <1>2, <1>6, <2>1 DEF Finish, TypeOK, kernel
<1> QED BY <1>3, <1>4, <1>5, <1>6

LEMMA KnobsTyped ==
  ASSUME TypeOK, NEW t \in Threads, Avoid(t) \/ \E fits \in BOOLEAN : SwapDoor(t, fits)
  PROVE  TypeOK'
<1>1. call[t] \in Calls
  BY DEF TypeOK
<1>2. {call[t].leaf} \cap alive \subseteq Leaves
  BY <1>1, ProtectionsAssumption DEF ProtectionsAssumption, Calls, TypeOK
<1>3. CASE Avoid(t)
  BY <1>1, <1>2, <1>3, CallTyped DEF Avoid, TypeOK, shared
<1>4. ASSUME NEW fits \in BOOLEAN, SwapDoor(t, fits) PROVE TypeOK'
  BY <1>2, <1>4, IdleTyped DEF SwapDoor, TypeOK, shared
<1> QED BY <1>3, <1>4

LEMMA LifeTyped ==
  ASSUME TypeOK, NEW l \in Leaves, Exit(l) \/ Return(l)
  PROVE  TypeOK'
BY ProtectionsAssumption DEF ProtectionsAssumption, Exit, Return, TypeOK, shared

LEMMA MinNat == ASSUME TypeOK PROVE \A c \in Cgroups : min[c] \in Nat
<1>1. min \in [Cgroups -> Values \cup {0}] /\ Values \cup {0} \subseteq Nat
  BY ProtectionsAssumption DEF ProtectionsAssumption, TypeOK
<1> QED
  BY <1>1

-----------------------------------------------------------------------------
(* Steps that leave memory.min and the recomputation in progress alone.    *)

\* A thread outside the writes changes its own call, and does not start to wait
\* for the lock with a map that fails to cover.
LEMMA ElsewhereInv ==
  ASSUME IInv, TypeOK', NEW t \in Threads,
         call[t].at # "write", call'[t].at # "write",
         \A u \in Threads \ {t} : call'[u] = call[u],
         call'[t].at = "lock" => Covers(call'[t].want),
         UNCHANGED <<alive, min, touched, holder>>
  PROVE  IInv'
<1>1. HolderOK' /\ WantOK'
  BY DEF IInv, HolderOK, WantOK, Covers
<1>2. SlicesStay' /\ GoneIsZero' /\ ParentsCover'
  BY DEF IInv, SlicesStay, GoneIsZero, ParentsCover
<1>3. WritingOK'
  BY DEF IInv, WritingOK, Written
<1>4. ResidueIsTracked'
  <2>1. CASE holder = Nobody
    BY <2>1 DEF IInv, ResidueIsTracked
  <2>2. CASE holder # Nobody
    <3>1. holder \in Threads \ {t}
      BY <2>2 DEF IInv, TypeOK, HolderOK
    <3> QED
      BY <2>2, <3>1 DEF IInv, ResidueIsTracked
  <2> QED BY <2>1, <2>2
<1> QED
  BY <1>1, <1>2, <1>3, <1>4 DEF IInv

LEMMA BeginInv ==
  ASSUME IInv, NEW t \in Threads, NEW l \in Leaves,
         (\E v \in Values : SetBegin(t, l, v)) \/ ClearBegin(t, l)
  PROVE  IInv'
<1>1. TypeOK'
  BY BeginTyped DEF IInv
<1>2. /\ call[t].at = "idle" /\ call'[t].at \in {"snap", "unavoid"}
      /\ \A u \in Threads \ {t} : call'[u] = call[u]
      /\ UNCHANGED <<alive, min, touched, holder>>
  BY DEF SetBegin, ClearBegin, Idle, kernel, IInv, TypeOK
<1> QED
  BY <1>1, <1>2, ElsewhereInv

LEMMA SnapshotInv ==
  ASSUME IInv, NEW t \in Threads,
         NEW want \in [UNION {Up[l] : l \in DOMAIN registry \cap alive} -> Values],
         Snapshot(t, want)
  PROVE  IInv'
<1>1. TypeOK' /\ want \in Partial(Cgroups)
  BY SnapshotTyped DEF IInv
<1>2. Covers(want)
  BY <1>1, DesiredCovers DEF Snapshot, TypeOK
<1>3. call[t] \in Calls
  BY DEF IInv, TypeOK
<1>4. /\ call[t].at = "snap" /\ call'[t] = [call[t] EXCEPT !.at = "lock", !.want = want]
      /\ \A u \in Threads \ {t} : call'[u] = call[u]
      /\ UNCHANGED <<alive, min, touched, holder>>
  BY DEF Snapshot, kernel, IInv, TypeOK
<1>5. call'[t].at = "lock" /\ call'[t].want = want
  BY <1>3, <1>4 DEF Calls
<1>6. Covers(call'[t].want)
  BY <1>2, <1>5
<1> QED
  BY <1>1, <1>4, <1>5, <1>6, ElsewhereInv

LEMMA KnobsInv ==
  ASSUME IInv, NEW t \in Threads,
         Unavoid(t) \/ Avoid(t) \/ \E fits \in BOOLEAN : SwapDoor(t, fits)
  PROVE  IInv'
<1>1. TypeOK'
  BY ApplyTyped, KnobsTyped DEF IInv
<1>2. call[t] \in Calls
  BY DEF IInv, TypeOK
<1>3. /\ call[t].at \in {"unavoid", "avoid", "swap"}
      /\ call'[t].at \in {"snap", "swap", "idle"}
      /\ \A u \in Threads \ {t} : call'[u] = call[u]
      /\ UNCHANGED <<alive, min, touched, holder>>
  BY <1>2 DEF Unavoid, Avoid, SwapDoor, Idle, shared, IInv, TypeOK, Calls
<1> QED
  BY <1>1, <1>3, ElsewhereInv

-----------------------------------------------------------------------------
(* The writes.                                                             *)

LEMMA AcquireInv == ASSUME IInv, NEW t \in Threads, Acquire(t) PROVE IInv'
<1>1. TypeOK'
  BY ApplyTyped DEF IInv
<1>2. /\ call[t] \in Calls /\ Covers(call[t].want)
      /\ \A u \in Threads : call[u].at # "write"
  BY ProtectionsAssumption DEF ProtectionsAssumption, IInv, TypeOK, WantOK, HolderOK, Acquire
<1>3. /\ call'[t].at = "write" /\ call'[t].want = call[t].want
      /\ call'[t].todo = DOMAIN call[t].want \cup touched
      /\ \A u \in Threads \ {t} : call'[u] = call[u]
      /\ holder = Nobody /\ holder' = t
      /\ UNCHANGED <<alive, min, touched>>
  BY <1>2 DEF Acquire, ToWrite, kernel, IInv, TypeOK, Calls
<1>4. \A c \in Cgroups \ (DOMAIN call[t].want \cup touched) : min[c] = 0
  <2> SUFFICES ASSUME NEW c \in Cgroups \ (DOMAIN call[t].want \cup touched) PROVE min[c] = 0
    OBVIOUS
  <2>1. ~(min[c] > 0)
    BY <1>3 DEF IInv, ResidueIsTracked
  <2> QED BY <2>1, MinNat DEF IInv
<1>5. HolderOK' /\ WantOK'
  BY <1>2, <1>3 DEF IInv, HolderOK, WantOK, Covers
<1>6. SlicesStay' /\ GoneIsZero' /\ ParentsCover' /\ ResidueIsTracked'
  BY <1>3, ProtectionsAssumption
     DEF ProtectionsAssumption, IInv, SlicesStay, GoneIsZero, ParentsCover, ResidueIsTracked
<1>7. WritingOK'
  BY <1>2, <1>3, <1>4 DEF WritingOK, Written, At
<1> QED
  BY <1>1, <1>5, <1>6, <1>7 DEF IInv

LEMMA WriteInv ==
  ASSUME IInv, NEW t \in Threads, NEW c \in Cgroups, Write(t, c)
  PROVE  IInv'
<1>1. TypeOK'
  BY ApplyTyped DEF IInv
<1>2. call[t] \in Calls /\ holder = t /\ Written(t)
  BY DEF IInv, TypeOK, HolderOK, WritingOK, Write
<1>3. /\ call[t].at = "write" /\ call'[t].at = "write" /\ call'[t].want = call[t].want
      /\ call'[t].todo = call[t].todo \ {c}
      /\ \A u \in Threads \ {t} : call'[u] = call[u] /\ call[u].at # "write"
      /\ UNCHANGED <<alive, touched, holder>>
  BY <1>2 DEF Write, shared, IInv, TypeOK, Calls, HolderOK
<1>4. /\ \A d \in Cgroups \ {c} : min'[d] = min[d]
      /\ min'[c] = IF c \in alive THEN At(call[t].want, c) ELSE min[c]
  BY DEF Write, Amount, IInv, TypeOK
<1>5. HolderOK' /\ WantOK'
  BY <1>2, <1>3 DEF IInv, HolderOK, WantOK, Covers
<1>6. SlicesStay' /\ GoneIsZero'
  BY <1>3, <1>4 DEF IInv, SlicesStay, GoneIsZero
<1>7. Written(t)'
  BY <1>2, <1>3, <1>4 DEF Written
<1>8. WritingOK'
  BY <1>3, <1>7 DEF WritingOK
<1>9. ResidueIsTracked'
  <2>1. holder \in Threads /\ holder # Nobody
    BY <1>2, ProtectionsAssumption DEF ProtectionsAssumption
  <2>2. \A d \in Cgroups : min[d] > 0 => d \in touched \cup DOMAIN call[t].want
    BY <1>2, <2>1 DEF IInv, ResidueIsTracked
  <2>3. c \in alive /\ At(call[t].want, c) > 0 => c \in DOMAIN call[t].want
    BY DEF At
  <2>4. \A d \in Cgroups : min'[d] > 0 => d \in touched \cup DOMAIN call[t].want
    BY <1>4, <2>2, <2>3
  <2> QED
    BY <1>2, <1>3, <2>1, <2>4 DEF ResidueIsTracked
<1>10. ParentsCover'
  BY <1>2, <1>3, ProtectionsAssumption DEF ProtectionsAssumption, ParentsCover
<1> QED
  BY <1>1, <1>5, <1>6, <1>8, <1>9, <1>10 DEF IInv

\* When the last write is done the tree is what the thread wanted of it.
LEMMA FinishInv == ASSUME IInv, NEW t \in Threads, Finish(t) PROVE IInv'
<1>1. TypeOK'
  BY ApplyTyped DEF IInv
<1> DEFINE want == call[t].want
<1>2. call[t] \in Calls /\ holder = t /\ Written(t) /\ Covers(want) /\ call[t].todo = {}
  BY DEF IInv, TypeOK, HolderOK, WritingOK, WantOK, Finish
<1>3. want \in Partial(Cgroups)
  BY <1>2 DEF Calls
<1>4. /\ call'[t].at \in {"idle", "avoid", "swap"}
      /\ \A u \in Threads \ {t} : call'[u] = call[u] /\ call[u].at # "write"
      /\ holder' = Nobody /\ touched' = DOMAIN want
      /\ UNCHANGED <<alive, min>>
  BY <1>2 DEF Finish, Idle, kernel, IInv, TypeOK, Calls, HolderOK
<1>5. \A c \in Cgroups : min[c] = At(want, c) \/ (c \in Mortal /\ min[c] = 0) \/ c \notin alive
  BY <1>2 DEF Written
<1>6. \A c \in Cgroups : min[c] \in Nat /\ At(want, c) \in Nat
  <2>1. \A c \in Cgroups : min[c] \in Nat
    BY MinNat DEF IInv
  <2>2. \A c \in Cgroups : At(want, c) \in Values \cup {0}
    BY <1>3, AtFacts
  <2>3. Values \cup {0} \subseteq Nat
    BY ProtectionsAssumption DEF ProtectionsAssumption
  <2> QED BY <2>1, <2>2, <2>3
<1>7. HolderOK' /\ WantOK' /\ WritingOK'
  <2>1. \A u \in Threads : call'[u].at # "write" /\ holder' # u
    BY <1>4, ProtectionsAssumption DEF ProtectionsAssumption
  <2>2. WantOK'
    BY <1>4 DEF IInv, WantOK, Covers
  <2> QED
    BY <2>1, <2>2 DEF HolderOK, WritingOK
<1>8. SlicesStay' /\ GoneIsZero'
  BY <1>4 DEF IInv, SlicesStay, GoneIsZero
<1>9. ResidueIsTracked'
  <2>1. \A c \in Cgroups : min[c] > 0 => c \in DOMAIN want
    BY <1>5 DEF At, IInv, GoneIsZero
  <2> QED
    BY <1>4, <2>1 DEF ResidueIsTracked
<1>10. ParentsCover'
  <2> SUFFICES ASSUME NEW c \in alive, NEW d \in Up[c] PROVE min[c] <= min[d]
    BY <1>4 DEF ParentsCover
  <2>1. c \in Cgroups /\ d \in Cgroups
    BY ProtectionsAssumption DEF ProtectionsAssumption, IInv, TypeOK
  <2>2. CASE d = c
    BY <1>6, <2>1, <2>2
  <2>3. CASE d # c
    <3>1. d \notin Mortal
      BY <2>1, <2>3, ProtectionsAssumption DEF ProtectionsAssumption
    <3>2. min[d] = At(want, d)
      BY <1>5, <2>1, <3>1 DEF IInv, SlicesStay
    <3>3. At(want, c) <= At(want, d)
      BY <1>2, <1>6, <2>1 DEF Covers, At
    <3> QED
      BY <1>5, <1>6, <2>1, <3>2, <3>3
  <2> QED BY <2>2, <2>3
<1> QED
  BY <1>1, <1>7, <1>8, <1>9, <1>10 DEF IInv

-----------------------------------------------------------------------------
(* Units that exit and return, and the whole step.                         *)

LEMMA LifeInv == ASSUME IInv, NEW l \in Leaves, Exit(l) \/ Return(l) PROVE IInv'
<1>1. TypeOK'
  BY LifeTyped DEF IInv
<1>2. /\ l \in Mortal /\ l \in Cgroups
      /\ \A c \in Cgroups : l \in Up[c] => c = l
  BY ProtectionsAssumption DEF ProtectionsAssumption, Exit, Return
<1>3. /\ UNCHANGED <<touched, holder, call>>
      /\ alive' \in {alive \ {l}, alive \cup {l}}
      /\ min'[l] = 0 /\ \A c \in Cgroups \ {l} : min'[c] = min[c]
  BY <1>2 DEF Exit, Return, shared, IInv, TypeOK, GoneIsZero
<1>4. HolderOK' /\ WantOK' /\ SlicesStay' /\ GoneIsZero'
  BY <1>2, <1>3 DEF IInv, HolderOK, WantOK, Covers, SlicesStay, GoneIsZero
<1>5. WritingOK'
  BY <1>2, <1>3 DEF IInv, WritingOK, Written
<1>6. ResidueIsTracked'
  BY <1>3 DEF IInv, ResidueIsTracked
<1>7. ParentsCover'
  <2> SUFFICES ASSUME holder' = Nobody, NEW c \in alive', NEW d \in Up[c]
               PROVE  min'[c] <= min'[d]
    BY DEF ParentsCover
  <2>1. c \in Cgroups /\ d \in Cgroups /\ min[c] \in Nat /\ min'[d] \in Nat
    BY <1>1, <1>2, <1>3, MinNat, ProtectionsAssumption
       DEF ProtectionsAssumption, IInv, TypeOK
  <2>2. CASE c = l
    BY <1>3, <2>1, <2>2
  <2>3. CASE c # l
    BY <1>2, <1>3, <2>1, <2>3 DEF IInv, ParentsCover
  <2> QED BY <2>2, <2>3
<1> QED
  BY <1>1, <1>4, <1>5, <1>6, <1>7 DEF IInv

LEMMA NextInv == ASSUME IInv, [Next]_vars PROVE IInv'
<1>1. CASE Keep \/ Serve
  BY <1>1, BeginInv, ProtectionsAssumption DEF ProtectionsAssumption, Keep, SpineCgroups, Serve
<1>2. ASSUME NEW t \in Threads, Finishing(t) PROVE IInv'
  BY <1>2, KnobsInv, SnapshotInv, AcquireInv, WriteInv, FinishInv DEF Finishing
<1>3. CASE \E l \in Leaves : Exit(l) \/ Return(l)
  BY <1>3, LifeInv
<1>4. CASE UNCHANGED vars
  BY <1>4 DEF vars, shared, kernel, IInv, TypeOK, HolderOK, WantOK, Covers, SlicesStay,
              GoneIsZero, WritingOK, Written, ResidueIsTracked, ParentsCover
<1> QED BY <1>1, <1>2, <1>3, <1>4 DEF Next

LEMMA InitInv == ASSUME Init PROVE IInv
<1>1. TypeOK
  BY NothingPartial, IdleTyped, ProtectionsAssumption DEF ProtectionsAssumption, Init, TypeOK
<1>2. \A t \in Threads : call[t].at = "idle"
  BY DEF Init, Idle
<1>3. HolderOK /\ WantOK /\ WritingOK
  BY <1>2, ProtectionsAssumption DEF ProtectionsAssumption, Init, HolderOK, WantOK, WritingOK
<1>4. SlicesStay /\ GoneIsZero /\ ResidueIsTracked
  BY DEF Init, SlicesStay, GoneIsZero, ResidueIsTracked
<1>5. ParentsCover
  BY ProtectionsAssumption DEF ProtectionsAssumption, Init, ParentsCover
<1> QED
  BY <1>1, <1>3, <1>4, <1>5 DEF IInv

\* The inductive invariant holds in every reachable state.
THEOREM Invariance == Spec => []IInv
<1>1. Init => IInv
  BY InitInv
<1>2. IInv /\ [Next]_vars => IInv'
  BY NextInv
<1> QED
  BY <1>1, <1>2, PTL DEF Spec

\* Every variable keeps its type.
THEOREM TypeCorrect == Spec => []TypeOK
<1>1. IInv => TypeOK
  BY DEF IInv
<1> QED
  BY <1>1, Invariance, PTL

\* No memory.min is ever left that a later recomputation would not take back.
THEOREM NoResidueIsLost == Spec => []ResidueIsTracked
<1>1. IInv => ResidueIsTracked
  BY DEF IInv
<1> QED
  BY <1>1, Invariance, PTL

\* Whenever no recomputation is half way, every parent covers its children.
THEOREM ParentsAlwaysCover == Spec => []ParentsCover
<1>1. IInv => ParentsCover
  BY DEF IInv
<1> QED
  BY <1>1, Invariance, PTL

-----------------------------------------------------------------------------
(* Calls that overlap no other.                                            *)

\* Where a call of each kind may be.
OpOK ==
  \A t \in Threads :
    IF call[t].op = "clear" THEN call[t].at \notin {"avoid", "swap"} ELSE call[t].at # "unavoid"

\* A leaf whose last call met no other there: one thread at most is on it, the
\* registry has what that thread sets, and oomd avoids what the registry has.
AvoidOK(l) ==
  /\ \A t, u \in Busy : call[t].leaf = l /\ call[u].leaf = l => t = u
  /\ \A t \in Busy : call[t].leaf = l =>
       IF call[t].op = "set" THEN l \in alive /\ l \in DOMAIN registry
                             ELSE call[t].at = "unavoid" \/ l \notin avoid
  /\ l \in avoid => l \in DOMAIN registry \/ BusyWith(l)

PreferenceInv == OpOK /\ avoid \subseteq alive /\ \A l \in Leaves \ mixed : AvoidOK(l)

\* How far the only call under way has restored the tree.
Restoring(t) ==
  /\ call[t].at \in {"lock", "write"} => Desired(call[t].want, registry)
  /\ call[t].at = "write" => \A c \in alive \ call[t].todo : min[c] = At(call[t].want, c)
  /\ call[t].at \in {"avoid", "swap"} => MatchesRegistry

LoneOK ==
  alone => /\ \A t, u \in Busy : t = u
           /\ \A t \in Busy : Restoring(t)
           /\ AtRest => MatchesRegistry

\* What the history records of a call that begins.
LEMMA BeginRecorded ==
  ASSUME IInv, Record, NEW t \in Threads, NEW l \in Leaves,
         (\E v \in Values : SetBegin(t, l, v)) \/ ClearBegin(t, l)
  PROVE  /\ call[t].at = "idle" /\ call'[t].leaf = l
         /\ call'[t].at = (IF call'[t].op = "set" THEN "snap" ELSE "unavoid")
         /\ call'[t].op = "set" => l \in DOMAIN registry'
         /\ call'[t].op \in {"set", "clear"}
         /\ \A u \in Threads \ {t} : call'[u] = call[u]
         /\ DOMAIN registry \ {l} \subseteq DOMAIN registry'
         /\ UNCHANGED <<alive, avoid>>
         /\ alone' <=> Busy = {}
         /\ \A k \in Leaves : k \in mixed' <=> IF k = l THEN BusyWith(l) ELSE k \in mixed
<1>1. /\ call[t].at = "idle" /\ call'[t].leaf = l
      /\ call'[t].at = (IF call'[t].op = "set" THEN "snap" ELSE "unavoid")
      /\ call'[t].op = "set" => l \in DOMAIN registry'
      /\ call'[t].op \in {"set", "clear"}
      /\ \A u \in Threads \ {t} : call'[u] = call[u]
      /\ DOMAIN registry \ {l} \subseteq DOMAIN registry'
      /\ UNCHANGED <<alive, avoid>>
  <2>1. CASE ClearBegin(t, l)
    BY <2>1 DEF ClearBegin, Without, Idle, kernel, IInv, TypeOK
  <2>2. ASSUME NEW v \in Values, SetBegin(t, l, v)
        PROVE  /\ call[t].at = "idle" /\ call'[t] = [Idle EXCEPT !.at = "snap", !.leaf = l, !.val = v]
               /\ \A u \in Threads \ {t} : call'[u] = call[u]
               /\ DOMAIN registry' = DOMAIN registry \cup {l}
               /\ UNCHANGED <<alive, avoid>>
    BY <2>2 DEF SetBegin, kernel, IInv, TypeOK
  <2> QED BY <2>1, <2>2 DEF Idle
<1>2. \A u \in Threads : Began(u) <=> u = t
  BY <1>1 DEF Began, Busy
<1>3. \A k : BeganWith(k) <=> k = l
  BY <1>1, <1>2 DEF BeganWith
<1> QED BY <1>1, <1>2, <1>3 DEF Record

\* What it records of a call that runs on.
LEMMA RunRecorded ==
  ASSUME IInv, Record, NEW t \in Threads, Finishing(t)
  PROVE  /\ call[t] \in Calls /\ call[t].at # "idle"
         /\ call'[t].at = "idle" \/ (call'[t].leaf = call[t].leaf /\ call'[t].op = call[t].op)
         /\ \A u \in Threads \ {t} : call'[u] = call[u]
         /\ alive' = alive /\ (alone' <=> alone)
         /\ \A k \in Leaves : k \in mixed' <=> k \in mixed
<1>1. call[t] \in Calls
  BY DEF IInv, TypeOK
<1>2. call[t].at # "idle" /\ alive' = alive
  BY DEF Finishing, Unavoid, Snapshot, Acquire, Write, Finish, Avoid, SwapDoor, kernel
<1>3. \A u \in Threads \ {t} : call'[u] = call[u]
  BY DEF Finishing, Unavoid, Snapshot, Acquire, Write, Finish, Avoid, SwapDoor, IInv, TypeOK
<1>4. call'[t].at = "idle" \/ (call'[t].leaf = call[t].leaf /\ call'[t].op = call[t].op)
  <2>1. CASE Unavoid(t) \/ Avoid(t) \/ \E fits \in BOOLEAN : SwapDoor(t, fits)
    BY <1>1, <2>1 DEF Unavoid, Avoid, SwapDoor, Idle, IInv, TypeOK, Calls
  <2>2. ASSUME NEW want, Snapshot(t, want)
        PROVE  call'[t].leaf = call[t].leaf /\ call'[t].op = call[t].op
    <3>1. call'[t] = [call[t] EXCEPT !.at = "lock", !.want = want]
      BY <2>2 DEF Snapshot, IInv, TypeOK
    <3> QED BY <1>1, <3>1 DEF Calls
  <2>3. CASE Acquire(t)
    BY <1>1, <2>3 DEF Acquire, IInv, TypeOK, Calls
  <2>4. ASSUME NEW c \in Cgroups, Write(t, c)
        PROVE  call'[t].leaf = call[t].leaf /\ call'[t].op = call[t].op
    BY <1>1, <2>4 DEF Write, IInv, TypeOK, Calls
  <2>5. CASE Finish(t)
    BY <1>1, <2>5 DEF Finish, Idle, IInv, TypeOK, Calls
  <2> QED BY <2>1, <2>2, <2>3, <2>4, <2>5 DEF Finishing
<1>5. \A u \in Threads : ~Began(u)
  BY <1>2, <1>3 DEF Began, Busy
<1>6. \A k : ~BeganWith(k)
  BY <1>5 DEF BeganWith
<1>7. (alone' <=> alone) /\ \A k \in Leaves : k \in mixed' <=> k \in mixed
  BY <1>2, <1>5, <1>6 DEF Record
<1> QED BY <1>1, <1>2, <1>3, <1>4, <1>7

\* What it records of a unit that exits or returns.
LEMMA LifeRecorded ==
  ASSUME IInv, Record, NEW l \in Leaves, Exit(l) \/ Return(l)
  PROVE  /\ UNCHANGED <<shared, call>> /\ l \in Cgroups
         /\ alone' => alone /\ Exit(l)
         /\ \A k \in Leaves : k \in mixed' <=> IF Exit(l) /\ k = l THEN BusyWith(l) ELSE k \in mixed
<1>1. UNCHANGED <<shared, call>> /\ l \in Cgroups
  BY ProtectionsAssumption DEF ProtectionsAssumption, Exit, Return
<1>2. \A t \in Threads : ~Began(t)
  BY <1>1 DEF Began, Busy
<1>3. IF Exit(l) THEN alive \ alive' = {l} ELSE alive \ alive' = {} /\ ~(alive' \subseteq alive)
  BY DEF Exit, Return
<1> QED BY <1>1, <1>2, <1>3 DEF Record, BeganWith

-----------------------------------------------------------------------------
(* The preference given to systemd-oomd.                                   *)

LEMMA BeginPreference ==
  ASSUME IInv, PreferenceInv, Record, NEW t \in Threads, NEW l \in Leaves,
         (l \in alive /\ \E v \in Values : SetBegin(t, l, v)) \/ ClearBegin(t, l)
  PROVE  PreferenceInv'
<1>1. /\ call[t].at = "idle" /\ call'[t].leaf = l
      /\ call'[t].at = (IF call'[t].op = "set" THEN "snap" ELSE "unavoid")
      /\ call'[t].op = "set" => l \in DOMAIN registry'
      /\ call'[t].op \in {"set", "clear"}
      /\ \A u \in Threads \ {t} : call'[u] = call[u]
      /\ DOMAIN registry \ {l} \subseteq DOMAIN registry'
      /\ UNCHANGED <<alive, avoid>>
      /\ \A k \in Leaves : k \in mixed' <=> IF k = l THEN BusyWith(l) ELSE k \in mixed
  BY BeginRecorded
<1>2. call'[t].op = "set" => l \in alive
  BY DEF ClearBegin, Idle, IInv, TypeOK
<1>3. OpOK' /\ avoid' \subseteq alive'
  BY <1>1 DEF PreferenceInv, OpOK
<1>4. ASSUME l \notin mixed' PROVE AvoidOK(l)'
  <2>1. \A u \in Busy' : call'[u].leaf = l => u = t
    BY <1>1, <1>4 DEF Busy, BusyWith
  <2>2. t \in Busy'
    BY <1>1 DEF Busy
  <2> QED BY <1>1, <1>2, <2>1, <2>2 DEF AvoidOK, BusyWith
<1>5. ASSUME NEW k \in Leaves \ {l}, k \notin mixed' PROVE AvoidOK(k)'
  <2>1. \A u \in Threads : u \in Busy' /\ call'[u].leaf = k <=> u \in Busy /\ call[u].leaf = k
    BY <1>1 DEF Busy
  <2>2. \A u \in Busy : call[u].leaf = k => call'[u] = call[u]
    BY <1>1 DEF Busy
  <2>3. AvoidOK(k)
    BY <1>1, <1>5 DEF PreferenceInv
  <2>4. BusyWith(k) => BusyWith(k)'
    BY <2>1 DEF BusyWith, Busy
  <2>5. Busy' \subseteq Threads
    BY DEF Busy
  <2> QED BY <1>1, <2>1, <2>2, <2>3, <2>4, <2>5 DEF AvoidOK
<1> QED BY <1>3, <1>4, <1>5 DEF PreferenceInv

LEMMA RunPreference ==
  ASSUME IInv, PreferenceInv, Record, NEW t \in Threads, Finishing(t)
  PROVE  PreferenceInv'
<1>1. /\ call[t] \in Calls /\ call[t].at # "idle"
      /\ call'[t].at = "idle" \/ (call'[t].leaf = call[t].leaf /\ call'[t].op = call[t].op)
      /\ \A u \in Threads \ {t} : call'[u] = call[u]
      /\ alive' = alive
      /\ \A k \in Leaves : k \in mixed' <=> k \in mixed
  BY RunRecorded
<1>2. call[t].op \in {"set", "clear"} /\ OpOK
  BY <1>1 DEF Calls, PreferenceInv
<1>3. \A k \in alive \cap Leaves : k \in DOMAIN registry => k \in DOMAIN registry'
  BY DEF Finishing, Unavoid, Snapshot, Without, Acquire, Write, Finish, Avoid, SwapDoor, shared
<1>4. \A k \in avoid' : k \in avoid \/ (k = call[t].leaf /\ call[t].op = "set" /\ k \in alive)
  BY <1>2 DEF Finishing, Unavoid, Snapshot, Acquire, Write, Finish, Avoid, SwapDoor, kernel, OpOK
<1>5. call[t].at = "unavoid" => call[t].leaf \notin avoid'
  BY DEF Finishing, Unavoid, Snapshot, Acquire, Write, Finish, Avoid, SwapDoor
<1>6. IF call'[t].op = "clear" THEN call'[t].at \notin {"avoid", "swap"} ELSE call'[t].at # "unavoid"
  <2>1. CASE Unavoid(t) \/ Avoid(t) \/ \E fits \in BOOLEAN : SwapDoor(t, fits)
    BY <1>1, <1>2, <2>1 DEF Unavoid, Avoid, SwapDoor, Idle, IInv, TypeOK, OpOK, Calls
  <2>2. ASSUME NEW want, Snapshot(t, want) PROVE call'[t].at = "lock"
    <3>1. call'[t] = [call[t] EXCEPT !.at = "lock", !.want = want]
      BY <2>2 DEF Snapshot, IInv, TypeOK
    <3> QED BY <1>1, <3>1 DEF Calls
  <2>3. CASE Acquire(t)
    BY <1>1, <2>3 DEF Acquire, IInv, TypeOK, Calls
  <2>4. ASSUME NEW c \in Cgroups, Write(t, c) PROVE call'[t].at = "write"
    BY <1>1, <2>4 DEF Write, IInv, TypeOK, Calls
  <2>5. CASE Finish(t)
    BY <1>1, <1>2, <2>5 DEF Finish, Idle, IInv, TypeOK, Calls
  <2> QED BY <2>1, <2>2, <2>3, <2>4, <2>5 DEF Finishing
<1>7. OpOK' /\ avoid' \subseteq alive'
  BY <1>1, <1>4, <1>6 DEF PreferenceInv, OpOK
<1>8. ASSUME NEW k \in Leaves, k \notin mixed' PROVE AvoidOK(k)'
  <2>1. AvoidOK(k) /\ t \in Busy /\ avoid \subseteq alive
    BY <1>1, <1>8 DEF PreferenceInv, Busy
  <2>2. \A u \in Busy' : u \in Busy /\ call'[u].leaf = call[u].leaf /\ call'[u].op = call[u].op
    BY <1>1 DEF Busy
  <2>3. \A u \in Busy' : call'[u].leaf = k /\ call'[u].op = "set" => k \in alive' /\ k \in DOMAIN registry'
    BY <1>1, <1>3, <2>1, <2>2 DEF AvoidOK
  <2>4. ASSUME NEW u \in Busy', call'[u].leaf = k, call'[u].op # "set", call'[u].at # "unavoid"
        PROVE  k \notin avoid'
    <3>1. call[u].leaf = k /\ u \in Busy /\ (call[u].at = "unavoid" \/ k \notin avoid)
      BY <2>1, <2>2, <2>4 DEF AvoidOK
    <3>2. CASE u = t
      BY <1>4, <1>5, <2>2, <2>4, <3>1, <3>2
    <3>3. CASE u # t
      <4>1. k \notin avoid /\ call[t].leaf # k
        BY <1>1, <2>1, <2>4, <3>1, <3>3 DEF AvoidOK, Busy
      <4> QED BY <1>4, <4>1
    <3> QED BY <3>2, <3>3
  <2>5. ASSUME k \in avoid', k \notin DOMAIN registry' PROVE BusyWith(k)'
    <3>1. k \in alive /\ k \notin DOMAIN registry
      BY <1>3, <1>4, <2>1, <2>5
    <3>2. k \in avoid
      BY <1>4, <2>1, <2>5, <3>1 DEF AvoidOK
    <3>3. PICK u \in Busy : call[u].leaf = k /\ call[u].at = "unavoid"
      BY <2>1, <3>1, <3>2 DEF AvoidOK, BusyWith
    <3>4. u # t
      BY <1>5, <2>5, <3>3
    <3> QED BY <1>1, <3>3, <3>4 DEF BusyWith, Busy
  <2> QED BY <2>1, <2>2, <2>3, <2>4, <2>5 DEF AvoidOK
<1> QED BY <1>7, <1>8 DEF PreferenceInv

LEMMA LifePreference ==
  ASSUME IInv, PreferenceInv, Record, NEW l \in Leaves, Exit(l) \/ Return(l)
  PROVE  PreferenceInv'
<1>1. /\ UNCHANGED <<registry, call>>
      /\ \A k \in Leaves : k \in mixed' <=> IF Exit(l) /\ k = l THEN BusyWith(l) ELSE k \in mixed
  BY LifeRecorded DEF shared
<1>2. IF Exit(l) THEN alive' = alive \ {l} /\ avoid' = avoid \ {l}
                 ELSE alive' = alive \cup {l} /\ avoid' = avoid
  BY DEF Exit, Return
<1>3. OpOK' /\ avoid' \subseteq alive'
  BY <1>1, <1>2 DEF PreferenceInv, OpOK
<1>4. ASSUME NEW k \in Leaves, k \notin mixed' PROVE AvoidOK(k)'
  <2>1. CASE Exit(l) /\ k = l
    <3>1. \A t \in Busy' : call'[t].leaf # l
      BY <1>1, <1>4, <2>1 DEF BusyWith, Busy
    <3> QED BY <1>2, <2>1, <3>1 DEF AvoidOK
  <2>2. CASE ~(Exit(l) /\ k = l)
    <3>1. AvoidOK(k)
      BY <1>1, <1>4, <2>2 DEF PreferenceInv
    <3>2. Busy' = Busy /\ (BusyWith(k)' <=> BusyWith(k))
      BY <1>1 DEF Busy, BusyWith
    <3> QED BY <1>1, <1>2, <2>2, <3>1, <3>2 DEF AvoidOK
  <2> QED BY <2>1, <2>2
<1> QED BY <1>3, <1>4 DEF PreferenceInv

-----------------------------------------------------------------------------
(* The tree after a call that overlapped none.                             *)

LEMMA BeginLone ==
  ASSUME IInv, LoneOK, Record, NEW t \in Threads, NEW l \in Leaves,
         (\E v \in Values : SetBegin(t, l, v)) \/ ClearBegin(t, l)
  PROVE  LoneOK'
<1>1. /\ call'[t].at \in {"snap", "unavoid"}
      /\ \A u \in Threads \ {t} : call'[u] = call[u]
      /\ alone' <=> Busy = {}
  BY BeginRecorded
<1>2. Busy = {} => Busy' = {t}
  BY <1>1 DEF Busy
<1>3. Restoring(t)' /\ ~AtRest'
  BY <1>1 DEF Restoring, AtRest
<1> QED BY <1>1, <1>2, <1>3 DEF LoneOK

\* A tree that carries what the registry's map wants is what it asks for.
LEMMA WantedMatches ==
  ASSUME IInv, NEW want, Desired(want, registry), \A c \in alive : min[c] = At(want, c)
  PROVE  MatchesRegistry
<1>1. alive \subseteq Cgroups /\ DOMAIN registry \subseteq Cgroups
  BY PartialFacts, ProtectionsAssumption DEF ProtectionsAssumption, IInv, TypeOK
<1> SUFFICES ASSUME NEW c \in alive
             PROVE  /\ \A l \in DOMAIN registry : c \in Up[l] => registry[l] <= min[c]
                    /\ min[c] > 0 => \E l \in DOMAIN registry : c \in Up[l] /\ registry[l] = min[c]
  BY DEF MatchesRegistry
<1>2. CASE c \in DOMAIN want
  BY <1>2 DEF Desired, At
<1>3. CASE c \notin DOMAIN want
  <2>1. min[c] = 0 /\ \A l \in DOMAIN registry : c \notin Up[l]
    BY <1>3 DEF Desired, At
  <2> QED BY <2>1
<1> QED BY <1>2, <1>3

\* One step of the only call takes the tree one step further.
LEMMA RunRestores ==
  ASSUME IInv, NEW t \in Threads, Restoring(t), Finishing(t),
         \A u \in Threads \ {t} : call[u].at = "idle"
  PROVE  IF call'[t].at = "idle" THEN MatchesRegistry' ELSE Restoring(t)'
<1>1. call[t] \in Calls /\ call \in [Threads -> Calls]
  BY DEF IInv, TypeOK
<1>2. CASE Unavoid(t)
  BY <1>1, <1>2 DEF Unavoid, Restoring, Calls
<1>3. ASSUME NEW want, Snapshot(t, want)
      PROVE  call'[t].at = "lock" /\ Restoring(t)'
  <2>1. call'[t] = [call[t] EXCEPT !.at = "lock", !.want = want]
    BY <1>1, <1>3 DEF Snapshot
  <2>2. call'[t].at = "lock" /\ call'[t].want = want
    BY <1>1, <2>1 DEF Calls
  <2>3. Desired(call'[t].want, registry')
    BY <1>3, <2>2 DEF Snapshot
  <2> QED BY <2>2, <2>3 DEF Restoring, Desired
<1>4. CASE Acquire(t)
  <2>1. /\ call'[t].at = "write" /\ call'[t].want = call[t].want
        /\ call'[t].todo = DOMAIN call[t].want \cup touched
        /\ UNCHANGED <<registry, alive, min>>
    BY <1>1, <1>4 DEF Acquire, ToWrite, kernel, Calls
  <2>2. Desired(call[t].want, registry) /\ holder = Nobody
    BY <1>4 DEF Acquire, Restoring
  <2>3. \A c \in alive \ (DOMAIN call[t].want \cup touched) : min[c] = 0
    <3> SUFFICES ASSUME NEW c \in alive \ (DOMAIN call[t].want \cup touched) PROVE min[c] = 0
      OBVIOUS
    <3>1. c \in Cgroups /\ ~(min[c] > 0)
      BY <2>2 DEF IInv, TypeOK, ResidueIsTracked
    <3> QED BY <3>1, MinNat DEF IInv
  <2> QED BY <2>1, <2>2, <2>3 DEF Restoring, Desired, At
<1>5. ASSUME NEW c \in Cgroups, Write(t, c)
      PROVE  call'[t].at = "write" /\ Restoring(t)'
  <2>1. /\ call[t].at = "write" /\ call'[t].at = "write" /\ call'[t].want = call[t].want
        /\ call'[t].todo = call[t].todo \ {c}
        /\ UNCHANGED <<registry, alive>>
    BY <1>1, <1>5 DEF Write, shared, Calls
  <2>2. \A d \in alive : min'[d] = IF d = c THEN At(call[t].want, d) ELSE min[d]
    BY <1>5 DEF Write, Amount, IInv, TypeOK
  <2> QED BY <2>1, <2>2 DEF Restoring, Desired
<1>6. CASE Finish(t)
  <2>1. MatchesRegistry
    BY <1>6, WantedMatches DEF Finish, Restoring
  <2>2. call'[t].at \in {"idle", "avoid", "swap"} /\ UNCHANGED <<registry, alive, min>>
    BY <1>1, <1>6 DEF Finish, Idle, kernel, Calls
  <2> QED BY <2>1, <2>2 DEF Restoring, MatchesRegistry
<1>7. CASE Avoid(t) \/ \E fits \in BOOLEAN : SwapDoor(t, fits)
  <2>1. MatchesRegistry
    BY <1>7 DEF Avoid, SwapDoor, Restoring
  <2>2. call'[t].at \in {"idle", "swap"} /\ UNCHANGED <<registry, alive, min>>
    BY <1>1, <1>7 DEF Avoid, SwapDoor, Idle, shared, Calls
  <2> QED BY <2>1, <2>2 DEF Restoring, MatchesRegistry
<1> QED BY <1>2, <1>3, <1>4, <1>5, <1>6, <1>7 DEF Finishing

LEMMA RunLone ==
  ASSUME IInv, LoneOK, Record, NEW t \in Threads, Finishing(t)
  PROVE  LoneOK'
<1>1. /\ call[t].at # "idle" /\ (alone' <=> alone)
      /\ \A u \in Threads \ {t} : call'[u] = call[u]
  BY RunRecorded
<1> SUFFICES ASSUME alone PROVE LoneOK'
  BY <1>1 DEF LoneOK
<1>2. Restoring(t) /\ \A u \in Threads \ {t} : call[u].at = "idle"
  BY <1>1 DEF LoneOK, Busy
<1>3. IF call'[t].at = "idle" THEN MatchesRegistry' ELSE Restoring(t)'
  BY <1>2, RunRestores
<1>4. \A u \in Busy' : u = t /\ call'[t].at # "idle"
  BY <1>1, <1>2 DEF Busy
<1>5. AtRest' => call'[t].at = "idle"
  BY DEF AtRest
<1> QED BY <1>3, <1>4, <1>5 DEF LoneOK

LEMMA LifeLone ==
  ASSUME IInv, LoneOK, Record, NEW l \in Leaves, Exit(l) \/ Return(l)
  PROVE  LoneOK'
<1>1. UNCHANGED <<registry, call>> /\ (alone' => alone /\ Exit(l))
  BY LifeRecorded DEF shared
<1> SUFFICES ASSUME alone, Exit(l) PROVE LoneOK'
  BY <1>1 DEF LoneOK
<1>2. alive' = alive \ {l} /\ \A c \in alive' : c # l /\ min'[c] = min[c]
  BY DEF Exit, IInv, TypeOK
<1>3. MatchesRegistry => MatchesRegistry'
  BY <1>1, <1>2 DEF MatchesRegistry
<1>4. \A t : Restoring(t) => Restoring(t)'
  BY <1>1, <1>2, <1>3 DEF Restoring, Desired
<1>5. Busy' = Busy /\ (AtRest' <=> AtRest)
  BY <1>1 DEF Busy, AtRest
<1> QED BY <1>3, <1>4, <1>5 DEF LoneOK

-----------------------------------------------------------------------------
(* The specification with its history.                                     *)

HInv == IInv /\ PreferenceInv /\ LoneOK

LEMMA HistoryNextInv == ASSUME HInv, [Next /\ Record]_<<vars, history>> PROVE HInv'
<1>1. IInv'
  BY NextInv DEF HInv
<1>2. CASE Record /\ (Keep \/ Serve)
  <2>1. PICK t \in Threads, l \in Leaves :
          (l \in alive /\ \E v \in Values : SetBegin(t, l, v)) \/ ClearBegin(t, l)
    BY <1>2, ProtectionsAssumption DEF ProtectionsAssumption, Keep, SpineCgroups, Serve
  <2> QED BY <1>1, <1>2, <2>1, BeginPreference, BeginLone DEF HInv
<1>3. CASE Record /\ \E t \in Threads : Finishing(t)
  BY <1>1, <1>3, RunPreference, RunLone DEF HInv
<1>4. CASE Record /\ \E l \in Leaves : Exit(l) \/ Return(l)
  BY <1>1, <1>4, LifePreference, LifeLone DEF HInv
<1>5. CASE UNCHANGED <<vars, history>>
  <2>1. UNCHANGED <<alive, registry, call, min, avoid, alone, mixed>>
    BY <1>5 DEF vars, shared, kernel, history
  <2>2. PreferenceInv'
    BY <2>1 DEF HInv, PreferenceInv, OpOK, AvoidOK, BusyWith, Busy
  <2>3. LoneOK'
    BY <2>1 DEF HInv, LoneOK, Restoring, Desired, MatchesRegistry, Busy, AtRest
  <2> QED BY <1>1, <2>2, <2>3 DEF HInv
<1> QED BY <1>2, <1>3, <1>4, <1>5 DEF Next

THEOREM HistoryInvariance == HistorySpec => []HInv
<1>1. HistoryInit => HInv
  <2> SUFFICES ASSUME HistoryInit PROVE HInv
    OBVIOUS
  <2>1. IInv
    BY InitInv DEF HistoryInit
  <2>2. \A t \in Threads : call[t].at = "idle" /\ call[t].op = "set"
    BY DEF HistoryInit, Init, Idle
  <2>3. PreferenceInv
    BY <2>2 DEF HistoryInit, Init, PreferenceInv, OpOK, AvoidOK, BusyWith, Busy
  <2>4. MatchesRegistry
    BY DEF HistoryInit, Init, MatchesRegistry, Nothing, IInv, TypeOK
  <2>5. LoneOK
    BY <2>2, <2>4 DEF LoneOK, Busy
  <2> QED BY <2>1, <2>3, <2>5 DEF HInv
<1> QED BY <1>1, HistoryNextInv, PTL DEF HistorySpec

\* apply() recomputes the whole tree: after a call that overlapped no other the
\* tree is what the registry asks for, whatever overlapping calls wrote before.
THEOREM LoneCallsRestore == HistorySpec => []LoneCallRestores
<1>1. HInv => LoneCallRestores
  BY DEF HInv, LoneOK, LoneCallRestores
<1> QED BY <1>1, HistoryInvariance, PTL

\* The preference given to systemd-oomd goes with the protection, on every leaf
\* whose last call overlapped no other there, nor the leaf's exit.
THEOREM PreferenceFollowsRegistry == HistorySpec => []AvoidMatchesRegistry
<1>1. HInv => AvoidMatchesRegistry
  BY DEF HInv, IInv, TypeOK, PreferenceInv, AvoidOK, BusyWith, Busy, AtRest, AvoidMatchesRegistry
<1> QED BY <1>1, HistoryInvariance, PTL
=============================================================================
