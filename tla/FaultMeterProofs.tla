-------------------------- MODULE FaultMeterProofs --------------------------
(***************************************************************************)
(* Proofs about FaultMeter, for every spine, window and refresh period.    *)
(*                                                                         *)
(* That harm is never invented rests on one relation between what the      *)
(* meter remembers and what the kernel counts (Remembered): a counter has   *)
(* not grown by more than its path has taken since the meter looked.  That *)
(* it is not missed either needs the same as an equality, which a change of *)
(* the tree breaks and a refresh and a tick restore (Restored): more ticks *)
(* have begun since the change than since the last refresh.                *)
(***************************************************************************)
EXTENDS FaultMeter, Counting, WellFoundedInduction, TLAPS

USE DEF SpineCgroups

Remembered ==
  /\ walk \subseteq spine
  /\ ~measuring => walk = {}
  /\ DOMAIN prev \subseteq spine
  /\ \A p \in Paths \ alive : count[p] = 0
  /\ \A p \in DOMAIN prev : count[p] <= prev[p] + since[p]
  /\ sum.total <= truth

Following(p) == p \in DOMAIN prev /\ count[p] = prev[p] + since[p]

Restored ==
  /\ steady > ticks =>
       /\ spine = alive
       /\ \A p \in Paths \ alive : since[p] = 0
       /\ \A p \in alive \ walk : Following(p)
  /\ steady = Settled =>
       /\ \A p \in alive : Following(p)
       /\ sum.total = truth
       /\ unmetered = {}

IInv == TypeOK /\ Remembered /\ Restored

-----------------------------------------------------------------------------
LEMMA SampleTyped ==
  ASSUME TypeOK, NEW c \in Classes \cup {NoClass}, EndTick(c)
  PROVE  ring' \in Seq(Sample) /\ Len(ring') <= Cap
<1> DEFINE s == [faults |-> sum.total, worst |-> c,
                 took |-> IF c = NoClass THEN 0 ELSE sum.of[c], observed |-> sum.observed]
<1>1. s \in Sample
  BY DEF TypeOK, Sample
<1>2. ring' = Pushed(s)
  BY DEF EndTick
<1>3. Cap \in Nat \ {0} /\ ring \in Seq(Sample) /\ Len(ring) <= Cap /\ Len(ring) \in Nat
  BY FaultMeterAssumption DEF FaultMeterAssumption, TypeOK
<1> HIDE DEF s
<1>4. CASE Len(ring) >= Cap
  <2>1. ring # <<>>
    BY <1>3, <1>4
  <2>2. Tail(ring) \in Seq(Sample) /\ Len(Tail(ring)) = Len(ring) - 1
    BY <1>3, <2>1
  <2> QED BY <1>1, <1>2, <1>3, <1>4, <2>2 DEF Pushed
<1>5. CASE ~(Len(ring) >= Cap)
  BY <1>1, <1>2, <1>3, <1>5 DEF Pushed
<1> QED BY <1>4, <1>5

\* A bounded sequence of numbers has a bound, by the least prefix that has none.
LEMMA BoundOf ==
  ASSUME NEW n \in Nat, NEW f \in [1..n -> Nat]
  PROVE  \E b \in Nat : \A i \in 1..n : f[i] <= b
<1> DEFINE Unbounded == {m \in Nat : m <= n /\ ~ \E b \in Nat : \A i \in 1..m : f[i] <= b}
<1>1. SUFFICES ASSUME n \in Unbounded PROVE FALSE
  <2>1. n <= n
    OBVIOUS
  <2> QED BY <2>1
<1>2. PICK m \in Unbounded : \A k \in Unbounded : ~(<<k, m>> \in OpToRel(<, Nat))
  BY <1>1, NatLessThanWellFounded, WFMin, Unbounded \subseteq Nat
<1>3. m # 0
  <2>1. m = 0 => \A i \in 1..m : f[i] <= 0
    OBVIOUS
  <2> QED BY <2>1
<1>4. m - 1 \in Nat /\ m - 1 < m
  BY <1>3
<1>5. m - 1 \notin Unbounded
  BY <1>2, <1>4 DEF OpToRel
<1>6. PICK b \in Nat : \A i \in 1..(m - 1) : f[i] <= b
  BY <1>4, <1>5
<1>7. m \in 1..n /\ f[m] \in Nat
  BY <1>3
<1> DEFINE b2 == IF f[m] <= b THEN b ELSE f[m]
<1>8. b2 \in Nat /\ \A i \in 1..m : f[i] <= b2
  BY <1>6, <1>7
<1> QED BY <1>8

\* Of the bounds of a set that has a member and a bound, the least is in it.
LEMMA GreatestOf ==
  ASSUME NEW S, S \subseteq Nat, S # {}, NEW b \in Nat, \A g \in S : g <= b
  PROVE  \E f \in S : \A g \in S : g <= f
<1> DEFINE Bounds == {u \in Nat : \A g \in S : g <= u}
<1>1. PICK u \in Bounds : \A k \in Bounds : ~(<<k, u>> \in OpToRel(<, Nat))
  BY NatLessThanWellFounded, WFMin, Bounds \subseteq Nat, b \in Bounds
<1>2. SUFFICES ASSUME u \notin S PROVE FALSE
  BY <1>1
<1>3. u \in Nat /\ \A g \in S : g \in Nat /\ g <= u /\ g # u
  BY <1>2
<1> HIDE DEF Bounds
<1>4. u - 1 \in Nat /\ u - 1 < u /\ \A g \in S : g <= u - 1
  <2>1. PICK g \in S : TRUE
    OBVIOUS
  <2>2. g \in Nat /\ g <= u /\ g # u
    BY <1>3
  <2>3. u - 1 \in Nat /\ u - 1 < u
    BY <1>3, <2>2
  <2>4. ASSUME NEW h \in S PROVE h <= u - 1
    <3>1. h \in Nat /\ h <= u /\ h # u
      BY <1>3
    <3> QED BY <1>3, <3>1
  <2> QED BY <2>3, <2>4
<1>5. u - 1 \in Bounds
  BY <1>4 DEF Bounds
<1> QED BY <1>1, <1>3, <1>4, <1>5 DEF OpToRel

LEMMA SamplesOf ==
  ASSUME ring \in Seq(Sample)
  PROVE  /\ Len(ring) \in Nat /\ DOMAIN ring = 1..Len(ring)
         /\ \A i \in DOMAIN ring : ring[i].faults \in Nat
         /\ Seen \subseteq Nat
<1>1. \A i \in DOMAIN ring : ring[i] \in Sample
  OBVIOUS
<1> QED BY <1>1 DEF Sample, Seen

\* peak() is the largest of what the window has seen.
LEMMA PeakIsGreatest ==
  ASSUME ring \in Seq(Sample), Seen # {}
  PROVE  Peak \in Seen /\ \A g \in Seen : g <= Peak
<1> DEFINE f == [i \in 1..Len(ring) |-> ring[i].faults]
<1>1. f \in [1..Len(ring) -> Nat] /\ Len(ring) \in Nat
  BY SamplesOf
<1>2. \A g \in Seen : \E i \in 1..Len(ring) : g = f[i]
  BY SamplesOf DEF Seen
<1> HIDE DEF f
<1>3. PICK b \in Nat : \A i \in 1..Len(ring) : f[i] <= b
  BY <1>1, BoundOf
<1>4. Seen \subseteq Nat /\ \A g \in Seen : g <= b
  BY <1>2, <1>3, SamplesOf
<1>5. \E g \in Seen : \A h \in Seen : h <= g
  BY <1>4, GreatestOf
<1> QED BY <1>5 DEF Peak

LEMMA PeakTyped ==
  ASSUME ring \in Seq(Sample)
  PROVE  Latest \in Nat \cup {Unknown} /\ Peak \in Nat \cup {Unknown}
<1>1. Latest \in Nat \cup {Unknown}
  <2>1. ring # <<>> => Len(ring) \in DOMAIN ring
    BY SamplesOf
  <2> QED BY <2>1, SamplesOf DEF Latest
<1>2. Peak \in Nat \cup {Unknown}
  BY SamplesOf, PeakIsGreatest DEF Peak
<1> QED BY <1>1, <1>2

-----------------------------------------------------------------------------
(* Type correctness, one step per action.                                  *)

LEMMA Constants ==
  /\ Cap \in Nat \ {0} /\ RefreshEvery \in Nat \ {0} /\ MaxCount \in Nat
  /\ Settled \in Nat /\ Settled = RefreshEvery + 1
  /\ \A p \in Paths : Class[p] \in Classes
BY FaultMeterAssumption DEF FaultMeterAssumption, Settled

LEMMA NextTickTyped ==
  ASSUME ticks \in 0 .. RefreshEvery - 1
  PROVE  /\ NextTick \in 0 .. RefreshEvery - 1
         /\ NextTick = 0 \/ NextTick = ticks + 1
<1>1. RefreshEvery \in Nat /\ RefreshEvery > 0 /\ ticks \in Nat
  BY Constants
<1>2. CASE ticks + 1 < RefreshEvery
  BY <1>1, <1>2 DEF NextTick
<1>3. CASE ticks + 1 = RefreshEvery
  BY <1>1, <1>3 DEF NextTick
<1> QED BY <1>1, <1>2, <1>3

LEMMA InitTyped == Init => TypeOK
<1> SUFFICES ASSUME Init PROVE TypeOK
  OBVIOUS
<1>1. sum \in [total : Nat, of : [Classes -> Nat], observed : Nat]
  BY DEF Init, Nothing
<1>2. ring \in Seq(Sample) /\ Len(ring) <= Cap
  BY Constants DEF Init
<1>3. reply \in [Readers -> [at : {"idle", "half", "done"}, now : Nat \cup {Unknown},
                             peak : Nat \cup {Unknown}, lag : 0 .. Cap]]
  BY Constants DEF Init, NoReply
<1>4. ticks \in 0 .. RefreshEvery - 1 /\ steady \in 0 .. Settled
  BY Constants DEF Init
<1>5. DOMAIN prev \subseteq Paths /\ prev \in [DOMAIN prev -> Nat]
  BY DEF Init
<1> QED BY <1>1, <1>2, <1>3, <1>4, <1>5 DEF Init, TypeOK

LEMMA NextTyped == TypeOK /\ [Next]_vars => TypeOK'
<1> SUFFICES ASSUME TypeOK, [Next]_vars PROVE TypeOK'
  OBVIOUS
<1> USE Constants
<1>1. ASSUME NEW p \in Paths, Fault(p) PROVE TypeOK'
  <2>1. count \in [Paths -> Nat] /\ since \in [Paths -> Nat]
    BY DEF TypeOK
  <2>2. count' \in [Paths -> Nat] /\ since' \in [Paths -> Nat]
    BY <1>1, <2>1 DEF Fault
  <2> QED BY <1>1, <2>2 DEF Fault, TypeOK
<1>2. ASSUME NEW p \in Paths, ComeOrGo(p) PROVE TypeOK'
  <2>1. alive' \subseteq Paths /\ count' \in [Paths -> Nat] /\ steady' \in 0 .. Settled
    BY <1>2 DEF ComeOrGo, TypeOK
  <2> QED BY <1>2, <2>1 DEF ComeOrGo, TypeOK
<1>3. ASSUME NEW p \in Paths, ReadCounter(p) PROVE TypeOK'
  <2>1. Delta(p) \in Nat
    BY DEF TypeOK, Delta
  <2>2. walk' \subseteq Paths /\ truth' \in Nat /\ since' \in [Paths -> Nat]
    <3>1. since[p] \in Nat /\ truth \in Nat /\ since \in [Paths -> Nat]
      BY DEF TypeOK
    <3>2. truth + since[p] \in Nat
      BY <3>1
    <3> QED BY <1>3, <3>1, <3>2 DEF ReadCounter, TypeOK
  <2>3. DOMAIN prev' \subseteq Paths /\ prev' \in [DOMAIN prev' -> Nat]
    <3>1. DOMAIN prev \subseteq Paths /\ prev \in [DOMAIN prev -> Nat] /\ count[p] \in Nat
      BY DEF TypeOK
    <3>2. CASE p \in alive
      <4>1. prev' = [q \in DOMAIN prev \cup {p} |-> IF q = p THEN count[p] ELSE prev[q]]
        BY <1>3, <3>2 DEF ReadCounter
      <4> QED BY <3>1, <4>1
    <3>3. CASE p \notin alive
      BY <1>3, <3>1, <3>3 DEF ReadCounter
    <3> QED BY <3>2, <3>3
  <2>4. sum' \in [total : Nat, of : [Classes -> Nat], observed : Nat]
    <3>1. CASE p \in alive
      <4>1. sum.of \in [Classes -> Nat] /\ sum.total \in Nat /\ sum.observed \in Nat
        BY DEF TypeOK
      <4>2. sum.total + Delta(p) \in Nat /\ sum.observed + 1 \in Nat
        BY <2>1, <4>1
      <4>3. sum.of[Class[p]] + Delta(p) \in Nat
        BY <2>1, <4>1
      <4>4. [sum.of EXCEPT ![Class[p]] = @ + Delta(p)] \in [Classes -> Nat]
        BY <4>1, <4>3
      <4> QED BY <1>3, <3>1, <4>2, <4>4 DEF ReadCounter
    <3>2. CASE p \notin alive
      BY <1>3, <3>2 DEF ReadCounter, TypeOK
    <3> QED BY <3>1, <3>2
  <2> QED BY <1>3, <2>2, <2>3, <2>4 DEF ReadCounter, TypeOK
<1>4. ASSUME BeginTick PROVE TypeOK'
  <2>1. ticks' \in 0 .. RefreshEvery - 1
    BY <1>4, NextTickTyped DEF BeginTick, TypeOK
  <2>2. spine' \subseteq Paths /\ walk' \subseteq Paths /\ unmetered' \subseteq Paths
    BY <1>4 DEF BeginTick, TypeOK
  <2>3. DOMAIN prev' \subseteq Paths /\ prev' \in [DOMAIN prev' -> Nat]
    BY <1>4 DEF BeginTick, TypeOK, Kept
  <2>4. sum' \in [total : Nat, of : [Classes -> Nat], observed : Nat]
    BY <1>4 DEF BeginTick, Nothing
  <2>5. since' \in [Paths -> Nat] /\ truth' \in Nat /\ steady' \in 0 .. Settled
    BY <1>4 DEF BeginTick, TypeOK
  <2> QED BY <1>4, <2>1, <2>2, <2>3, <2>4, <2>5 DEF BeginTick, TypeOK
<1>5. ASSUME NEW c \in Classes \cup {NoClass}, EndTick(c) PROVE TypeOK'
  <2>1. ring' \in Seq(Sample) /\ Len(ring') <= Cap
    BY <1>5, SampleTyped
  <2>2. \A r \in Readers : Outpaced(reply[r]) \in
          [at : {"idle", "half", "done"}, now : Nat \cup {Unknown},
           peak : Nat \cup {Unknown}, lag : 0 .. Cap]
    <3> TAKE r \in Readers
    <3>1. reply[r] \in [at : {"idle", "half", "done"}, now : Nat \cup {Unknown},
                        peak : Nat \cup {Unknown}, lag : 0 .. Cap]
      BY DEF TypeOK
    <3>2. reply[r].lag < Cap => reply[r].lag + 1 \in 0 .. Cap
      BY <3>1
    <3> QED BY <3>1, <3>2 DEF Outpaced
  <2> QED BY <1>5, <2>1, <2>2 DEF EndTick, TypeOK
<1>6. ASSUME Restart PROVE TypeOK'
  <2>1. sum' \in [total : Nat, of : [Classes -> Nat], observed : Nat]
    BY <1>6 DEF Restart, Nothing
  <2>2. ring' \in Seq(Sample) /\ Len(ring') <= Cap
    BY <1>6 DEF Restart
  <2>3. reply' \in [Readers -> [at : {"idle", "half", "done"}, now : Nat \cup {Unknown},
                                peak : Nat \cup {Unknown}, lag : 0 .. Cap]]
    BY <1>6 DEF Restart, NoReply
  <2>4. DOMAIN prev' \subseteq Paths /\ prev' \in [DOMAIN prev' -> Nat]
    BY <1>6 DEF Restart
  <2>5. ticks' \in 0 .. RefreshEvery - 1 /\ steady' \in 0 .. Settled
    BY <1>6 DEF Restart
  <2>6. since' \in [Paths -> Nat] /\ truth' \in Nat
    BY <1>6 DEF Restart
  <2> QED BY <1>6, <2>1, <2>2, <2>3, <2>4, <2>5, <2>6 DEF Restart, TypeOK
<1>7. ASSUME NEW r \in Readers, List(r) PROVE TypeOK'
  <2>1. Latest \in Nat \cup {Unknown} /\ Peak \in Nat \cup {Unknown}
    BY PeakTyped DEF TypeOK
  <2>2. reply' \in [Readers -> [at : {"idle", "half", "done"}, now : Nat \cup {Unknown},
                                peak : Nat \cup {Unknown}, lag : 0 .. Cap]]
    <3> DEFINE Answer == [at : {"idle", "half", "done"}, now : Nat \cup {Unknown},
                          peak : Nat \cup {Unknown}, lag : 0 .. Cap]
    <3>1. reply \in [Readers -> Answer] /\ reply[r] \in Answer
      BY DEF TypeOK
    <3>2. [at |-> "half", now |-> Latest, peak |-> Unknown, lag |-> 0] \in Answer
      BY <2>1
    <3>3. [reply[r] EXCEPT !.at = "done", !.peak = Peak] \in Answer
      BY <2>1, <3>1
    <3> HIDE DEF Answer
    <3>4. reply' \in [Readers -> Answer]
      BY <1>7, <3>1, <3>2, <3>3 DEF List, Reply
    <3> QED BY <3>4 DEF Answer
  <2> QED BY <1>7, <2>2 DEF List, TypeOK
<1>8. ASSUME UNCHANGED vars PROVE TypeOK'
  BY <1>8 DEF vars, code, TypeOK
<1> QED BY <1>1, <1>2, <1>3, <1>4, <1>5, <1>6, <1>7, <1>8 DEF Next
-----------------------------------------------------------------------------
(* What the meter remembers, and what a refresh and a tick restore.        *)

LEMMA InitInvariant == Init => IInv
<1> SUFFICES ASSUME Init PROVE IInv
  OBVIOUS
<1>1. TypeOK
  BY InitTyped
<1>2. Remembered
  BY DEF Init, Nothing, Remembered
<1>3. ~(steady > ticks) /\ steady # Settled
  BY Constants DEF Init
<1> QED BY <1>1, <1>2, <1>3 DEF IInv, Restored

LEMMA FaultKeeps ==
  ASSUME IInv, NEW p \in Paths, Fault(p)
  PROVE  Remembered' /\ Restored'
<1>1. count \in [Paths -> Nat] /\ since \in [Paths -> Nat] /\ prev \in [DOMAIN prev -> Nat]
  BY DEF IInv, TypeOK
<1>2. /\ p \in alive /\ alive' = alive /\ prev' = prev /\ spine' = spine /\ walk' = walk
      /\ measuring' = measuring /\ sum' = sum /\ truth' = truth
      /\ count' = [count EXCEPT ![p] = @ + 1] /\ since' = [since EXCEPT ![p] = @ + 1]
      /\ steady' = steady /\ ticks' = ticks /\ unmetered' = unmetered
  BY DEF Fault
<1>3. DOMAIN prev \subseteq Paths /\ alive \subseteq Paths
  BY DEF IInv, TypeOK
<1>4. \A q \in Paths : q # p => count'[q] = count[q] /\ since'[q] = since[q]
  BY <1>1, <1>2
<1>5. count'[p] = count[p] + 1 /\ since'[p] = since[p] + 1
  BY <1>1, <1>2
<1>6. \A q \in DOMAIN prev : count'[q] <= prev[q] + since'[q]
  <2> TAKE q \in DOMAIN prev
  <2>1. count[q] <= prev[q] + since[q] /\ count[q] \in Nat /\ since[q] \in Nat /\ prev[q] \in Nat
    BY <1>1, <1>3 DEF IInv, Remembered
  <2> QED BY <1>3, <1>4, <1>5, <2>1
<1>7. Remembered'
  BY <1>2, <1>3, <1>4, <1>6 DEF IInv, Remembered
<1>8. ASSUME NEW q \in alive, Following(q) PROVE Following(q)'
  <2>1. count[q] \in Nat /\ since[q] \in Nat /\ prev[q] \in Nat /\ q \in Paths
    BY <1>1, <1>3, <1>8 DEF Following
  <2> QED BY <1>2, <1>4, <1>5, <1>8, <2>1 DEF Following
<1> QED BY <1>2, <1>3, <1>4, <1>7, <1>8 DEF IInv, Restored

LEMMA ComeOrGoKeeps ==
  ASSUME IInv, NEW p \in Paths, ComeOrGo(p)
  PROVE  Remembered' /\ Restored'
<1>1. count \in [Paths -> Nat] /\ since \in [Paths -> Nat] /\ prev \in [DOMAIN prev -> Nat]
  BY DEF IInv, TypeOK
<1>2. count'[p] = 0 /\ \A q \in Paths : q # p => count'[q] = count[q]
  BY <1>1 DEF ComeOrGo
<1>3. \A q \in Paths \ alive' : count'[q] = 0
  BY <1>2 DEF ComeOrGo, IInv, Remembered
<1>4. \A q \in DOMAIN prev : count'[q] <= prev[q] + since[q]
  <2> TAKE q \in DOMAIN prev
  <2>1. /\ q \in Paths /\ count[q] <= prev[q] + since[q]
        /\ since[q] \in Nat /\ prev[q] \in Nat
    BY <1>1 DEF IInv, TypeOK, Remembered
  <2> QED BY <1>2, <2>1
<1>5. Remembered'
  BY <1>3, <1>4 DEF ComeOrGo, IInv, Remembered
<1>6. ~(steady' > ticks') /\ steady' # Settled
  BY Constants DEF ComeOrGo, IInv, TypeOK
<1> QED BY <1>5, <1>6 DEF Restored

LEMMA BeginTickKeeps ==
  ASSUME IInv, BeginTick
  PROVE  Remembered' /\ Restored'
<1>1. /\ ticks \in 0 .. RefreshEvery - 1 /\ steady \in 0 .. Settled
      /\ since \in [Paths -> Nat] /\ spine \subseteq Paths /\ alive \subseteq Paths
      /\ prev \in [DOMAIN prev -> Nat] /\ count \in [Paths -> Nat]
  BY DEF IInv, TypeOK
<1>2. /\ ~measuring /\ walk = {} /\ alive' = alive /\ count' = count
      /\ walk' = spine' /\ measuring' = TRUE /\ sum'.total = 0 /\ truth' = 0
  BY DEF BeginTick, IInv, Remembered, Nothing
<1>3. /\ NextTick \in 0 .. RefreshEvery - 1 /\ (NextTick = 0 \/ NextTick = ticks + 1)
      /\ ticks' = NextTick
  BY <1>1, NextTickTyped DEF BeginTick
<1>4. \A p \in Paths : since'[p] = IF p \in spine' THEN since[p] ELSE 0
  BY DEF BeginTick
<1>5. CASE NextTick = 0
  <2>1. spine' = alive /\ prev' = [p \in DOMAIN prev \cap alive |-> prev[p]]
    BY <1>5 DEF BeginTick, RefreshDue, Kept
  <2>2. DOMAIN prev' = DOMAIN prev \cap alive /\ \A p \in DOMAIN prev' : prev'[p] = prev[p]
    BY <2>1
  <2>3. Remembered'
    BY <1>1, <1>2, <1>4, <2>1, <2>2 DEF IInv, Remembered
  <2>4. \A p \in Paths \ alive : since'[p] = 0
    BY <1>4, <2>1
  <2>5. ASSUME steady' = Settled
        PROVE  (\A p \in alive : Following(p)') /\ unmetered' = {}
    <3>1. steady >= RefreshEvery
      BY <1>1, <2>5, Constants DEF BeginTick
    <3>2. steady > ticks
      BY <1>1, <3>1, Constants
    <3>3. \A p \in alive : Following(p)
      BY <1>2, <3>2 DEF IInv, Restored
    <3>4. \A p \in Paths \ alive : since[p] = 0
      BY <3>2 DEF IInv, Restored
    <3>5. ASSUME NEW p \in alive PROVE Following(p)'
      BY <1>1, <1>2, <1>4, <2>1, <2>2, <3>3 DEF Following
    <3>6. unmetered' = {}
      BY <2>1, <3>4 DEF BeginTick
    <3> QED BY <3>5, <3>6
  <2> QED BY <1>2, <2>1, <2>3, <2>4, <2>5 DEF Restored
<1>6. CASE NextTick # 0
  <2>1. spine' = spine /\ prev' = prev /\ ticks' = ticks + 1
    BY <1>3, <1>6 DEF BeginTick, RefreshDue
  <2>2. Remembered'
    BY <1>1, <1>2, <1>4, <2>1 DEF IInv, Remembered
  <2>3. ASSUME steady' > ticks'
        PROVE  /\ spine' = alive
               /\ \A p \in Paths \ alive : since'[p] = 0
               /\ \A p \in alive : Following(p)'
               /\ unmetered' = {}
    <3>1. steady > ticks
      <4>1. CASE steady = Settled
        BY <1>1, <4>1, Constants
      <4>2. CASE steady # Settled
        BY <1>1, <2>1, <2>3, <4>2, Constants DEF BeginTick
      <4> QED BY <4>1, <4>2
    <3>2. /\ spine = alive /\ \A p \in Paths \ alive : since[p] = 0
          /\ \A p \in alive : Following(p)
      BY <1>2, <3>1 DEF IInv, Restored
    <3>3. ASSUME NEW p \in alive PROVE Following(p)'
      BY <1>1, <1>2, <1>4, <2>1, <3>2 DEF Following
    <3>4. unmetered' = {}
      BY <2>1, <3>2 DEF BeginTick
    <3> QED BY <1>4, <2>1, <3>2, <3>3, <3>4
  <2>4. steady' = Settled => steady' > ticks'
    BY <1>1, <1>3, <2>1, Constants
  <2>5. ASSUME steady' > ticks'
        PROVE  /\ spine' = alive' /\ \A p \in Paths \ alive' : since'[p] = 0
               /\ \A p \in alive' \ walk' : Following(p)'
    BY <1>2, <2>3, <2>5
  <2>6. ASSUME steady' = Settled
        PROVE  (\A p \in alive' : Following(p)') /\ sum'.total = truth' /\ unmetered' = {}
    BY <1>2, <2>3, <2>4, <2>6
  <2>7. Restored'
    BY <2>5, <2>6 DEF Restored
  <2> QED BY <2>2, <2>7
<1> QED BY <1>5, <1>6

LEMMA ReadCounterKeeps ==
  ASSUME IInv, NEW p \in Paths, ReadCounter(p)
  PROVE  Remembered' /\ Restored'
<1>1. /\ since \in [Paths -> Nat] /\ count \in [Paths -> Nat]
      /\ prev \in [DOMAIN prev -> Nat] /\ DOMAIN prev \subseteq Paths
      /\ sum.total \in Nat /\ truth \in Nat /\ alive \subseteq Paths
  BY DEF IInv, TypeOK
<1>2. /\ p \in walk /\ p \in spine /\ walk' = walk \ {p}
      /\ alive' = alive /\ count' = count /\ spine' = spine /\ measuring' = measuring
      /\ ticks' = ticks /\ steady' = steady /\ unmetered' = unmetered
      /\ truth' = truth + since[p]
  BY DEF ReadCounter, IInv, Remembered
<1>3. since'[p] = 0 /\ \A q \in Paths : q # p => since'[q] = since[q]
  BY <1>1 DEF ReadCounter
<1>4. /\ DOMAIN prev' \subseteq DOMAIN prev \cup {p}
      /\ DOMAIN prev \subseteq DOMAIN prev'
      /\ \A q \in DOMAIN prev' : q # p => prev'[q] = prev[q]
  <2>1. CASE p \in alive
    <3>1. prev' = [q \in DOMAIN prev \cup {p} |-> IF q = p THEN count[p] ELSE prev[q]]
      BY <2>1 DEF ReadCounter
    <3> QED BY <3>1
  <2>2. CASE p \notin alive
    BY <2>2 DEF ReadCounter
  <2> QED BY <2>1, <2>2
<1>5. p \in alive => p \in DOMAIN prev' /\ prev'[p] = count[p]
  <2> SUFFICES ASSUME p \in alive PROVE p \in DOMAIN prev' /\ prev'[p] = count[p]
    OBVIOUS
  <2>1. prev' = [q \in DOMAIN prev \cup {p} |-> IF q = p THEN count[p] ELSE prev[q]]
    BY DEF ReadCounter
  <2> QED BY <2>1
<1>6. p \notin alive => prev' = prev /\ sum' = sum /\ count[p] = 0
  BY DEF ReadCounter, IInv, Remembered
<1>7. Delta(p) \in Nat /\ Delta(p) <= since[p] /\ (Following(p) => Delta(p) = since[p])
  <2>1. CASE p \in DOMAIN prev
    <3>1. /\ count[p] <= prev[p] + since[p]
          /\ count[p] \in Nat /\ prev[p] \in Nat /\ since[p] \in Nat
      BY <1>1, <2>1 DEF IInv, Remembered
    <3> QED BY <2>1, <3>1 DEF Delta, Following
  <2>2. CASE p \notin DOMAIN prev
    BY <1>1, <2>2 DEF Delta, Following
  <2> QED BY <2>1, <2>2
<1>8. p \in alive => sum'.total = sum.total + Delta(p)
  BY DEF ReadCounter
<1>9. Remembered'
  <2>1. sum'.total <= truth'
    <3>1. sum.total <= truth /\ since[p] \in Nat
      BY <1>1 DEF IInv, Remembered
    <3> QED BY <1>1, <1>2, <1>6, <1>7, <1>8, <3>1
  <2>2. ASSUME NEW q \in DOMAIN prev' PROVE count'[q] <= prev'[q] + since'[q]
    <3>1. CASE q = p
      <4>1. CASE p \in alive
        BY <1>1, <1>2, <1>3, <1>5, <3>1, <4>1
      <4>2. CASE p \notin alive
        <5>1. prev'[p] \in Nat
          BY <1>1, <1>6, <2>2, <3>1, <4>2
        <5> QED BY <1>2, <1>3, <1>6, <3>1, <4>2, <5>1
      <4> QED BY <4>1, <4>2
    <3>2. CASE q # p
      <4>1. q \in DOMAIN prev /\ q \in Paths
        BY <1>1, <1>4, <3>2
      <4> QED BY <1>2, <1>3, <1>4, <3>2, <4>1 DEF IInv, Remembered
    <3> QED BY <3>1, <3>2
  <2>3. DOMAIN prev' \subseteq spine' /\ walk' \subseteq spine' /\ (~measuring' => walk' = {})
    BY <1>2, <1>4 DEF IInv, Remembered
  <2> QED BY <1>2, <2>1, <2>2, <2>3 DEF IInv, Remembered
<1>10. ASSUME p \in alive PROVE Following(p)'
  BY <1>1, <1>2, <1>3, <1>5, <1>10 DEF Following
<1>11. ASSUME NEW q \in alive, q # p, Following(q) PROVE Following(q)'
  BY <1>1, <1>2, <1>3, <1>4, <1>11 DEF Following
<1>12. ASSUME steady > ticks
       PROVE  /\ spine' = alive' /\ \A q \in Paths \ alive' : since'[q] = 0
              /\ \A q \in alive' \ walk' : Following(q)'
  <2>1. /\ spine = alive /\ \A q \in Paths \ alive : since[q] = 0
        /\ \A q \in alive \ walk : Following(q)
    BY <1>12 DEF IInv, Restored
  <2> QED BY <1>2, <1>3, <1>10, <1>11, <2>1
<1>13. ASSUME steady = Settled
       PROVE  (\A q \in alive' : Following(q)') /\ sum'.total = truth' /\ unmetered' = {}
  <2>1. (\A q \in alive : Following(q)) /\ sum.total = truth /\ unmetered = {}
    BY <1>13 DEF IInv, Restored
  <2>2. steady > ticks
    BY <1>13, Constants DEF IInv, TypeOK
  <2>3. p \in alive
    BY <1>2, <2>2 DEF IInv, Restored
  <2> QED BY <1>1, <1>2, <1>7, <1>8, <1>10, <1>11, <2>1, <2>3
<1>14. Restored'
  <2>1. steady' = steady /\ ticks' = ticks
    BY <1>2
  <2>2. steady' > ticks' => /\ spine' = alive' /\ \A q \in Paths \ alive' : since'[q] = 0
                            /\ \A q \in alive' \ walk' : Following(q)'
    BY <1>12, <2>1
  <2>3. steady' = Settled =>
          (\A q \in alive' : Following(q)') /\ sum'.total = truth' /\ unmetered' = {}
    BY <1>13, <2>1
  <2> QED BY <2>2, <2>3 DEF Restored
<1> QED BY <1>9, <1>14

LEMMA OthersKeep ==
  ASSUME IInv,
         (\E c \in Classes \cup {NoClass} : EndTick(c)) \/ Restart
           \/ (\E r \in Readers : List(r)) \/ UNCHANGED vars
  PROVE  Remembered' /\ Restored'
<1>1. ASSUME NEW c \in Classes \cup {NoClass}, EndTick(c) PROVE Remembered' /\ Restored'
  BY <1>1 DEF EndTick, IInv, Remembered, Restored, Following
<1>2. ASSUME Restart PROVE Remembered' /\ Restored'
  <2>1. ~(steady' > ticks') /\ steady' # Settled
    BY <1>2, Constants DEF Restart
  <2>2. Remembered'
    BY <1>2 DEF Restart, IInv, Remembered, Nothing
  <2> QED BY <2>1, <2>2 DEF Restored
<1>3. ASSUME NEW r \in Readers, List(r) PROVE Remembered' /\ Restored'
  BY <1>3 DEF List, IInv, Remembered, Restored, Following
<1>4. ASSUME UNCHANGED vars PROVE Remembered' /\ Restored'
  BY <1>4 DEF vars, code, IInv, Remembered, Restored, Following
<1> QED BY <1>1, <1>2, <1>3, <1>4

LEMMA NextInvariant == IInv /\ [Next]_vars => IInv'
<1> SUFFICES ASSUME IInv, [Next]_vars PROVE IInv'
  OBVIOUS
<1>1. TypeOK'
  BY NextTyped DEF IInv
<1>2. Remembered' /\ Restored'
  BY FaultKeeps, ComeOrGoKeeps, BeginTickKeeps, ReadCounterKeeps, OthersKeep DEF Next
<1> QED BY <1>1, <1>2 DEF IInv

-----------------------------------------------------------------------------
(* Who is named, and what a reply shows.                                   *)

\* The classes' faults add up to the tick's.
Tallied == Sums(sum.of, sum.total)

\* A reply half made still has its sample in the window, as far back as the loop
\* has ticked since.
Answered ==
  \A r \in Readers :
    reply[r].at = "half" /\ reply[r].lag < Cap /\ reply[r].now # Unknown
      => /\ reply[r].lag < Len(ring)
         /\ ring[Len(ring) - reply[r].lag].faults = reply[r].now
         /\ ring[Len(ring) - reply[r].lag].observed > 0

WindowInv == Tallied /\ WorstIsNamed /\ Answered /\ ReplyIsConsistent

\* push drops the oldest sample of a full window and keeps the order.
LEMMA PushFacts ==
  ASSUME TypeOK, NEW s \in Sample
  PROVE  /\ Len(Pushed(s)) \in Nat /\ Len(Pushed(s)) > 0 /\ Pushed(s)[Len(Pushed(s))] = s
         /\ DOMAIN Pushed(s) = 1 .. Len(Pushed(s)) /\ DOMAIN ring = 1 .. Len(ring)
         /\ \A lag \in Nat : lag < Len(ring) /\ lag + 1 < Cap =>
              /\ lag + 1 < Len(Pushed(s))
              /\ Pushed(s)[Len(Pushed(s)) - (lag + 1)] = ring[Len(ring) - lag]
         /\ \A i \in DOMAIN Pushed(s) : Pushed(s)[i] = s \/ \E j \in DOMAIN ring : Pushed(s)[i] = ring[j]
<1>1. Cap \in Nat \ {0} /\ ring \in Seq(Sample) /\ Len(ring) <= Cap /\ Len(ring) \in Nat
  BY Constants DEF TypeOK
<1>2. CASE Len(ring) >= Cap
  <2> DEFINE tail == Tail(ring)
  <2>1. ring # <<>>
    BY <1>1, <1>2
  <2>2. /\ tail \in Seq(Sample) /\ Len(tail) = Len(ring) - 1
        /\ \A i \in 1 .. Len(ring) - 1 : tail[i] = ring[i + 1]
    BY <1>1, <2>1
  <2>3. Pushed(s) = Append(tail, s)
    BY <1>2 DEF Pushed
  <2> HIDE DEF tail
  <2>4. /\ Len(Append(tail, s)) = Len(ring) /\ Append(tail, s)[Len(ring)] = s
        /\ DOMAIN Append(tail, s) = 1 .. Len(ring) /\ DOMAIN ring = 1 .. Len(ring)
        /\ \A i \in 1 .. Len(ring) - 1 : Append(tail, s)[i] = ring[i + 1]
    BY <1>1, <1>2, <2>2
  <2>5. ASSUME NEW lag \in Nat, lag + 1 < Cap
        PROVE  lag + 1 < Len(ring) /\ Append(tail, s)[Len(ring) - (lag + 1)] = ring[Len(ring) - lag]
    <3>1. Len(ring) = Cap /\ Len(ring) - (lag + 1) \in 1 .. Len(ring) - 1
      BY <1>1, <1>2, <2>5
    <3>2. (Len(ring) - (lag + 1)) + 1 = Len(ring) - lag
      BY <1>1
    <3>3. Append(tail, s)[Len(ring) - (lag + 1)] = ring[(Len(ring) - (lag + 1)) + 1]
      BY <2>4, <3>1
    <3> QED BY <2>5, <3>1, <3>2, <3>3
  <2>6. ASSUME NEW i \in 1 .. Len(ring), i # Len(ring)
        PROVE  \E j \in 1 .. Len(ring) : Append(tail, s)[i] = ring[j]
    BY <1>1, <2>4, <2>6
  <2> DEFINE pushed == Append(tail, s)
  <2>7. Len(pushed) = Len(ring) /\ Len(ring) > 0
    BY <1>1, <1>2, <2>4
  <2>8. /\ pushed[Len(pushed)] = s /\ DOMAIN pushed = 1 .. Len(pushed) /\ DOMAIN ring = 1 .. Len(ring)
        /\ \A i \in DOMAIN pushed : pushed[i] = s \/ \E j \in DOMAIN ring : pushed[i] = ring[j]
    BY <2>4, <2>6, <2>7
  <2>9. \A lag \in Nat : lag + 1 < Cap =>
          lag + 1 < Len(pushed) /\ pushed[Len(pushed) - (lag + 1)] = ring[Len(ring) - lag]
    BY <2>5, <2>7
  <2> HIDE DEF pushed
  <2> QED BY <1>1, <2>3, <2>7, <2>8, <2>9 DEF pushed
<1>3. CASE ~(Len(ring) >= Cap)
  <2>1. Pushed(s) = Append(ring, s)
    BY <1>3 DEF Pushed
  <2>2. /\ Len(Append(ring, s)) = Len(ring) + 1 /\ Append(ring, s)[Len(ring) + 1] = s
        /\ DOMAIN Append(ring, s) = 1 .. Len(ring) + 1 /\ DOMAIN ring = 1 .. Len(ring)
        /\ \A i \in 1 .. Len(ring) : Append(ring, s)[i] = ring[i]
    BY <1>1
  <2>3. ASSUME NEW lag \in Nat, lag < Len(ring)
        PROVE  /\ lag + 1 < Len(ring) + 1
               /\ Append(ring, s)[(Len(ring) + 1) - (lag + 1)] = ring[Len(ring) - lag]
    BY <1>1, <2>2, <2>3
  <2> QED BY <1>1, <2>1, <2>2, <2>3
<1> QED BY <1>2, <1>3

\* What a tick that hurt pushes names a class that took its share.
LEMMA PushedIsNamed ==
  ASSUME TypeOK, Tallied, NEW c \in Classes \cup {NoClass},
         c \in Worst \/ (Worst = {} /\ c = NoClass), sum.total > 0
  PROVE  /\ c \in Classes /\ sum.of[c] \in Nat
         /\ sum.of[c] <= sum.total /\ sum.of[c] * Cardinality(Classes) >= sum.total
<1>1. sum.of \in [Classes -> Nat] /\ sum.total \in Nat
  BY DEF TypeOK
<1> DEFINE Bars == {sum.of[d] : d \in Classes}
<1>2. PICK d \in Classes : sum.of[d] > 0
  BY <1>1, SumHasBar DEF Tallied
<1>3. Bars \subseteq Nat /\ Bars # {} /\ \A g \in Bars : g <= sum.total
  BY <1>1, <1>2, SumBoundsEach DEF Tallied
<1> HIDE DEF Bars
<1>4. PICK m \in Bars : \A g \in Bars : g <= m
  BY <1>1, <1>3, GreatestOf
<1>5. PICK e \in Classes : m = sum.of[e]
  BY <1>4 DEF Bars
<1>6. \A g \in Classes : sum.of[g] <= sum.of[e]
  BY <1>4, <1>5 DEF Bars
<1>7. sum.of[d] \in Nat /\ sum.of[e] \in Nat
  BY <1>1
<1>8. sum.of[d] <= sum.of[e]
  BY <1>6
<1>9. sum.of[e] > 0
  BY <1>2, <1>7, <1>8
<1>10. e \in Worst
  BY <1>6, <1>9 DEF Worst
<1>11. c \in Worst
  BY <1>10
<1>12. c \in Classes /\ \A g \in Classes : sum.of[g] <= sum.of[c]
  BY <1>11 DEF Worst
<1>13. IsFiniteSet(Classes) /\ Cardinality(Classes) \in Nat
  BY FaultMeterAssumption, FS_CardinalityType DEF FaultMeterAssumption
<1>14. sum.of[c] \in Nat
  BY <1>1, <1>12
<1>15. sum.total <= Cardinality(Classes) * sum.of[c]
  BY <1>1, <1>12, <1>13, <1>14, SumIsBounded DEF Tallied
<1>16. sum.of[c] <= sum.total
  BY <1>1, <1>12, SumBoundsEach DEF Tallied
<1>17. Cardinality(Classes) * sum.of[c] = sum.of[c] * Cardinality(Classes)
  BY <1>13, <1>14
<1>18. sum.of[c] * Cardinality(Classes) \in Nat
  BY <1>13, <1>14
<1> HIDE DEF Bars
<1> QED BY <1>1, <1>12, <1>14, <1>15, <1>16, <1>17, <1>18

LEMMA EndTickWindow ==
  ASSUME TypeOK, TypeOK', WindowInv, NEW c \in Classes \cup {NoClass}, EndTick(c)
  PROVE  WindowInv'
<1> DEFINE s == [faults |-> sum.total, worst |-> c,
                 took |-> IF c = NoClass THEN 0 ELSE sum.of[c], observed |-> sum.observed]
<1>1. s \in Sample /\ ring' = Pushed(s) /\ sum' = sum
  BY DEF EndTick, TypeOK, Sample
<1>2. /\ s.faults = sum.total /\ s.worst = c
      /\ s.took = IF c = NoClass THEN 0 ELSE sum.of[c]
  OBVIOUS
<1> HIDE DEF s
<1>3. Tallied'
  BY <1>1 DEF WindowInv, Tallied
<1>4. WorstIsNamed'
  <2> SUFFICES ASSUME NEW i \in DOMAIN ring', ring'[i].faults > 0
               PROVE  /\ ring'[i].worst \in Classes
                      /\ ring'[i].took <= ring'[i].faults
                      /\ ring'[i].took * Cardinality(Classes) >= ring'[i].faults
    BY DEF WorstIsNamed
  <2>1. CASE ring'[i] = s
    <3>1. sum.total > 0 /\ (c \in Worst \/ (Worst = {} /\ c = NoClass))
      BY <1>2, <2>1 DEF EndTick
    <3>2. /\ c \in Classes /\ sum.of[c] <= sum.total
          /\ sum.of[c] * Cardinality(Classes) >= sum.total
      BY <3>1, PushedIsNamed DEF WindowInv
    <3>3. c # NoClass
      BY <3>2, FaultMeterAssumption DEF FaultMeterAssumption
    <3> QED BY <1>2, <2>1, <3>2, <3>3
  <2>2. CASE \E j \in DOMAIN ring : ring'[i] = ring[j]
    BY <2>2 DEF WindowInv, WorstIsNamed
  <2> QED BY <1>1, <2>1, <2>2, PushFacts
<1>5. \A q \in Readers : reply'[q] = Outpaced(reply[q])
  BY DEF EndTick
<1>6. ASSUME NEW q \in Readers
      PROVE  /\ reply[q].lag \in 0 .. Cap
             /\ reply'[q].at = reply[q].at /\ reply'[q].now = reply[q].now
             /\ reply'[q].peak = reply[q].peak
             /\ reply[q].at = "half" /\ reply'[q].lag < Cap =>
                  reply'[q].lag = reply[q].lag + 1 /\ reply[q].lag < Cap
             /\ reply[q].at # "half" => reply'[q] = reply[q]
  <2>1. reply[q] \in [at : {"idle", "half", "done"}, now : Nat \cup {Unknown},
                      peak : Nat \cup {Unknown}, lag : 0 .. Cap]
    BY DEF TypeOK
  <2> QED BY <1>5, <2>1, Constants DEF Outpaced
<1>7. Answered'
  <2> SUFFICES ASSUME NEW q \in Readers, reply'[q].at = "half", reply'[q].lag < Cap,
                      reply'[q].now # Unknown
               PROVE  /\ reply'[q].lag < Len(ring')
                      /\ ring'[Len(ring') - reply'[q].lag].faults = reply'[q].now
                      /\ ring'[Len(ring') - reply'[q].lag].observed > 0
    BY DEF Answered
  <2>1. /\ reply[q].lag < Len(ring)
        /\ ring[Len(ring) - reply[q].lag].faults = reply[q].now
        /\ ring[Len(ring) - reply[q].lag].observed > 0
    BY <1>6 DEF WindowInv, Answered
  <2>2. reply'[q].lag = reply[q].lag + 1 /\ reply[q].lag \in Nat /\ reply[q].lag + 1 < Cap
    BY <1>6
  <2>3. /\ reply[q].lag + 1 < Len(ring')
        /\ ring'[Len(ring') - (reply[q].lag + 1)] = ring[Len(ring) - reply[q].lag]
    BY <1>1, <2>1, <2>2, PushFacts
  <2> QED BY <1>6, <2>1, <2>2, <2>3
<1>8. ReplyIsConsistent'
  BY <1>6 DEF WindowInv, ReplyIsConsistent
<1> QED BY <1>3, <1>4, <1>7, <1>8 DEF WindowInv

LEMMA ListWindow ==
  ASSUME TypeOK, WindowInv, NEW r \in Readers, List(r)
  PROVE  WindowInv'
<1>1. sum' = sum /\ ring' = ring
  BY DEF List
<1>2. Tallied' /\ WorstIsNamed'
  BY <1>1 DEF WindowInv, Tallied, WorstIsNamed
<1>3. reply[r] \in [at : {"idle", "half", "done"}, now : Nat \cup {Unknown},
                    peak : Nat \cup {Unknown}, lag : 0 .. Cap]
  BY DEF TypeOK
<1>4. \A q \in Readers \ {r} : reply'[q] = reply[q]
  BY DEF List, Reply, TypeOK
<1>5. CASE reply[r].at # "half"
  <2>1. reply'[r] = [at |-> "half", now |-> Latest, peak |-> Unknown, lag |-> 0]
    BY <1>5 DEF List, Reply, TypeOK
  <2>2. Latest # Unknown => /\ 0 < Len(ring) /\ Len(ring) - 0 = Len(ring)
                            /\ ring[Len(ring)].faults = Latest
                            /\ ring[Len(ring)].observed > 0
    <3>1. ring # <<>> => 0 < Len(ring)
      BY DEF TypeOK
    <3>2. Len(ring) - 0 = Len(ring)
      BY DEF TypeOK
    <3> QED BY <3>1, <3>2 DEF Latest
  <2>3. Answered'
    BY <1>1, <1>4, <2>1, <2>2 DEF WindowInv, Answered
  <2>4. ReplyIsConsistent'
    BY <1>4, <2>1 DEF WindowInv, ReplyIsConsistent
  <2> QED BY <1>2, <2>3, <2>4 DEF WindowInv
<1>6. CASE reply[r].at = "half"
  <2>1. /\ reply'[r].at = "done" /\ reply'[r].now = reply[r].now /\ reply'[r].lag = reply[r].lag
        /\ reply'[r].peak = Peak
    <3> DEFINE Answer == [at : {"idle", "half", "done"}, now : Nat \cup {Unknown},
                          peak : Nat \cup {Unknown}, lag : 0 .. Cap]
    <3>1. reply \in [Readers -> Answer] /\ reply[r] \in Answer
      BY DEF TypeOK
    <3> HIDE DEF Answer
    <3>2. reply'[r] = [reply[r] EXCEPT !.at = "done", !.peak = Peak]
      BY <1>6, <3>1 DEF List, Reply
    <3> QED BY <1>3, <3>2
  <2>2. Answered'
    BY <1>1, <1>4, <2>1 DEF WindowInv, Answered
  <2>3. ASSUME reply[r].lag < Cap, reply[r].now # Unknown
        PROVE  Peak # Unknown /\ reply[r].now <= Peak
    <3> DEFINE i == Len(ring) - reply[r].lag
    <3>1. /\ reply[r].lag < Len(ring) /\ reply[r].lag \in Nat /\ Len(ring) \in Nat
          /\ ring[i].faults = reply[r].now /\ ring[i].observed > 0
      <4>1. reply[r].lag \in Nat /\ Len(ring) \in Nat
        BY <1>3, SamplesOf, Constants DEF TypeOK
      <4> QED BY <1>6, <2>3, <4>1 DEF WindowInv, Answered
    <3>2. i \in DOMAIN ring
      BY <3>1, SamplesOf DEF TypeOK
    <3>3. ring[i].faults \in Seen
      BY <3>1, <3>2 DEF Seen
    <3>4. Peak \in Seen /\ ring[i].faults <= Peak
      BY <3>3, PeakIsGreatest DEF TypeOK
    <3>5. Peak \in Nat /\ Unknown \notin Nat
      BY <3>4, SamplesOf, FaultMeterAssumption DEF FaultMeterAssumption, TypeOK
    <3> QED BY <3>1, <3>4, <3>5
  <2>4. ReplyIsConsistent'
    BY <1>4, <2>1, <2>3 DEF WindowInv, ReplyIsConsistent
  <2> QED BY <1>2, <2>2, <2>4 DEF WindowInv
<1> QED BY <1>5, <1>6

LEMMA NextWindow == TypeOK /\ WindowInv /\ [Next]_vars => WindowInv'
<1> SUFFICES ASSUME TypeOK, WindowInv, [Next]_vars PROVE WindowInv'
  OBVIOUS
<1>1. TypeOK'
  BY NextTyped
<1>2. ASSUME UNCHANGED <<ring, reply>>, Tallied' PROVE WindowInv'
  BY <1>2 DEF WindowInv, WorstIsNamed, Answered, ReplyIsConsistent
<1>3. ASSUME NEW p \in Paths, Fault(p) \/ ComeOrGo(p) PROVE WindowInv'
  BY <1>2, <1>3 DEF Fault, ComeOrGo, WindowInv, Tallied
<1>4. ASSUME NEW p \in Paths, ReadCounter(p) PROVE WindowInv'
  <2>1. CASE p \in alive
    <3>1. /\ sum.of \in [Classes -> Nat] /\ Delta(p) \in Nat /\ Class[p] \in Classes
          /\ sum.total \in Nat
      BY Constants DEF TypeOK, Delta
    <3>2. /\ sum'.of = [sum.of EXCEPT ![Class[p]] = @ + Delta(p)]
          /\ sum'.total = sum.total + Delta(p)
      BY <1>4, <2>1 DEF ReadCounter
    <3>3. sum'.of \in [Classes -> Nat] /\ sum'.of[Class[p]] = sum.of[Class[p]] + Delta(p)
      <4>1. sum.of[Class[p]] + Delta(p) \in Nat
        BY <3>1
      <4> QED BY <3>1, <3>2, <4>1
    <3>4. \A d \in Classes \ {Class[p]} : sum'.of[d] = sum.of[d]
      BY <3>1, <3>2
    <3>5. Sums(sum.of, sum.total)
      BY DEF WindowInv, Tallied
    <3>6. Sums(sum'.of, sum.total + Delta(p))
      BY <3>1, <3>3, <3>4, <3>5, SumGrows
    <3>7. Tallied'
      BY <3>2, <3>6 DEF Tallied
    <3> QED BY <1>2, <1>4, <3>7 DEF ReadCounter
  <2>2. CASE p \notin alive
    BY <1>2, <1>4, <2>2 DEF ReadCounter, WindowInv, Tallied
  <2> QED BY <2>1, <2>2
<1>5. CASE BeginTick
  <2>1. sum'.of = [c \in Classes |-> 0] /\ sum'.total = 0
    BY <1>5 DEF BeginTick, Nothing
  <2>2. Sums([c \in Classes |-> 0], 0)
    BY SumOfZeroes
  <2> QED BY <1>2, <1>5, <2>1, <2>2 DEF BeginTick, Tallied
<1>6. ASSUME NEW c \in Classes \cup {NoClass}, EndTick(c) PROVE WindowInv'
  BY <1>1, <1>6, EndTickWindow
<1>7. CASE Restart
  <2>1. sum'.of = [c \in Classes |-> 0] /\ sum'.total = 0
    BY <1>7 DEF Restart, Nothing
  <2>2. Sums([c \in Classes |-> 0], 0)
    BY SumOfZeroes
  <2>3. ring' = <<>> /\ \A q \in Readers : reply'[q].at = "idle"
    BY <1>7 DEF Restart, NoReply
  <2> QED BY <2>1, <2>2, <2>3 DEF WindowInv, Tallied, WorstIsNamed, Answered, ReplyIsConsistent
<1>8. ASSUME NEW r \in Readers, List(r) PROVE WindowInv'
  BY <1>8, ListWindow
<1>9. CASE UNCHANGED vars
  BY <1>2, <1>9 DEF vars, code, WindowInv, Tallied
<1> QED BY <1>3, <1>4, <1>5, <1>6, <1>7, <1>8, <1>9 DEF Next

LEMMA InitWindow == Init => WindowInv
<1> SUFFICES ASSUME Init PROVE WindowInv
  OBVIOUS
<1>1. sum.of = [c \in Classes |-> 0] /\ sum.total = 0
  BY DEF Init, Nothing
<1>2. Sums([c \in Classes |-> 0], 0)
  BY SumOfZeroes
<1>3. ring = <<>> /\ \A q \in Readers : reply[q].at = "idle"
  BY DEF Init, NoReply
<1> QED BY <1>1, <1>2, <1>3 DEF WindowInv, Tallied, WorstIsNamed, Answered, ReplyIsConsistent

-----------------------------------------------------------------------------
\* Every value of the meter is of its type, the window never longer than CAP,
\* for every spine, window and refresh period (FaultMeter and RING, health.rs).
THEOREM TypeCorrect == Spec => []TypeOK
<1> QED BY InitTyped, NextTyped, PTL DEF Spec

\* A tick never counts a fault nobody took (FaultMeter::tick), whatever becomes of
\* the cgroups and of the daemon between two reads.
THEOREM NothingInvented == Spec => []NeverOverstates
<1>1. IInv => NeverOverstates
  BY DEF IInv, Remembered, NeverOverstates
<1> QED BY <1>1, InitInvariant, NextInvariant, PTL DEF Spec

\* One refresh_spine and one tick after the last change of the tree the meter is
\* exact and whole, however long the refresh period is.
THEOREM NothingMissed == Spec => []MeterIsExact
<1>1. IInv => MeterIsExact
  BY DEF IInv, Restored, MeterIsExact
<1> QED BY <1>1, InitInvariant, NextInvariant, PTL DEF Spec

\* The class a sample of the window blames took its share of the tick: tick()
\* ranks complete tallies, for any number of cgroups and classes in any order.
THEOREM BlameIsFair == Spec => []WorstIsNamed
<1>1. WindowInv => WorstIsNamed
  BY DEF WindowInv
<1> QED BY <1>1, InitTyped, NextTyped, InitWindow, NextWindow, PTL DEF Spec

\* build_list's two readings of the window fit together however the loop ticks
\* between them, for any window and any number of connection threads.
THEOREM RepliesAreConsistent == Spec => []ReplyIsConsistent
<1>1. WindowInv => ReplyIsConsistent
  BY DEF WindowInv
<1> QED BY <1>1, InitTyped, NextTyped, InitWindow, NextWindow, PTL DEF Spec
=============================================================================
