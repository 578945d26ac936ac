----------------------------- MODULE FaultMeter -----------------------------
(***************************************************************************)
(* The spine's major-fault rate (health.rs): the loop reads one counter    *)
(* per spine cgroup and per tick and keeps the difference, while the       *)
(* cgroups take faults, end and are created again under the same path; and *)
(* build_list (ipc.rs) reports the last sample and the worst of the window *)
(* from a thread of its own.                                               *)
(*                                                                         *)
(* The last four variables are history: what the cgroups really took.      *)
(***************************************************************************)
EXTENDS Naturals, Sequences, FiniteSets

CONSTANTS
  Paths,         \* the cgroup paths the spine's units may have
  Classes,       \* the classes of the SPINE table
  Class,         \* Class[p]: the class p's unit is in
  Cap,           \* CAP, the samples retained
  RefreshEvery,  \* the ticks between two refresh_spine
  MaxCount,      \* bound on pgmajfault of a cgroup, and on its faults in a tick
  Readers,       \* the connection threads that answer a LIST
  NoClass,       \* Sample::worst of a clean tick
  Unknown        \* None in a reply

ASSUME FaultMeterAssumption ==
  /\ Class \in [Paths -> Classes]
  /\ IsFiniteSet(Paths) /\ IsFiniteSet(Classes)
  /\ Cap \in Nat \ {0}
  /\ RefreshEvery \in Nat \ {0}
  /\ MaxCount \in Nat
  /\ NoClass \notin Classes
  /\ Unknown \notin Nat

VARIABLES
  alive,      \* the spine cgroups that exist
  count,      \* pgmajfault of each; a fresh cgroup starts at zero
  ticks,      \* Daemon::ticks % RefreshEvery
  prev,       \* FaultMeter::prev
  spine,      \* FaultMeter::spine
  walk,       \* the part of it this tick has still to read
  measuring,  \* inside tick()
  sum,        \* what this tick has so far: [total, of (per class), observed]
  ring,       \* RING, newest last
  reply,      \* each reader's LIST: [at, now, peak, lag]
  since,      \* faults of each path since this loop last looked at it
  truth,      \* those of the paths this tick has looked at
  unmetered,  \* paths that took faults in a tick that had them not in its walk
  steady      \* ticks begun since a cgroup came or went

code == <<alive, count, ticks, prev, spine, walk, measuring, sum, ring, reply>>
vars == <<code, since, truth, unmetered, steady>>

Nothing == [total |-> 0, of |-> [c \in Classes |-> 0], observed |-> 0]
NoReply == [at |-> "idle", now |-> Unknown, peak |-> Unknown, lag |-> 0]

\* A change is over once a refresh has walked the new tree and the tick after
\* it has read each counter a second time.
Settled == RefreshEvery + 1

Sample == [faults : Nat, worst : Classes \cup {NoClass}, took : Nat, observed : Nat]

\* Every variable holds a value of its type.
TypeOK ==
  /\ alive \subseteq Paths /\ spine \subseteq Paths /\ walk \subseteq Paths
  /\ count \in [Paths -> Nat]
  /\ ticks \in 0 .. RefreshEvery - 1
  /\ DOMAIN prev \subseteq Paths /\ prev \in [DOMAIN prev -> Nat]
  /\ measuring \in BOOLEAN
  /\ sum \in [total : Nat, of : [Classes -> Nat], observed : Nat]
  /\ ring \in Seq(Sample) /\ Len(ring) <= Cap
  /\ reply \in [Readers -> [at : {"idle", "half", "done"}, now : Nat \cup {Unknown},
                             peak : Nat \cup {Unknown}, lag : 0 .. Cap]]
  /\ since \in [Paths -> Nat] /\ truth \in Nat
  /\ unmetered \subseteq Paths /\ steady \in 0 .. Settled

\* spine_cgroups: every cgroup there is now of every class of the table.
SpineCgroups == alive

Init ==
  /\ alive \in SUBSET Paths
  /\ count = [p \in Paths |-> 0]
  /\ ticks = 0
  /\ prev = <<>> /\ spine = SpineCgroups /\ walk = {} /\ measuring = FALSE
  /\ sum = Nothing /\ ring = <<>> /\ reply = [r \in Readers |-> NoReply]
  /\ since = [p \in Paths |-> 0] /\ truth = 0 /\ unmetered = {} /\ steady = 0

-----------------------------------------------------------------------------
(* The cgroups.                                                            *)

Fault(p) ==
  /\ p \in alive
  /\ count[p] < MaxCount /\ since[p] < MaxCount
  /\ count' = [count EXCEPT ![p] = @ + 1]
  /\ since' = [since EXCEPT ![p] = @ + 1]
  /\ UNCHANGED <<alive, ticks, prev, spine, walk, measuring, sum, ring, reply,
                 truth, unmetered, steady>>

\* A unit ends or is started: its cgroup goes, or comes with a fresh counter.
ComeOrGo(p) ==
  /\ alive' = IF p \in alive THEN alive \ {p} ELSE alive \cup {p}
  /\ count' = [count EXCEPT ![p] = 0]
  /\ steady' = 0
  /\ UNCHANGED <<ticks, prev, spine, walk, measuring, sum, ring, reply,
                 since, truth, unmetered>>

-----------------------------------------------------------------------------
(* FaultMeter::tick, after refresh_spine on every RefreshEvery-th.         *)

NextTick == (ticks + 1) % RefreshEvery

\* Defect: the spine is enumerated at start alone.
RefreshDueNever == FALSE

RefreshDue == NextTick = 0

\* Defect: the counters of what has gone are kept.
KeptAll(live) == prev

\* prev.retain
Kept(live) == [p \in DOMAIN prev \cap live |-> prev[p]]

BeginTick ==
  /\ ~measuring
  /\ ticks' = NextTick
  /\ spine' = IF RefreshDue THEN SpineCgroups ELSE spine
  /\ prev' = IF RefreshDue THEN Kept(SpineCgroups) ELSE prev
  /\ walk' = spine'
  /\ measuring' = TRUE
  /\ sum' = Nothing
  /\ since' = [p \in Paths |-> IF p \in spine' THEN since[p] ELSE 0]
  /\ unmetered' = {p \in Paths \ spine' : since[p] > 0}
  /\ truth' = 0
  /\ steady' = IF steady = Settled THEN steady ELSE steady + 1
  /\ UNCHANGED <<alive, count, ring, reply>>

\* The first sight of a cgroup is a total and seeds; a counter that went
\* backwards is another cgroup's, and counts as nothing.
Delta(p) ==
  IF p \in DOMAIN prev /\ count[p] > prev[p] THEN count[p] - prev[p] ELSE 0

ReadCounter(p) ==
  /\ p \in walk
  /\ walk' = walk \ {p}
  /\ IF p \in alive
       THEN /\ prev' = [q \in DOMAIN prev \cup {p} |-> IF q = p THEN count[p] ELSE prev[q]]
            /\ sum' = [total    |-> sum.total + Delta(p),
                       of       |-> [sum.of EXCEPT ![Class[p]] = @ + Delta(p)],
                       observed |-> sum.observed + 1]
       ELSE UNCHANGED <<prev, sum>>
  /\ truth' = truth + since[p]
  /\ since' = [since EXCEPT ![p] = 0]
  /\ UNCHANGED <<alive, count, ticks, spine, measuring, ring, reply, unmetered, steady>>

\* Defect: the classes are not ranked.
WorstAny == {c \in Classes : sum.of[c] > 0}

\* The classes per_class ranks first; ties fall either way.
Worst == {c \in Classes : sum.of[c] > 0 /\ \A d \in Classes : sum.of[d] <= sum.of[c]}

\* Defect: the window keeps one sample too many.
PushedLate(s) ==
  IF Len(ring) > Cap THEN Append(Tail(ring), s) ELSE Append(ring, s)

\* push
Pushed(s) ==
  IF Len(ring) >= Cap THEN Append(Tail(ring), s) ELSE Append(ring, s)

\* A sample more was pushed since the reply read the latest.
Outpaced(r) == IF r.at = "half" /\ r.lag < Cap THEN [r EXCEPT !.lag = @ + 1] ELSE r

EndTick(c) ==
  /\ measuring /\ walk = {}
  /\ c \in Worst \/ (Worst = {} /\ c = NoClass)
  /\ measuring' = FALSE
  /\ ring' = Pushed([faults   |-> sum.total,
                     worst    |-> c,
                     took     |-> IF c = NoClass THEN 0 ELSE sum.of[c],
                     observed |-> sum.observed])
  /\ reply' = [r \in Readers |-> Outpaced(reply[r])]
  /\ UNCHANGED <<alive, count, ticks, prev, spine, walk, sum, since, truth, unmetered, steady>>

\* The daemon starts over: FaultMeter::new enumerates the spine, and statics
\* and connections are gone.
Restart ==
  /\ ticks' = 0
  /\ prev' = <<>> /\ spine' = SpineCgroups /\ walk' = {} /\ measuring' = FALSE
  /\ sum' = Nothing /\ ring' = <<>> /\ reply' = [r \in Readers |-> NoReply]
  /\ since' = [p \in Paths |-> 0] /\ truth' = 0 /\ unmetered' = {} /\ steady' = 0
  /\ UNCHANGED <<alive, count>>

-----------------------------------------------------------------------------
(* build_list: latest() and peak() each take the lock.                     *)

\* latest(), as the reply shows it.
Latest == IF ring # <<>> /\ ring[Len(ring)].observed > 0 THEN ring[Len(ring)].faults ELSE Unknown

Seen == {ring[i].faults : i \in {j \in DOMAIN ring : ring[j].observed > 0}}

\* peak()
Peak == IF Seen = {} THEN Unknown ELSE CHOOSE f \in Seen : \A g \in Seen : g <= f

\* Defect: the worst of the window is read before the latest.
ReplySwapped(r) ==
  \/ /\ reply[r].at # "half"
     /\ reply' = [reply EXCEPT ![r] = [at |-> "half", now |-> Unknown, peak |-> Peak, lag |-> 0]]
  \/ /\ reply[r].at = "half"
     /\ reply' = [reply EXCEPT ![r] = [@ EXCEPT !.at = "done", !.now = Latest]]

Reply(r) ==
  \/ /\ reply[r].at # "half"
     /\ reply' = [reply EXCEPT ![r] = [at |-> "half", now |-> Latest, peak |-> Unknown, lag |-> 0]]
  \/ /\ reply[r].at = "half"
     /\ reply' = [reply EXCEPT ![r] = [@ EXCEPT !.at = "done", !.peak = Peak]]

List(r) ==
  /\ Reply(r)
  /\ UNCHANGED <<alive, count, ticks, prev, spine, walk, measuring, sum, ring,
                 since, truth, unmetered, steady>>

Next ==
  \/ \E p \in Paths : Fault(p) \/ ComeOrGo(p) \/ ReadCounter(p)
  \/ BeginTick
  \/ \E c \in Classes \cup {NoClass} : EndTick(c)
  \/ Restart
  \/ \E r \in Readers : List(r)

Spec == Init /\ [][Next]_vars

-----------------------------------------------------------------------------
(* Properties                                                              *)

\* Harm is never invented: however cgroups come, go and reuse a path, and
\* however the daemon restarts, a tick never counts more faults than the units it
\* looked at took since the tick before (no scar, no wrap, no dead one's total).
NeverOverstates == sum.total <= truth

\* Nor missed for long: one refresh and one tick after the last change of the
\* tree, every fault of the spine is counted, in the tick it happened.
MeterIsExact ==
  ~measuring /\ steady = Settled => sum.total = truth /\ unmetered = {}

\* A tick that hurt says whom: the class it names took no less than an even
\* share of it, and no more than all.
WorstIsNamed ==
  \A i \in DOMAIN ring :
    LET s == ring[i] IN
      s.faults > 0 => /\ s.worst \in Classes
                      /\ s.took <= s.faults
                      /\ s.took * Cardinality(Classes) >= s.faults

\* The two numbers of a reply fit together although the loop ticks between the
\* two reads: what it shows as now is within what it shows as the worst of the
\* last minute, unless the reply took that minute.
ReplyIsConsistent ==
  \A r \in Readers :
    reply[r].at = "done" /\ reply[r].lag < Cap /\ reply[r].now # Unknown
      => reply[r].peak # Unknown /\ reply[r].now <= reply[r].peak
=============================================================================
