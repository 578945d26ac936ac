---------------------------- MODULE Protections ----------------------------
(***************************************************************************)
(* The registry of memory.min protections (guard.rs): PROTECTIONS, TOUCHED *)
(* and the recomputation of the tree that set_protection and               *)
(* clear_protection end in.  The reconcile loop, every connection thread   *)
(* and the HUD's commands call them at the same time.  There are two locks,*)
(* held one after the other: the registry's, which each access takes for   *)
(* one step, and TOUCHED's, held over all the writes of one apply().       *)
(***************************************************************************)
EXTENDS Naturals, FiniteSets

CONSTANTS
  Cgroups,    \* the cgroups below CGROUP_BASE
  Leaves,     \* those a caller may protect
  Up,         \* Up[c]: c and the cgroups above it, up to the base
  Values,     \* the amounts asked for, page-aligned
  Threads,    \* whoever calls: the loop and the connection threads
  Keeper,     \* the thread of the loop, which re-asserts the spine
  Kept,       \* the spine's leaves
  Mortal,     \* the leaves whose processes may exit
  Returning,  \* the leaves that systemd may start again
  Nobody

ASSUME ProtectionsAssumption ==
  /\ Leaves \subseteq Cgroups /\ Kept \subseteq Leaves
  /\ Mortal \subseteq Leaves /\ Returning \subseteq Mortal
  /\ Up \in [Cgroups -> SUBSET Cgroups]
  /\ \A c \in Cgroups : c \in Up[c] /\ \A d \in Up[c] : Up[d] \subseteq Up[c]
  \* Slices stay: only a cgroup with nothing below it comes and goes.
  /\ \A c \in Cgroups : Up[c] \cap Mortal \subseteq {c}
  /\ Values \subseteq Nat
  /\ Keeper \in Threads
  /\ Nobody \notin Threads \cup Cgroups

VARIABLES
  alive,      \* the cgroups that exist
  registry,   \* PROTECTIONS: a function from the protected leaves
  touched,    \* TOUCHED
  holder,     \* the thread that holds TOUCHED's lock
  call,       \* each thread's call: [at, op, leaf, val, want, todo]
  min,        \* memory.min
  avoid,      \* the cgroups with user.oomd_avoid
  pinned      \* the cgroups with memory.swap.max = 0

shared == <<registry, touched, holder>>
kernel == <<alive, min, avoid, pinned>>
vars == <<shared, kernel, call>>

Nothing == [c \in {} |-> 0]
Idle == [at |-> "idle", op |-> "set", leaf |-> Nobody, val |-> 0, want |-> Nothing, todo |-> {}]

\* Functions from some of S.
Partial(S) == UNION {[D -> Values] : D \in SUBSET S}

Calls == [at : {"idle", "unavoid", "snap", "lock", "write", "avoid", "swap"},
          op : {"set", "clear"},
          leaf : Leaves \cup {Nobody},
          val : Values \cup {0},
          want : Partial(Cgroups),
          todo : SUBSET Cgroups]

\* Every variable holds a value of its type.
TypeOK ==
  /\ alive \subseteq Cgroups
  /\ registry \in Partial(Leaves)
  /\ touched \subseteq Cgroups
  /\ holder \in Threads \cup {Nobody}
  /\ min \in [Cgroups -> Values \cup {0}]
  /\ avoid \subseteq Leaves /\ pinned \subseteq Leaves
  /\ call \in [Threads -> Calls]

Init ==
  /\ alive = Cgroups
  /\ registry = Nothing
  /\ touched = {}
  /\ holder = Nobody
  /\ call = [t \in Threads |-> Idle]
  /\ min = [c \in Cgroups |-> 0]
  /\ avoid = {} /\ pinned = {}

Without(f, S) == [c \in DOMAIN f \ S |-> f[c]]
At(f, c) == IF c \in DOMAIN f THEN f[c] ELSE 0

\* Defect: a parent carries some child's protection, not the largest.
DesiredAny(want, prot) ==
  /\ DOMAIN want = UNION {Up[l] : l \in DOMAIN prot}
  /\ \A c \in DOMAIN want : \E l \in DOMAIN prot : c \in Up[l] /\ want[c] = prot[l]

\* desired_min_map: a leaf and everything above it carry the largest protection
\* passing through them.
Desired(want, prot) ==
  /\ DOMAIN want = UNION {Up[l] : l \in DOMAIN prot}
  /\ \A c \in DOMAIN want :
       /\ \E l \in DOMAIN prot : c \in Up[l] /\ want[c] = prot[l]
       /\ \A l \in DOMAIN prot : c \in Up[l] => prot[l] <= want[c]

-----------------------------------------------------------------------------
(* set_protection and clear_protection, up to apply().                     *)

SetBegin(t, l, v) ==
  /\ call[t].at = "idle"
  /\ registry' = [c \in DOMAIN registry \cup {l} |-> IF c = l THEN v ELSE registry[c]]
  /\ call' = [call EXCEPT ![t] = [Idle EXCEPT !.at = "snap", !.leaf = l, !.val = v]]
  /\ UNCHANGED <<touched, holder, kernel>>

\* Defect: clear_protection leaves user.oomd_avoid set.
ClearBeginAvoiding(t, l) ==
  /\ call[t].at = "idle"
  /\ registry' = Without(registry, {l})
  /\ call' = [call EXCEPT ![t] = [Idle EXCEPT !.at = "snap", !.op = "clear", !.leaf = l]]
  /\ UNCHANGED <<touched, holder, kernel>>

ClearBegin(t, l) ==
  /\ call[t].at = "idle"
  /\ registry' = Without(registry, {l})
  /\ call' = [call EXCEPT ![t] = [Idle EXCEPT !.at = "unavoid", !.op = "clear", !.leaf = l]]
  /\ UNCHANGED <<touched, holder, kernel>>

\* Defect: clear_protection does not recompute the tree.
UnavoidOnly(t) ==
  /\ call[t].at = "unavoid"
  /\ avoid' = avoid \ {call[t].leaf}
  /\ call' = [call EXCEPT ![t] = Idle]
  /\ UNCHANGED <<shared, alive, min, pinned>>

Unavoid(t) ==
  /\ call[t].at = "unavoid"
  /\ avoid' = avoid \ {call[t].leaf}
  /\ call' = [call EXCEPT ![t].at = "snap"]
  /\ UNCHANGED <<shared, alive, min, pinned>>

-----------------------------------------------------------------------------
(* apply                                                                   *)

\* Under the registry's lock: drop the leaves that are gone, compute the map.
Snapshot(t, want) ==
  /\ call[t].at = "snap"
  /\ registry' = Without(registry, Leaves \ alive)
  /\ Desired(want, registry')
  /\ call' = [call EXCEPT ![t] = [@ EXCEPT !.at = "lock", !.want = want]]
  /\ UNCHANGED <<touched, holder, kernel>>

\* Defect: what was protected before and no longer is stays as it is.
ToWriteWanted(t) == DOMAIN call[t].want

ToWrite(t) == DOMAIN call[t].want \cup touched

Acquire(t) ==
  /\ call[t].at = "lock"
  /\ holder = Nobody
  /\ holder' = t
  /\ call' = [call EXCEPT ![t] = [@ EXCEPT !.at = "write", !.todo = ToWrite(t)]]
  /\ UNCHANGED <<registry, touched, kernel>>

\* Defect: the amount is added to what is there.
AmountAdded(t, c) == min[c] + At(call[t].want, c)

Amount(t, c) == At(call[t].want, c)

\* One write, in the maps' arbitrary order: what is wanted first, then the
\* zeroes.  A write to a cgroup that has gone fails and is ignored.
Write(t, c) ==
  /\ call[t].at = "write"
  /\ c \in call[t].todo
  /\ c \in DOMAIN call[t].want \/ call[t].todo \cap DOMAIN call[t].want = {}
  /\ min' = IF c \in alive THEN [min EXCEPT ![c] = Amount(t, c)] ELSE min
  /\ call' = [call EXCEPT ![t].todo = @ \ {c}]
  /\ UNCHANGED <<shared, alive, avoid, pinned>>

Finish(t) ==
  /\ call[t].at = "write"
  /\ call[t].todo = {}
  /\ touched' = DOMAIN call[t].want
  /\ holder' = Nobody
  /\ call' = [call EXCEPT
                ![t] = CASE call[t].op = "clear" -> Idle
                         [] call[t].op = "set" /\ call[t].val > 0 -> [@ EXCEPT !.at = "avoid"]
                         [] OTHER -> [@ EXCEPT !.at = "swap"]]
  /\ UNCHANGED <<registry, kernel>>

-----------------------------------------------------------------------------
(* The rest of set_protection.                                             *)

Avoid(t) ==
  /\ call[t].at = "avoid"
  /\ avoid' = avoid \cup ({call[t].leaf} \cap alive)
  /\ call' = [call EXCEPT ![t].at = "swap"]
  /\ UNCHANGED <<shared, alive, min, pinned>>

\* fits: the footprint is at most an eighth of RAM at this instant.
SwapPinned(t, fits) == call[t].val > 0 /\ fits

SwapDoor(t, fits) ==
  /\ call[t].at = "swap"
  /\ pinned' = IF SwapPinned(t, fits) THEN pinned \cup ({call[t].leaf} \cap alive)
                                     ELSE pinned \ {call[t].leaf}
  /\ call' = [call EXCEPT ![t] = Idle]
  /\ UNCHANGED <<shared, alive, min, avoid>>

Finishing(t) ==
  \/ Unavoid(t)
  \/ \E want \in [UNION {Up[l] : l \in DOMAIN registry \cap alive} -> Values] : Snapshot(t, want)
  \/ Acquire(t)
  \/ \E c \in Cgroups : Write(t, c)
  \/ Finish(t)
  \/ Avoid(t)
  \/ \E fits \in BOOLEAN : SwapDoor(t, fits)

\* The units SPINE's names match, among those that are up.
SpineCgroups == Kept \cap alive

\* Defect: a protection that once landed is not asserted again.
KeepLatched == \E l \in SpineCgroups \ DOMAIN registry, v \in Values : SetBegin(Keeper, l, v)

\* protect_critical_services, on the loop.
Keep == \E l \in SpineCgroups, v \in Values : SetBegin(Keeper, l, v)

\* Pins, focus, touches and commands, on the connection threads.
Serve ==
  \E t \in Threads \ {Keeper}, l \in Leaves \ Kept :
    \/ l \in alive /\ \E v \in Values : SetBegin(t, l, v)
    \/ ClearBegin(t, l)

Exit(l) ==
  /\ l \in Mortal \cap alive
  /\ alive' = alive \ {l}
  /\ min' = [min EXCEPT ![l] = 0]
  /\ avoid' = avoid \ {l}
  /\ pinned' = pinned \ {l}
  /\ UNCHANGED <<shared, call>>

Return(l) ==
  /\ l \in Returning \ alive
  /\ alive' = alive \cup {l}
  /\ UNCHANGED <<shared, call, min, avoid, pinned>>

Next ==
  \/ Keep
  \/ Serve
  \/ \E t \in Threads : Finishing(t)
  \/ \E l \in Leaves : Exit(l) \/ Return(l)

Spec == Init /\ [][Next]_vars

\* A call once begun runs on while the lock is free or it holds it, and the loop
\* re-asserts the spine every 30 ticks.
Fairness == WF_vars(Keep) /\ \A t \in Threads : WF_vars(Finishing(t))
FairSpec == Spec /\ Fairness

\* The daemon dies and starts again: its statics are empty, the kernel's are not.
Crash ==
  /\ registry' = Nothing /\ touched' = {} /\ holder' = Nobody
  /\ call' = [t \in Threads |-> Idle]
  /\ UNCHANGED kernel
CrashSpec == Init /\ [][Next \/ Crash]_vars

-----------------------------------------------------------------------------
(* Properties                                                              *)

AtRest == \A t \in Threads : call[t].at = "idle"

\* Every cgroup with a memory.min is in TOUCHED, or is being written by the
\* apply() in progress, so the next recomputation can take it back: no residue
\* is left on a slice, in whatever order the calls overlap.
ResidueIsTracked ==
  {c \in Cgroups : min[c] > 0}
    \subseteq touched \cup (IF holder = Nobody THEN {} ELSE DOMAIN call[holder].want)

\* desired_min_map: "the kernel needs a parent's memory.min >= its protected
\* child's".  It holds whenever no recomputation is half way, stale or not.
ParentsCover ==
  holder = Nobody => \A c \in alive : \A d \in Up[c] : min[c] <= min[d]

\* PROTECTIONS is the "single source of truth for every memory.min protection
\* we set": the tree is what the registry asks for.
MatchesRegistry ==
  \A c \in alive :
    /\ \A l \in DOMAIN registry : c \in Up[l] => registry[l] <= min[c]
    /\ min[c] > 0 => \E l \in DOMAIN registry : c \in Up[l] /\ registry[l] = min[c]

\* unprotect_cgroup: "Release a protection *fully*"; set_protection: "Releasing a
\* protection re-opens the swap door".
SwapReopens == AtRest => pinned \subseteq DOMAIN registry

\* A recomputation from a stale snapshot is repaired by the loop's next pass:
\* once the other threads are quiet and the units up, every leaf they protected
\* has its floor.
StaleIsRepaired ==
  <>[]((\A t \in Threads \ {Keeper} : call[t].at = "idle") /\ Leaves \subseteq alive)
    => <>[](\A l \in Leaves \ Kept : min[l] = At(registry, l))
=============================================================================
