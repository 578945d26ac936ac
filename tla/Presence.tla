------------------------------ MODULE Presence ------------------------------
(***************************************************************************)
(* Who the user is with, as the daemon knows it: the control of the two    *)
(* request handlers of ipc.rs that report attention, do_foreground and     *)
(* do_touch, and the statics they write.  Each connection runs on a thread *)
(* of its own, so the steps of two handlers interleave with each other and *)
(* with the reconcile loop.                                                *)
(*                                                                         *)
(* This module has the control only (the statics, the locks and the order  *)
(* of the steps).  What a step does to the kernel's knobs is conjoined by  *)
(* the module that owns the knob: Ladder for cgroup.freeze and             *)
(* oom_score_adj, Favour for the protection, the caps and the CPU weight.  *)
(***************************************************************************)
EXTENDS Naturals, Sequences, FiniteSets

CONSTANTS
  Scopes,        \* the systemd units (cgroups) of the machine
  Spine,         \* the hard-exempt ones: compositor, bus, audio, the daemon
  Above,         \* Above[s]: the units whose cgroup contains s
  Windows,       \* the windows (pids) a focus report can name
  WindowScope,   \* WindowScope[w]: the cgroup of the window's pid
  WindowKin,     \* WindowKin[w]: the units hosting a descendant of that pid
  Typists,       \* the units whose processes send a touch
  Handlers,      \* the connection threads
  MaxLive,       \* MAX_LIVE
  TouchTTL,      \* TOUCH_TTL, in ticks of the reconcile loop
  NoScope,
  NoWindow

ASSUME PresenceAssumption ==
  /\ Spine \subseteq Scopes
  /\ Typists \subseteq Scopes
  /\ Above \in [Scopes -> SUBSET Scopes]
  /\ WindowScope \in [Windows -> Scopes]
  /\ WindowKin \in [Windows -> SUBSET Scopes]
  /\ MaxLive \in Nat \ {0}
  /\ TouchTTL \in Nat \ {0}
  /\ NoScope \notin Scopes
  /\ NoWindow \notin Windows

VARIABLES
  alive,        \* the units that exist
  fgPid,        \* FOREGROUND_PID
  foreground,   \* FOREGROUND
  live,         \* LIVE, newest first: [cg, left], left = ticks to expiry
  req           \* each thread's request: [at, scope, drop]

presenceVars == <<alive, fgPid, foreground, live, req>>

Idle == [at |-> "idle", scope |-> NoScope, drop |-> {}]

PresenceTypeOK ==
  /\ alive \subseteq Scopes
  /\ fgPid \in Windows \cup {NoWindow}
  /\ foreground \in Scopes \cup {NoScope}
  /\ live \in Seq([cg : Scopes, left : 0 .. TouchTTL])
  /\ Len(live) <= MaxLive
  /\ req \in [Handlers -> [at : {"idle", "thaw", "swap", "pin", "release"},
                           scope : Scopes \cup {NoScope},
                           drop : SUBSET Scopes]]

PresenceInit ==
  /\ alive = Scopes
  /\ fgPid = NoWindow
  /\ foreground = NoScope
  /\ live = <<>>
  /\ req = [h \in Handlers |-> Idle]

-----------------------------------------------------------------------------
(* What the classifier asks of these statics.                              *)

\* The window's own cgroup, or one hosting a process descended from its pid;
\* nothing once the window's process is gone.
ForegroundRelated(s) ==
  /\ fgPid # NoWindow
  /\ WindowScope[fgPid] \in alive
  /\ s = WindowScope[fgPid] \/ s \in WindowKin[fgPid]

\* An unexpired touch of s, or of a cgroup under s.
TouchedRecently(s) ==
  \E i \in DOMAIN live :
    /\ live[i].left > 0
    /\ live[i].cg = s \/ s \in Above[live[i].cg]

\* Class Guaranteed or Focused.
ProtectedFromEviction(s) ==
  s \in Spine \/ ForegroundRelated(s) \/ TouchedRecently(s)

-----------------------------------------------------------------------------
(* do_foreground: store the pid, revive what the focus owns, then swap the *)
(* favoured scope under the FOREGROUND lock.                               *)

FocusStore(h, w) ==
  /\ req[h].at = "idle"
  /\ fgPid' = w
  /\ req' = IF WindowScope[w] \in alive \ Spine
              THEN [req EXCEPT ![h] = [at |-> "thaw", scope |-> WindowScope[w], drop |-> {}]]
              ELSE req
  /\ UNCHANGED <<alive, foreground, live>>

FocusThaw(h) ==
  /\ req[h].at = "thaw"
  /\ req' = [req EXCEPT ![h].at = "swap"]
  /\ UNCHANGED <<alive, fgPid, foreground, live>>

\* A thread at "pin" is inside the FOREGROUND critical section.
ForegroundLocked == \E h \in Handlers : req[h].at = "pin"

FocusUnchanged(h) ==
  /\ req[h].at = "swap"
  /\ ~ForegroundLocked
  /\ foreground = req[h].scope
  /\ req' = [req EXCEPT ![h] = Idle]
  /\ UNCHANGED <<alive, fgPid, foreground, live>>

\* Takes the lock and unprotects the previous scope (foreground), if any.
FocusRelease(h) ==
  /\ req[h].at = "swap"
  /\ ~ForegroundLocked
  /\ foreground # req[h].scope
  /\ req' = [req EXCEPT ![h].at = "pin"]
  /\ UNCHANGED <<alive, fgPid, foreground, live>>

\* Protects the new scope, records it and drops the lock.
FocusPin(h) ==
  /\ req[h].at = "pin"
  /\ foreground' = req[h].scope
  /\ req' = [req EXCEPT ![h] = Idle]
  /\ UNCHANGED <<alive, fgPid, live>>

-----------------------------------------------------------------------------
(* do_touch: re-rank the caller in LIVE under its lock, then unprotect     *)
(* what fell out and protect the caller, outside it.                       *)

\* live.retain: the places of the unexpired entries of other scopes.
Retained(s) == {i \in DOMAIN live : live[i].cg # s /\ live[i].left > 0}

\* The n-th smallest of the numbers S.
Nth(S, n) == CHOOSE i \in S : Cardinality({j \in S : j <= i}) = n

\* The caller in front, then what is retained in its order.
Reranked(s) ==
  [n \in 1 .. Cardinality(Retained(s)) + 1 |->
     IF n = 1 THEN [cg |-> s, left |-> TouchTTL] ELSE live[Nth(Retained(s), n - 1)]]

\* Defect: the list is never cut to MAX_LIVE.
TruncatedNever(s) == Reranked(s)

Truncated(s) ==
  IF Len(Reranked(s)) > MaxLive THEN SubSeq(Reranked(s), 1, MaxLive) ELSE Reranked(s)

Listed(q) == {q[i].cg : i \in DOMAIN q}

\* Defect: what aged out of the list is dropped without a word.
FallenOutPushed(s) ==
  {live[i].cg : i \in {j \in DOMAIN live : live[j].left > 0}} \ Listed(Truncated(s))

\* Aged out, or pushed past MAX_LIVE.
FallenOut(s) == Listed(live) \ Listed(Truncated(s))

Touch(h, s) ==
  /\ req[h].at = "idle"
  /\ s \in alive
  /\ live' = Truncated(s)
  /\ req' = [req EXCEPT ![h] = [at    |-> "release",
                                scope |-> s,
                                drop  |-> FallenOut(s)]]
  /\ UNCHANGED <<alive, fgPid, foreground>>

TouchRelease(h, p) ==
  /\ req[h].at = "release"
  /\ p \in req[h].drop
  /\ req' = [req EXCEPT ![h].drop = @ \ {p}]
  /\ UNCHANGED <<alive, fgPid, foreground, live>>

TouchPin(h) ==
  /\ req[h].at = "release"
  /\ req[h].drop = {}
  /\ req' = [req EXCEPT ![h] = Idle]
  /\ UNCHANGED <<alive, fgPid, foreground, live>>

-----------------------------------------------------------------------------
(* Time and the processes themselves.                                      *)

\* One tick of the clock the touch instants are compared with.  An expired
\* entry stays in LIVE until the next touch drops it.
Aged == [i \in DOMAIN live |-> [live[i] EXCEPT !.left = IF @ = 0 THEN 0 ELSE @ - 1]]

\* The unit and those nested in it.
Subtree(s) == {t \in Scopes : s \in {t} \cup Above[t]}

\* The unit's processes end and systemd removes its cgroup, with what is below.
Leave(s) ==
  /\ s \in alive
  /\ alive' = alive \ Subtree(s)

\* systemd starts the unit again: a fresh cgroup under the same path.
Return(s) ==
  /\ s \notin alive
  /\ Above[s] \subseteq alive
  /\ alive' = alive \cup {s}

\* A restart of the daemon: its statics and threads start over.
Forget ==
  /\ fgPid' = NoWindow
  /\ foreground' = NoScope
  /\ live' = <<>>
  /\ req' = [h \in Handlers |-> Idle]

Quiescent == \A h \in Handlers : req[h].at = "idle"
=============================================================================
