------------------------------- MODULE Favour -------------------------------
(***************************************************************************)
(* What attention is worth: the knobs that protect_foreground sets on the  *)
(* unit the user is with and unprotect_cgroup takes back, and the ceiling  *)
(* cap_active_sessions keeps on the others.  Three kinds of thread write   *)
(* them: focus reports and touches (Presence), the user's commands, and    *)
(* the loop's standing pass.  Every write is a step of its own.            *)
(*                                                                         *)
(* A unit's entry in the protection registry stands for its memory.min and *)
(* what goes with it; Protections has the tree that apply() computes.      *)
(***************************************************************************)
EXTENDS Presence

CONSTANTS
  Apps,        \* the units under an app.slice
  Heavy,       \* those of at least PER_SESSION_CAP_MIN_SCOPE
  Terminals,   \* the units never_freeze keeps from a user's command
  Mortal,      \* the units that may end
  Services,    \* those systemd starts again
  Commanded,   \* the units users send commands about
  Loop         \* the reconcile loop

ASSUME FavourAssumption ==
  /\ Apps \subseteq Scopes /\ Heavy \subseteq Scopes
  /\ Terminals \subseteq Scopes /\ Commanded \subseteq Scopes
  /\ Mortal \subseteq Scopes /\ Services \subseteq Scopes
  /\ Loop \notin Handlers

VARIABLES
  holds,    \* holds["pin"]: PROTECTIONS; "shield": oom_score_adj -1000; "boost": cpu.weight 1000
  high,     \* memory.high: "max", "standing" (the per-session cap) or "hand" (the user's)
  marked,   \* USER_CAPPED
  call,     \* what each thread is writing: [op, on, left]
  pass      \* what the loop's pass has still to visit: [spine, apps]

favourVars == <<holds, high, marked, call, pass>>
vars == <<presenceVars, favourVars>>

Held == {"pin", "shield", "boost"}
Threads == Handlers \cup {Loop}

\* What an operation writes, in this order: a protection's companions follow it,
\* and a command's mark follows the write.  (What protect_foreground thaws between
\* high and boost is in Ladder.)
Order == [pin |-> 1, shield |-> 2, high |-> 3, boost |-> 4, mark |-> 5]

Program == [favour  |-> {"pin", "shield", "high", "boost"},   \* protect_foreground
            release |-> {"pin", "shield", "boost"},           \* unprotect_cgroup
            protect |-> {"pin"},                              \* protect_cgroup
            keep    |-> {"pin", "shield"},                    \* protect_one
            bound   |-> {"high"},                             \* the pass, on an Active unit
            lift    |-> {"high"},                             \* the pass, on a Focused one
            cap     |-> {"high", "mark"},
            uncap   |-> {"high", "mark"}]

Calling(op, s) == [op |-> op, on |-> s, left |-> Program[op]]
NoCall == [op |-> "release", on |-> NoScope, left |-> {}]

FavourTypeOK ==
  /\ holds \in [Held -> SUBSET Scopes]
  /\ high \in [Scopes -> {"max", "standing", "hand"}]
  /\ marked \subseteq Scopes
  /\ call \in [Threads -> [op : DOMAIN Program, on : Scopes \cup {NoScope}, left : SUBSET DOMAIN Order]]
  /\ pass \in [spine : SUBSET Spine, apps : SUBSET Scopes]

\* Every variable holds a value of its type.
TypeOK == PresenceTypeOK /\ FavourTypeOK

Init ==
  /\ PresenceInit
  /\ holds = [k \in Held |-> {}]
  /\ high = [s \in Scopes |-> "max"]
  /\ marked = {}
  /\ call = [t \in Threads |-> NoCall]
  /\ pass = [spine |-> {}, apps |-> {}]

Calls(t) == call[t].left # {}

-----------------------------------------------------------------------------
(* One write.  It fails, and changes nothing, on a unit that has gone; what *)
(* apply() finds gone it also drops from the registry.                     *)

Due(t) == CHOOSE k \in call[t].left : \A j \in call[t].left : Order[k] <= Order[j]

Grants(op) == op \in {"favour", "protect", "keep"}

HoldsAfter(k, op, s) ==
  IF Grants(op) THEN holds[k] \cup ({s} \cap alive) ELSE holds[k] \ {s}

Ceiling(op) == CASE op = "bound" -> "standing"
                 [] op = "cap"   -> "hand"
                 [] OTHER        -> "max"

\* A command that failed is not marked; mark_user_capped runs after the write.
WriteKnob(k, op, s) ==
  /\ holds' = CASE k = "pin"               -> [holds EXCEPT !["pin"] = HoldsAfter(k, op, s) \cap alive]
                [] k \in {"shield", "boost"} -> [holds EXCEPT ![k] = HoldsAfter(k, op, s)]
                [] OTHER                   -> holds
  /\ high' = IF k = "high" /\ s \in alive THEN [high EXCEPT ![s] = Ceiling(op)] ELSE high
  /\ marked' = IF k = "mark" THEN marked \cup {s} ELSE marked

\* What is left of t's call once k is written.
Remaining(t, k) ==
  IF call[t].op \in {"cap", "uncap"} /\ call[t].on \notin alive THEN {} ELSE call[t].left \ {k}

\* protect_one goes on to the -1000 only if memory.min reads back as written,
\* which an apply() of another thread in progress may spoil.
SpoiledBy(t) == \E u \in Threads \ {t} : "pin" \in call[u].left

Advance(t, left) == call' = [call EXCEPT ![t] = IF left = {} THEN NoCall ELSE [@ EXCEPT !.left = left]]

\* Any write but the last of protect_foreground, which answers the request.
Write(t) ==
  /\ Calls(t)
  /\ LET k == Due(t) IN
       /\ Remaining(t, k) # {} \/ call[t].op # "favour"
       /\ WriteKnob(k, call[t].op, call[t].on)
       /\ Advance(t, Remaining(t, k))
  /\ UNCHANGED <<presenceVars, pass>>

ReadBackFails ==
  /\ call[Loop].left = Program["keep"]
  /\ call[Loop].op = "keep"
  /\ SpoiledBy(Loop)
  /\ WriteKnob("pin", "keep", call[Loop].on)
  /\ Advance(Loop, {})
  /\ UNCHANGED <<presenceVars, pass>>

\* The last write of protect_foreground ends the request: do_foreground records
\* the scope and drops the lock, do_touch answers.
Complete(h) ==
  /\ Calls(h)
  /\ call[h].op = "favour"
  /\ call[h].left = {Due(h)}
  /\ WriteKnob(Due(h), "favour", call[h].on)
  /\ Advance(h, {})
  /\ FocusPin(h) \/ TouchPin(h)
  /\ UNCHANGED pass

-----------------------------------------------------------------------------
(* do_foreground and do_touch: what runs between their steps in Presence.  *)

Starts(h, op, s) == call' = [call EXCEPT ![h] = Calling(op, s)]

\* Defect: the swap does not wait for the lock.
LeavePreviousUnlocked(h) ==
  /\ req[h].at = "swap" /\ foreground # req[h].scope
  /\ req' = [req EXCEPT ![h].at = "pin"]
  /\ IF foreground = NoScope THEN UNCHANGED call ELSE Starts(h, "release", foreground)
  /\ UNCHANGED <<alive, fgPid, foreground, live, holds, high, marked, pass>>

LeavePrevious(h) ==
  /\ FocusRelease(h)
  /\ IF foreground = NoScope THEN UNCHANGED call ELSE Starts(h, "release", foreground)
  /\ UNCHANGED <<holds, high, marked, pass>>

\* One of the sessions the human has moved on from.
HandBack(h, p) ==
  /\ TouchRelease(h, p)
  /\ Starts(h, "release", p)
  /\ UNCHANGED <<holds, high, marked, pass>>

BeginFavour(h) ==
  /\ req[h].at = "pin" \/ (req[h].at = "release" /\ req[h].drop = {})
  /\ Starts(h, "favour", req[h].scope)
  /\ UNCHANGED <<presenceVars, holds, high, marked, pass>>

Attend(h) ==
  /\ ~Calls(h)
  /\ \/ /\ FocusThaw(h) \/ FocusUnchanged(h)
        /\ UNCHANGED favourVars
     \/ LeavePrevious(h)
     \/ \E p \in Scopes : HandBack(h, p)
     \/ BeginFavour(h)

\* A request arrives.
Report(h) ==
  /\ ~Calls(h)
  /\ \/ \E w \in Windows : FocusStore(h, w)
     \/ \E s \in Typists : Touch(h, s)
  /\ UNCHANGED favourVars

-----------------------------------------------------------------------------
(* do_act: protect, unprotect, cap, uncap.                                 *)

NeverFreeze == Spine \cup Terminals
Permitted(s) == ({s} \cup Above[s]) \cap NeverFreeze = {}

\* uncap only undoes a limit and is not gated.
Command(h, op, s) ==
  /\ req[h].at = "idle" /\ ~Calls(h)
  /\ op \in {"protect", "release", "cap", "uncap"}
  /\ s \in alive
  /\ op = "uncap" \/ Permitted(s)
  /\ Starts(h, op, s)
  /\ UNCHANGED <<presenceVars, holds, high, marked, pass>>

-----------------------------------------------------------------------------
(* The standing pass, every 30 ticks: protect_critical_services, then      *)
(* cap_active_sessions.                                                    *)

\* list_apps, of what is under an app.slice.
ListApps == Apps \cap Heavy \cap alive

BeginPass ==
  /\ ~Calls(Loop) /\ pass = [spine |-> {}, apps |-> {}]
  /\ pass' = [spine |-> Spine \cap alive, apps |-> ListApps]
  /\ UNCHANGED <<presenceVars, holds, high, marked, call>>

\* Defect: what was protected once is not asserted again.
KeepSpineLatched(s) ==
  /\ ~Calls(Loop)
  /\ s \in pass.spine
  /\ pass' = [pass EXCEPT !.spine = @ \ {s}]
  /\ IF s \in holds["pin"] THEN UNCHANGED call ELSE Starts(Loop, "keep", s)
  /\ UNCHANGED <<presenceVars, holds, high, marked>>

KeepSpine(s) ==
  /\ ~Calls(Loop)
  /\ s \in pass.spine
  /\ pass' = [pass EXCEPT !.spine = @ \ {s}]
  /\ Starts(Loop, "keep", s)
  /\ UNCHANGED <<presenceVars, holds, high, marked>>

\* Defect: the cap of a unit that came into focus is left for protect_foreground.
VerdictNoLift(s) == "bound"

\* Active is bounded, Focused is released.
Verdict(s) == IF ProtectedFromEviction(s) THEN "lift" ELSE "bound"

CapLook(s) ==
  /\ ~Calls(Loop) /\ pass.spine = {}
  /\ s \in pass.apps
  /\ pass' = [pass EXCEPT !.apps = @ \ {s}]
  /\ IF s \in marked THEN UNCHANGED call ELSE Starts(Loop, Verdict(s), s)
  /\ UNCHANGED <<presenceVars, holds, high, marked>>

LoopStep ==
  \/ BeginPass
  \/ \E s \in Scopes : KeepSpine(s) \/ CapLook(s)
  \/ Write(Loop) \/ ReadBackFails

HandlerStep(h) == Attend(h) \/ Write(h) \/ Complete(h)

-----------------------------------------------------------------------------
(* Time, and the units themselves.                                         *)

Elapse ==
  /\ \E i \in DOMAIN live : live[i].left > 0
  /\ live' = Aged
  /\ UNCHANGED <<alive, fgPid, foreground, req, favourVars>>

\* The processes and the cgroup go, with all but the daemon's own records.
End(s) ==
  /\ s \in Mortal
  /\ Leave(s)
  /\ holds' = [k \in Held |-> IF k = "pin" THEN holds[k] ELSE holds[k] \ Subtree(s)]
  /\ high' = [t \in Scopes |-> IF t \in Subtree(s) THEN "max" ELSE high[t]]
  /\ UNCHANGED <<fgPid, foreground, live, req, marked, call, pass>>

Restart(s) ==
  /\ s \in Services
  /\ Return(s)
  /\ UNCHANGED <<fgPid, foreground, live, req, favourVars>>

Next ==
  \/ LoopStep
  \/ \E h \in Handlers :
       \/ HandlerStep(h)
       \/ Report(h)
       \/ \E op \in DOMAIN Program, s \in Commanded : Command(h, op, s)
  \/ Elapse
  \/ \E s \in Scopes : End(s) \/ Restart(s)

Spec == Init /\ [][Next]_vars

\* The loop runs, and so does every thread once it has a request.
Fairness == WF_vars(LoopStep) /\ \A h \in Handlers : WF_vars(HandlerStep(h))

FairSpec == Spec /\ Fairness

-----------------------------------------------------------------------------
(* Properties                                                              *)

AtRest == Quiescent /\ \A t \in Threads : ~Calls(t)

\* The scope recorded as the foreground has everything protect_foreground gives,
\* however the reports of several threads overlap: the previous one is released
\* and the new one favoured under one lock.  Left out are the units a touch, a
\* command or a restart may also write about.
FocusIsFavoured ==
  AtRest /\ foreground \in alive \ (Typists \cup Commanded \cup Services)
    => \A k \in Held : foreground \in holds[k]

\* The -1000 does not spread: of the units that only focus favours, at most one has
\* anything of it at any moment, however the reports of several threads overlap.
\* The window left has lost all before the next one is given the first.
OneInFront ==
  \A u, v \in Scopes \ (Spine \cup Typists \cup Commanded) :
    (\E j, k \in Held : u \in holds[j] /\ v \in holds[k]) => u = v

\* The per-session cap follows attention: once the threads are quiet, an app the
\* user is with ends uncapped and every other large one capped, unless the user
\* has set its cap by hand.
CapsFollowAttention ==
  \A s \in Apps \cap Heavy :
    LET Settled == s \in alive \ marked /\ \A h \in Handlers : ~Calls(h)
    IN /\ <>[](Settled /\ ProtectedFromEviction(s)) => <>[](high[s] = "max")
       /\ <>[](Settled /\ ~ProtectedFromEviction(s)) => <>[](high[s] = "standing")

\* Protection is a standing obligation: a unit of the spine that was restarted
\* gets its memory.min and its -1000 back.
SpineIsKept ==
  \A s \in Spine :
    <>[](s \in alive /\ \A h \in Handlers : ~Calls(h))
      => <>[](s \in holds["pin"] \cap holds["shield"])
=============================================================================
