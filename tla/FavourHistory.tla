--------------------------- MODULE FavourHistory ---------------------------
(***************************************************************************)
(* Favour with history variables for what the user asked by hand, for the  *)
(* touches that one of another thread overtook, and for the units whose    *)
(* ceiling has been nobody's affair since the pass looked.                 *)
(***************************************************************************)
EXTENDS Favour

VARIABLES
  byHand,   \* the units pinned by a command and not released since
  overtaken,\* the units that fell out of LIVE while a touch of theirs was still
            \* being served, and have not been listed again since
  chosen,   \* the ceiling the last command about a unit set, "none" if none did
  judged    \* the units that live, are of the class the pass found them in, and
            \* whose ceiling no other thread was about to write since it looked

history == <<byHand, overtaken, chosen, judged>>

HistoryInit ==
  /\ Init
  /\ byHand = {} /\ overtaken = {} /\ judged = {}
  /\ chosen = [s \in Scopes |-> "none"]

\* The call t is in has just written k of unit s.
Wrote(t, k, op, s) ==
  /\ call[t].op = op /\ call[t].on = s
  /\ k \in call[t].left /\ k \notin call'[t].left

\* t is in a call that has still to write the ceiling of s.
AboutToLimit(t, s) == call[t].on = s /\ "high" \in call[t].left

\* The units of the touches that a thread is serving.
Served == {req[h].scope : h \in {g \in Handlers : req[g].at = "release"}}

Record ==
  /\ byHand' = {s \in Scopes :
                  \/ \E t \in Threads : Wrote(t, "pin", "protect", s)
                  \/ s \in byHand /\ ~\E t \in Threads : Wrote(t, "pin", "release", s)}
  /\ overtaken' = (overtaken \cup (Listed(live) \cap Served)) \ Listed(live')
  /\ chosen' = [s \in Scopes |->
                  CASE s \notin alive'                                  -> "none"
                    [] \E t \in Threads : Wrote(t, "mark", "cap", s)   -> "hand"
                    [] \E t \in Threads : Wrote(t, "mark", "uncap", s) -> "max"
                    [] OTHER                                            -> chosen[s]]
  /\ judged' = {s \in alive' :
                  /\ s \in judged \/ s \in (pass.apps \ pass'.apps) \ marked
                  /\ ProtectedFromEviction(s)' <=> ProtectedFromEviction(s)
                  /\ \A h \in Handlers : ~AboutToLimit(h, s)'}

HistorySpec == HistoryInit /\ [][Next /\ Record]_<<vars, history>>

HistoryFairSpec == HistorySpec /\ Fairness

\* Nothing keeps what the foreground, an entry of LIVE, a command or the spine
\* table does not account for, however reports, touches and commands overlap: an
\* accumulating set of -1000 leaves would leave the OOM killer only the session.
\* The one way past it is a touch overtaken by another thread's: do_touch protects
\* its caller outside the lock of LIVE, and may come after the hand-back.
DroppedIsReleased ==
  AtRest => \A k \in Held :
    holds[k] \subseteq {foreground} \cup Listed(live) \cup Spine \cup overtaken
                          \cup (IF k = "pin" THEN byHand ELSE {})

\* The pass writes later than it looks, and focus moves in between.  What it
\* judged stands all the same: unless the unit has changed class since, or a
\* request or a command was about to write its ceiling, it has the ceiling its
\* class calls for from the pass's write on, whatever else is in progress.
JudgedIsEnforced ==
  \A s \in judged :
    AboutToLimit(Loop, s) \/ high[s] = (IF ProtectedFromEviction(s) THEN "max" ELSE "standing")

-----------------------------------------------------------------------------
(* What the repository's own text says of these steps.                     *)

\* ipc.rs, USER_CAPPED: a user who capped or freed a unit by hand "keeps that
\* choice until the scope ends or the daemon restarts".
HandChoiceStands ==
  AtRest => \A s \in alive : chosen[s] \in {"none", high[s]}
=============================================================================
