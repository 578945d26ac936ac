------------------------ MODULE ProtectionsHistory -------------------------
(***************************************************************************)
(* Protections with history variables that record which calls overlapped,  *)
(* so that what holds after calls that did not can be stated.              *)
(***************************************************************************)
EXTENDS Protections

VARIABLES
  alone,   \* the last call to begin met no other, and no leaf came back since
  mixed    \* the leaves whose last call met another on the leaf, or its exit

history == <<alone, mixed>>

HistoryInit == Init /\ alone = TRUE /\ mixed = {}

Busy == {t \in Threads : call[t].at # "idle"}
Began(t) == t \notin Busy /\ call'[t].at # "idle"
BusyWith(l) == \E t \in Busy : call[t].leaf = l
BeganWith(l) == \E t \in Threads : Began(t) /\ call'[t].leaf = l

Record ==
  /\ alone' = IF \E t \in Threads : Began(t) THEN Busy = {} ELSE alone /\ alive' \subseteq alive
  /\ mixed' = {l \in Leaves : IF BeganWith(l) \/ l \in alive \ alive'
                                THEN BusyWith(l)
                                ELSE l \in mixed}

HistorySpec == HistoryInit /\ [][Next /\ Record]_<<vars, history>>

HistoryFairSpec == HistorySpec /\ Fairness

\* apply() recomputes the whole tree: whatever overlapping calls wrote before,
\* one call that overlaps none leaves the tree as the registry asks for it.
LoneCallRestores == AtRest /\ alone => MatchesRegistry

\* The preference given to systemd-oomd goes with the protection, on every leaf
\* whose last call did not overlap another on it.
AvoidMatchesRegistry == AtRest => avoid \ mixed \subseteq DOMAIN registry
=============================================================================
