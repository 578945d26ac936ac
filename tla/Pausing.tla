------------------------------ MODULE Pausing ------------------------------
(***************************************************************************)
(* What the freeze rung promises, whatever the ladder does to decide:      *)
(* pauses are entered in a ledger, and a unit is entered at most once      *)
(* before the ledger is closed.  Anybody may wake what is paused.  Closing  *)
(* the ledger takes every entry out of it once and tries to wake that      *)
(* unit; what refuses to wake is reported, and nothing is entered before   *)
(* all have been tried.                                                    *)
(***************************************************************************)
CONSTANT Scopes

VARIABLES
  paused,   \* the units the daemon has paused
  ledger,   \* the units entered since the ledger was last closed
  closing,  \* those of a closed ledger not tried yet
  reported  \* the units that refused to wake when last tried

vars == <<paused, ledger, closing, reported>>

Init == paused = {} /\ ledger = {} /\ closing = {} /\ reported = {}

\* A unit that somebody else had already paused is entered without pausing it.
Enter(s) ==
  /\ closing = {}
  /\ s \notin ledger
  /\ ledger' = ledger \cup {s}
  /\ paused' \in {paused, paused \cup {s}}
  /\ reported' = reported \ {s}
  /\ UNCHANGED closing

\* All of S wake but the refused.
Try(S, refused) ==
  /\ paused' = paused \ (S \ refused)
  /\ reported' = (reported \ S) \cup refused

Wake(S) ==
  /\ \E refused \in SUBSET S : Try(S, refused)
  /\ UNCHANGED <<ledger, closing>>

Close ==
  /\ closing = {}
  /\ closing' = ledger
  /\ ledger' = {}
  /\ UNCHANGED <<paused, reported>>

Undo(s) ==
  /\ s \in closing
  /\ closing' = closing \ {s}
  /\ \E refused \in SUBSET {s} : Try({s}, refused)
  /\ UNCHANGED ledger

Next ==
  \/ \E s \in Scopes : Enter(s) \/ Undo(s)
  \/ \E S \in SUBSET Scopes : Wake(S)
  \/ Close

Spec == Init /\ [][Next]_vars
=============================================================================
