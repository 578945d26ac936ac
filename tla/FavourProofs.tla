---------------------------- MODULE FavourProofs ----------------------------
(***************************************************************************)
(* Proofs about Favour and its history, for every set of units, windows,   *)
(* commands and limits.                                                    *)
(*                                                                         *)
(* Two properties of a quiet system have to be followed through the steps  *)
(* of requests that overlap.  That the foreground is favoured holds for    *)
(* any number of threads, because the lock of do_foreground orders the     *)
(* releases before the grants (Shape, Favoured), and so does that at most  *)
(* one such window has anything (SingleOK).  That what is dropped is       *)
(* released is an account of who owes each protection at every instant     *)
(* (Accounted), touches that another thread's overtook included, and Shape *)
(* is all that it needs besides.  That what the pass judged is enforced holds at  *)
(* every step: until the pass's write the verdict is still the right one,  *)
(* and nobody else writes that ceiling (EnforcedOK).                       *)
(***************************************************************************)
EXTENDS FavourHistory, PresenceProofs, TLAPS

USE DEF ListApps

\* The units nobody but a focus report writes about.
Undisputed == Scopes \ (Typists \cup Commanded \cup Services)

\* What a thread's call says of the request it is in.
ShapeOf(h) ==
  /\ req[h].at # "idle" => req[h].scope \in Scopes
  /\ req[h].drop \subseteq Typists
  /\ Calls(h) /\ call[h].op = "favour" =>
       req[h].at \in {"pin", "release"} /\ call[h].on = req[h].scope
  /\ Calls(h) => call[h].op # "keep"
  /\ Calls(h) /\ call[h].op = "release" =>
       \/ call[h].on \in Typists \cup Commanded
       \/ req[h].at = "pin" /\ call[h].on = foreground

Shape ==
  /\ Listed(live) \subseteq Typists
  /\ \A h \in Handlers : ShapeOf(h)
  /\ \A g, h \in Handlers : req[g].at = "pin" /\ req[h].at = "pin" => g = h
  /\ \A t \in Threads : Calls(t) => /\ call[t].on \in Scopes
                                    /\ call[t].left \subseteq Program[call[t].op]
  /\ Calls(Loop) => /\ call[Loop].op \in {"keep", "bound", "lift"}
                    /\ call[Loop].op = "keep" => call[Loop].on \in Spine

\* The foreground holds everything, but for the thread in the critical section:
\* there the unit coming in holds what has been written so far.
Favoured ==
  /\ foreground \in alive \cap Undisputed /\ ~ForegroundLocked
       => \A k \in Held : foreground \in holds[k]
  /\ \A h \in Handlers :
       /\ req[h].at = "pin" /\ Calls(h) /\ call[h].op = "favour"
       /\ req[h].scope \in alive \cap Undisputed
       => \A k \in Held \ call[h].left : req[h].scope \in holds[k]

\* Who accounts for a protection: the foreground until a thread starts to
\* leave it, the unit coming in, the entries of LIVE and the overtaken, those a
\* touch has still to hand back, what a release has still to write, the user and the spine table.
Leaving(k) == {call[t].on : t \in {u \in Threads : call[u].op = "release" /\ k \in call[u].left}}
Dropping == UNION {req[h].drop : h \in {g \in Handlers : req[g].at = "release"}}
Entering == {req[h].scope : h \in {g \in Handlers : req[g].at = "pin"}}

Touched == Listed(live) \cup overtaken

Owed(k) ==
  (IF ForegroundLocked THEN Entering ELSE {foreground})
    \cup Touched \cup Dropping \cup Leaving(k) \cup Spine
    \cup (IF k = "pin" THEN byHand ELSE {})

Accounted ==
  /\ \A k \in Held : holds[k] \subseteq Owed(k)
  /\ Served \subseteq Touched

-----------------------------------------------------------------------------
(* What one write, one advance and one start do.                           *)

\* A write grants or takes its own knob of its own unit, and nothing else that
\* a live unit holds.
LEMMA WriteFacts ==
  ASSUME TypeOK, NEW k, NEW op, NEW s \in Scopes, WriteKnob(k, op, s)
  PROVE  /\ holds' \in [Held -> SUBSET Scopes]
         /\ \A j \in Held : holds'[j] \subseteq holds[j] \cup (IF j = k /\ Grants(op) THEN {s} ELSE {})
         /\ \A j \in Held : j = k /\ ~Grants(op) => s \notin holds'[j]
         /\ \A j \in Held, u \in alive :
              \/ u \in holds[j] /\ (j = k /\ u = s => Grants(op))
              \/ j = k /\ u = s /\ Grants(op)
              => u \in holds'[j]
<1>1. holds \in [Held -> SUBSET Scopes]
  BY DEF TypeOK, FavourTypeOK
<1>2. CASE k = "pin"
  <2>1. holds' = [holds EXCEPT !["pin"] = HoldsAfter(k, op, s) \cap alive]
    BY <1>2 DEF WriteKnob
  <2> QED BY <1>1, <1>2, <2>1 DEF HoldsAfter, Held
<1>3. CASE k \in {"shield", "boost"}
  <2>1. holds' = [holds EXCEPT ![k] = HoldsAfter(k, op, s)]
    BY <1>3 DEF WriteKnob
  <2> QED BY <1>1, <1>3, <2>1 DEF HoldsAfter, Held
<1>4. CASE k \notin Held
  <2>1. holds' = holds
    BY <1>4 DEF WriteKnob, Held
  <2> QED BY <1>1, <1>4, <2>1
<1> QED BY <1>2, <1>3, <1>4 DEF Held

LEMMA WriteTyped ==
  ASSUME TypeOK, NEW k, NEW op, NEW s \in Scopes, WriteKnob(k, op, s)
  PROVE  high' \in [Scopes -> {"max", "standing", "hand"}] /\ marked' \in SUBSET Scopes
<1>1. Ceiling(op) \in {"max", "standing", "hand"}
  BY DEF Ceiling
<1> QED BY <1>1 DEF WriteKnob, TypeOK, FavourTypeOK

\* Another thread's call is left alone; what goes on, goes on about the same unit.
LEMMA AdvanceFacts ==
  ASSUME TypeOK, NEW t \in Threads, NEW left \in SUBSET call[t].left, Advance(t, left)
  PROVE  /\ \A u \in Threads \ {t} : call'[u] = call[u]
         /\ call'[t].left = left
         /\ left # {} => call'[t].op = call[t].op /\ call'[t].on = call[t].on
         /\ left = {} => call'[t] = NoCall
         /\ call' \in [Threads -> [op : DOMAIN Program, on : Scopes \cup {NoScope},
                                   left : SUBSET DOMAIN Order]]
<1> DEFINE Call == [op : DOMAIN Program, on : Scopes \cup {NoScope}, left : SUBSET DOMAIN Order]
<1>1. call \in [Threads -> Call]
  BY DEF TypeOK, FavourTypeOK
<1>2. NoCall \in Call /\ NoCall.left = {}
  BY DEF NoCall, Program, Order
<1>3. CASE left = {}
  <2>1. call' = [call EXCEPT ![t] = NoCall]
    BY <1>3 DEF Advance
  <2> QED BY <1>1, <1>2, <1>3, <2>1
<1>4. CASE left # {}
  <2>1. call' = [call EXCEPT ![t] = [@ EXCEPT !.left = left]]
    BY <1>4 DEF Advance
  <2>2. ASSUME NEW c \in Call, left \subseteq c.left
        PROVE  /\ [c EXCEPT !.left = left] \in Call
               /\ [c EXCEPT !.left = left].left = left
               /\ [c EXCEPT !.left = left].op = c.op
               /\ [c EXCEPT !.left = left].on = c.on
    BY <2>2
  <2>3. call[t] \in Call
    BY <1>1
  <2> HIDE DEF Call
  <2>4. call'[t] = [call[t] EXCEPT !.left = left]
    BY <1>1, <2>1
  <2>5. call' \in [Threads -> Call]
    BY <1>1, <2>1, <2>2, <2>3
  <2> QED BY <1>1, <1>4, <2>1, <2>2, <2>3, <2>4, <2>5 DEF Call
<1> QED BY <1>3, <1>4

LEMMA StartsFacts ==
  ASSUME TypeOK, NEW t \in Threads, NEW op \in DOMAIN Program, NEW s \in Scopes, Starts(t, op, s)
  PROVE  /\ \A u \in Threads \ {t} : call'[u] = call[u]
         /\ call'[t] = Calling(op, s)
         /\ call' \in [Threads -> [op : DOMAIN Program, on : Scopes \cup {NoScope},
                                   left : SUBSET DOMAIN Order]]
<1>1. Program[op] \in SUBSET DOMAIN Order
  BY DEF Program, Order
<1> QED BY <1>1 DEF Starts, Calling, TypeOK, FavourTypeOK

-----------------------------------------------------------------------------
(* The actions of Next in the form the proofs use them: a write goes on or  *)
(* ends a call, a request takes a step, a call starts.                     *)

LEMMA StillTyped == ASSUME PresenceTypeOK, UNCHANGED presenceVars PROVE PresenceTypeOK'
BY DEF PresenceTypeOK, presenceVars

\* Write and ReadBackFails: one knob of the unit of t's call, and t goes on.
Writes(t) ==
  /\ Calls(t)
  /\ \E k \in call[t].left, left \in SUBSET call[t].left :
       /\ \/ left = call[t].left \ {k}
          \/ left = {} /\ call[t].op \notin {"favour", "release", "protect"}
       /\ call[t].op = "favour" => left # {}
       /\ WriteKnob(k, call[t].op, call[t].on)
       /\ Advance(t, left)
  /\ UNCHANGED <<presenceVars, pass>>

LEMMA DueIsLeft ==
  ASSUME NEW t, call[t].left \subseteq DOMAIN Order, call[t].left # {}
  PROVE  Due(t) \in call[t].left
<1> DEFINE left == call[t].left
<1>1. left \subseteq {"pin", "shield", "high", "boost", "mark"}
  BY DEF Order
<1>2. \E k \in left : \A j \in left : Order[k] <= Order[j]
  <2>1. CASE "pin" \in left
    BY <1>1, <2>1 DEF Order
  <2>2. CASE "pin" \notin left /\ "shield" \in left
    BY <1>1, <2>2 DEF Order
  <2>3. CASE left \subseteq {"high", "boost", "mark"} /\ "high" \in left
    BY <2>3 DEF Order
  <2>4. CASE left \subseteq {"boost", "mark"} /\ "boost" \in left
    BY <2>4 DEF Order
  <2>5. CASE left = {"mark"}
    BY <2>5 DEF Order
  <2> QED BY <1>1, <2>1, <2>2, <2>3, <2>4, <2>5
<1> QED BY <1>2 DEF Due

LEMMA WriteWrites == ASSUME TypeOK, Shape, NEW t \in Threads, Write(t) PROVE Writes(t)
<1>1. Calls(t) /\ UNCHANGED <<presenceVars, pass>>
  BY DEF Write
<1>2. /\ Remaining(t, Due(t)) # {} \/ call[t].op # "favour"
      /\ WriteKnob(Due(t), call[t].op, call[t].on)
      /\ Advance(t, Remaining(t, Due(t)))
  BY DEF Write
<1>3. Due(t) \in call[t].left
  BY <1>1, DueIsLeft DEF TypeOK, FavourTypeOK, Calls
<1>4. \/ Remaining(t, Due(t)) = call[t].left \ {Due(t)}
      \/ Remaining(t, Due(t)) = {} /\ call[t].op \notin {"favour", "release", "protect"}
  BY DEF Remaining
<1> QED BY <1>1, <1>2, <1>3, <1>4 DEF Writes

LEMMA ReadBackWrites == ReadBackFails => Writes(Loop) /\ Loop \in Threads
<1> SUFFICES ASSUME ReadBackFails PROVE Writes(Loop)
  BY DEF Threads
<1>1. Calls(Loop) /\ call[Loop].op = "keep"
  BY DEF ReadBackFails, Calls, Program
<1>2. /\ WriteKnob("pin", call[Loop].op, call[Loop].on) /\ Advance(Loop, {})
      /\ "pin" \in call[Loop].left
  BY <1>1 DEF ReadBackFails, Program
<1> QED BY <1>1, <1>2 DEF Writes, ReadBackFails

LEMMA WritesTyped ==
  ASSUME TypeOK, Shape, NEW t \in Threads, Writes(t)
  PROVE  TypeOK' /\ Shape'
<1>1. PICK k \in call[t].left, left \in SUBSET call[t].left :
        /\ \/ left = call[t].left \ {k}
           \/ left = {} /\ call[t].op \notin {"favour", "release", "protect"}
        /\ call[t].op = "favour" => left # {}
        /\ WriteKnob(k, call[t].op, call[t].on)
        /\ Advance(t, left)
  BY DEF Writes
<1>2. call[t].on \in Scopes /\ Calls(t)
  BY DEF Writes, Shape
<1>3. UNCHANGED <<alive, fgPid, foreground, live, req, pass>>
  BY DEF Writes, presenceVars
<1>4. left \in SUBSET call[t].left
  BY <1>1
<1>5. /\ \A u \in Threads \ {t} : call'[u] = call[u]
      /\ call'[t].left = left
      /\ left # {} => call'[t].op = call[t].op /\ call'[t].on = call[t].on
      /\ call' \in [Threads -> [op : DOMAIN Program, on : Scopes \cup {NoScope},
                               left : SUBSET DOMAIN Order]]
  BY <1>1, <1>4, AdvanceFacts
<1>6. TypeOK'
  BY <1>1, <1>2, <1>3, <1>5, WriteFacts, WriteTyped, StillTyped
     DEF TypeOK, FavourTypeOK, presenceVars
<1>7. \A u \in Threads : Calls(u)' => /\ Calls(u) /\ call'[u].left \subseteq call[u].left
                                      /\ call'[u].op = call[u].op /\ call'[u].on = call[u].on
  BY <1>4, <1>5 DEF Calls
<1>8. \A h \in Handlers : ShapeOf(h)'
  BY <1>3, <1>7 DEF Shape, ShapeOf, Threads
<1>9. \A u \in Threads : Calls(u)' => call'[u].on \in Scopes /\ call'[u].left \subseteq Program[call'[u].op]
  BY <1>7 DEF Shape
<1>10. Calls(Loop)' => /\ call'[Loop].op \in {"keep", "bound", "lift"}
                       /\ call'[Loop].op = "keep" => call'[Loop].on \in Spine
  BY <1>7 DEF Shape, Threads
<1> QED BY <1>3, <1>6, <1>8, <1>9, <1>10 DEF Shape, Listed

LEMMA CompleteTyped ==
  ASSUME TypeOK, Shape, NEW h \in Handlers, Complete(h)
  PROVE  TypeOK' /\ Shape'
<1>1. /\ Calls(h) /\ call[h].op = "favour"
      /\ WriteKnob(Due(h), "favour", call[h].on)
      /\ Advance(h, {})
      /\ FocusPin(h) \/ TouchPin(h)
      /\ UNCHANGED pass
  BY DEF Complete
<1>2. h \in Threads /\ call[h].on \in Scopes
  BY <1>1 DEF Shape, Threads
<1>3. /\ \A u \in Threads \ {h} : call'[u] = call[u]
      /\ call'[h].left = {}
      /\ call' \in [Threads -> [op : DOMAIN Program, on : Scopes \cup {NoScope},
                               left : SUBSET DOMAIN Order]]
  BY <1>1, <1>2, AdvanceFacts
<1>4. PresenceTypeOK'
  BY <1>1, RequestTyped DEF TypeOK, RequestStep
<1>5. TypeOK'
  BY <1>1, <1>2, <1>3, <1>4, WriteFacts, WriteTyped DEF TypeOK, FavourTypeOK
<1>6. \A u \in Threads : Calls(u)' => u # h /\ call'[u] = call[u] /\ Calls(u)
  BY <1>3 DEF Calls
<1>7. /\ req' = [req EXCEPT ![h] = Idle]
      /\ UNCHANGED live
      /\ foreground' # foreground => req[h].at = "pin"
  BY <1>1 DEF FocusPin, TouchPin
<1>8. \A g \in Handlers \ {h} : req'[g] = req[g]
  BY <1>7 DEF TypeOK, PresenceTypeOK
<1>9. req'[h] = Idle
  BY <1>7 DEF TypeOK, PresenceTypeOK
<1>10. \A g \in Handlers : ShapeOf(g)'
  <2> TAKE g \in Handlers
  <2>1. CASE g = h
    BY <1>2, <1>6, <1>9, <2>1 DEF ShapeOf, Idle
  <2>2. CASE g # h
    BY <1>6, <1>7, <1>8, <2>2 DEF ShapeOf, Shape, Threads
  <2> QED BY <2>1, <2>2
<1>11. \A g, k \in Handlers : req'[g].at = "pin" /\ req'[k].at = "pin" => g = k
  BY <1>8, <1>9 DEF Shape, Idle
<1>12. \A t \in Threads : Calls(t)' => call'[t].on \in Scopes /\ call'[t].left \subseteq Program[call'[t].op]
  BY <1>6 DEF Shape
<1>13. Calls(Loop)' => /\ call'[Loop].op \in {"keep", "bound", "lift"}
                       /\ call'[Loop].op = "keep" => call'[Loop].on \in Spine
  BY <1>6 DEF Shape, Threads
<1> QED BY <1>5, <1>7, <1>10, <1>11, <1>12, <1>13 DEF Shape, Listed

-----------------------------------------------------------------------------
(* The steps that write nothing.                                           *)

\* A call starts, or none does.
Starting(t, op, s) == ~Calls(t) /\ Starts(t, op, s)

LEMMA QuietTyped ==
  ASSUME TypeOK, PresenceTypeOK', UNCHANGED <<holds, high, marked>>,
         pass' \in [spine : SUBSET Spine, apps : SUBSET Scopes],
         \/ UNCHANGED call
         \/ \E t \in Threads, op \in DOMAIN Program, s \in Scopes : Starting(t, op, s)
  PROVE  TypeOK'
BY StartsFacts DEF TypeOK, FavourTypeOK, Starting

\* Nobody's call is disturbed when a call starts on another thread.
LEMMA StartingFacts ==
  ASSUME TypeOK, NEW t \in Threads, NEW op \in DOMAIN Program, NEW s \in Scopes, Starting(t, op, s)
  PROVE  /\ \A u \in Threads \ {t} : call'[u] = call[u] /\ (Calls(u)' <=> Calls(u))
         /\ call'[t].op = op /\ call'[t].on = s /\ call'[t].left = Program[op]
<1>1. Starts(t, op, s)
  BY DEF Starting
<1>2. /\ \A u \in Threads \ {t} : call'[u] = call[u]
      /\ call'[t] = Calling(op, s)
  BY <1>1, StartsFacts
<1>3. \A u \in Threads \ {t} : Calls(u)' <=> Calls(u)
  BY <1>2 DEF Calls
<1> QED BY <1>2, <1>3 DEF Calling

LEMMA LoopLooksTyped ==
  ASSUME TypeOK, Shape,
         BeginPass \/ \E s \in Scopes : KeepSpine(s) \/ CapLook(s)
  PROVE  /\ TypeOK' /\ Shape'
         /\ UNCHANGED <<presenceVars, holds, marked>>
         /\ \/ UNCHANGED call
            \/ \E op \in {"keep", "bound", "lift"}, s \in Scopes : Starting(Loop, op, s)
<1>1. UNCHANGED <<alive, fgPid, foreground, live, req, holds, high, marked>>
  BY DEF BeginPass, KeepSpine, CapLook, presenceVars
<1>2. Loop \in Threads /\ Loop \notin Handlers
  BY FavourAssumption DEF FavourAssumption, Threads
<1>3. \/ UNCHANGED call
      \/ \E op \in {"keep", "bound", "lift"}, s \in Scopes :
           /\ Starting(Loop, op, s)
           /\ op = "keep" => s \in Spine
  <2>1. CASE BeginPass
    BY <2>1 DEF BeginPass
  <2>2. ASSUME NEW s \in Scopes, KeepSpine(s) PROVE Starting(Loop, "keep", s) /\ s \in Spine
    BY <2>2 DEF KeepSpine, Starting, TypeOK, FavourTypeOK
  <2>3. ASSUME NEW s \in Scopes, CapLook(s), ~UNCHANGED call
        PROVE  Starting(Loop, "lift", s) \/ Starting(Loop, "bound", s)
    BY <2>3 DEF CapLook, Verdict, Starting
  <2> QED BY <2>1, <2>2, <2>3
<1>4. pass' \in [spine : SUBSET Spine, apps : SUBSET Scopes]
  BY FavourAssumption DEF FavourAssumption, BeginPass, KeepSpine, CapLook, TypeOK, FavourTypeOK
<1>5. PresenceTypeOK'
  BY <1>1, StillTyped DEF TypeOK, presenceVars
<1>6. {"keep", "bound", "lift"} \subseteq DOMAIN Program
  BY DEF Program
<1>7. TypeOK'
  BY <1>1, <1>2, <1>3, <1>4, <1>5, <1>6, QuietTyped
<1>8. Shape'
  <2>1. CASE UNCHANGED call
    BY <1>1, <2>1 DEF Shape, ShapeOf, Calls, Listed
  <2>2. ASSUME NEW op \in {"keep", "bound", "lift"}, NEW s \in Scopes, Starting(Loop, op, s),
               op = "keep" => s \in Spine
        PROVE  Shape'
    <3>1. /\ \A u \in Handlers : call'[u] = call[u] /\ (Calls(u)' <=> Calls(u))
          /\ call'[Loop].op = op /\ call'[Loop].on = s /\ call'[Loop].left = Program[op]
      BY <1>2, <1>6, <2>2, StartingFacts DEF Threads
    <3>2. \A h \in Handlers : ShapeOf(h)'
      BY <1>1, <3>1 DEF Shape, ShapeOf
    <3>3. \A u \in Threads : Calls(u)' => call'[u].on \in Scopes /\ call'[u].left \subseteq Program[call'[u].op]
      BY <3>1 DEF Shape, Threads
    <3> QED BY <1>1, <2>2, <3>1, <3>2, <3>3 DEF Shape, Listed
  <2> QED BY <1>3, <2>1, <2>2
<1> QED BY <1>1, <1>3, <1>7, <1>8 DEF presenceVars

LEMMA CommandTyped ==
  ASSUME TypeOK, Shape, NEW h \in Handlers, NEW op \in DOMAIN Program, NEW s \in Commanded,
         Command(h, op, s)
  PROVE  /\ TypeOK' /\ Shape'
         /\ UNCHANGED <<presenceVars, holds, marked>>
         /\ Starting(h, op, s) /\ s \in Scopes /\ op # "favour"
         /\ req[h].at = "idle"
<1>1. /\ UNCHANGED <<alive, fgPid, foreground, live, req, holds, high, marked, pass>>
      /\ Starting(h, op, s) /\ op \in {"protect", "release", "cap", "uncap"}
  BY DEF Command, Starting, presenceVars
<1>2. s \in Scopes /\ h \in Threads
  BY FavourAssumption DEF FavourAssumption, Threads
<1>3. PresenceTypeOK'
  BY <1>1, StillTyped DEF TypeOK, presenceVars
<1>4. TypeOK'
  BY <1>1, <1>2, <1>3, QuietTyped DEF TypeOK, FavourTypeOK
<1>5. /\ \A u \in Threads \ {h} : call'[u] = call[u] /\ (Calls(u)' <=> Calls(u))
      /\ call'[h].op = op /\ call'[h].on = s /\ call'[h].left = Program[op]
  BY <1>1, <1>2, StartingFacts
<1>6. \A g \in Handlers : ShapeOf(g)'
  <2> TAKE g \in Handlers
  <2>1. CASE g = h
    BY <1>1, <1>5, <2>1 DEF ShapeOf, Shape
  <2>2. CASE g # h
    BY <1>1, <1>5, <2>2 DEF ShapeOf, Shape, Threads
  <2> QED BY <2>1, <2>2
<1>7. \A u \in Threads : Calls(u)' => call'[u].on \in Scopes /\ call'[u].left \subseteq Program[call'[u].op]
  BY <1>2, <1>5 DEF Shape
<1>8. call'[Loop] = call[Loop] /\ (Calls(Loop)' <=> Calls(Loop))
  BY <1>5, FavourAssumption DEF FavourAssumption, Threads
<1>9. Shape'
  BY <1>1, <1>6, <1>7, <1>8 DEF Shape, Listed
<1> QED BY <1>1, <1>2, <1>4, <1>9 DEF presenceVars, Command

\* A request's own step: who else is where is as before.
LEMMA AloneInRequest ==
  ASSUME TypeOK, Shape, NEW h \in Handlers,
         \A g \in Handlers \ {h} : req'[g] = req[g],
         \A u \in Threads \ {h} : call'[u] = call[u],
         UNCHANGED foreground,
         Listed(live') \subseteq Typists,
         req'[h].at = "pin" => ~ForegroundLocked \/ req[h].at = "pin",
         Calls(h)' => call'[h].on \in Scopes /\ call'[h].left \subseteq Program[call'[h].op],
         ShapeOf(h)'
  PROVE  Shape'
<1>1. \A u \in Threads \ {h} : Calls(u)' <=> Calls(u)
  BY DEF Calls
<1>2. \A g \in Handlers : ShapeOf(g)'
  <2> TAKE g \in Handlers
  <2>1. CASE g # h
    BY <1>1, <2>1 DEF ShapeOf, Shape, Threads
  <2> QED BY <2>1
<1>3. \A g, k \in Handlers : req'[g].at = "pin" /\ req'[k].at = "pin" => g = k
  BY DEF Shape, ForegroundLocked
<1>4. \A u \in Threads : Calls(u)' => call'[u].on \in Scopes /\ call'[u].left \subseteq Program[call'[u].op]
  BY <1>1 DEF Shape
<1>5. call'[Loop] = call[Loop] /\ (Calls(Loop)' <=> Calls(Loop))
  BY <1>1, FavourAssumption DEF FavourAssumption, Threads
<1> QED BY <1>2, <1>3, <1>4, <1>5 DEF Shape, Listed

LEMMA ReportTyped ==
  ASSUME TypeOK, Shape, NEW h \in Handlers, Report(h)
  PROVE  TypeOK' /\ Shape'
<1>1. UNCHANGED <<holds, high, marked, call, pass>> /\ ~Calls(h)
  BY DEF Report, favourVars
<1>2. PresenceTypeOK'
  BY RequestTyped DEF TypeOK, Report, RequestStep
<1>3. TypeOK'
  BY <1>1, <1>2 DEF TypeOK, FavourTypeOK
<1>4. req \in [Handlers -> [at : {"idle", "thaw", "swap", "pin", "release"},
                           scope : Scopes \cup {NoScope}, drop : SUBSET Scopes]]
  BY DEF TypeOK, PresenceTypeOK
<1>5. ASSUME NEW w \in Windows, FocusStore(h, w) PROVE Shape'
  <2>1. CASE req' = req
    BY <1>1, <1>5, <2>1 DEF FocusStore, Shape, ShapeOf, Calls, Listed
  <2>2. CASE req' # req
    <3>1. /\ req' = [req EXCEPT ![h] = [at |-> "thaw", scope |-> WindowScope[w], drop |-> {}]]
          /\ UNCHANGED <<foreground, live>>
      BY <1>5, <2>2 DEF FocusStore
    <3>2. req'[h] = [at |-> "thaw", scope |-> WindowScope[w], drop |-> {}]
      BY <1>4, <3>1
    <3>3. \A g \in Handlers \ {h} : req'[g] = req[g]
      BY <1>4, <3>1
    <3>4. ShapeOf(h)'
      BY <1>1, <3>2, PresenceAssumption DEF PresenceAssumption, ShapeOf, Calls
    <3> QED BY <1>1, <3>1, <3>2, <3>3, <3>4, AloneInRequest DEF Shape, Listed, Calls
  <2> QED BY <2>1, <2>2
<1>6. ASSUME NEW s \in Typists, Touch(h, s) PROVE Shape'
  <2>1. s \in Scopes
    BY PresenceAssumption DEF PresenceAssumption
  <2>2. /\ req' = [req EXCEPT ![h] = [at |-> "release", scope |-> s, drop |-> FallenOut(s)]]
        /\ live' = Truncated(s) /\ UNCHANGED foreground
    BY <1>6 DEF Touch
  <2>3. req'[h] = [at |-> "release", scope |-> s, drop |-> FallenOut(s)]
    BY <1>4, <2>2
  <2>4. \A g \in Handlers \ {h} : req'[g] = req[g]
    BY <1>4, <2>2
  <2>5. FallenOut(s) \subseteq Typists
    BY DEF FallenOut, Shape
  <2>6. Listed(live') \subseteq Typists
    BY <2>1, <2>2, TruncatedListed DEF TypeOK, Shape
  <2>7. ShapeOf(h)'
    BY <1>1, <2>1, <2>3, <2>5 DEF ShapeOf, Calls
  <2> QED BY <1>1, <2>2, <2>3, <2>4, <2>6, <2>7, AloneInRequest DEF Calls
<1> QED BY <1>3, <1>5, <1>6 DEF Report

LEMMA AttendTyped ==
  ASSUME TypeOK, Shape, NEW h \in Handlers, Attend(h)
  PROVE  TypeOK' /\ Shape'
<1>1. h \in Threads /\ ~Calls(h)
  BY DEF Attend, Threads
<1>2. req \in [Handlers -> [at : {"idle", "thaw", "swap", "pin", "release"},
                           scope : Scopes \cup {NoScope}, drop : SUBSET Scopes]]
  BY DEF TypeOK, PresenceTypeOK
<1>3. CASE (FocusThaw(h) \/ FocusUnchanged(h)) /\ UNCHANGED favourVars
  <2>1. PresenceTypeOK'
    BY <1>3, RequestTyped DEF TypeOK, RequestStep
  <2>2. TypeOK'
    BY <1>3, <2>1 DEF TypeOK, FavourTypeOK, favourVars
  <2>3. /\ req' = [req EXCEPT ![h].at = "swap"] \/ req' = [req EXCEPT ![h] = Idle]
        /\ UNCHANGED <<foreground, live, call>>
    BY <1>3 DEF FocusThaw, FocusUnchanged, favourVars
  <2>4. \A g \in Handlers \ {h} : req'[g] = req[g]
    BY <1>2, <2>3
  <2>5. req'[h] = Idle \/ (req'[h].at = "swap" /\ req'[h].scope = req[h].scope /\ req'[h].drop = req[h].drop
                            /\ req[h].at # "idle")
    BY <1>2, <1>3 DEF FocusThaw, FocusUnchanged
  <2>6. ShapeOf(h)'
    BY <1>1, <2>3, <2>5 DEF ShapeOf, Shape, Calls, Idle
  <2> QED BY <1>1, <2>2, <2>3, <2>4, <2>5, <2>6, AloneInRequest DEF Shape, Listed, Calls, Idle

<1>4. CASE LeavePrevious(h)
  <2>1. /\ FocusRelease(h) /\ UNCHANGED <<holds, high, marked, pass>>
        /\ \/ foreground = NoScope /\ UNCHANGED call
           \/ foreground # NoScope /\ Starting(h, "release", foreground)
    BY <1>1, <1>4 DEF LeavePrevious, Starting
  <2>2. /\ req[h].at = "swap" /\ ~ForegroundLocked
        /\ req' = [req EXCEPT ![h].at = "pin"]
        /\ UNCHANGED <<foreground, live>>
    BY <2>1 DEF FocusRelease
  <2>3. /\ req'[h].at = "pin" /\ req'[h].scope = req[h].scope /\ req'[h].drop = req[h].drop
        /\ \A g \in Handlers \ {h} : req'[g] = req[g]
    BY <1>2, <2>2
  <2>4. PresenceTypeOK'
    BY <2>1, RequestTyped DEF TypeOK, RequestStep
  <2>5. "release" \in DOMAIN Program /\ (foreground # NoScope => foreground \in Scopes)
    BY DEF Program, TypeOK, PresenceTypeOK
  <2>6. TypeOK'
    BY <1>1, <2>1, <2>4, <2>5, QuietTyped DEF TypeOK, FavourTypeOK
  <2>7. /\ \A u \in Threads \ {h} : call'[u] = call[u]
        /\ Calls(h)' => /\ call'[h].op = "release" /\ call'[h].on = foreground
                        /\ call'[h].left = Program["release"] /\ foreground \in Scopes
    BY <1>1, <2>1, <2>5, StartingFacts DEF Calls
  <2>8. ShapeOf(h)'
    BY <2>2, <2>3, <2>7 DEF ShapeOf, Shape
  <2> QED BY <2>2, <2>3, <2>6, <2>7, <2>8, AloneInRequest DEF Shape, Listed
<1>5. ASSUME NEW p \in Scopes, HandBack(h, p) PROVE TypeOK' /\ Shape'
  <2>1. TouchRelease(h, p) /\ Starting(h, "release", p) /\ UNCHANGED <<holds, high, marked, pass>>
    BY <1>1, <1>5 DEF HandBack, Starting
  <2>2. /\ req[h].at = "release" /\ p \in req[h].drop
        /\ req' = [req EXCEPT ![h].drop = @ \ {p}]
        /\ UNCHANGED <<foreground, live>>
    BY <2>1 DEF TouchRelease
  <2>3. /\ req'[h].at = "release" /\ req'[h].scope = req[h].scope /\ req'[h].drop = req[h].drop \ {p}
        /\ \A g \in Handlers \ {h} : req'[g] = req[g]
    BY <1>2, <2>2
  <2>4. PresenceTypeOK'
    BY <2>1, RequestTyped DEF TypeOK, RequestStep
  <2>5. "release" \in DOMAIN Program
    BY DEF Program
  <2>6. TypeOK'
    BY <1>1, <2>1, <2>4, <2>5, QuietTyped DEF TypeOK, FavourTypeOK
  <2>7. /\ \A u \in Threads \ {h} : call'[u] = call[u]
        /\ call'[h].op = "release" /\ call'[h].on = p /\ call'[h].left = Program["release"]
    BY <1>1, <2>1, <2>5, StartingFacts
  <2>8. p \in Typists
    BY <2>2 DEF Shape, ShapeOf
  <2>9. ShapeOf(h)'
    BY <2>2, <2>3, <2>7, <2>8 DEF ShapeOf, Shape
  <2> QED BY <2>2, <2>3, <2>6, <2>7, <2>9, AloneInRequest DEF Shape, Listed
<1>6. CASE BeginFavour(h)
  <2>1. /\ UNCHANGED <<alive, fgPid, foreground, live, req, holds, high, marked, pass>>
        /\ Starting(h, "favour", req[h].scope)
        /\ req[h].at \in {"pin", "release"}
    BY <1>1, <1>6 DEF BeginFavour, Starting, presenceVars
  <2>2. req[h].scope \in Scopes /\ "favour" \in DOMAIN Program
    BY <2>1 DEF Shape, ShapeOf, Program
  <2>3. PresenceTypeOK'
    BY <2>1, StillTyped DEF TypeOK, presenceVars
  <2>4. TypeOK'
    BY <1>1, <2>1, <2>2, <2>3, QuietTyped DEF TypeOK, FavourTypeOK
  <2>5. /\ \A u \in Threads \ {h} : call'[u] = call[u]
        /\ call'[h].op = "favour" /\ call'[h].on = req[h].scope /\ call'[h].left = Program["favour"]
    BY <1>1, <2>1, <2>2, StartingFacts
  <2>6. ShapeOf(h)'
    BY <2>1, <2>5 DEF ShapeOf, Shape
  <2> QED BY <2>1, <2>2, <2>4, <2>5, <2>6, AloneInRequest DEF Shape, Listed
<1> QED BY <1>3, <1>4, <1>5, <1>6 DEF Attend

LEMMA WorldTyped ==
  ASSUME TypeOK, Shape,
         Elapse \/ \E s \in Scopes : End(s) \/ Restart(s)
  PROVE  TypeOK' /\ Shape'
<1>1. UNCHANGED <<foreground, req, marked, call, pass>> /\ Listed(live') = Listed(live)
  <2>1. CASE Elapse
    BY <2>1, AgedFacts DEF Elapse, favourVars, TypeOK
  <2>2. CASE \E s \in Scopes : End(s) \/ Restart(s)
    BY <2>2 DEF End, Restart, favourVars, Listed
  <2> QED BY <2>1, <2>2
<1>2. PresenceTypeOK'
  BY AgedTyped, UnitsTyped DEF Elapse, End, Restart, TypeOK
<1>3. holds' \in [Held -> SUBSET Scopes] /\ high' \in [Scopes -> {"max", "standing", "hand"}]
  BY DEF Elapse, End, Restart, favourVars, TypeOK, FavourTypeOK
<1>4. TypeOK'
  BY <1>1, <1>2, <1>3 DEF TypeOK, FavourTypeOK
<1>5. Shape'
  BY <1>1 DEF Shape, ShapeOf, Calls
<1> QED BY <1>4, <1>5

-----------------------------------------------------------------------------
LEMMA InitTyped == Init => TypeOK /\ Shape
<1> SUFFICES ASSUME Init PROVE TypeOK /\ Shape
  OBVIOUS
<1>1. PresenceTypeOK
  BY PresenceAssumption DEF Init, PresenceInit, PresenceTypeOK, PresenceAssumption, Idle
<1>2. NoCall \in [op : DOMAIN Program, on : Scopes \cup {NoScope}, left : SUBSET DOMAIN Order]
  BY DEF NoCall, Program, Order
<1>3. FavourTypeOK
  BY <1>2 DEF Init, FavourTypeOK
<1>4. \A t \in Threads : ~Calls(t)
  BY DEF Init, Calls, NoCall
<1>5. /\ \A h \in Handlers : req[h].at = "idle" /\ req[h].drop = {}
      /\ Listed(live) = {}
  BY DEF Init, PresenceInit, Idle, Listed
<1>6. Loop \in Threads /\ Handlers \subseteq Threads
  BY DEF Threads
<1> QED BY <1>1, <1>3, <1>4, <1>5, <1>6 DEF TypeOK, Shape, ShapeOf

LEMMA NextTyped == TypeOK /\ Shape /\ [Next]_vars => TypeOK' /\ Shape'
<1> SUFFICES ASSUME TypeOK, Shape, [Next]_vars PROVE TypeOK' /\ Shape'
  OBVIOUS
<1>1. CASE LoopStep
  <2>1. CASE Write(Loop) \/ ReadBackFails
    <3>1. Loop \in Threads
      BY DEF Threads
    <3> QED BY <2>1, <3>1, WriteWrites, ReadBackWrites, WritesTyped
  <2> QED BY <1>1, <2>1, LoopLooksTyped DEF LoopStep
<1>2. ASSUME NEW h \in Handlers, HandlerStep(h) PROVE TypeOK' /\ Shape'
  <2>1. h \in Threads
    BY DEF Threads
  <2> QED BY <1>2, <2>1, AttendTyped, WriteWrites, WritesTyped, CompleteTyped DEF HandlerStep
<1>3. ASSUME NEW h \in Handlers, Report(h) PROVE TypeOK' /\ Shape'
  BY <1>3, ReportTyped
<1>4. ASSUME NEW h \in Handlers, NEW op \in DOMAIN Program, NEW s \in Commanded, Command(h, op, s)
      PROVE  TypeOK' /\ Shape'
  BY <1>4, CommandTyped
<1>5. CASE Elapse \/ \E s \in Scopes : End(s) \/ Restart(s)
  BY <1>5, WorldTyped
<1>6. CASE UNCHANGED vars
  BY <1>6 DEF vars, favourVars, presenceVars, TypeOK, PresenceTypeOK, FavourTypeOK,
              Shape, ShapeOf, Calls, Listed
<1> QED BY <1>1, <1>2, <1>3, <1>4, <1>5, <1>6 DEF Next

\* The statics, the knobs and what each thread is writing keep their types, and
\* LIVE never outgrows MAX_LIVE.
THEOREM TypeCorrect == Spec => []TypeOK
<1>1. Init => TypeOK /\ Shape
  BY InitTyped
<1>2. TypeOK /\ Shape /\ [Next]_vars => TypeOK' /\ Shape'
  BY NextTyped
<1> QED
  BY <1>1, <1>2, PTL DEF Spec

-----------------------------------------------------------------------------
(* The foreground is favoured, whatever the number of threads.             *)

\* What the steps that take nothing from an undisputed unit keep: same lock and
\* foreground, and each thread's favour as far along as before.
LEMMA FavouredKept ==
  ASSUME Favoured,
         alive' \cap Undisputed \subseteq alive,
         \A k \in Held, u \in alive' \cap Undisputed : u \in holds[k] => u \in holds'[k],
         UNCHANGED foreground,
         ForegroundLocked' <=> ForegroundLocked,
         \A h \in Handlers :
           (req[h].at = "pin" /\ Calls(h) /\ call[h].op = "favour")' =>
             /\ req[h].at = "pin" /\ Calls(h) /\ call[h].op = "favour"
             /\ req'[h].scope = req[h].scope
             /\ \A k \in Held \ call'[h].left :
                  k \in call[h].left /\ req[h].scope \in alive' => req[h].scope \in holds'[k]
  PROVE  Favoured'
<1>1. foreground' \in alive' \cap Undisputed /\ ~ForegroundLocked' => \A k \in Held : foreground' \in holds'[k]
  BY DEF Favoured
<1>2. ASSUME NEW h \in Handlers, (req[h].at = "pin" /\ Calls(h) /\ call[h].op = "favour")',
             req'[h].scope \in alive' \cap Undisputed, NEW k \in Held \ call'[h].left
      PROVE  req'[h].scope \in holds'[k]
  <2>1. CASE k \in call[h].left
    BY <1>2, <2>1
  <2>2. CASE k \notin call[h].left
    BY <1>2, <2>2 DEF Favoured
  <2> QED BY <2>1, <2>2
<1> QED BY <1>1, <1>2 DEF Favoured, Undisputed

LEMMA WritesFavoured ==
  ASSUME TypeOK, Shape, Favoured, NEW t \in Threads, Writes(t)
  PROVE  Favoured'
<1>1. PICK k \in call[t].left, left \in SUBSET call[t].left :
        /\ \/ left = call[t].left \ {k}
           \/ left = {} /\ call[t].op \notin {"favour", "release", "protect"}
        /\ call[t].op = "favour" => left # {}
        /\ WriteKnob(k, call[t].op, call[t].on)
        /\ Advance(t, left)
  BY DEF Writes
<1>2. call[t].on \in Scopes /\ Calls(t)
  BY DEF Writes, Shape
<1>3. UNCHANGED <<alive, foreground, live, req>>
  BY DEF Writes, presenceVars
<1>4. /\ \A u \in Threads \ {t} : call'[u] = call[u]
      /\ call'[t].left = left
      /\ left # {} => call'[t].op = call[t].op /\ call'[t].on = call[t].on
  BY <1>1, AdvanceFacts
<1>5. /\ \A j \in Held, u \in alive :
           \/ u \in holds[j] /\ (j = k /\ u = call[t].on => Grants(call[t].op))
           \/ j = k /\ u = call[t].on /\ Grants(call[t].op)
           => u \in holds'[j]
  BY <1>1, <1>2, WriteFacts
<1>6. CASE call[t].op = "release" /\ call[t].on \in Undisputed
  \* The thread in the critical section is leaving the previous foreground.
  <2>1. t \in Handlers /\ req[t].at = "pin" /\ call[t].on = foreground
    BY <1>2, <1>6 DEF Shape, ShapeOf, Threads, Undisputed
  <2>2. ForegroundLocked /\ ForegroundLocked'
    BY <1>3, <2>1 DEF ForegroundLocked
  <2>3. \A h \in Handlers : ~(req[h].at = "pin" /\ Calls(h) /\ call[h].op = "favour")'
    BY <1>3, <1>4, <1>6, <2>1 DEF Shape, Calls, Threads
  <2> QED BY <2>2, <2>3 DEF Favoured
<1>7. CASE ~(call[t].op = "release" /\ call[t].on \in Undisputed)
  <2>1. ASSUME NEW j \in Held, NEW u \in alive \cap Undisputed, u \in holds[j]
        PROVE  u \in holds'[j]
    <3>1. CASE j = k /\ u = call[t].on /\ ~Grants(call[t].op)
      <4>1. call[t].op \in {"bound", "lift", "cap", "uncap"}
        BY <1>7, <2>1, <3>1 DEF Grants, TypeOK, FavourTypeOK, Program
      <4>2. k \in Held /\ call[t].left \subseteq {"high", "mark"} /\ Held \cap {"high", "mark"} = {}
        BY <3>1, <4>1 DEF Shape, Program, Held, Calls
      <4> QED BY <1>1, <4>2
    <3> QED BY <1>5, <2>1, <3>1
  <2>2. ASSUME NEW h \in Handlers, (req[h].at = "pin" /\ Calls(h) /\ call[h].op = "favour")'
        PROVE  /\ req[h].at = "pin" /\ Calls(h) /\ call[h].op = "favour"
               /\ req'[h].scope = req[h].scope
               /\ \A j \in Held \ call'[h].left :
                    j \in call[h].left /\ req[h].scope \in alive' => req[h].scope \in holds'[j]
    <3>1. CASE h # t
      BY <1>3, <1>4, <2>2, <3>1 DEF Calls, Threads
    <3>2. CASE h = t
      <4>1. req[h].at = "pin" /\ Calls(h) /\ call[h].op = "favour"
        BY <1>2, <1>3, <1>4, <2>2, <3>2 DEF Calls
      <4>2. left = call[t].left \ {k} /\ call[t].on = req[t].scope
        BY <1>1, <3>2, <4>1 DEF Shape, ShapeOf
      <4>3. \A j \in Held \ left : j \in call[t].left => j = k
        BY <4>2
      <4>4. Grants(call[t].op)
        BY <3>2, <4>1 DEF Grants
      <4> QED BY <1>3, <1>4, <1>5, <3>2, <4>1, <4>2, <4>3, <4>4
    <3> QED BY <3>1, <3>2
  <2>3. ForegroundLocked' <=> ForegroundLocked
    BY <1>3 DEF ForegroundLocked
  <2> QED BY <1>3, <2>1, <2>2, <2>3, FavouredKept
<1> QED BY <1>6, <1>7

LEMMA CompleteFavoured ==
  ASSUME TypeOK, Shape, Favoured, NEW h \in Handlers, Complete(h)
  PROVE  Favoured'
<1>1. /\ Calls(h) /\ call[h].op = "favour" /\ call[h].left = {Due(h)}
      /\ WriteKnob(Due(h), "favour", call[h].on)
      /\ Advance(h, {})
      /\ FocusPin(h) \/ TouchPin(h)
  BY DEF Complete
<1>2. h \in Threads /\ call[h].on = req[h].scope /\ req[h].scope \in Scopes
  BY <1>1 DEF Shape, ShapeOf, Threads
<1>3. /\ \A u \in Threads \ {h} : call'[u] = call[u]
      /\ call'[h].left = {}
  BY <1>1, <1>2, AdvanceFacts
<1>4. \A j \in Held, u \in alive :
        u \in holds[j] \/ (j = Due(h) /\ u = req[h].scope) => u \in holds'[j]
  <2>1. Grants("favour")
    BY DEF Grants
  <2> QED BY <1>1, <1>2, <2>1, WriteFacts
<1>5. /\ UNCHANGED <<alive, live>> /\ req'[h] = Idle
      /\ \A g \in Handlers \ {h} : req'[g] = req[g]
  BY <1>1 DEF FocusPin, TouchPin, TypeOK, PresenceTypeOK
<1>6. \A g \in Handlers : (req[g].at = "pin" /\ Calls(g) /\ call[g].op = "favour")' =>
        /\ g # h /\ req'[g] = req[g] /\ call'[g] = call[g]
        /\ req[g].at = "pin" /\ Calls(g) /\ call[g].op = "favour"
  BY <1>3, <1>5 DEF Idle, Calls, Threads
<1>7. ASSUME NEW g \in Handlers, (req[g].at = "pin" /\ Calls(g) /\ call[g].op = "favour")',
             req'[g].scope \in alive' \cap Undisputed
      PROVE  \A k \in Held \ call'[g].left : req'[g].scope \in holds'[k]
  BY <1>4, <1>5, <1>6, <1>7 DEF Favoured
<1>8. CASE FocusPin(h)
  <2>1. foreground' = req[h].scope /\ req[h].at = "pin"
    BY <1>8 DEF FocusPin
  <2>2. foreground' \in alive' \cap Undisputed => \A k \in Held : foreground' \in holds'[k]
    BY <1>1, <1>4, <1>5, <2>1 DEF Favoured, Undisputed
  <2> QED BY <1>7, <2>2 DEF Favoured, Undisputed
<1>9. CASE TouchPin(h)
  <2>1. UNCHANGED foreground /\ req[h].at = "release"
    BY <1>9 DEF TouchPin
  <2>2. ForegroundLocked' <=> ForegroundLocked
    BY <1>5, <2>1 DEF ForegroundLocked, Idle
  <2> QED BY <1>4, <1>5, <1>7, <2>1, <2>2 DEF Favoured, Undisputed
<1> QED BY <1>1, <1>8, <1>9

LEMMA RequestFavoured ==
  ASSUME TypeOK, Shape, Favoured, NEW h \in Handlers, Attend(h) \/ Report(h)
  PROVE  Favoured'
<1>1. h \in Threads /\ ~Calls(h)
  BY DEF Attend, Report, Threads
<1>2. req \in [Handlers -> [at : {"idle", "thaw", "swap", "pin", "release"},
                           scope : Scopes \cup {NoScope}, drop : SUBSET Scopes]]
  BY DEF TypeOK, PresenceTypeOK
<1>3. UNCHANGED <<alive, foreground, holds>>
  <2>1. CASE Attend(h)
    BY <2>1 DEF Attend, FocusThaw, FocusUnchanged, LeavePrevious, FocusRelease, HandBack,
                TouchRelease, BeginFavour, favourVars, presenceVars
  <2>2. CASE Report(h)
    BY <2>2 DEF Report, FocusStore, Touch, favourVars
  <2> QED BY <2>1, <2>2
\* Another thread is where it was.
<1>4. ASSUME \A g \in Handlers \ {h} : req'[g] = req[g] /\ call'[g] = call[g],
             ForegroundLocked' <=> ForegroundLocked,
             \/ req'[h].at # "pin" \/ ~Calls(h)' \/ call'[h].op # "favour"
             \/ call'[h].left = Program["favour"]
      PROVE  Favoured'
  <2>1. ASSUME NEW g \in Handlers, (req[g].at = "pin" /\ Calls(g) /\ call[g].op = "favour")',
               req'[g].scope \in alive' \cap Undisputed
        PROVE  \A k \in Held \ call'[g].left : req'[g].scope \in holds'[k]
    <3>1. CASE g = h
      BY <1>4, <2>1, <3>1 DEF Program, Held
    <3>2. CASE g # h
      BY <1>3, <1>4, <2>1, <3>2 DEF Favoured, Calls
    <3> QED BY <3>1, <3>2
  <2> QED BY <1>3, <1>4, <2>1 DEF Favoured, Undisputed
<1>5. CASE Report(h) \/ ((FocusThaw(h) \/ FocusUnchanged(h)) /\ UNCHANGED favourVars)
  <2>1. UNCHANGED call
    BY <1>5 DEF Report, favourVars
  <2>2. /\ \A g \in Handlers \ {h} : req'[g] = req[g]
        /\ req'[h] = req[h] \/ (req[h].at # "pin" /\ req'[h].at # "pin")
    BY <1>2, <1>5 DEF Report, FocusStore, Touch, FocusThaw, FocusUnchanged, Idle
  <2>3. ForegroundLocked' <=> ForegroundLocked
    BY <2>2 DEF ForegroundLocked
  <2> QED BY <1>1, <1>4, <2>1, <2>2, <2>3 DEF Calls
<1>6. CASE LeavePrevious(h)
  <2>1. /\ req' = [req EXCEPT ![h].at = "pin"]
        /\ \/ foreground = NoScope /\ UNCHANGED call
           \/ foreground # NoScope /\ Starting(h, "release", foreground)
    BY <1>1, <1>6 DEF LeavePrevious, FocusRelease, Starting
  <2>2. req'[h].at = "pin" /\ \A g \in Handlers \ {h} : req'[g] = req[g]
    BY <1>2, <2>1
  <2>3. "release" \in DOMAIN Program /\ (foreground # NoScope => foreground \in Scopes)
    BY DEF Program, TypeOK, PresenceTypeOK
  <2>4. /\ \A g \in Handlers \ {h} : call'[g] = call[g]
        /\ ~Calls(h)' \/ call'[h].op = "release"
    BY <1>1, <2>1, <2>3, StartingFacts DEF Calls, Threads
  <2>5. ForegroundLocked'
    BY <2>2 DEF ForegroundLocked
  <2>6. \A g \in Handlers : (req[g].at = "pin" /\ Calls(g) /\ call[g].op = "favour")' =>
          g # h /\ req'[g] = req[g] /\ call'[g] = call[g]
    BY <2>2, <2>4
  <2> QED BY <1>3, <2>5, <2>6 DEF Favoured, Calls
<1>7. ASSUME NEW p \in Scopes, HandBack(h, p) PROVE Favoured'
  <2>1. /\ req' = [req EXCEPT ![h].drop = @ \ {p}] /\ req[h].at = "release"
        /\ Starting(h, "release", p)
    BY <1>1, <1>7 DEF HandBack, TouchRelease, Starting
  <2>2. /\ req'[h].at = "release" /\ \A g \in Handlers \ {h} : req'[g] = req[g]
    BY <1>2, <2>1
  <2>3. "release" \in DOMAIN Program
    BY DEF Program
  <2>4. \A g \in Handlers \ {h} : call'[g] = call[g]
    BY <1>1, <2>1, <2>3, StartingFacts DEF Threads
  <2>5. ForegroundLocked' <=> ForegroundLocked
    BY <2>1, <2>2 DEF ForegroundLocked
  <2> QED BY <1>4, <2>2, <2>4, <2>5
<1>8. CASE BeginFavour(h)
  <2>1. UNCHANGED req /\ Starting(h, "favour", req[h].scope) /\ req[h].at # "idle"
    BY <1>1, <1>8 DEF BeginFavour, Starting, presenceVars
  <2>2. "favour" \in DOMAIN Program /\ req[h].scope \in Scopes
    BY <2>1 DEF Program, Shape, ShapeOf
  <2>3. /\ \A g \in Handlers \ {h} : call'[g] = call[g]
        /\ call'[h].left = Program["favour"]
    BY <1>1, <2>1, <2>2, StartingFacts DEF Threads
  <2>4. ForegroundLocked' <=> ForegroundLocked
    BY <2>1 DEF ForegroundLocked
  <2> QED BY <1>4, <2>1, <2>3, <2>4
<1> QED BY <1>5, <1>6, <1>7, <1>8 DEF Attend

LEMMA OthersFavoured ==
  ASSUME TypeOK, Shape, Favoured,
         \/ BeginPass \/ \E s \in Scopes : KeepSpine(s) \/ CapLook(s)
         \/ \E h \in Handlers, op \in DOMAIN Program, s \in Commanded : Command(h, op, s)
         \/ Elapse \/ \E s \in Scopes : End(s) \/ Restart(s)
  PROVE  Favoured'
<1>1. /\ UNCHANGED <<foreground, req>>
      /\ alive' \cap Undisputed \subseteq alive
      /\ \A k \in Held, u \in alive' \cap Undisputed : u \in holds[k] => u \in holds'[k]
  <2>1. CASE BeginPass \/ \E s \in Scopes : KeepSpine(s) \/ CapLook(s)
    BY <2>1 DEF BeginPass, KeepSpine, CapLook, presenceVars
  <2>2. CASE \E h \in Handlers, op \in DOMAIN Program, s \in Commanded : Command(h, op, s)
    BY <2>2 DEF Command, presenceVars
  <2>3. CASE Elapse
    BY <2>3 DEF Elapse, favourVars
  <2>4. ASSUME NEW s \in Scopes, End(s)
        PROVE  /\ UNCHANGED <<foreground, req>>
               /\ alive' \cap Undisputed \subseteq alive
               /\ \A k \in Held, u \in alive' \cap Undisputed : u \in holds[k] => u \in holds'[k]
    BY <2>4 DEF End, Leave
  <2>5. ASSUME NEW s \in Scopes, Restart(s)
        PROVE  /\ UNCHANGED <<foreground, req>>
               /\ alive' \cap Undisputed \subseteq alive
               /\ \A k \in Held, u \in alive' \cap Undisputed : u \in holds[k] => u \in holds'[k]
    BY <2>5 DEF Restart, Return, Undisputed, favourVars
  <2> QED BY <2>1, <2>2, <2>3, <2>4, <2>5
<1>2. \A h \in Handlers :
        \/ call'[h] = call[h]
        \/ Calls(h)' /\ call'[h].op # "favour"
  <2>1. CASE BeginPass \/ \E s \in Scopes : KeepSpine(s) \/ CapLook(s)
    <3>1. \/ UNCHANGED call
          \/ \E op \in {"keep", "bound", "lift"}, s \in Scopes : Starting(Loop, op, s)
      BY <2>1, LoopLooksTyped
    <3>2. ASSUME NEW op \in {"keep", "bound", "lift"}, NEW s \in Scopes, Starting(Loop, op, s)
          PROVE  \A h \in Handlers : call'[h] = call[h]
      <4>1. op \in DOMAIN Program /\ Loop \in Threads /\ Loop \notin Handlers
        BY FavourAssumption DEF FavourAssumption, Program, Threads
      <4> QED BY <3>2, <4>1, StartingFacts DEF Threads
    <3> QED BY <3>1, <3>2
  <2>2. ASSUME NEW h \in Handlers, NEW op \in DOMAIN Program, NEW s \in Commanded, Command(h, op, s)
        PROVE  \A g \in Handlers : call'[g] = call[g] \/ (Calls(g)' /\ call'[g].op # "favour")
    <3>1. Starting(h, op, s) /\ s \in Scopes /\ op # "favour" /\ h \in Threads
      BY <2>2, CommandTyped DEF Threads
    <3>2. Program[op] # {}
      BY DEF Program
    <3> QED BY <3>1, <3>2, StartingFacts DEF Threads, Calls
  <2>3. CASE Elapse \/ \E s \in Scopes : End(s) \/ Restart(s)
    BY <2>3 DEF Elapse, End, Restart, favourVars
  <2> QED BY <2>1, <2>2, <2>3
<1>3. ForegroundLocked' <=> ForegroundLocked
  BY <1>1 DEF ForegroundLocked
<1>4. \A h \in Handlers :
        (req[h].at = "pin" /\ Calls(h) /\ call[h].op = "favour")' =>
          /\ req[h].at = "pin" /\ Calls(h) /\ call[h].op = "favour"
          /\ req'[h].scope = req[h].scope
          /\ \A k \in Held \ call'[h].left :
               k \in call[h].left /\ req[h].scope \in alive' => req[h].scope \in holds'[k]
  BY <1>1, <1>2 DEF Calls
<1> QED BY <1>1, <1>3, <1>4, FavouredKept

\* The foreground is favoured when the threads are quiet, for every number of
\* threads, of windows and of units.
THEOREM FocusFavoured == HistorySpec => []FocusIsFavoured
<1>1. Init => Favoured
  BY PresenceAssumption DEF PresenceAssumption, Init, PresenceInit, Idle, NoCall, Favoured
<1>2. TypeOK /\ Shape /\ Favoured /\ [Next]_vars => Favoured'
  <2> SUFFICES ASSUME TypeOK, Shape, Favoured, [Next]_vars PROVE Favoured'
    OBVIOUS
  <2>1. CASE Write(Loop) \/ ReadBackFails
    <3>1. Loop \in Threads
      BY DEF Threads
    <3> QED BY <2>1, <3>1, WriteWrites, ReadBackWrites, WritesFavoured
  <2>2. ASSUME NEW h \in Handlers, HandlerStep(h) \/ Report(h) PROVE Favoured'
    <3>1. h \in Threads
      BY DEF Threads
    <3> QED BY <2>2, <3>1, RequestFavoured, WriteWrites, WritesFavoured, CompleteFavoured DEF HandlerStep
  <2>3. CASE UNCHANGED vars
    BY <2>3 DEF vars, favourVars, presenceVars, Favoured, ForegroundLocked, Calls
  <2> QED BY <2>1, <2>2, <2>3, OthersFavoured DEF Next, LoopStep
<1>3. TypeOK /\ Favoured => FocusIsFavoured
  BY DEF Favoured, FocusIsFavoured, AtRest, Quiescent, ForegroundLocked, Undisputed,
         TypeOK, PresenceTypeOK
<1>4. HistoryInit => Init
  BY DEF HistoryInit
<1>5. [Next /\ Record]_<<vars, history>> => [Next]_vars
  OBVIOUS
<1>6. Init => TypeOK /\ Shape
  BY InitTyped
<1>7. TypeOK /\ Shape /\ [Next]_vars => TypeOK' /\ Shape'
  BY NextTyped
<1> QED
  BY <1>1, <1>2, <1>3, <1>4, <1>5, <1>6, <1>7, PTL DEF HistorySpec

-----------------------------------------------------------------------------
(* What is dropped is released, with one thread of touches.                *)

\* While calls only start, nobody stops accounting for what is leaving, and no
\* pin of the user's is written away.
LEMMA StartsAccount ==
  ASSUME Record, \A t \in Threads : Calls(t) => call'[t] = call[t]
  PROVE  /\ \A k : Leaving(k) \subseteq Leaving(k)'
         /\ byHand \cap Scopes \subseteq byHand'
<1>1. \A t \in Threads : \A k : k \in call[t].left => call'[t] = call[t]
  BY DEF Calls
<1>2. \A t \in Threads : \A k, op, s : ~Wrote(t, k, op, s)
  BY <1>1 DEF Wrote
<1> QED BY <1>1, <1>2 DEF Leaving, Record

\* What LIVE or the record of the overtaken has accounted for, one of them still
\* does, unless it falls out of LIVE with nobody serving a touch of it.
LEMMA TouchedKept ==
  ASSUME Record
  PROVE  /\ overtaken \subseteq Touched'
         /\ Listed(live) \cap Served \subseteq Touched'
         /\ Listed(live') \subseteq Touched'
         /\ Listed(live) \subseteq Listed(live') => Touched \subseteq Touched'
BY DEF Record, Touched

LEMMA WritesAccounted ==
  ASSUME TypeOK, Shape, Accounted, Record, NEW t \in Threads, Writes(t)
  PROVE  Accounted'
<1>1. PICK k \in call[t].left, left \in SUBSET call[t].left :
        /\ \/ left = call[t].left \ {k}
           \/ left = {} /\ call[t].op \notin {"favour", "release", "protect"}
        /\ call[t].op = "favour" => left # {}
        /\ WriteKnob(k, call[t].op, call[t].on)
        /\ Advance(t, left)
  BY DEF Writes
<1>2. call[t].on \in Scopes /\ Calls(t) /\ call[t].left \subseteq Program[call[t].op]
  BY DEF Writes, Shape
<1>3. UNCHANGED <<foreground, live, req>>
  BY DEF Writes, presenceVars
<1>4. /\ \A u \in Threads \ {t} : call'[u] = call[u]
      /\ call'[t].left = left
      /\ left # {} => call'[t].op = call[t].op /\ call'[t].on = call[t].on
  BY <1>1, AdvanceFacts
<1>5. /\ holds' \in [Held -> SUBSET Scopes]
      /\ \A j \in Held : holds'[j] \subseteq holds[j] \cup (IF j = k /\ Grants(call[t].op) THEN {call[t].on} ELSE {})
      /\ \A j \in Held : j = k /\ ~Grants(call[t].op) => call[t].on \notin holds'[j]
  BY <1>1, <1>2, WriteFacts
<1>6. /\ ForegroundLocked' <=> ForegroundLocked
      /\ Entering' = Entering /\ Dropping' = Dropping /\ Served' = Served
      /\ Touched \subseteq Touched'
  BY <1>3, TouchedKept DEF ForegroundLocked, Entering, Dropping, Served
<1>7. ~Grants("release")
  BY DEF Grants
<1>8. ASSUME NEW j \in Held, NEW u \in holds'[j], u \in holds[j]
      PROVE  u \in Owed(j)'
  <2>1. u \in Owed(j) /\ u \in Scopes
    BY <1>5, <1>8 DEF Accounted
  <2>2. ASSUME u \in Leaving(j) PROVE u \in Leaving(j)'
    <3>1. PICK v \in Threads : call[v].op = "release" /\ j \in call[v].left /\ call[v].on = u
      BY <2>2 DEF Leaving
    <3>2. v # t \/ j # k
      BY <1>5, <1>7, <1>8, <3>1
    <3>3. call'[v].op = "release" /\ j \in call'[v].left /\ call'[v].on = u
      BY <1>1, <1>4, <3>1, <3>2
    <3> QED BY <3>3 DEF Leaving
  <2>3. ASSUME j = "pin", u \in byHand PROVE u \in byHand'
    <3>1. ASSUME NEW v \in Threads, Wrote(v, "pin", "release", u) PROVE FALSE
      <4>1. v = t /\ call[t].op = "release" /\ call[t].on = u /\ "pin" \notin left
        BY <1>4, <3>1 DEF Wrote
      <4>2. k = "pin"
        BY <1>1, <3>1, <4>1 DEF Wrote
      <4> QED BY <1>5, <1>7, <1>8, <2>3, <4>1, <4>2
    <3> QED BY <2>1, <2>3, <3>1 DEF Record
  <2> QED BY <1>3, <1>6, <2>1, <2>2, <2>3 DEF Owed
<1>9. ASSUME NEW j \in Held, j = k, Grants(call[t].op)
      PROVE  call[t].on \in Owed(j)'
  <2>1. CASE call[t].op = "favour"
    <3>1. t \in Handlers
      BY <1>2, <2>1 DEF Shape, Threads
    <3>2. req[t].at \in {"pin", "release"} /\ call[t].on = req[t].scope
      BY <1>2, <2>1, <3>1 DEF Shape, ShapeOf
    <3>3. CASE req[t].at = "pin"
      <4>1. ForegroundLocked /\ call[t].on \in Entering
        BY <3>1, <3>2, <3>3 DEF ForegroundLocked, Entering
      <4> QED BY <1>6, <4>1 DEF Owed
    <3>4. CASE req[t].at = "release"
      BY <1>6, <3>1, <3>2, <3>4 DEF Accounted, Owed, Served
    <3> QED BY <3>2, <3>3, <3>4
  <2>2. CASE call[t].op = "protect"
    <3>1. k = "pin" /\ left = {}
      BY <1>1, <1>2, <2>2 DEF Program
    <3>2. Wrote(t, "pin", "protect", call[t].on)
      BY <1>1, <1>4, <2>2, <3>1 DEF Wrote
    <3>3. call[t].on \in byHand'
      BY <1>2, <3>2 DEF Record
    <3> QED BY <1>9, <3>1, <3>3 DEF Owed
  <2>3. CASE call[t].op = "keep"
    BY <1>2, <2>3 DEF Shape, ShapeOf, Threads, Owed
  <2> QED BY <1>9, <2>1, <2>2, <2>3 DEF Grants
<1>10. \A j \in Held : holds'[j] \subseteq Owed(j)'
  BY <1>5, <1>8, <1>9
<1> QED BY <1>3, <1>6, <1>10 DEF Accounted

LEMMA CompleteAccounted ==
  ASSUME TypeOK, Shape, Accounted, Record, NEW h \in Handlers, Complete(h)
  PROVE  Accounted'
<1>1. /\ Calls(h) /\ call[h].op = "favour" /\ call[h].left = {Due(h)}
      /\ WriteKnob(Due(h), "favour", call[h].on)
      /\ Advance(h, {})
      /\ FocusPin(h) \/ TouchPin(h)
  BY DEF Complete
<1>2. h \in Threads /\ call[h].on = req[h].scope /\ req[h].scope \in Scopes
  BY <1>1 DEF Shape, ShapeOf, Threads
<1>3. /\ \A u \in Threads \ {h} : call'[u] = call[u]
      /\ call'[h].left = {}
  BY <1>1, <1>2, AdvanceFacts
<1>4. /\ holds' \in [Held -> SUBSET Scopes]
      /\ \A j \in Held : holds'[j] \subseteq holds[j] \cup {req[h].scope}
  BY <1>1, <1>2, WriteFacts
<1>5. /\ UNCHANGED live /\ req'[h] = Idle
      /\ \A g \in Handlers \ {h} : req'[g] = req[g]
  BY <1>1 DEF FocusPin, TouchPin, TypeOK, PresenceTypeOK
<1>6. \A k : Leaving(k) \subseteq Leaving(k)'
  BY <1>1, <1>3 DEF Leaving
<1>7. byHand \cap Scopes \subseteq byHand'
  <2>1. \A t \in Threads : \A s : ~Wrote(t, "pin", "release", s)
    BY <1>1, <1>3 DEF Wrote
  <2> QED BY <2>1 DEF Record
<1>8. Dropping \subseteq Dropping' /\ Touched \subseteq Touched' /\ Served' \subseteq Served
  <2>1. req[h].at = "release" => req[h].drop = {}
    BY <1>1 DEF FocusPin, TouchPin
  <2>2. Dropping \subseteq Dropping' /\ Served' \subseteq Served
    BY <1>5, <2>1 DEF Dropping, Served, Idle
  <2> QED BY <1>5, <2>2, TouchedKept
<1>9. \A j \in Held : holds'[j] \subseteq Owed(j)'
  <2>1. CASE FocusPin(h)
    <3>1. req[h].at = "pin" /\ foreground' = req[h].scope
      BY <2>1 DEF FocusPin
    <3>2. ForegroundLocked /\ Entering = {req[h].scope} /\ ~ForegroundLocked'
      BY <1>5, <3>1 DEF ForegroundLocked, Entering, Shape, Idle
    <3> QED BY <1>4, <1>5, <1>6, <1>7, <1>8, <3>1, <3>2 DEF Accounted, Owed, TypeOK, FavourTypeOK
  <2>2. CASE TouchPin(h)
    <3>1. req[h].at = "release" /\ UNCHANGED foreground
      BY <2>2 DEF TouchPin
    <3>2. (ForegroundLocked' <=> ForegroundLocked) /\ Entering' = Entering
      BY <1>5, <3>1 DEF ForegroundLocked, Entering, Idle
    <3>3. req[h].scope \in Touched'
      BY <1>5, <3>1, TouchedKept DEF Accounted, Served
    <3> QED BY <1>4, <1>5, <1>6, <1>7, <1>8, <3>1, <3>2, <3>3 DEF Accounted, Owed, TypeOK, FavourTypeOK
  <2> QED BY <1>1, <2>1, <2>2
<1> QED BY <1>8, <1>9 DEF Accounted

\* The steps that only start calls: what accounted before still does, or what
\* the step starts does.
LEMMA QuietAccounted ==
  ASSUME TypeOK, Accounted, Record,
         \A t \in Threads : Calls(t) => call'[t] = call[t],
         \A k \in Held : holds'[k] \subseteq holds[k],
         \A k \in Held, u \in Scopes :
           u \in (IF ForegroundLocked THEN Entering ELSE {foreground}) \cup Touched \cup Dropping
             => u \in (IF ForegroundLocked' THEN Entering' ELSE {foreground'})
                        \cup Touched' \cup Dropping' \cup Leaving(k)',
         Served' \subseteq Touched'
  PROVE  Accounted'
<1>1. /\ \A k : Leaving(k) \subseteq Leaving(k)'
      /\ byHand \cap Scopes \subseteq byHand'
  BY StartsAccount
<1>2. ASSUME NEW k \in Held, NEW u \in holds'[k] PROVE u \in Owed(k)'
  <2>1. u \in Owed(k) /\ u \in Scopes
    BY <1>2 DEF Accounted, TypeOK, FavourTypeOK
  <2> QED BY <1>1, <2>1 DEF Owed
<1> QED BY <1>2 DEF Accounted

LEMMA RequestAccounted ==
  ASSUME TypeOK, Shape, Accounted, Record,
         NEW h \in Handlers, Attend(h) \/ Report(h)
  PROVE  Accounted'
<1>1. h \in Threads /\ ~Calls(h)
  BY DEF Attend, Report, Threads
<1>2. req \in [Handlers -> [at : {"idle", "thaw", "swap", "pin", "release"},
                           scope : Scopes \cup {NoScope}, drop : SUBSET Scopes]]
  BY DEF TypeOK, PresenceTypeOK
<1>3. UNCHANGED holds
  BY DEF Attend, Report, FocusThaw, FocusUnchanged, LeavePrevious, HandBack, BeginFavour, favourVars
<1>4. /\ Served \subseteq Touched
      /\ live' = live => Touched \subseteq Touched'
  BY TouchedKept DEF Accounted
\* A step of a focus report outside the critical section.
<1>5. ASSUME UNCHANGED <<foreground, live, call>>,
             \A g \in Handlers \ {h} : req'[g] = req[g],
             req[h].at \notin {"pin", "release"}, req'[h].at \notin {"pin", "release"}
      PROVE  Accounted'
  <2>1. (ForegroundLocked' <=> ForegroundLocked) /\ Entering' = Entering /\ Dropping' = Dropping
    BY <1>5 DEF ForegroundLocked, Entering, Dropping
  <2>2. Served' = Served
    BY <1>5 DEF Served
  <2> QED BY <1>3, <1>4, <1>5, <2>1, <2>2, QuietAccounted
<1>6. CASE (FocusThaw(h) \/ FocusUnchanged(h)) /\ UNCHANGED favourVars
  BY <1>2, <1>5, <1>6 DEF FocusThaw, FocusUnchanged, Idle, favourVars
<1>7. ASSUME NEW w \in Windows, FocusStore(h, w), UNCHANGED favourVars PROVE Accounted'
  BY <1>2, <1>5, <1>7 DEF FocusStore, favourVars
<1>8. ASSUME NEW s \in Typists, Touch(h, s), UNCHANGED favourVars PROVE Accounted'
  <2>1. /\ req[h].at = "idle"
        /\ req' = [req EXCEPT ![h] = [at |-> "release", scope |-> s, drop |-> FallenOut(s)]]
        /\ live' = Truncated(s) /\ UNCHANGED <<foreground, call>>
    BY <1>8 DEF Touch, favourVars
  <2>2. /\ req'[h] = [at |-> "release", scope |-> s, drop |-> FallenOut(s)]
        /\ \A g \in Handlers \ {h} : req'[g] = req[g]
    BY <1>2, <2>1
  <2>3. Listed(live) \subseteq Listed(live') \cup Dropping'
    BY <2>1, <2>2 DEF FallenOut, Dropping
  <2>4. Dropping \subseteq Dropping'
    BY <2>1, <2>2 DEF Dropping
  <2>5. Touched \subseteq Touched' \cup Dropping'
    BY <2>3, TouchedKept DEF Touched
  <2>6. (ForegroundLocked' <=> ForegroundLocked) /\ Entering' = Entering
    BY <2>1, <2>2 DEF ForegroundLocked, Entering
  <2>7. s \in Listed(live')
    BY <2>1, TruncatedFacts, PresenceAssumption DEF PresenceAssumption, TypeOK
  <2>8. Served' \subseteq Touched'
    <3>1. Served' \subseteq Served \cup {s}
      BY <2>2 DEF Served
    <3>2. Served \subseteq Touched'
      BY <1>4, TouchedKept DEF Touched
    <3> QED BY <2>7, <3>1, <3>2, TouchedKept
  <2> QED BY <1>3, <2>1, <2>4, <2>5, <2>6, <2>8, QuietAccounted
<1>9. CASE LeavePrevious(h)
  <2>1. /\ req[h].at = "swap" /\ ~ForegroundLocked
        /\ req' = [req EXCEPT ![h].at = "pin"]
        /\ UNCHANGED <<foreground, live>>
        /\ \/ foreground = NoScope /\ UNCHANGED call
           \/ foreground # NoScope /\ Starting(h, "release", foreground)
    BY <1>1, <1>9 DEF LeavePrevious, FocusRelease, Starting
  <2>2. /\ req'[h].at = "pin" /\ req'[h].scope = req[h].scope
        /\ \A g \in Handlers \ {h} : req'[g] = req[g]
    BY <1>2, <2>1
  <2>3. "release" \in DOMAIN Program /\ (foreground # NoScope => foreground \in Scopes)
    BY DEF Program, TypeOK, PresenceTypeOK
  <2>4. /\ \A t \in Threads : Calls(t) => call'[t] = call[t]
        /\ foreground # NoScope => /\ call'[h].op = "release" /\ call'[h].on = foreground
                                   /\ call'[h].left = Program["release"]
    BY <1>1, <2>1, <2>3, StartingFacts DEF Calls
  <2>5. \A k \in Held : foreground # NoScope => foreground \in Leaving(k)'
    BY <1>1, <2>4 DEF Leaving, Program, Held
  <2>6. Dropping' = Dropping
    BY <2>1, <2>2 DEF Dropping
  <2>7. NoScope \notin Scopes
    BY PresenceAssumption DEF PresenceAssumption
  <2>8. \A k \in Held, u \in Scopes :
          u \in (IF ForegroundLocked THEN Entering ELSE {foreground}) \cup Touched \cup Dropping
            => u \in (IF ForegroundLocked' THEN Entering' ELSE {foreground'})
                       \cup Touched' \cup Dropping' \cup Leaving(k)'
    BY <1>4, <2>1, <2>5, <2>6, <2>7
  <2>9. Served' \subseteq Touched'
    <3>1. Served' = Served
      BY <2>1, <2>2 DEF Served
    <3> QED BY <1>4, <2>1, <3>1
  <2> QED BY <1>3, <2>4, <2>8, <2>9, QuietAccounted
<1>10. ASSUME NEW p \in Scopes, HandBack(h, p) PROVE Accounted'
  <2>1. /\ req[h].at = "release"
        /\ req' = [req EXCEPT ![h].drop = @ \ {p}]
        /\ UNCHANGED <<foreground, live>>
        /\ Starting(h, "release", p)
    BY <1>1, <1>10 DEF HandBack, TouchRelease, Starting
  <2>2. /\ req'[h].at = "release" /\ req'[h].scope = req[h].scope /\ req'[h].drop = req[h].drop \ {p}
        /\ \A g \in Handlers \ {h} : req'[g] = req[g]
    BY <1>2, <2>1
  <2>3. "release" \in DOMAIN Program
    BY DEF Program
  <2>4. /\ \A t \in Threads : Calls(t) => call'[t] = call[t]
        /\ call'[h].op = "release" /\ call'[h].on = p /\ call'[h].left = Program["release"]
    BY <1>1, <2>1, <2>3, StartingFacts
  <2>5. \A k \in Held : p \in Leaving(k)'
    BY <1>1, <2>4 DEF Leaving, Program, Held
  <2>6. Dropping \subseteq Dropping' \cup {p}
    BY <2>1, <2>2 DEF Dropping
  <2>7. (ForegroundLocked' <=> ForegroundLocked) /\ Entering' = Entering
    BY <2>1, <2>2 DEF ForegroundLocked, Entering
  <2>8. Served' \subseteq Touched'
    <3>1. Served' = Served
      BY <2>1, <2>2 DEF Served
    <3> QED BY <1>4, <2>1, <3>1
  <2>9. \A k \in Held, u \in Scopes :
          u \in (IF ForegroundLocked THEN Entering ELSE {foreground}) \cup Touched \cup Dropping
            => u \in (IF ForegroundLocked' THEN Entering' ELSE {foreground'})
                       \cup Touched' \cup Dropping' \cup Leaving(k)'
    BY <1>4, <2>1, <2>5, <2>6, <2>7
  <2> QED BY <1>3, <2>4, <2>8, <2>9, QuietAccounted
<1>11. CASE BeginFavour(h)
  <2>1. UNCHANGED <<foreground, live, req>> /\ Starting(h, "favour", req[h].scope) /\ req[h].at # "idle"
    BY <1>1, <1>11 DEF BeginFavour, Starting, presenceVars
  <2>2. "favour" \in DOMAIN Program /\ req[h].scope \in Scopes
    BY <2>1 DEF Program, Shape, ShapeOf
  <2>3. \A t \in Threads : Calls(t) => call'[t] = call[t]
    BY <1>1, <2>1, <2>2, StartingFacts
  <2>4. /\ (ForegroundLocked' <=> ForegroundLocked) /\ Entering' = Entering /\ Dropping' = Dropping
        /\ Served' = Served
    BY <2>1 DEF ForegroundLocked, Entering, Dropping, Served
  <2> QED BY <1>3, <1>4, <2>1, <2>3, <2>4, QuietAccounted
<1> QED BY <1>6, <1>7, <1>8, <1>9, <1>10, <1>11 DEF Attend, Report

LEMMA OthersAccounted ==
  ASSUME TypeOK, Shape, Accounted, Record,
         \/ BeginPass \/ \E s \in Scopes : KeepSpine(s) \/ CapLook(s)
         \/ \E h \in Handlers, op \in DOMAIN Program, s \in Commanded : Command(h, op, s)
         \/ Elapse \/ \E s \in Scopes : End(s) \/ Restart(s)
         \/ UNCHANGED vars
  PROVE  Accounted'
<1>1. /\ UNCHANGED <<foreground, req>>
      /\ Listed(live') = Listed(live)
      /\ \A k \in Held : holds'[k] \subseteq holds[k]
  <2>1. CASE BeginPass \/ \E s \in Scopes : KeepSpine(s) \/ CapLook(s)
    BY <2>1 DEF BeginPass, KeepSpine, CapLook, presenceVars
  <2>2. CASE \E h \in Handlers, op \in DOMAIN Program, s \in Commanded : Command(h, op, s)
    BY <2>2 DEF Command, presenceVars
  <2>3. CASE Elapse
    BY <2>3, AgedFacts DEF Elapse, favourVars, TypeOK
  <2>4. CASE \E s \in Scopes : End(s) \/ Restart(s)
    BY <2>4 DEF End, Restart, favourVars
  <2>5. CASE UNCHANGED vars
    BY <2>5 DEF vars, favourVars, presenceVars
  <2> QED BY <2>1, <2>2, <2>3, <2>4, <2>5
<1>2. \A t \in Threads : Calls(t) => call'[t] = call[t]
  <2>1. CASE BeginPass \/ \E s \in Scopes : KeepSpine(s) \/ CapLook(s)
    <3>1. \/ UNCHANGED call
          \/ \E op \in {"keep", "bound", "lift"}, s \in Scopes : Starting(Loop, op, s)
      BY <2>1, LoopLooksTyped
    <3>2. {"keep", "bound", "lift"} \subseteq DOMAIN Program /\ Loop \in Threads
      BY DEF Program, Threads
    <3>3. ASSUME NEW op \in {"keep", "bound", "lift"}, NEW s \in Scopes, Starting(Loop, op, s)
          PROVE  \A t \in Threads : Calls(t) => call'[t] = call[t]
      BY <3>2, <3>3, StartingFacts DEF Starting
    <3> QED BY <3>1, <3>3
  <2>2. ASSUME NEW h \in Handlers, NEW op \in DOMAIN Program, NEW s \in Commanded, Command(h, op, s)
        PROVE  \A t \in Threads : Calls(t) => call'[t] = call[t]
    <3>1. Starting(h, op, s) /\ s \in Scopes /\ h \in Threads
      BY <2>2, CommandTyped DEF Threads
    <3> QED BY <3>1, StartingFacts DEF Starting
  <2>3. CASE Elapse \/ UNCHANGED vars \/ \E s \in Scopes : End(s) \/ Restart(s)
    BY <2>3 DEF Elapse, End, Restart, favourVars, vars
  <2> QED BY <2>1, <2>2, <2>3
<1>3. (ForegroundLocked' <=> ForegroundLocked) /\ Entering' = Entering /\ Dropping' = Dropping
  BY <1>1 DEF ForegroundLocked, Entering, Dropping
<1>4. Touched \subseteq Touched' /\ Served' \subseteq Touched'
  <2>1. Served' = Served
    BY <1>1 DEF Served
  <2> QED BY <1>1, <2>1, TouchedKept DEF Accounted
<1> QED BY <1>1, <1>2, <1>3, <1>4, QuietAccounted

\* A step that changes nothing but the history loses no pin of the user's.
LEMMA StutterAccounted ==
  ASSUME Accounted, UNCHANGED <<vars, history>>
  PROVE  Accounted'
BY DEF vars, history, favourVars, presenceVars, Accounted, Owed, Touched, Served, Leaving, Dropping,
       Entering, ForegroundLocked

\* When the threads are quiet nothing keeps a protection that the foreground, an
\* entry of LIVE, a command or the spine table does not account for, unless it is
\* a unit whose touch was overtaken, for any number of threads of each kind.
THEOREM NoProtectionLeaks == HistorySpec => []DroppedIsReleased
<1>1. HistoryInit => Init /\ Accounted
  BY DEF HistoryInit, Init, PresenceInit, Idle, NoCall, Accounted, Served
<1>2. TypeOK /\ Shape /\ Accounted /\ [Next /\ Record]_<<vars, history>> => Accounted'
  <2> SUFFICES ASSUME TypeOK, Shape, Accounted, Next, Record PROVE Accounted'
    BY StutterAccounted
  <2>1. CASE Write(Loop) \/ ReadBackFails
    <3>1. Loop \in Threads
      BY DEF Threads
    <3> QED BY <2>1, <3>1, WriteWrites, ReadBackWrites, WritesAccounted
  <2>2. ASSUME NEW h \in Handlers, HandlerStep(h) \/ Report(h) PROVE Accounted'
    <3>1. h \in Threads
      BY DEF Threads
    <3>2. CASE Attend(h) \/ Report(h)
      BY <3>2, RequestAccounted
    <3> QED BY <2>2, <3>1, <3>2, WriteWrites, WritesAccounted, CompleteAccounted DEF HandlerStep
  <2> QED BY <2>1, <2>2, OthersAccounted DEF Next, LoopStep
<1>3. TypeOK /\ Accounted => DroppedIsReleased
  <2> SUFFICES ASSUME Accounted, AtRest, NEW k \in Held
               PROVE  holds[k] \subseteq {foreground} \cup Listed(live) \cup Spine \cup overtaken
                                           \cup (IF k = "pin" THEN byHand ELSE {})
    BY DEF DroppedIsReleased
  <2>1. ~ForegroundLocked /\ Dropping = {} /\ Leaving(k) = {}
    BY DEF AtRest, Quiescent, Calls, ForegroundLocked, Dropping, Leaving
  <2> QED BY <2>1 DEF Accounted, Owed, Touched
<1>4. [Next /\ Record]_<<vars, history>> => [Next]_vars
  OBVIOUS
<1>5. Init => TypeOK /\ Shape
  BY InitTyped
<1>6. TypeOK /\ Shape /\ [Next]_vars => TypeOK' /\ Shape'
  BY NextTyped
<1> QED
  BY <1>1, <1>2, <1>3, <1>4, <1>5, <1>6, PTL DEF HistorySpec
-----------------------------------------------------------------------------
(* What the pass judged.  Between its look and its write the ceiling is     *)
(* still to come, and it is the one the unit's class calls for now; from   *)
(* the write on it is in force.                                            *)

WantedCeiling(s) == IF ProtectedFromEviction(s) THEN "max" ELSE "standing"

EnforcedOK ==
  \A s \in judged :
    /\ s \in alive /\ s \in Scopes
    /\ \A h \in Handlers : ~AboutToLimit(h, s)
    /\ IF AboutToLimit(Loop, s) THEN call[Loop].op = Verdict(s) ELSE high[s] = WantedCeiling(s)

\* What Record says of a unit that is judged: it lives, nobody but the pass is
\* about to write its ceiling, and its class asks for the ceiling it asked for.
LEMMA JudgedFacts ==
  ASSUME TypeOK', Record, NEW s \in judged'
  PROVE  /\ s \in alive' /\ s \in Scopes
         /\ \A h \in Handlers : ~AboutToLimit(h, s)'
         /\ Verdict(s)' = Verdict(s) /\ WantedCeiling(s)' = WantedCeiling(s)
         /\ s \in judged \/ s \in (pass.apps \ pass'.apps) \ marked
<1>1. /\ s \in alive'
      /\ s \in judged \/ s \in (pass.apps \ pass'.apps) \ marked
      /\ ProtectedFromEviction(s)' <=> ProtectedFromEviction(s)
      /\ \A h \in Handlers : ~AboutToLimit(h, s)'
  BY DEF Record
<1>2. s \in Scopes
  BY <1>1 DEF TypeOK, PresenceTypeOK
<1>3. Verdict(s)' = Verdict(s) /\ WantedCeiling(s)' = WantedCeiling(s)
  BY <1>1 DEF Verdict, WantedCeiling
<1> QED BY <1>1, <1>2, <1>3

\* A step that judges nothing new, leaves the loop's call alone where it is about
\* a ceiling and changes no ceiling of what is judged.
LEMMA EnforcedKept ==
  ASSUME TypeOK', EnforcedOK, Record,
         pass.apps \subseteq pass'.apps,
         \A s \in judged : s \in alive' => high'[s] = high[s] \/ \E h \in Handlers : AboutToLimit(h, s),
         \A s \in judged : AboutToLimit(Loop, s) => call'[Loop] = call[Loop],
         \A s \in judged : AboutToLimit(Loop, s)' => AboutToLimit(Loop, s)
  PROVE  EnforcedOK'
<1> SUFFICES ASSUME NEW s \in judged'
             PROVE  /\ s \in alive' /\ s \in Scopes
                    /\ \A h \in Handlers : ~AboutToLimit(h, s)'
                    /\ IF AboutToLimit(Loop, s)' THEN call'[Loop].op = Verdict(s)'
                       ELSE high'[s] = WantedCeiling(s)'
  BY DEF EnforcedOK
<1>1. /\ s \in alive' /\ s \in Scopes
      /\ \A h \in Handlers : ~AboutToLimit(h, s)'
      /\ Verdict(s)' = Verdict(s) /\ WantedCeiling(s)' = WantedCeiling(s)
      /\ s \in judged
  BY JudgedFacts
<1>2. /\ high'[s] = high[s]
      /\ IF AboutToLimit(Loop, s) THEN call[Loop].op = Verdict(s) ELSE high[s] = WantedCeiling(s)
  BY <1>1 DEF EnforcedOK
<1>3. CASE AboutToLimit(Loop, s)
  <2>1. call'[Loop] = call[Loop] /\ AboutToLimit(Loop, s)'
    BY <1>1, <1>3 DEF AboutToLimit
  <2> QED BY <1>1, <1>2, <1>3, <2>1
<1>4. CASE ~AboutToLimit(Loop, s)
  BY <1>1, <1>2, <1>4
<1> QED BY <1>3, <1>4

\* The look: what is judged now is about to have its ceiling written.
LEMMA LookEnforced ==
  ASSUME TypeOK, TypeOK', EnforcedOK, Record, NEW a \in Scopes, CapLook(a)
  PROVE  EnforcedOK'
<1>1. /\ ~Calls(Loop) /\ pass' = [pass EXCEPT !.apps = @ \ {a}]
      /\ UNCHANGED <<alive, fgPid, foreground, live, req, holds, high, marked>>
      /\ IF a \in marked THEN UNCHANGED call ELSE Starts(Loop, Verdict(a), a)
  BY DEF CapLook, presenceVars
<1>2. pass'.apps = pass.apps \ {a}
  BY <1>1 DEF TypeOK, FavourTypeOK
<1>3. \A s : ~AboutToLimit(Loop, s)
  BY <1>1 DEF AboutToLimit, Calls
<1> SUFFICES ASSUME NEW s \in judged'
             PROVE  IF AboutToLimit(Loop, s)' THEN call'[Loop].op = Verdict(s)'
                    ELSE high'[s] = WantedCeiling(s)'
  BY JudgedFacts DEF EnforcedOK
<1>4. Verdict(s)' = Verdict(s) /\ WantedCeiling(s)' = WantedCeiling(s)
  BY JudgedFacts
<1>5. s \in judged \/ (s = a /\ a \notin marked)
  <2>1. s \in judged \/ s \in (pass.apps \ pass'.apps) \ marked
    BY JudgedFacts
  <2> QED BY <1>2, <2>1
<1>6. s \in judged => high[s] = WantedCeiling(s)
  BY <1>3 DEF EnforcedOK
<1>7. CASE a \in marked
  BY <1>1, <1>3, <1>4, <1>5, <1>6, <1>7 DEF AboutToLimit
<1>8. CASE a \notin marked
  <2>1. /\ Loop \in Threads /\ Verdict(a) \in DOMAIN Program
        /\ Program[Verdict(a)] = {"high"} /\ Starting(Loop, Verdict(a), a)
    BY <1>1, <1>8 DEF Threads, Verdict, Program, Starting
  <2>2. call'[Loop].op = Verdict(a) /\ call'[Loop].on = a /\ call'[Loop].left = {"high"}
    BY <2>1, StartingFacts
  <2>3. AboutToLimit(Loop, s)' <=> s = a
    BY <2>2 DEF AboutToLimit
  <2> QED BY <1>1, <1>4, <1>5, <1>6, <2>2, <2>3
<1> QED BY <1>7, <1>8

\* The pass's own write is the one its verdict asks for.
LEMMA LoopWriteEnforced ==
  ASSUME TypeOK, TypeOK', Shape, EnforcedOK, Record, Writes(Loop)
  PROVE  EnforcedOK'
<1>1. PICK k \in call[Loop].left, left \in SUBSET call[Loop].left :
        /\ \/ left = call[Loop].left \ {k}
           \/ left = {} /\ call[Loop].op \notin {"favour", "release", "protect"}
        /\ WriteKnob(k, call[Loop].op, call[Loop].on)
        /\ Advance(Loop, left)
  BY DEF Writes
<1>2. UNCHANGED <<alive, pass>> /\ Calls(Loop) /\ Loop \in Threads
  BY DEF Writes, presenceVars, Threads
<1>3. /\ call'[Loop].left = left
      /\ left # {} => call'[Loop].op = call[Loop].op /\ call'[Loop].on = call[Loop].on
  BY <1>1, <1>2, AdvanceFacts
<1>4. /\ call[Loop].op \in {"keep", "bound", "lift"}
      /\ call[Loop].left \subseteq Program[call[Loop].op]
  BY <1>2 DEF Shape
<1>5. high \in [Scopes -> {"max", "standing", "hand"}]
  BY DEF TypeOK, FavourTypeOK
<1> SUFFICES ASSUME NEW s \in judged'
             PROVE  IF AboutToLimit(Loop, s)' THEN call'[Loop].op = Verdict(s)'
                    ELSE high'[s] = WantedCeiling(s)'
  BY JudgedFacts DEF EnforcedOK
<1>6. /\ s \in judged /\ s \in alive /\ s \in Scopes
      /\ Verdict(s)' = Verdict(s) /\ WantedCeiling(s)' = WantedCeiling(s)
  BY <1>2, JudgedFacts DEF EnforcedOK
<1>7. IF AboutToLimit(Loop, s) THEN call[Loop].op = Verdict(s) ELSE high[s] = WantedCeiling(s)
  BY <1>6 DEF EnforcedOK
<1>8. CASE AboutToLimit(Loop, s)
  <2>1. call[Loop].on = s /\ call[Loop].op = Verdict(s) /\ call[Loop].op \in {"bound", "lift"}
    BY <1>7, <1>8 DEF AboutToLimit, Verdict
  <2>2. k = "high" /\ left = {}
    BY <1>1, <1>4, <2>1 DEF Program
  <2>3. high' = [high EXCEPT ![s] = Ceiling(Verdict(s))]
    BY <1>1, <1>6, <2>1, <2>2 DEF WriteKnob
  <2>4. Ceiling(Verdict(s)) = WantedCeiling(s)
    BY DEF Ceiling, Verdict, WantedCeiling
  <2>5. ~AboutToLimit(Loop, s)'
    BY <1>3, <2>2 DEF AboutToLimit
  <2> QED BY <1>5, <1>6, <2>3, <2>4, <2>5
<1>9. CASE ~AboutToLimit(Loop, s)
  <2>1. ~AboutToLimit(Loop, s)'
    BY <1>3, <1>9 DEF AboutToLimit
  <2>2. ~(k = "high" /\ call[Loop].on = s)
    BY <1>1, <1>9 DEF AboutToLimit
  <2>3. high'[s] = high[s]
    BY <1>1, <1>5, <1>6, <2>2 DEF WriteKnob
  <2> QED BY <1>6, <1>7, <1>9, <2>1, <2>3
<1> QED BY <1>8, <1>9

\* A request or a command writes a ceiling only where it was about to.
LEMMA HandlerWriteEnforced ==
  ASSUME TypeOK, TypeOK', Shape, EnforcedOK, Record, NEW h \in Handlers,
         Writes(h) \/ Complete(h)
  PROVE  EnforcedOK'
<1>1. h \in Threads /\ Loop \in Threads /\ Loop # h
  BY FavourAssumption DEF FavourAssumption, Threads
<1>2. \E k \in call[h].left, left \in SUBSET call[h].left :
        WriteKnob(k, call[h].op, call[h].on) /\ Advance(h, left)
  <2>1. CASE Writes(h)
    BY <2>1 DEF Writes
  <2>2. CASE Complete(h)
    BY <2>2 DEF Complete
  <2> QED BY <2>1, <2>2
<1>3. PICK k \in call[h].left, left \in SUBSET call[h].left :
        WriteKnob(k, call[h].op, call[h].on) /\ Advance(h, left)
  BY <1>2
<1>4. call'[Loop] = call[Loop]
  BY <1>1, <1>3, AdvanceFacts
<1>5. UNCHANGED pass
  BY DEF Writes, Complete
<1>6. ASSUME NEW s \in judged PROVE high'[s] = high[s]
  <2>1. ~(k = "high" /\ call[h].on = s) /\ s \in Scopes
    BY <1>3 DEF EnforcedOK, AboutToLimit
  <2> QED BY <1>3, <2>1 DEF WriteKnob, TypeOK, FavourTypeOK
<1>7. \A s : AboutToLimit(Loop, s)' <=> AboutToLimit(Loop, s)
  BY <1>4 DEF AboutToLimit
<1> QED BY <1>4, <1>5, <1>6, <1>7, EnforcedKept

\* Every other step changes no ceiling and no call of the loop that is about one.
LEMMA OthersEnforced ==
  ASSUME TypeOK, TypeOK', Shape, EnforcedOK, Record,
         \/ BeginPass \/ \E s \in Scopes : KeepSpine(s)
         \/ \E h \in Handlers : Attend(h) \/ Report(h)
         \/ \E h \in Handlers, op \in DOMAIN Program, s \in Commanded : Command(h, op, s)
         \/ Elapse \/ \E s \in Scopes : End(s) \/ Restart(s)
  PROVE  EnforcedOK'
<1>1. CASE BeginPass
  <2>1. UNCHANGED <<high, call>> /\ pass.apps \subseteq pass'.apps
    BY <1>1 DEF BeginPass
  <2>2. \A s : AboutToLimit(Loop, s)' <=> AboutToLimit(Loop, s)
    BY <2>1 DEF AboutToLimit
  <2> QED BY <2>1, <2>2, EnforcedKept
<1>2. ASSUME NEW a \in Scopes, KeepSpine(a) PROVE EnforcedOK'
  <2>1. /\ UNCHANGED high /\ Starting(Loop, "keep", a)
        /\ pass' = [pass EXCEPT !.spine = @ \ {a}]
    BY <1>2 DEF KeepSpine, Starting
  <2>2. pass'.apps = pass.apps
    BY <2>1 DEF TypeOK, FavourTypeOK
  <2>3. call'[Loop].left = {"pin", "shield"}
    BY <2>1, StartingFacts DEF Threads, Program
  <2>4. \A s : ~AboutToLimit(Loop, s) /\ ~AboutToLimit(Loop, s)'
    BY <2>1, <2>3 DEF AboutToLimit, Starting, Calls
  <2> QED BY <2>1, <2>2, <2>4, EnforcedKept
<1>3. ASSUME NEW h \in Handlers, Attend(h) \/ Report(h) PROVE EnforcedOK'
  <2>1. UNCHANGED <<high, pass>>
    BY <1>3 DEF Attend, Report, LeavePrevious, HandBack, BeginFavour, favourVars
  <2>2. UNCHANGED call \/ \E op \in {"release", "favour"}, s \in Scopes \cup {NoScope} : Starts(h, op, s)
    <3>1. req[h].at \in {"pin", "release"} => req[h].scope \in Scopes
      BY DEF Shape, ShapeOf
    <3> QED BY <1>3, <3>1
            DEF Attend, Report, LeavePrevious, HandBack, BeginFavour, favourVars, TypeOK, PresenceTypeOK
  <2>3. call'[Loop] = call[Loop]
    BY <2>2, FavourAssumption DEF FavourAssumption, Starts, Threads, TypeOK, FavourTypeOK
  <2>4. \A s : AboutToLimit(Loop, s)' <=> AboutToLimit(Loop, s)
    BY <2>3 DEF AboutToLimit
  <2> QED BY <2>1, <2>3, <2>4, EnforcedKept
<1>4. ASSUME NEW h \in Handlers, NEW op \in DOMAIN Program, NEW c \in Commanded, Command(h, op, c)
      PROVE  EnforcedOK'
  <2>1. UNCHANGED <<high, pass>> /\ Starts(h, op, c)
    BY <1>4 DEF Command
  <2>2. call'[Loop] = call[Loop]
    BY <2>1, FavourAssumption DEF FavourAssumption, Starts, Threads, TypeOK, FavourTypeOK
  <2>3. \A s : AboutToLimit(Loop, s)' <=> AboutToLimit(Loop, s)
    BY <2>2 DEF AboutToLimit
  <2> QED BY <2>1, <2>2, <2>3, EnforcedKept
<1>5. CASE Elapse \/ \E s \in Scopes : End(s) \/ Restart(s)
  <2>1. UNCHANGED <<call, pass>>
    BY <1>5 DEF Elapse, End, Restart, favourVars
  <2>2. ASSUME NEW s \in judged, s \in alive' PROVE high'[s] = high[s]
    <3>1. s \in Scopes
      BY <2>2 DEF EnforcedOK
    <3> QED BY <1>5, <2>2, <3>1 DEF Elapse, End, Restart, Leave, favourVars
  <2>3. \A s : AboutToLimit(Loop, s)' <=> AboutToLimit(Loop, s)
    BY <2>1 DEF AboutToLimit
  <2> QED BY <2>1, <2>2, <2>3, EnforcedKept
<1> QED BY <1>1, <1>2, <1>3, <1>4, <1>5

LEMMA StutterEnforced ==
  ASSUME EnforcedOK, UNCHANGED <<vars, history>>
  PROVE  EnforcedOK'
BY DEF vars, history, favourVars, presenceVars, EnforcedOK, AboutToLimit, Verdict, WantedCeiling,
       ProtectedFromEviction, ForegroundRelated, TouchedRecently

\* From the pass's write on, a unit that lives and stays of the class the pass
\* found it in has the ceiling its class calls for, whatever focus reports,
\* touches and commands about other units are in progress.
THEOREM JudgedEnforced == HistorySpec => []JudgedIsEnforced
<1>1. HistoryInit => Init /\ EnforcedOK
  BY DEF HistoryInit, EnforcedOK
<1>2. TypeOK /\ TypeOK' /\ Shape /\ EnforcedOK /\ [Next /\ Record]_<<vars, history>> => EnforcedOK'
  <2> SUFFICES ASSUME TypeOK, TypeOK', Shape, EnforcedOK, Next, Record PROVE EnforcedOK'
    BY StutterEnforced
  <2>1. CASE LoopStep
    <3>1. CASE Write(Loop) \/ ReadBackFails
      <4>1. Loop \in Threads
        BY DEF Threads
      <4> QED BY <3>1, <4>1, WriteWrites, ReadBackWrites, LoopWriteEnforced
    <3> QED BY <2>1, <3>1, LookEnforced, OthersEnforced DEF LoopStep
  <2>2. ASSUME NEW h \in Handlers, HandlerStep(h) PROVE EnforcedOK'
    <3>1. h \in Threads
      BY DEF Threads
    <3> QED BY <2>2, <3>1, WriteWrites, HandlerWriteEnforced, OthersEnforced DEF HandlerStep
  <2> QED BY <2>1, <2>2, OthersEnforced DEF Next
<1>3. EnforcedOK => JudgedIsEnforced
  BY DEF EnforcedOK, JudgedIsEnforced, WantedCeiling
<1>4. [Next /\ Record]_<<vars, history>> => [Next]_vars
  OBVIOUS
<1>5. Init => TypeOK /\ Shape
  BY InitTyped
<1>6. TypeOK /\ Shape /\ [Next]_vars => TypeOK' /\ Shape'
  BY NextTyped
<1> QED
  BY <1>1, <1>2, <1>3, <1>4, <1>5, <1>6, PTL DEF HistorySpec
-----------------------------------------------------------------------------
(* One window at a time.  Whoever is in the critical section first takes    *)
(* everything from the window left and only then gives to the next: in     *)
(* between nobody has anything, and no other call gives a unit that only   *)
(* focus favours anything at all.                                          *)

FocusOnly == Scopes \ (Spine \cup Typists \cup Commanded)

\* Whom the calls other than a focus report's give something.
CallerOf(h) ==
  /\ req[h].at = "release" => req[h].scope \in Typists
  /\ Calls(h) /\ call[h].op = "protect" => call[h].on \in Commanded
  /\ Calls(h) /\ req[h].at = "pin" =>
       \/ call[h].op = "favour"
       \/ call[h].op = "release" /\ call[h].on = foreground

\* Who has knob k while h is in the critical section.
InFrontOf(h, k) ==
  IF ~Calls(h) \/ (call[h].op = "release" /\ k \notin call[h].left) THEN {} ELSE {call[h].on}

FrontOf(k) ==
  /\ ~ForegroundLocked => holds[k] \cap FocusOnly \subseteq {foreground}
  /\ \A h \in Handlers : req[h].at = "pin" => holds[k] \cap FocusOnly \subseteq InFrontOf(h, k)

SingleOK == (\A h \in Handlers : CallerOf(h)) /\ \A k \in Held : FrontOf(k)

\* A step outside the critical section, or none of the holder's.
LEMMA FrontKept ==
  ASSUME \A k \in Held : FrontOf(k), UNCHANGED foreground,
         \A k \in Held : holds'[k] \cap FocusOnly \subseteq holds[k],
         \A h \in Handlers : req'[h].at = "pin" => req[h].at = "pin" /\ call'[h] = call[h],
         ForegroundLocked' <=> ForegroundLocked
  PROVE  \A k \in Held : FrontOf(k)'
<1> SUFFICES ASSUME NEW k \in Held PROVE FrontOf(k)'
  OBVIOUS
<1>1. \A h \in Handlers : req'[h].at = "pin" => InFrontOf(h, k)' = InFrontOf(h, k)
  BY DEF InFrontOf, Calls
<1>2. FrontOf(k) /\ holds'[k] \cap FocusOnly \subseteq holds[k]
  OBVIOUS
<1> QED BY <1>1, <1>2 DEF FrontOf

LEMMA CallersKept ==
  ASSUME \A h \in Handlers : CallerOf(h), NEW h \in Handlers,
         \A g \in Handlers \ {h} : req'[g] = req[g] /\ call'[g] = call[g],
         UNCHANGED foreground \/ \A g \in Handlers \ {h} : req[g].at # "pin",
         CallerOf(h)'
  PROVE  \A g \in Handlers : CallerOf(g)'
BY DEF CallerOf, Calls

LEMMA WritesSingle ==
  ASSUME TypeOK, Shape, SingleOK, NEW t \in Threads, Writes(t)
  PROVE  SingleOK'
<1>1. PICK k \in call[t].left, left \in SUBSET call[t].left :
        /\ \/ left = call[t].left \ {k}
           \/ left = {} /\ call[t].op \notin {"favour", "release", "protect"}
        /\ call[t].op = "favour" => left # {}
        /\ WriteKnob(k, call[t].op, call[t].on)
        /\ Advance(t, left)
  BY DEF Writes
<1>2. call[t].on \in Scopes /\ Calls(t)
  BY DEF Writes, Shape
<1>3. UNCHANGED <<foreground, req>>
  BY DEF Writes, presenceVars
<1>4. /\ \A u \in Threads \ {t} : call'[u] = call[u]
      /\ call'[t].left = left
      /\ left # {} => call'[t].op = call[t].op /\ call'[t].on = call[t].on
  BY <1>1, AdvanceFacts
<1>5. /\ \A j \in Held : holds'[j] \subseteq holds[j] \cup (IF j = k /\ Grants(call[t].op) THEN {call[t].on} ELSE {})
      /\ \A j \in Held : j = k /\ ~Grants(call[t].op) => call[t].on \notin holds'[j]
  BY <1>1, <1>2, WriteFacts
<1>6. \A h \in Handlers : CallerOf(h)'
  BY <1>2, <1>3, <1>4 DEF SingleOK, CallerOf, Calls, Threads
<1>7. ForegroundLocked' <=> ForegroundLocked
  BY <1>3 DEF ForegroundLocked
<1>8. CASE t \in Handlers /\ req[t].at = "pin"
  <2>1. \A h \in Handlers : req'[h].at = "pin" => h = t
    BY <1>3, <1>8 DEF Shape
  <2>2. ForegroundLocked'
    BY <1>3, <1>8 DEF ForegroundLocked
  <2>3. CASE call[t].op = "favour"
    <3>1. Calls(t)' /\ call'[t].op = "favour" /\ call'[t].on = call[t].on
      BY <1>1, <1>4, <2>3 DEF Calls
    <3>2. \A j \in Held : InFrontOf(t, j) = {call[t].on} /\ InFrontOf(t, j)' = {call[t].on}
      BY <1>2, <2>3, <3>1 DEF InFrontOf
    <3>3. \A j \in Held : holds'[j] \cap FocusOnly \subseteq {call[t].on}
      BY <1>5, <1>8, <3>2 DEF SingleOK, FrontOf
    <3> QED BY <1>6, <2>1, <2>2, <3>2, <3>3 DEF SingleOK, FrontOf
  <2>4. CASE call[t].op = "release"
    <3>1. left = call[t].left \ {k} /\ ~Grants(call[t].op)
      BY <1>1, <2>4 DEF Grants
    <3>2. \A j \in Held : holds[j] \cap FocusOnly \subseteq InFrontOf(t, j)
      BY <1>8 DEF SingleOK, FrontOf
    <3>3. \A j \in Held : holds'[j] \cap FocusOnly \subseteq InFrontOf(t, j)'
      <4> TAKE j \in Held
      <4>1. holds'[j] \subseteq holds[j] /\ (j = k => call[t].on \notin holds'[j])
        BY <1>5, <3>1
      <4>2. CASE j \in left
        <5>1. InFrontOf(t, j)' = {call[t].on} /\ InFrontOf(t, j) = {call[t].on}
          BY <1>2, <1>4, <2>4, <3>1, <4>2 DEF InFrontOf, Calls
        <5> QED BY <3>2, <4>1, <5>1
      <4>3. CASE j \notin left
        <5>1. j = k \/ InFrontOf(t, j) = {}
          BY <2>4, <3>1, <4>3 DEF InFrontOf
        <5>2. InFrontOf(t, j) \subseteq {call[t].on}
          BY DEF InFrontOf
        <5> QED BY <3>2, <4>1, <5>1, <5>2
      <4> QED BY <4>2, <4>3
    <3> QED BY <1>6, <2>1, <2>2, <3>3 DEF SingleOK, FrontOf
  <2> QED BY <1>2, <1>8, <2>3, <2>4 DEF SingleOK, CallerOf
<1>9. CASE ~(t \in Handlers /\ req[t].at = "pin")
  <2>1. Grants(call[t].op) => call[t].on \notin FocusOnly
    <3>1. CASE t = Loop
      BY <1>2, <3>1, FavourAssumption DEF FavourAssumption, Shape, Grants, FocusOnly
    <3>2. CASE t \in Handlers
      <4>1. call[t].op = "favour" => req[t].at = "release" /\ call[t].on = req[t].scope
        BY <1>2, <1>9, <3>2 DEF Shape, ShapeOf
      <4>2. call[t].op # "keep" /\ CallerOf(t)
        BY <1>2, <3>2 DEF Shape, ShapeOf, SingleOK
      <4> QED BY <1>2, <4>1, <4>2 DEF CallerOf, Grants, FocusOnly
    <3> QED BY <3>1, <3>2 DEF Threads
  <2>2. \A j \in Held : holds'[j] \cap FocusOnly \subseteq holds[j]
    BY <1>5, <2>1
  <2>3. \A h \in Handlers : req'[h].at = "pin" => req[h].at = "pin" /\ call'[h] = call[h]
    BY <1>3, <1>4, <1>9 DEF Threads
  <2> QED BY <1>3, <1>6, <1>7, <2>2, <2>3, FrontKept DEF SingleOK
<1> QED BY <1>8, <1>9

LEMMA CompleteSingle ==
  ASSUME TypeOK, Shape, SingleOK, NEW h \in Handlers, Complete(h)
  PROVE  SingleOK'
<1>1. /\ Calls(h) /\ call[h].op = "favour"
      /\ WriteKnob(Due(h), "favour", call[h].on)
      /\ Advance(h, {})
      /\ FocusPin(h) \/ TouchPin(h)
  BY DEF Complete
<1>2. h \in Threads /\ call[h].on = req[h].scope /\ req[h].scope \in Scopes
  BY <1>1 DEF Shape, ShapeOf, Threads
<1>3. /\ \A u \in Threads \ {h} : call'[u] = call[u]
      /\ ~Calls(h)'
  BY <1>1, <1>2, AdvanceFacts DEF Calls
<1>4. \A j \in Held : holds'[j] \subseteq holds[j] \cup {req[h].scope}
  BY <1>1, <1>2, WriteFacts
<1>5. /\ req'[h] = Idle
      /\ \A g \in Handlers \ {h} : req'[g] = req[g]
  BY <1>1 DEF FocusPin, TouchPin, TypeOK, PresenceTypeOK
<1>6. CallerOf(h)'
  BY <1>3, <1>5 DEF CallerOf, Idle
<1>7. \A g \in Handlers \ {h} : req'[g] = req[g] /\ call'[g] = call[g]
  BY <1>3, <1>5 DEF Threads
<1>8. CASE FocusPin(h)
  <2>1. foreground' = req[h].scope /\ req[h].at = "pin"
    BY <1>8 DEF FocusPin
  <2>2. \A g \in Handlers \ {h} : req[g].at # "pin"
    BY <2>1 DEF Shape
  <2>3. \A g \in Handlers : CallerOf(g)'
    BY <1>6, <1>7, <2>2, CallersKept DEF SingleOK
  <2>4. \A g \in Handlers : req'[g].at # "pin"
    BY <1>5, <2>2 DEF Idle
  <2>5. \A j \in Held : InFrontOf(h, j) = {req[h].scope}
    BY <1>1, <1>2 DEF InFrontOf
  <2>6. \A j \in Held : holds'[j] \cap FocusOnly \subseteq {foreground'}
    BY <1>4, <2>1, <2>5 DEF SingleOK, FrontOf
  <2> QED BY <2>3, <2>4, <2>6 DEF SingleOK, FrontOf
<1>9. CASE TouchPin(h)
  <2>1. UNCHANGED foreground /\ req[h].at = "release"
    BY <1>9 DEF TouchPin
  <2>2. \A g \in Handlers : CallerOf(g)'
    BY <1>6, <1>7, <2>1, CallersKept DEF SingleOK
  <2>3. ForegroundLocked' <=> ForegroundLocked
    BY <1>5, <2>1 DEF ForegroundLocked, Idle
  <2>4. req[h].scope \notin FocusOnly
    BY <2>1 DEF SingleOK, CallerOf, FocusOnly
  <2>5. \A j \in Held : holds'[j] \cap FocusOnly \subseteq holds[j]
    BY <1>4, <2>4
  <2>6. \A g \in Handlers : req'[g].at = "pin" => req[g].at = "pin" /\ call'[g] = call[g]
    BY <1>5, <1>7 DEF Idle
  <2> QED BY <2>1, <2>2, <2>3, <2>5, <2>6, FrontKept DEF SingleOK
<1> QED BY <1>1, <1>8, <1>9

LEMMA RequestSingle ==
  ASSUME TypeOK, Shape, SingleOK, NEW h \in Handlers, Attend(h) \/ Report(h)
  PROVE  SingleOK'
<1>1. h \in Threads /\ ~Calls(h)
  BY DEF Attend, Report, Threads
<1>2. req \in [Handlers -> [at : {"idle", "thaw", "swap", "pin", "release"},
                           scope : Scopes \cup {NoScope}, drop : SUBSET Scopes]]
  BY DEF TypeOK, PresenceTypeOK
<1>3. UNCHANGED <<foreground, holds>>
  <2>1. CASE Attend(h)
    BY <2>1 DEF Attend, FocusThaw, FocusUnchanged, LeavePrevious, FocusRelease, HandBack,
                TouchRelease, BeginFavour, favourVars, presenceVars
  <2>2. CASE Report(h)
    BY <2>2 DEF Report, FocusStore, Touch, favourVars
  <2> QED BY <2>1, <2>2
\* A step of h outside the critical section.
<1>4. ASSUME \A g \in Handlers \ {h} : req'[g] = req[g] /\ call'[g] = call[g],
             req[h].at # "pin", req'[h].at # "pin", CallerOf(h)'
      PROVE  SingleOK'
  <2>1. ForegroundLocked' <=> ForegroundLocked
    BY <1>4 DEF ForegroundLocked
  <2>2. \A g \in Handlers : CallerOf(g)'
    BY <1>3, <1>4, CallersKept DEF SingleOK
  <2>3. \A g \in Handlers : req'[g].at = "pin" => req[g].at = "pin" /\ call'[g] = call[g]
    BY <1>4
  <2> QED BY <1>3, <2>1, <2>2, <2>3, FrontKept DEF SingleOK
<1>5. CASE (FocusThaw(h) \/ FocusUnchanged(h)) /\ UNCHANGED favourVars
  <2>1. UNCHANGED call
    BY <1>5 DEF favourVars
  <2>2. /\ \A g \in Handlers \ {h} : req'[g] = req[g]
        /\ req[h].at # "pin" /\ req'[h].at \notin {"pin", "release"}
    BY <1>2, <1>5 DEF FocusThaw, FocusUnchanged, Idle
  <2> QED BY <1>1, <1>4, <2>1, <2>2 DEF CallerOf, Calls
<1>6. ASSUME NEW w \in Windows, FocusStore(h, w), UNCHANGED call PROVE SingleOK'
  <2>1. /\ \A g \in Handlers \ {h} : req'[g] = req[g]
        /\ req[h].at # "pin" /\ req'[h].at \notin {"pin", "release"}
    BY <1>2, <1>6 DEF FocusStore
  <2> QED BY <1>1, <1>4, <1>6, <2>1 DEF CallerOf, Calls
<1>7. ASSUME NEW s \in Typists, Touch(h, s), UNCHANGED call PROVE SingleOK'
  <2>1. /\ \A g \in Handlers \ {h} : req'[g] = req[g]
        /\ req[h].at # "pin" /\ req'[h].at = "release" /\ req'[h].scope = s
    BY <1>2, <1>7 DEF Touch
  <2> QED BY <1>1, <1>4, <1>7, <2>1 DEF CallerOf, Calls
<1>8. CASE LeavePrevious(h)
  <2>1. /\ req[h].at = "swap" /\ ~ForegroundLocked
        /\ req' = [req EXCEPT ![h].at = "pin"]
        /\ \/ foreground = NoScope /\ UNCHANGED call
           \/ foreground # NoScope /\ Starting(h, "release", foreground)
    BY <1>1, <1>8 DEF LeavePrevious, FocusRelease, Starting
  <2>2. req'[h].at = "pin" /\ \A g \in Handlers \ {h} : req'[g] = req[g] /\ req[g].at # "pin"
    BY <1>2, <2>1 DEF ForegroundLocked
  <2>3. "release" \in DOMAIN Program /\ (foreground # NoScope => foreground \in Scopes)
    BY DEF Program, TypeOK, PresenceTypeOK
  <2>4. /\ \A g \in Handlers \ {h} : call'[g] = call[g]
        /\ IF foreground = NoScope THEN ~Calls(h)'
           ELSE /\ call'[h].op = "release" /\ call'[h].on = foreground
                /\ call'[h].left = Program["release"]
    BY <1>1, <2>1, <2>3, StartingFacts DEF Calls, Threads
  <2>5. CallerOf(h)'
    BY <1>3, <2>2, <2>4 DEF CallerOf
  <2>6. \A g \in Handlers : CallerOf(g)'
    BY <1>3, <2>2, <2>4, <2>5, CallersKept DEF SingleOK
  <2>7. ASSUME NEW k \in Held PROVE holds'[k] \cap FocusOnly \subseteq InFrontOf(h, k)'
    <3>1. holds'[k] \cap FocusOnly \subseteq {foreground}
      BY <1>3, <2>1 DEF SingleOK, FrontOf
    <3>2. CASE foreground = NoScope
      <4>1. NoScope \notin FocusOnly
        BY PresenceAssumption DEF PresenceAssumption, FocusOnly
      <4> QED BY <3>1, <3>2, <4>1
    <3>3. CASE foreground # NoScope
      <4>1. InFrontOf(h, k)' = {foreground}
        BY <2>4, <3>3 DEF InFrontOf, Calls, Program, Held
      <4> QED BY <3>1, <4>1
    <3> QED BY <3>2, <3>3
  <2>8. ForegroundLocked' /\ \A g \in Handlers : req'[g].at = "pin" => g = h
    BY <2>2 DEF ForegroundLocked
  <2> QED BY <2>6, <2>7, <2>8 DEF SingleOK, FrontOf
<1>9. ASSUME NEW p \in Scopes, HandBack(h, p) PROVE SingleOK'
  <2>1. /\ req' = [req EXCEPT ![h].drop = @ \ {p}] /\ req[h].at = "release"
        /\ Starting(h, "release", p)
    BY <1>1, <1>9 DEF HandBack, TouchRelease, Starting
  <2>2. /\ req'[h].at = "release" /\ req'[h].scope = req[h].scope
        /\ \A g \in Handlers \ {h} : req'[g] = req[g]
    BY <1>2, <2>1
  <2>3. "release" \in DOMAIN Program
    BY DEF Program
  <2>4. /\ \A g \in Handlers \ {h} : call'[g] = call[g]
        /\ call'[h].op = "release"
    BY <1>1, <2>1, <2>3, StartingFacts DEF Threads
  <2>5. CallerOf(h)'
    BY <2>1, <2>2, <2>4 DEF SingleOK, CallerOf
  <2> QED BY <1>4, <2>1, <2>2, <2>4, <2>5
<1>10. CASE BeginFavour(h)
  <2>1. /\ UNCHANGED req /\ Starting(h, "favour", req[h].scope)
        /\ req[h].at \in {"pin", "release"}
    BY <1>1, <1>10 DEF BeginFavour, Starting, presenceVars
  <2>2. "favour" \in DOMAIN Program /\ req[h].scope \in Scopes
    BY <2>1 DEF Program, Shape, ShapeOf
  <2>3. /\ \A g \in Handlers \ {h} : call'[g] = call[g]
        /\ call'[h].op = "favour"
    BY <1>1, <2>1, <2>2, StartingFacts DEF Threads
  <2>4. CallerOf(h)'
    BY <2>1, <2>3 DEF SingleOK, CallerOf
  <2>5. CASE req[h].at = "release"
    BY <1>4, <2>1, <2>3, <2>4, <2>5
  <2>6. CASE req[h].at = "pin"
    <3>1. \A k \in Held : holds'[k] \cap FocusOnly = {}
      BY <1>1, <1>3, <2>6 DEF SingleOK, FrontOf, InFrontOf
    <3>2. \A g \in Handlers : CallerOf(g)'
      BY <1>3, <2>1, <2>3, <2>4, CallersKept DEF SingleOK
    <3> QED BY <3>1, <3>2 DEF SingleOK, FrontOf
  <2> QED BY <2>1, <2>5, <2>6
<1> QED BY <1>5, <1>6, <1>7, <1>8, <1>9, <1>10 DEF Attend, Report, favourVars

LEMMA OthersSingle ==
  ASSUME TypeOK, Shape, SingleOK,
         \/ BeginPass \/ \E s \in Scopes : KeepSpine(s) \/ CapLook(s)
         \/ \E h \in Handlers, op \in DOMAIN Program, s \in Commanded : Command(h, op, s)
         \/ Elapse \/ \E s \in Scopes : End(s) \/ Restart(s)
         \/ UNCHANGED vars
  PROVE  SingleOK'
<1>1. ASSUME UNCHANGED <<foreground, req>>, \A k \in Held : holds'[k] \subseteq holds[k],
             \A h \in Handlers : call'[h] = call[h]
      PROVE  SingleOK'
  <2>1. ForegroundLocked' <=> ForegroundLocked
    BY <1>1 DEF ForegroundLocked
  <2>2. \A h \in Handlers : CallerOf(h)'
    BY <1>1 DEF SingleOK, CallerOf, Calls
  <2>3. \A k \in Held : FrontOf(k)'
    BY <1>1, <2>1, FrontKept DEF SingleOK
  <2> QED BY <2>2, <2>3 DEF SingleOK
<1>2. CASE BeginPass \/ \E s \in Scopes : KeepSpine(s) \/ CapLook(s)
  <2>1. UNCHANGED <<foreground, req, holds>>
    BY <1>2 DEF BeginPass, KeepSpine, CapLook, presenceVars
  <2>2. \/ UNCHANGED call
        \/ \E op \in {"keep", "bound", "lift"}, s \in Scopes : Starting(Loop, op, s)
    BY <1>2, LoopLooksTyped
  <2>3. ASSUME NEW op \in {"keep", "bound", "lift"}, NEW s \in Scopes, Starting(Loop, op, s)
        PROVE  \A h \in Handlers : call'[h] = call[h]
    <3>1. op \in DOMAIN Program /\ Loop \in Threads /\ Loop \notin Handlers
      BY FavourAssumption DEF FavourAssumption, Program, Threads
    <3> QED BY <2>3, <3>1, StartingFacts DEF Threads
  <2> QED BY <1>1, <2>1, <2>2, <2>3
<1>3. ASSUME NEW h \in Handlers, NEW op \in DOMAIN Program, NEW s \in Commanded, Command(h, op, s)
      PROVE  SingleOK'
  <2>1. UNCHANGED <<foreground, req, holds>> /\ req[h].at = "idle"
    BY <1>3 DEF Command, presenceVars
  <2>2. Starting(h, op, s) /\ s \in Scopes /\ h \in Threads
    BY <1>3, CommandTyped DEF Threads
  <2>3. /\ \A g \in Handlers \ {h} : call'[g] = call[g]
        /\ call'[h].on = s
    BY <2>2, StartingFacts DEF Threads
  <2>4. CallerOf(h)'
    BY <2>1, <2>3 DEF CallerOf
  <2>5. \A g \in Handlers : CallerOf(g)'
    BY <2>1, <2>3, <2>4, CallersKept DEF SingleOK
  <2>6. ForegroundLocked' <=> ForegroundLocked
    BY <2>1 DEF ForegroundLocked
  <2>7. \A g \in Handlers : req'[g].at = "pin" => req[g].at = "pin" /\ call'[g] = call[g]
    BY <2>1, <2>3
  <2> QED BY <2>1, <2>5, <2>6, <2>7, FrontKept DEF SingleOK
<1>4. CASE Elapse \/ UNCHANGED vars
  BY <1>1, <1>4 DEF Elapse, favourVars, vars, presenceVars
<1>5. ASSUME NEW s \in Scopes, End(s) \/ Restart(s) PROVE SingleOK'
  <2>1. UNCHANGED <<foreground, req, call>>
    BY <1>5 DEF End, Restart, favourVars
  <2>2. \A k \in Held : holds'[k] \subseteq holds[k]
    BY <1>5 DEF End, Restart, favourVars
  <2> QED BY <1>1, <2>1, <2>2
<1> QED BY <1>2, <1>3, <1>4, <1>5

\* Of the units that only focus favours at most one has a pin, a -1000 or a boost
\* at any moment, for any number of threads of reports, touches and commands.
THEOREM OneWindowInFront == HistorySpec => []OneInFront
<1>1. Init => SingleOK
  <2> SUFFICES ASSUME Init PROVE SingleOK
    OBVIOUS
  <2>1. /\ \A h \in Handlers : req[h].at = "idle" /\ ~Calls(h)
        /\ \A k \in Held : holds[k] = {}
    BY DEF Init, PresenceInit, Idle, Calls, NoCall, Threads
  <2> QED BY <2>1 DEF SingleOK, CallerOf, FrontOf
<1>2. TypeOK /\ Shape /\ SingleOK /\ [Next]_vars => SingleOK'
  <2> SUFFICES ASSUME TypeOK, Shape, SingleOK, [Next]_vars PROVE SingleOK'
    OBVIOUS
  <2>1. CASE Write(Loop) \/ ReadBackFails
    <3>1. Loop \in Threads
      BY DEF Threads
    <3> QED BY <2>1, <3>1, WriteWrites, ReadBackWrites, WritesSingle
  <2>2. ASSUME NEW h \in Handlers, HandlerStep(h) \/ Report(h) PROVE SingleOK'
    <3>1. h \in Threads
      BY DEF Threads
    <3> QED BY <2>2, <3>1, RequestSingle, WriteWrites, WritesSingle, CompleteSingle DEF HandlerStep
  <2> QED BY <2>1, <2>2, OthersSingle DEF Next, LoopStep
<1>3. SingleOK => OneInFront
  <2> SUFFICES ASSUME SingleOK, NEW u \in FocusOnly, NEW v \in FocusOnly,
                      NEW j \in Held, NEW k \in Held, u \in holds[j], v \in holds[k]
               PROVE  u = v
    BY DEF OneInFront, FocusOnly
  <2>1. CASE ~ForegroundLocked
    BY <2>1 DEF SingleOK, FrontOf
  <2>2. ASSUME NEW h \in Handlers, req[h].at = "pin" PROVE u = v
    <3>1. \A i \in Held : InFrontOf(h, i) \subseteq {call[h].on}
      BY DEF InFrontOf
    <3> QED BY <2>2, <3>1 DEF SingleOK, FrontOf
  <2> QED BY <2>1, <2>2 DEF ForegroundLocked
<1>4. HistoryInit => Init
  BY DEF HistoryInit
<1>5. [Next /\ Record]_<<vars, history>> => [Next]_vars
  OBVIOUS
<1>6. Init => TypeOK /\ Shape
  BY InitTyped
<1>7. TypeOK /\ Shape /\ [Next]_vars => TypeOK' /\ Shape'
  BY NextTyped
<1> QED
  BY <1>1, <1>2, <1>3, <1>4, <1>5, <1>6, <1>7, PTL DEF HistorySpec
=============================================================================
