--------------------------- MODULE PresenceProofs ---------------------------
(***************************************************************************)
(* Facts about the attention statics for the modules that compose with     *)
(* Presence: its operators on LIVE, and that each of its actions keeps     *)
(* PresenceTypeOK, for any number of threads, units and windows.           *)
(***************************************************************************)
EXTENDS Presence, FiniteSetTheorems, TLAPS

Entry == [cg : Scopes, left : 0 .. TouchTTL]

-----------------------------------------------------------------------------
(* The n-th smallest element exists: counting the elements up to i is an   *)
(* injection of S into 1 .. Cardinality(S), hence onto.                    *)

LEMMA NthIsMember ==
  ASSUME NEW S \in SUBSET Nat, IsFiniteSet(S), NEW n \in 1 .. Cardinality(S)
  PROVE  Nth(S, n) \in S
<1> DEFINE UpTo(i) == {j \in S : j <= i}
           count == [i \in S |-> Cardinality(UpTo(i))]
           T == 1 .. Cardinality(S)
<1>1. Cardinality(S) \in Nat
  BY FS_CardinalityType
<1>2. ASSUME NEW i \in S PROVE IsFiniteSet(UpTo(i)) /\ Cardinality(UpTo(i)) \in T
  <2>1. UpTo(i) \in SUBSET S /\ i \in UpTo(i)
    OBVIOUS
  <2>2. IsFiniteSet(UpTo(i)) /\ Cardinality(UpTo(i)) <= Cardinality(S)
    BY <2>1, FS_Subset
  <2>3. Cardinality(UpTo(i)) \in Nat /\ Cardinality(UpTo(i)) # 0
    BY <2>1, <2>2, FS_CardinalityType, FS_EmptySet
  <2> QED BY <1>1, <2>2, <2>3
<1>3. ASSUME NEW i \in S, NEW k \in S, i < k
      PROVE  Cardinality(UpTo(i)) # Cardinality(UpTo(k))
  <2>1. UpTo(i) \in SUBSET UpTo(k) /\ k \in UpTo(k) /\ k \notin UpTo(i)
    <3>1. i \in Nat /\ k \in Nat
      OBVIOUS
    <3>2. \A j \in S : j \in Nat /\ (j <= i => j <= k)
      BY <1>3, <3>1
    <3>3. k <= k /\ ~(k <= i)
      BY <1>3, <3>1
    <3> QED BY <3>2, <3>3
  <2> QED BY <1>2, <2>1, FS_Subset
<1>4. count \in [S -> T]
  BY <1>2
<1>5. ASSUME NEW i \in S, NEW k \in S, count[i] = count[k] PROVE i = k
  BY <1>3, <1>5
<1>6. count \in Injection(S, T)
  BY <1>4, <1>5 DEF Injection, IsInjective
<1>7. IsFiniteSet(T) /\ Cardinality(T) = Cardinality(S)
  BY <1>1, FS_Interval
<1>8. count \in Surjection(S, T)
  BY <1>6, <1>7, FS_Injection
<1>9. \E i \in S : count[i] = n
  BY <1>8 DEF Surjection
<1>10. \E i \in S : Cardinality({j \in S : j <= i}) = n
  BY <1>9
<1> QED BY <1>10 DEF Nth

-----------------------------------------------------------------------------
(* LIVE after a touch and after a tick.                                    *)

LEMMA PrefixFacts ==
  ASSUME NEW S, NEW q \in Seq(S), NEW m \in 1 .. Len(q)
  PROVE  /\ DOMAIN SubSeq(q, 1, m) = 1 .. m
         /\ \A i \in 1 .. m : i \in DOMAIN q /\ SubSeq(q, 1, m)[i] = q[i]
<1>1. SubSeq(q, 1, m) = [i \in 1 .. m |-> q[i]]
  OBVIOUS
<1>2. DOMAIN q = 1 .. Len(q) /\ Len(q) \in Nat
  OBVIOUS
<1> QED BY <1>1, <1>2

LEMMA RetainedFacts ==
  ASSUME PresenceTypeOK, NEW s
  PROVE  /\ Retained(s) \in SUBSET Nat /\ Retained(s) \subseteq DOMAIN live
         /\ IsFiniteSet(Retained(s)) /\ Cardinality(Retained(s)) \in Nat
<1>1. DOMAIN live = 1 .. Len(live) /\ Len(live) \in Nat
  BY DEF PresenceTypeOK
<1>2. IsFiniteSet(1 .. Len(live))
  BY <1>1, FS_Interval
<1>3. Retained(s) \in SUBSET (1 .. Len(live))
  BY <1>1 DEF Retained
<1>4. IsFiniteSet(Retained(s))
  BY <1>2, <1>3, FS_Subset
<1> QED BY <1>1, <1>3, <1>4, FS_CardinalityType

\* The caller leads the list, and nothing of another type gets into it.
LEMMA RerankedFacts ==
  ASSUME PresenceTypeOK, NEW s \in Scopes
  PROVE  /\ Reranked(s) \in Seq(Entry)
         /\ Len(Reranked(s)) \in Nat \ {0}
         /\ Reranked(s)[1].cg = s
<1> DEFINE R == Retained(s)
           len == Cardinality(R) + 1
<1>1. R \in SUBSET Nat /\ R \subseteq DOMAIN live /\ IsFiniteSet(R) /\ Cardinality(R) \in Nat
  BY RetainedFacts
<1>2. \A n \in 1 .. len : n # 1 => Nth(R, n - 1) \in R
  <2> TAKE n \in 1 .. len
  <2> HAVE n # 1
  <2>1. n - 1 \in 1 .. Cardinality(R)
    BY <1>1
  <2> QED BY <1>1, <2>1, NthIsMember
<1>3. \A n \in 1 .. len : n # 1 => live[Nth(R, n - 1)] \in Entry
  <2>1. live \in Seq(Entry)
    BY DEF PresenceTypeOK, Entry
  <2>2. \A i \in DOMAIN live : live[i] \in Entry
    BY <2>1
  <2> HIDE DEF R
  <2> QED BY <1>1, <1>2, <2>2
<1>4. [cg |-> s, left |-> TouchTTL] \in Entry
  BY PresenceAssumption DEF PresenceAssumption, Entry
<1>5. Reranked(s) \in [1 .. len -> Entry]
  BY <1>3, <1>4 DEF Reranked
<1>6. len \in Nat \ {0}
  BY <1>1
<1>7. Reranked(s) \in Seq(Entry) /\ Len(Reranked(s)) = len
  BY <1>5, <1>6
<1>8. Reranked(s)[1] = [cg |-> s, left |-> TouchTTL]
  BY <1>6 DEF Reranked
<1> QED BY <1>6, <1>7, <1>8

LEMMA TruncatedFacts ==
  ASSUME PresenceTypeOK, NEW s \in Scopes
  PROVE  /\ Truncated(s) \in Seq(Entry)
         /\ Len(Truncated(s)) <= MaxLive
         /\ s \in Listed(Truncated(s))
<1>1. MaxLive \in Nat \ {0}
  BY PresenceAssumption DEF PresenceAssumption
<1>2. /\ Reranked(s) \in Seq(Entry)
      /\ Len(Reranked(s)) \in Nat \ {0}
      /\ Reranked(s)[1].cg = s
  BY RerankedFacts
<1>3. CASE Len(Reranked(s)) > MaxLive
  <2>1. Truncated(s) = SubSeq(Reranked(s), 1, MaxLive)
    BY <1>3 DEF Truncated
  <2>2. /\ SubSeq(Reranked(s), 1, MaxLive) \in Seq(Entry)
        /\ Len(SubSeq(Reranked(s), 1, MaxLive)) = MaxLive
        /\ SubSeq(Reranked(s), 1, MaxLive)[1] = Reranked(s)[1]
    BY <1>1, <1>2, <1>3
  <2>3. 1 \in DOMAIN Truncated(s) /\ Truncated(s)[1].cg = s
    BY <1>1, <1>2, <2>1, <2>2
  <2> QED BY <1>1, <2>1, <2>2, <2>3 DEF Listed
<1>4. CASE ~(Len(Reranked(s)) > MaxLive)
  <2>1. Truncated(s) = Reranked(s)
    BY <1>4 DEF Truncated
  <2>2. 1 \in DOMAIN Truncated(s) /\ Truncated(s)[1].cg = s
    BY <1>2, <2>1
  <2> QED BY <1>1, <1>2, <1>4, <2>1, <2>2 DEF Listed
<1> QED BY <1>3, <1>4

LEMMA ListedTyped == PresenceTypeOK => Listed(live) \in SUBSET Scopes
<1> SUFFICES ASSUME PresenceTypeOK, NEW i \in DOMAIN live PROVE live[i].cg \in Scopes
  BY DEF Listed
<1>1. live \in Seq(Entry)
  BY DEF PresenceTypeOK, Entry
<1>2. live[i] \in Entry
  BY <1>1
<1> QED BY <1>2 DEF Entry

\* A touch adds nobody but its caller.
LEMMA TruncatedListed ==
  ASSUME PresenceTypeOK, NEW s \in Scopes
  PROVE  Listed(Truncated(s)) \subseteq Listed(live) \cup {s}
<1> DEFINE R == Retained(s)
           len == Cardinality(R) + 1
<1>1. R \in SUBSET Nat /\ R \subseteq DOMAIN live /\ IsFiniteSet(R) /\ Cardinality(R) \in Nat
  BY RetainedFacts
<1>2. MaxLive \in Nat \ {0}
  BY PresenceAssumption DEF PresenceAssumption
<1>3. /\ Reranked(s) \in Seq(Entry)
      /\ Len(Reranked(s)) \in Nat \ {0}
      /\ DOMAIN Reranked(s) = 1 .. len
  BY RerankedFacts DEF Reranked
<1>4. ASSUME NEW n \in DOMAIN Reranked(s)
      PROVE  Reranked(s)[n].cg \in Listed(live) \cup {s}
  <2>1. CASE n = 1
    BY <1>3, <1>4, <2>1 DEF Reranked
  <2>2. CASE n # 1
    <3>1. n - 1 \in 1 .. Cardinality(R)
      BY <1>1, <1>3, <1>4, <2>2
    <3>2. Nth(R, n - 1) \in R
      BY <1>1, <3>1, NthIsMember
    <3>3. Reranked(s)[n] = live[Nth(R, n - 1)]
      BY <1>3, <1>4, <2>2 DEF Reranked
    <3> QED BY <1>1, <3>2, <3>3 DEF Listed
  <2> QED BY <2>1, <2>2
<1>5. ASSUME NEW n \in DOMAIN Truncated(s)
      PROVE  n \in DOMAIN Reranked(s) /\ Truncated(s)[n] = Reranked(s)[n]
  <2>1. CASE Len(Reranked(s)) > MaxLive
    <3>1. Truncated(s) = SubSeq(Reranked(s), 1, MaxLive)
      BY <2>1 DEF Truncated
    <3>2. MaxLive \in 1 .. Len(Reranked(s))
      BY <1>2, <1>3, <2>1
    <3>3. /\ DOMAIN SubSeq(Reranked(s), 1, MaxLive) = 1 .. MaxLive
          /\ \A m \in 1 .. MaxLive : /\ m \in DOMAIN Reranked(s)
                                     /\ SubSeq(Reranked(s), 1, MaxLive)[m] = Reranked(s)[m]
      <4> HIDE DEF R
      <4> QED BY <1>3, <3>2, PrefixFacts
    <3> QED BY <1>5, <3>1, <3>3
  <2>2. CASE ~(Len(Reranked(s)) > MaxLive)
    BY <1>5, <2>2 DEF Truncated
  <2> QED BY <2>1, <2>2
<1> QED BY <1>4, <1>5 DEF Listed

LEMMA AgedFacts ==
  ASSUME PresenceTypeOK
  PROVE  /\ Aged \in Seq(Entry) /\ Len(Aged) = Len(live)
         /\ Listed(Aged) = Listed(live)
<1>1. live \in Seq(Entry) /\ Len(live) \in Nat /\ TouchTTL \in Nat
  BY PresenceAssumption DEF PresenceAssumption, PresenceTypeOK, Entry
<1>2. ASSUME NEW i \in 1 .. Len(live)
      PROVE  /\ [live[i] EXCEPT !.left = IF @ = 0 THEN 0 ELSE @ - 1] \in Entry
             /\ [live[i] EXCEPT !.left = IF @ = 0 THEN 0 ELSE @ - 1].cg = live[i].cg
  <2>1. live[i] \in [cg : Scopes, left : 0 .. TouchTTL]
    <3>1. live[i] \in Entry
      BY <1>1
    <3> QED BY <3>1 DEF Entry
  <2>2. ASSUME NEW e \in [cg : Scopes, left : 0 .. TouchTTL]
        PROVE  /\ [e EXCEPT !.left = IF @ = 0 THEN 0 ELSE @ - 1] \in [cg : Scopes, left : 0 .. TouchTTL]
               /\ [e EXCEPT !.left = IF @ = 0 THEN 0 ELSE @ - 1].cg = e.cg
    BY <1>1
  <2> QED BY <2>1, <2>2 DEF Entry
<1>3. DOMAIN live = 1 .. Len(live)
  BY <1>1
<1>4. Aged \in [1 .. Len(live) -> Entry]
  BY <1>2, <1>3 DEF Aged
<1>5. Aged \in Seq(Entry) /\ Len(Aged) = Len(live) /\ DOMAIN Aged = DOMAIN live
  BY <1>1, <1>3, <1>4
<1>6. \A i \in DOMAIN live : Aged[i].cg = live[i].cg
  BY <1>2, <1>3 DEF Aged
<1> QED BY <1>5, <1>6 DEF Listed

-----------------------------------------------------------------------------
(* The steps of a request, of the clock and of the units keep the types.   *)

RequestStep ==
  \E h \in Handlers :
    \/ \E w \in Windows : FocusStore(h, w)
    \/ FocusThaw(h) \/ FocusUnchanged(h) \/ FocusRelease(h) \/ FocusPin(h)
    \/ \E s \in Typists : Touch(h, s)
    \/ \E p \in Scopes : TouchRelease(h, p)
    \/ TouchPin(h)

LEMMA RequestTyped == PresenceTypeOK /\ RequestStep => PresenceTypeOK'
<1> SUFFICES ASSUME PresenceTypeOK, NEW h \in Handlers,
                    \/ \E w \in Windows : FocusStore(h, w)
                    \/ FocusThaw(h) \/ FocusUnchanged(h) \/ FocusRelease(h) \/ FocusPin(h)
                    \/ \E s \in Typists : Touch(h, s)
                    \/ \E p \in Scopes : TouchRelease(h, p)
                    \/ TouchPin(h)
             PROVE  PresenceTypeOK'
  BY DEF RequestStep
<1> USE DEF PresenceTypeOK, Idle
<1>1. ASSUME NEW w \in Windows, FocusStore(h, w) PROVE PresenceTypeOK'
  <2>1. WindowScope[w] \in Scopes
    BY PresenceAssumption DEF PresenceAssumption
  <2> QED BY <1>1, <2>1 DEF FocusStore
<1>2. CASE FocusThaw(h)
  BY <1>2 DEF FocusThaw
<1>3. CASE FocusUnchanged(h)
  BY <1>3 DEF FocusUnchanged
<1>4. CASE FocusRelease(h)
  BY <1>4 DEF FocusRelease
<1>5. CASE FocusPin(h)
  BY <1>5 DEF FocusPin
<1>6. ASSUME NEW s \in Typists, Touch(h, s) PROVE PresenceTypeOK'
  <2>1. s \in Scopes
    BY PresenceAssumption DEF PresenceAssumption
  <2>2. FallenOut(s) \in SUBSET Scopes
    BY ListedTyped DEF FallenOut
  <2>3. live' \in Seq([cg : Scopes, left : 0 .. TouchTTL]) /\ Len(live') <= MaxLive
    BY <1>6, <2>1, TruncatedFacts DEF Touch, Entry
  <2>4. UNCHANGED <<alive, fgPid, foreground>>
    BY <1>6 DEF Touch
  <2>5. req' = [req EXCEPT ![h] = [at |-> "release", scope |-> s, drop |-> FallenOut(s)]]
    BY <1>6 DEF Touch
  <2> QED BY <2>1, <2>2, <2>3, <2>4, <2>5
<1>7. ASSUME NEW p \in Scopes, TouchRelease(h, p) PROVE PresenceTypeOK'
  BY <1>7 DEF TouchRelease
<1>8. CASE TouchPin(h)
  BY <1>8 DEF TouchPin
<1> QED BY <1>1, <1>2, <1>3, <1>4, <1>5, <1>6, <1>7, <1>8

LEMMA AgedTyped ==
  ASSUME PresenceTypeOK, live' = Aged, UNCHANGED <<alive, fgPid, foreground, req>>
  PROVE  PresenceTypeOK'
<1>1. live' \in Seq([cg : Scopes, left : 0 .. TouchTTL]) /\ Len(live') = Len(live)
  BY AgedFacts DEF Entry
<1> QED BY <1>1 DEF PresenceTypeOK

LEMMA UnitsTyped ==
  ASSUME PresenceTypeOK, NEW s \in Scopes, Leave(s) \/ Return(s),
         UNCHANGED <<fgPid, foreground, live, req>>
  PROVE  PresenceTypeOK'
BY DEF PresenceTypeOK, Leave, Return

LEMMA ForgetTyped ==
  ASSUME PresenceTypeOK, Forget, UNCHANGED alive
  PROVE  PresenceTypeOK'
BY PresenceAssumption DEF PresenceTypeOK, PresenceAssumption, Forget, Idle
=============================================================================
