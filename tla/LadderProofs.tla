---------------------------- MODULE LadderProofs -----------------------------
(***************************************************************************)
(* What module TurnLadder keeps for every chain of endpoints, price list,  *)
(* cap and number of turns: the exact cache holds no answer older than its *)
(* data version, purchases from paid endpoints stay within the cap, and    *)
(* the budget's books agree with the ledger's.                             *)
(***************************************************************************)
EXTENDS TurnLadder, FiniteSetTheorems, TLAPS

\* Turns whose answer was found in the index and is not stored yet.
Holding(t) == pc[t] \in {"generate", "charge", "meter", "storeL1"}

\* An answer is at least as recent as what searches saw when its turn's data version
\* was announced, on its way to the exact cache and in it, unless an erasure took the
\* version back.
FreshTurn(t) ==
    t \notin late =>
        ver[t] \in 0..dv /\ (Holding(t) => ans[t].seen >= shown[ver[t]])

FreshInv == (\A t \in Turns : FreshTurn(t)) /\ L1IsOfItsVersion

Dearest == Max(Price["frontier"])

\* Turns that were let through below the cap and have not bought, turns that have
\* bought and not been charged, and turns charged to the budget and not to the ledger.
MayBuy ==
    {t \in Turns : pc[t] = "wallet" \/ (pc[t] \in {"retrieve", "generate"} /\ ~restricted[t])}
Bought == {t \in Turns : pc[t] = "charge" /\ rung[t] = "frontier"}
Unmetered == {t \in Turns : pc[t] = "meter"}

\* What was bought has been charged, lost or is about to be charged.
ChargeInv ==
    /\ spent >= scope.before
    /\ \A t \in Turns : pc[t] = "generate" => rung[t] = "search"
    /\ \A t \in Bought : price[t] \in Price["frontier"]
    /\ scope.before + bought <= spent + lostSpend + Cardinality(Credits(Bought, price))

\* What may still be bought is bounded by the turns let through before the cap was
\* reached.
CapInv ==
    Cap > 0 =>
        IF scope.before >= Cap
        THEN bought = 0 /\ MayBuy = {}
        ELSE bought + Cardinality(MayBuy) * Dearest
               <= Cap - scope.before - 1 + Cardinality(Turns) * Dearest + lostSpend

LadderInv == LadderTypeOK /\ FreshInv /\ ChargeInv /\ CapInv /\ BooksAgree

-----------------------------------------------------------------------------
(* Sums of credits.                                                        *)

LEMMA Products ==
    ASSUME NEW a \in Nat, NEW b \in Nat, NEW m \in Nat
    PROVE  /\ a * m \in Nat
           /\ a <= b => a * m <= b * m
           /\ (a + b) * m = a * m + b * m
  OBVIOUS

LEMMA CreditsFinite ==
    ASSUME NEW turns \in SUBSET Turns, NEW p \in [Turns -> Nat]
    PROVE  /\ IsFiniteSet(turns) /\ Cardinality(turns) \in Nat
           /\ IsFiniteSet(Credits(turns, p)) /\ Cardinality(Credits(turns, p)) \in Nat
  <1>1. IsFiniteSet(turns) /\ Cardinality(turns) \in Nat
    BY TurnLadderAssumption, FS_Subset, FS_CardinalityType
  <1> DEFINE Of(t) == {t} \X (1..p[t])
             parts == {Of(t) : t \in turns}
             part == [t \in turns |-> Of(t)]
  <1>2. IsFiniteSet(parts)
    <2>1. part \in Surjection(turns, parts)
      BY DEF Surjection
    <2> QED
      BY <1>1, <2>1, FS_Surjection
  <1>3. \A t \in turns : IsFiniteSet(Of(t))
    <2> TAKE t \in turns
    <2>1. p[t] \in Int /\ 1 \in Int
      OBVIOUS
    <2>2. IsFiniteSet(1..p[t]) /\ IsFiniteSet({t})
      BY <2>1, FS_Interval, FS_Singleton
    <2> QED
      BY <2>2, FS_Product
  <1>4. IsFiniteSet(UNION parts)
    BY <1>2, <1>3, FS_UNION
  <1>5. Credits(turns, p) = UNION parts
    BY DEF Credits
  <1> QED
    BY <1>1, <1>4, <1>5, FS_CardinalityType

LEMMA CreditsSame ==
    ASSUME NEW turns \in SUBSET Turns, NEW p, NEW q, \A t \in turns : q[t] = p[t]
    PROVE  Credits(turns, q) = Credits(turns, p)
  BY DEF Credits

\* One turn's credits are added to those of others.
LEMMA CreditsAdd ==
    ASSUME NEW turns \in SUBSET Turns, NEW t \in Turns \ turns,
           NEW p \in [Turns -> Nat], NEW q \in [Turns -> Nat], \A u \in turns : q[u] = p[u]
    PROVE  Cardinality(Credits(turns \cup {t}, q)) = Cardinality(Credits(turns, p)) + q[t]
  <1> DEFINE old == Credits(turns, p)
             own == {t} \X (1..q[t])
  <1>1. Credits(turns \cup {t}, q) = old \cup own
    BY DEF Credits
  <1>2. old \cap own = {}
    BY DEF Credits
  <1>3. IsFiniteSet(old) /\ Cardinality(old) \in Nat
    BY CreditsFinite
  <1>4. IsFiniteSet(own) /\ Cardinality(own) = q[t]
    <2>1. q[t] \in Nat /\ q[t] \in Int /\ 1 \in Int
      OBVIOUS
    <2>2. IsFiniteSet(1..q[t]) /\ Cardinality(1..q[t]) = q[t]
      BY <2>1, FS_Interval
    <2>3. IsFiniteSet({t}) /\ Cardinality({t}) = 1
      BY FS_Singleton
    <2>4. IsFiniteSet(own) /\ Cardinality(own) = Cardinality({t}) * Cardinality(1..q[t])
      BY <2>2, <2>3, FS_Product
    <2> QED
      BY <2>1, <2>2, <2>3, <2>4
  <1> HIDE DEF old, own
  <1>5. Cardinality(old \cup own) = Cardinality(old) + Cardinality(own) - Cardinality(old \cap own)
    BY <1>3, <1>4, FS_Union
  <1>6. Cardinality(old \cap own) = 0
    BY <1>2, FS_EmptySet
  <1> QED
    <2>1. q[t] \in Nat
      OBVIOUS
    <2>2. Cardinality(old \cup own) = Cardinality(old) + q[t]
      BY <1>3, <1>4, <1>5, <1>6, <2>1
    <2> QED
      BY <1>1, <2>2 DEF old

LEMMA CreditsBound ==
    ASSUME NEW turns \in SUBSET Turns, NEW p \in [Turns -> Nat], NEW m \in Nat,
           \A t \in turns : p[t] <= m
    PROVE  Cardinality(Credits(turns, p)) <= Cardinality(turns) * m
  <1>1. IsFiniteSet(turns) /\ Cardinality(turns) \in Nat
    BY CreditsFinite
  <1>2. IsFiniteSet(1..m) /\ Cardinality(1..m) = m
    BY FS_Interval
  <1>3. /\ IsFiniteSet(turns \X (1..m))
        /\ Cardinality(turns \X (1..m)) = Cardinality(turns) * m
    BY <1>1, <1>2, FS_Product
  <1>4. Credits(turns, p) \subseteq turns \X (1..m)
    <2> SUFFICES ASSUME NEW t \in turns, NEW c \in {t} \X (1..p[t])
                 PROVE  c \in turns \X (1..m)
      BY DEF Credits
    <2>1. p[t] \in Nat /\ p[t] <= m
      OBVIOUS
    <2>2. 1..p[t] \subseteq 1..m
      BY <2>1
    <2> QED
      BY <2>2
  <1> QED
    BY <1>3, <1>4, FS_Subset

\* A finite set of prices has a dearest.
LEMMA DearestIsMaximal ==
    Dearest \in Nat /\ \A c \in Price["frontier"] : c <= Dearest
  <1> DEFINE prices == Price["frontier"]
             Maximal(c, set) == \A d \in set : c >= d
             bad == {set \in SUBSET prices : set # {} /\ \A c \in set : ~Maximal(c, set)}
  <1>1. prices \subseteq Nat /\ prices # {} /\ IsFiniteSet(prices)
    BY TurnLadderAssumption DEF Rungs
  <1>2. bad = {}
    <2> SUFFICES ASSUME bad # {} PROVE FALSE
      OBVIOUS
    <2>1. IsWellFoundedOn(StrictSubsetOrdering(prices), FiniteSubsetsOf(prices))
      BY FS_StrictSubsetOrderingWellFounded
    <2>2. bad \subseteq FiniteSubsetsOf(prices)
      BY <1>1, FS_FiniteSubsetsOfFinite
    <2>3. PICK set \in bad : \A less \in bad : ~(<<less, set>> \in StrictSubsetOrdering(prices))
      BY <2>1, <2>2, WFMin
    <2>4. PICK c \in set : TRUE
      BY <2>3
    <2>5. set \subseteq Nat /\ set \subseteq prices
      BY <1>1, <2>3
    <2> DEFINE rest == set \ {c}
    <2>6. rest \notin bad
      <3>1. <<rest, set>> \in StrictSubsetOrdering(prices)
        BY <2>4, <2>5 DEF StrictSubsetOrdering
      <3> QED
        BY <2>3, <3>1
    <2>7. CASE rest = {}
      <3>1. Maximal(c, set)
        BY <2>4, <2>5, <2>7
      <3> QED
        BY <2>3, <2>4, <3>1
    <2>8. CASE rest # {}
      <3>1. PICK d \in rest : Maximal(d, rest)
        BY <2>5, <2>6, <2>8
      <3>2. c \in Nat /\ d \in Nat /\ d \in set
        BY <2>4, <2>5
      <3>3. CASE c >= d
        <4>1. Maximal(c, set)
          BY <2>5, <3>1, <3>2, <3>3
        <4> QED
          BY <2>3, <2>4, <4>1
      <3>4. CASE ~(c >= d)
        <4>1. Maximal(d, set)
          BY <2>5, <3>1, <3>2, <3>4
        <4> QED
          BY <2>3, <3>2, <4>1
      <3> QED
        BY <3>3, <3>4
    <2> QED
      BY <2>7, <2>8
  <1>3. \E c \in prices : \A d \in prices : c >= d
    BY <1>1, <1>2
  <1>4. Max(prices) \in prices /\ \A d \in prices : Max(prices) >= d
    BY <1>3 DEF Max
  <1> QED
    BY <1>1, <1>4 DEF Dearest

-----------------------------------------------------------------------------
(* Types.                                                                  *)

CacheEntry == [query : Queries, ver : Nat, ans : Answer]
Entry == [query : Queries, ans : Answer]

TurnsTyped ==
    /\ pc \in [Turns -> Steps \cup Resting] /\ query \in [Turns -> Queries]
    /\ ver \in [Turns -> Nat] /\ vectored \in [Turns -> BOOLEAN]
    /\ restricted \in [Turns -> BOOLEAN] /\ ans \in [Turns -> Answer]
    /\ rung \in [Turns -> Rungs] /\ price \in [Turns -> Nat]
CachesTyped ==
    /\ l1 \subseteq CacheEntry /\ outlived \subseteq l1
    /\ l2 \in Seq(Entry) /\ Len(l2) <= L2Max
MoneyTyped ==
    /\ spent \in Nat /\ kill \subseteq Switches
    /\ balance \in Int /\ cached \subseteq Int /\ Cardinality(cached) <= 1
    /\ granted \in Nat /\ bought \in Nat /\ lostSpend \in Nat /\ lostLedger \in Nat
CatalogueTyped ==
    /\ dv \in Nat /\ owed \in Nat
    /\ visible \in 0..written /\ written \in 0..(scope.edits + erasures)
    /\ shown \in [0..dv -> 0..visible]
    /\ erasing \in {"none", "l2", "version"} /\ late \subseteq Turns
    /\ erasures \in 0..scope.erasures
ScopeTyped ==
    /\ scope.before \in Nat /\ scope.turns \in Nat /\ scope.edits \in Nat
    /\ scope.grants \in Nat /\ scope.faults \in Nat /\ scope.erasures \in Nat
BoundsTyped ==
    scope \in Scopes /\ ScopeTyped /\ asked \in 0..scope.turns /\ faults \in 0..scope.faults

LEMMA ScopesTyped == scope \in Scopes => ScopeTyped
  BY TurnLadderAssumption DEF ScopeTyped

LEMMA Typed ==
    LadderTypeOK <=> TurnsTyped /\ CachesTyped /\ MoneyTyped /\ CatalogueTyped /\ BoundsTyped
  BY ScopesTyped
     DEF LadderTypeOK, TurnsTyped, CachesTyped, MoneyTyped, CatalogueTyped, BoundsTyped,
         CacheEntry, Entry

LEMMA TypedNext ==
    LadderTypeOK' <=>
      TurnsTyped' /\ CachesTyped' /\ MoneyTyped' /\ CatalogueTyped' /\ BoundsTyped'
  BY Typed, PTL

LEMMA ConstantsTyped ==
    /\ IsFiniteSet(Turns) /\ Cap \in Nat /\ L2Max \in Nat /\ GrantSize \in Nat
    /\ \A r \in Rungs : Price[r] \subseteq Nat
    /\ Price["cache"] = {0} /\ "frontier" \in Rungs
  BY TurnLadderAssumption DEF Rungs

LEMMA WorksTyped ==
    ASSUME LadderTypeOK, NEW ok \in BOOLEAN, Works(ok)
    PROVE  faults' \in 0..scope.faults
  BY Typed DEF Works, BoundsTyped, ScopeTyped

LEMMA AnswerFields ==
    /\ \A a \in Answer : a.seen \in Nat /\ a.grounded \in BOOLEAN
    /\ NoAnswer \in Answer
    /\ \A a \in Answer, r \in Rungs : Guarded(r, a) \in Answer /\ Guarded(r, a).seen = a.seen
  BY DEF Answer, NoAnswer, Guarded

-----------------------------------------------------------------------------
(* Turns move from step to step.                                           *)

\* t moves, beside which no turn does.
Moves(t) ==
    /\ TurnsTyped'
    /\ \A o \in Turns \ {t} :
          /\ pc'[o] = pc[o] /\ ver'[o] = ver[o] /\ restricted'[o] = restricted[o]
          /\ ans'[o] = ans[o] /\ rung'[o] = rung[o] /\ price'[o] = price[o]

LEMMA Replies ==
    ASSUME LadderTypeOK, NEW t \in Turns, NEW r \in Rungs, NEW a \in Answer,
           Reply(t, r, a), UNCHANGED <<query, ver, dv>>
    PROVE  Moves(t) /\ pc'[t] = "replied"
  <1>1. Guarded(r, a) \in Answer
    BY AnswerFields
  <1> DEFINE g == Guarded(r, a)
  <1>2. /\ pc' = [pc EXCEPT ![t] = "replied"] /\ ans' = [ans EXCEPT ![t] = g]
        /\ rung' = [rung EXCEPT ![t] = r] /\ vectored' = [vectored EXCEPT ![t] = FALSE]
        /\ restricted' = [restricted EXCEPT ![t] = FALSE] /\ price' = [price EXCEPT ![t] = 0]
    BY DEF Reply, Goto
  <1> HIDE DEF g
  <1> QED
    BY <1>1, <1>2, Typed DEF Moves, TurnsTyped, Resting, g

LEMMA GoesOn ==
    ASSUME LadderTypeOK, NEW t \in Turns, NEW step \in Steps \cup Resting, Goto(t, step),
           UNCHANGED <<query, ver, vectored, restricted, ans, rung, price, dv>>
    PROVE  Moves(t) /\ pc'[t] = step
  BY Typed DEF Moves, TurnsTyped, Goto

\* What a move of t does to the sets of turns.
LEMMA SetsMove ==
    ASSUME LadderTypeOK, NEW t \in Turns, Moves(t)
    PROVE  /\ Bought \subseteq Turns /\ Bought' \subseteq Turns
           /\ Unmetered \subseteq Turns /\ Unmetered' \subseteq Turns
           /\ MayBuy \subseteq Turns /\ MayBuy' \subseteq Turns
           /\ Bought' \ {t} = Bought \ {t} /\ Unmetered' \ {t} = Unmetered \ {t}
           /\ MayBuy' \ {t} = MayBuy \ {t}
           /\ price \in [Turns -> Nat] /\ price' \in [Turns -> Nat]
           /\ \A o \in Turns \ {t} : price'[o] = price[o]
  BY Typed DEF Moves, TurnsTyped, Bought, Unmetered, MayBuy

-----------------------------------------------------------------------------
(* Steps that leave the books alone.                                       *)

LEMMA FreshStays ==
    ASSUME LadderInv, NEW t \in Turns, Moves(t), UNCHANGED <<dv, shown>>,
           late' \in {late, late \ {t}}, L1IsOfItsVersion', FreshTurn(t)'
    PROVE  FreshInv'
  BY DEF LadderInv, FreshInv, FreshTurn, Moves, Holding

\* A turn that keeps its version, and whose answer is still as recent as that.
LEMMA FreshTurnStays ==
    ASSUME LadderInv, NEW t \in Turns, UNCHANGED <<ver, dv, shown, late>>,
           t \notin late /\ Holding(t)' => ans'[t].seen >= shown[ver[t]]
    PROVE  FreshTurn(t)'
  BY DEF LadderInv, FreshInv, FreshTurn

\* The cap holds while nothing is bought and nobody is let through.
LEMMA CapShrinks ==
    ASSUME LadderTypeOK, CapInv, MayBuy \subseteq Turns, MayBuy' \subseteq MayBuy,
           UNCHANGED <<bought, scope>>, lostSpend' \in Nat, lostSpend' >= lostSpend
    PROVE  CapInv'
  <1>1. IsFiniteSet(MayBuy) /\ Cardinality(MayBuy) \in Nat
    BY ConstantsTyped, FS_Subset, FS_CardinalityType
  <1>2. Cardinality(MayBuy') \in Nat /\ Cardinality(MayBuy') <= Cardinality(MayBuy)
    BY <1>1, FS_Subset, FS_CardinalityType
  <1>3. /\ Cardinality(MayBuy) * Dearest \in Nat /\ Cardinality(MayBuy') * Dearest \in Nat
        /\ Cardinality(MayBuy') * Dearest <= Cardinality(MayBuy) * Dearest
    BY <1>1, <1>2, DearestIsMaximal, Products
  <1>4. MayBuy = {} => MayBuy' = {}
    OBVIOUS
  <1>5. /\ bought \in Nat /\ Cap \in Nat /\ scope.before \in Nat /\ lostSpend \in Nat
        /\ Cardinality(Turns) * Dearest \in Nat
    <2>1. Cardinality(Turns) \in Nat
      BY ConstantsTyped, FS_CardinalityType
    <2> QED
      BY <2>1, Typed, ConstantsTyped, DearestIsMaximal, Products DEF MoneyTyped, BoundsTyped,
                                                                     ScopeTyped
  <1> QED
    BY <1>3, <1>4, <1>5 DEF CapInv

\* t neither buys nor is charged, and does not come to the ledger's step or leave it.
Quiet(t) ==
    /\ pc[t] \notin {"charge", "meter"} /\ pc'[t] # "meter"
    /\ pc'[t] = "charge" => rung'[t] # "frontier"
    /\ pc'[t] = "generate" => rung'[t] = "search"

LEMMA QuietKeeps ==
    ASSUME LadderInv, NEW t \in Turns, Moves(t), Quiet(t),
           UNCHANGED <<spent, scope, bought, lostSpend, lostLedger, granted, balance>>
    PROVE  ChargeInv' /\ BooksAgree' /\ (MayBuy' \subseteq MayBuy => CapInv')
  <1>1. LadderTypeOK
    BY DEF LadderInv
  <1>2. Bought' = Bought /\ Unmetered' = Unmetered /\ t \notin Bought /\ t \notin Unmetered
    BY <1>1, SetsMove DEF Quiet, Bought, Unmetered
  <1>3. /\ \A o \in Bought : price'[o] = price[o]
        /\ \A o \in Unmetered : price'[o] = price[o]
    BY <1>1, <1>2, SetsMove
  <1>4. /\ Credits(Bought', price') = Credits(Bought, price)
        /\ Credits(Unmetered', price') = Credits(Unmetered, price)
    BY <1>1, <1>2, <1>3, SetsMove, CreditsSame
  <1>5. ChargeInv'
    <2>1. \A o \in Turns : pc'[o] = "generate" => rung'[o] = "search"
      BY DEF LadderInv, ChargeInv, Moves, Quiet
    <2> QED
      BY <1>2, <1>3, <1>4, <2>1 DEF LadderInv, ChargeInv
  <1>6. BooksAgree'
    BY <1>4 DEF LadderInv, BooksAgree, Unmetered
  <1>7. MayBuy' \subseteq MayBuy => CapInv'
    <2>1. lostSpend \in Nat
      BY <1>1, Typed DEF MoneyTyped
    <2> QED
      BY <1>1, <2>1, SetsMove, CapShrinks DEF LadderInv
  <1> QED
    BY <1>5, <1>6, <1>7

\* A quiet step of t, with what the stores keep of it.
QuietStep(t) ==
    /\ Moves(t) /\ Quiet(t) /\ MayBuy' \subseteq MayBuy
    /\ CachesTyped' /\ L1IsOfItsVersion' /\ FreshTurn(t)' /\ late' \in {late, late \ {t}}
    /\ cached' \subseteq Int /\ Cardinality(cached') <= 1
    /\ asked' \in 0..scope.turns /\ faults' \in 0..scope.faults
    /\ UNCHANGED <<spent, kill, balance, granted, bought, lostSpend, lostLedger>>
    /\ UNCHANGED <<dv, written, visible, owed, shown, erasing, erasures, scope>>

LEMMA QuietStepKeeps ==
    ASSUME LadderInv, NEW t \in Turns, QuietStep(t)
    PROVE  LadderInv'
  <1>1. LadderTypeOK /\ TurnsTyped' /\ CachesTyped'
    BY DEF LadderInv, QuietStep, Moves
  <1>2. MoneyTyped' /\ CatalogueTyped' /\ BoundsTyped'
    BY <1>1, Typed DEF MoneyTyped, CatalogueTyped, BoundsTyped, ScopeTyped, QuietStep
  <1>3. LadderTypeOK'
    BY <1>1, <1>2, TypedNext
  <1>4. FreshInv'
    BY FreshStays DEF QuietStep
  <1>5. ChargeInv' /\ CapInv' /\ BooksAgree'
    BY QuietKeeps DEF QuietStep
  <1> QED
    BY <1>3, <1>4, <1>5 DEF LadderInv

\* The exact cache is left alone.
LEMMA L1Left ==
    ASSUME LadderInv, UNCHANGED <<l1, outlived, dv, shown>>
    PROVE  L1IsOfItsVersion' /\ (UNCHANGED l2 => CachesTyped')
  <1>1. CachesTyped
    BY Typed DEF LadderInv
  <1>2. L1IsOfItsVersion'
    BY DEF LadderInv, FreshInv, L1IsOfItsVersion
  <1>3. UNCHANGED l2 => CachesTyped'
    BY <1>1 DEF CachesTyped, CacheEntry
  <1> QED
    BY <1>2, <1>3

\* A turn that comes to no further than retrieval, or past the ledger, without a choice
\* of endpoint.
LEMMA MayBuyShrinks ==
    ASSUME LadderTypeOK, NEW t \in Turns, Moves(t),
           \/ pc'[t] \notin {"wallet", "retrieve", "generate"}
           \/ t \in MayBuy
           \/ pc'[t] # "wallet" /\ restricted'[t]
    PROVE  MayBuy' \subseteq MayBuy
  BY SetsMove DEF MayBuy

LEMMA AskKeeps ==
    ASSUME LadderInv, NEW t \in Turns, NEW q \in Queries, Ask(t, q)
    PROVE  LadderInv'
  <1>1. PICK ok \in BOOLEAN :
          Works(ok) /\ ver' = [ver EXCEPT ![t] = IF ok THEN dv ELSE 0]
    BY DEF Ask
  <1>2. /\ pc[t] \in Resting /\ asked < scope.turns /\ asked' = asked + 1
        /\ pc' = [pc EXCEPT ![t] = "l1"] /\ query' = [query EXCEPT ![t] = q]
        /\ vectored' = [vectored EXCEPT ![t] = FALSE]
        /\ restricted' = [restricted EXCEPT ![t] = FALSE]
        /\ ans' = [ans EXCEPT ![t] = NoAnswer] /\ rung' = [rung EXCEPT ![t] = "cache"]
        /\ price' = [price EXCEPT ![t] = 0]
    BY DEF Ask, Goto
  <1>3. /\ UNCHANGED <<l1, l2, outlived, spent, kill, cached, balance, granted, bought, lostSpend,
                       lostLedger, dv, written, visible, owed, shown, erasing, erasures, scope>>
        /\ late' = late \ {t}
    BY DEF Ask, cacheVars, moneyVars
  <1>4. LadderTypeOK /\ TurnsTyped /\ MoneyTyped /\ CatalogueTyped /\ BoundsTyped
    BY Typed DEF LadderInv
  <1>5. (IF ok THEN dv ELSE 0) \in 0..dv /\ 0..dv \subseteq Nat
    BY <1>4 DEF CatalogueTyped
  <1>6. Moves(t) /\ pc'[t] = "l1"
    BY <1>1, <1>2, <1>3, <1>4, <1>5, AnswerFields DEF Moves, TurnsTyped, Steps, Rungs
  <1>7. Quiet(t) /\ ~Holding(t)' /\ MayBuy' \subseteq MayBuy
    BY <1>2, <1>4, <1>6, MayBuyShrinks DEF Quiet, Holding, Resting
  <1>8. asked' \in 0..scope.turns /\ faults' \in 0..scope.faults
    BY <1>1, <1>2, <1>4, WorksTyped, ConstantsTyped DEF BoundsTyped, ScopeTyped
  <1>9. cached' \subseteq Int /\ Cardinality(cached') <= 1
    BY <1>3, <1>4 DEF MoneyTyped
  <1>10. FreshTurn(t)'
    BY <1>1, <1>3, <1>4, <1>5, <1>7 DEF FreshTurn, TurnsTyped
  <1>11. QuietStep(t)
    BY <1>3, <1>6, <1>7, <1>8, <1>9, <1>10, L1Left DEF QuietStep
  <1> QED
    BY <1>11, QuietStepKeeps

\* A step that only moves turn t, whose caches are left alone.
LEMMA PlainStepKeeps ==
    ASSUME LadderInv, NEW t \in Turns, Moves(t), Quiet(t), MayBuy' \subseteq MayBuy,
           t \notin late /\ Holding(t)' => ans'[t].seen >= shown[ver[t]],
           faults' \in 0..scope.faults,
           UNCHANGED <<ver, cacheVars, moneyVars, catalogueVars, asked, scope>>
    PROVE  LadderInv'
  <1>1. UNCHANGED <<l1, l2, outlived, spent, kill, cached, balance, granted, bought, lostSpend,
                    lostLedger, dv, written, visible, owed, shown, erasing, erasures, late>>
    BY DEF cacheVars, moneyVars, catalogueVars
  <1>2. /\ cached' \subseteq Int /\ Cardinality(cached') <= 1 /\ asked' \in 0..scope.turns
    BY <1>1, Typed DEF LadderInv, MoneyTyped, BoundsTyped, ScopeTyped
  <1>3. FreshTurn(t)'
    BY <1>1, FreshTurnStays
  <1>4. QuietStep(t)
    BY <1>1, <1>2, <1>3, L1Left DEF QuietStep
  <1> QED
    BY <1>4, QuietStepKeeps

\* A cached answer is the reply.
LEMMA CachedReplyKeeps ==
    ASSUME LadderInv, NEW t \in Turns, pc[t] \in {"l1", "l2"}, NEW a \in Answer,
           Reply(t, "cache", a), faults' \in 0..scope.faults,
           UNCHANGED <<query, ver, cacheVars, moneyVars, catalogueVars, asked, scope>>
    PROVE  LadderInv'
  <1>1. LadderTypeOK /\ "cache" \in Rungs /\ UNCHANGED dv
    BY DEF LadderInv, Rungs, catalogueVars
  <1>2. Moves(t) /\ pc'[t] = "replied"
    BY <1>1, Replies
  <1>3. Quiet(t) /\ ~Holding(t)' /\ MayBuy' \subseteq MayBuy
    BY <1>1, <1>2, MayBuyShrinks DEF Quiet, Holding
  <1> QED
    BY <1>2, <1>3, PlainStepKeeps

LEMMA LookupL1Keeps ==
    ASSUME LadderInv, NEW t \in Turns, LookupL1(t)
    PROVE  LadderInv'
  <1>1. PICK ok \in BOOLEAN :
          /\ Works(ok)
          /\ IF ok /\ L1Hits(t) # {}
             THEN \E e \in L1Hits(t) : Reply(t, "cache", e.ans)
             ELSE Goto(t, "l2") /\ UNCHANGED replyVars
    BY DEF LookupL1
  <1>2. /\ UNCHANGED <<query, ver, cacheVars, moneyVars, catalogueVars, asked, scope>>
        /\ pc[t] = "l1"
    BY DEF LookupL1
  <1>3. LadderTypeOK /\ CachesTyped /\ faults' \in 0..scope.faults
    BY <1>1, Typed, WorksTyped DEF LadderInv
  <1>4. CASE \E e \in L1Hits(t) : Reply(t, "cache", e.ans)
    <2>1. PICK e \in L1Hits(t) : Reply(t, "cache", e.ans)
      BY <1>4
    <2>2. e.ans \in Answer
      BY <1>3, <2>1 DEF L1Hits, CachesTyped, CacheEntry
    <2> QED
      BY <1>2, <1>3, <2>1, <2>2, CachedReplyKeeps
  <1>5. CASE Goto(t, "l2") /\ UNCHANGED replyVars
    <2>1. UNCHANGED <<vectored, restricted, ans, rung, price, dv>> /\ "l2" \in Steps
      BY <1>2, <1>5 DEF replyVars, catalogueVars, Steps
    <2>2. Moves(t) /\ pc'[t] = "l2"
      BY <1>2, <1>3, <1>5, <2>1, GoesOn
    <2>3. Quiet(t) /\ ~Holding(t)' /\ MayBuy' \subseteq MayBuy
      BY <1>2, <1>3, <2>2, MayBuyShrinks DEF Quiet, Holding
    <2> QED
      BY <1>2, <1>3, <2>2, <2>3, PlainStepKeeps
  <1> QED
    BY <1>1, <1>4, <1>5

LEMMA LookupL2Keeps ==
    ASSUME LadderInv, NEW t \in Turns, LookupL2(t)
    PROVE  LadderInv'
  <1>1. PICK embedded \in BOOLEAN, ok \in BOOLEAN :
          /\ Works(ok)
          /\ IF embedded /\ ok /\ L2Hits(t) # {}
             THEN \E i \in L2Hits(t) : Reply(t, "cache", l2[i].ans)
             ELSE /\ Goto(t, "budget")
                  /\ vectored' = [vectored EXCEPT ![t] = embedded]
                  /\ UNCHANGED <<restricted, ans, rung, price>>
    BY DEF LookupL2
  <1>2. /\ UNCHANGED <<query, ver, cacheVars, moneyVars, catalogueVars, asked, scope>>
        /\ pc[t] = "l2" /\ UNCHANGED dv
    BY DEF LookupL2, catalogueVars
  <1>3. LadderTypeOK /\ TurnsTyped /\ CachesTyped /\ faults' \in 0..scope.faults
    BY <1>1, Typed, WorksTyped DEF LadderInv
  <1>4. CASE L2Hits(t) # {} /\ \E i \in L2Hits(t) : Reply(t, "cache", l2[i].ans)
    <2>1. PICK i \in L2Hits(t) : Reply(t, "cache", l2[i].ans)
      BY <1>4
    <2>2. L2Hits(t) \subseteq DOMAIN l2
      <3> DEFINE same == {k \in DOMAIN l2 : l2[k].query = query[t]}
      <3>1. same # {} => Min(same) \in same
        <4> SUFFICES ASSUME same # {} PROVE Min(same) \in same
          OBVIOUS
        <4>1. same \subseteq Nat
          BY <1>3 DEF CachesTyped
        <4>2. PICK k \in same : \A j \in same : ~(<<j, k>> \in OpToRel(<, Nat))
          BY <4>1, NatLessThanWellFounded, WFMin
        <4>3. \A j \in same : k <= j
          <5> TAKE j \in same
          <5>1. j \in Nat /\ k \in Nat /\ <<j, k>> \in Nat \X Nat
            BY <4>1
          <5>2. ~(j < k)
            BY <4>2, <5>1 DEF OpToRel
          <5> QED
            BY <5>1, <5>2
        <4> QED
          BY <4>3 DEF Min
      <3> QED
        BY <3>1 DEF L2Hits
    <2>3. l2[i] \in Entry
      BY <1>3, <2>1, <2>2 DEF CachesTyped
    <2>4. l2[i].ans \in Answer
      BY <2>3 DEF Entry
    <2> QED
      BY <1>2, <1>3, <2>1, <2>4, CachedReplyKeeps
  <1>5. CASE /\ Goto(t, "budget")
             /\ vectored' = [vectored EXCEPT ![t] = embedded]
             /\ UNCHANGED <<restricted, ans, rung, price>>
    <2>1. pc' = [pc EXCEPT ![t] = "budget"]
      BY <1>5 DEF Goto
    <2>2. Moves(t) /\ pc'[t] = "budget"
      BY <1>2, <1>3, <1>5, <2>1 DEF Moves, TurnsTyped, Steps
    <2>3. Quiet(t) /\ ~Holding(t)' /\ MayBuy' \subseteq MayBuy
      BY <1>2, <1>3, <2>2, MayBuyShrinks DEF Quiet, Holding
    <2> QED
      BY <1>2, <1>3, <2>2, <2>3, PlainStepKeeps
  <1> QED
    BY <1>1, <1>4, <1>5

-----------------------------------------------------------------------------
(* The budget.                                                             *)

\* A turn let through while less than the cap is spent.
LEMMA LetThrough ==
    ASSUME LadderInv, NEW t \in Turns, Moves(t), pc[t] = "budget", pc'[t] = "wallet",
           UNCHANGED <<spent, scope, bought, lostSpend>>,
           Cap > 0 => spent < Cap
    PROVE  CapInv'
  <1> SUFFICES ASSUME Cap > 0 PROVE scope.before < Cap /\ CapInv'
    BY DEF CapInv
  <1>1. LadderTypeOK /\ spent < Cap
    BY DEF LadderInv
  <1>2. /\ bought \in Nat /\ Cap \in Nat /\ scope.before \in Nat /\ lostSpend \in Nat
        /\ spent \in Nat /\ Dearest \in Nat
    BY <1>1, Typed, ConstantsTyped, DearestIsMaximal DEF MoneyTyped, BoundsTyped, ScopeTyped
  <1>3. /\ IsFiniteSet(Turns) /\ Cardinality(Turns) \in Nat
        /\ IsFiniteSet(Bought) /\ Cardinality(Bought) \in Nat
        /\ IsFiniteSet(MayBuy') /\ Cardinality(MayBuy') \in Nat
        /\ Cardinality(Credits(Bought, price)) \in Nat
    BY <1>1, SetsMove, ConstantsTyped, FS_CardinalityType, CreditsFinite
  <1>4. Bought \cap MayBuy' = {}
    BY DEF Bought, MayBuy, Moves
  <1>5. Cardinality(Bought) + Cardinality(MayBuy') <= Cardinality(Turns)
    <2>1. Bought \cup MayBuy' \subseteq Turns
      BY <1>1, SetsMove
    <2>2. Cardinality(Bought \cup MayBuy') = Cardinality(Bought) + Cardinality(MayBuy')
      BY <1>3, <1>4, FS_Union, FS_EmptySet
    <2> QED
      BY <1>3, <2>1, <2>2, FS_Subset
  <1>6. Cardinality(Credits(Bought, price)) <= Cardinality(Bought) * Dearest
    <2>1. \A o \in Bought : price[o] <= Dearest
      BY DearestIsMaximal DEF LadderInv, ChargeInv
    <2> QED
      BY <1>1, <1>2, <2>1, SetsMove, CreditsBound
  <1> DEFINE b == Cardinality(Bought) * Dearest
             m == Cardinality(MayBuy') * Dearest
             n == Cardinality(Turns) * Dearest
  <1>7. b \in Nat /\ m \in Nat /\ n \in Nat /\ b + m <= n
    BY <1>2, <1>3, <1>5, Products
  <1>8. spent >= scope.before /\ scope.before + bought <= spent + lostSpend + Cardinality(Credits(Bought, price))
    BY DEF LadderInv, ChargeInv
  <1> HIDE DEF b, m, n
  <1>9. scope.before < Cap /\ bought + m <= Cap - scope.before - 1 + n + lostSpend
    BY <1>1, <1>2, <1>3, <1>6, <1>7, <1>8 DEF b
  <1> QED
    BY <1>2, <1>9 DEF CapInv, m, n

LEMMA ReadBudgetKeeps ==
    ASSUME LadderInv, NEW t \in Turns, ReadBudget(t)
    PROVE  LadderInv'
  <1>1. PICK ok \in BOOLEAN, readable \in SUBSET {"global"} :
          LET limited == \/ ~ok
                         \/ HardCapped
                         \/ kill \cap (readable \cup {"tenant"}) # {}
          IN /\ Works(ok /\ readable # {})
             /\ restricted' = [restricted EXCEPT ![t] = limited]
             /\ Goto(t, IF limited THEN "retrieve" ELSE "wallet")
    BY DEF ReadBudget
  <1>2. /\ UNCHANGED <<query, ver, vectored, ans, rung, price, cacheVars, moneyVars, catalogueVars,
                       asked, scope>>
        /\ pc[t] = "budget"
    BY DEF ReadBudget
  <1>3. UNCHANGED <<l1, l2, outlived, spent, kill, cached, balance, granted, bought, lostSpend,
                    lostLedger, dv, written, visible, owed, shown, erasing, erasures, late>>
    BY <1>2 DEF cacheVars, moneyVars, catalogueVars
  <1>4. LadderTypeOK /\ TurnsTyped /\ faults' \in 0..scope.faults
    <2>1. (ok /\ readable # {}) \in BOOLEAN
      OBVIOUS
    <2> QED
      BY <1>1, <2>1, Typed, WorksTyped DEF LadderInv
  <1>5. CASE ~ok \/ HardCapped \/ kill \cap (readable \cup {"tenant"}) # {}
    <2>1. restricted' = [restricted EXCEPT ![t] = TRUE] /\ pc' = [pc EXCEPT ![t] = "retrieve"]
      BY <1>1, <1>5 DEF Goto
    <2>2. Moves(t) /\ pc'[t] = "retrieve" /\ restricted'[t]
      BY <1>2, <1>3, <1>4, <2>1 DEF Moves, TurnsTyped, Steps
    <2>3. Quiet(t) /\ ~Holding(t)' /\ MayBuy' \subseteq MayBuy
      BY <1>2, <1>4, <2>2, MayBuyShrinks DEF Quiet, Holding
    <2> QED
      BY <1>2, <1>4, <2>2, <2>3, PlainStepKeeps
  <1>6. CASE ~(~ok \/ HardCapped \/ kill \cap (readable \cup {"tenant"}) # {})
    <2>1. restricted' = [restricted EXCEPT ![t] = FALSE] /\ pc' = [pc EXCEPT ![t] = "wallet"]
      BY <1>1, <1>6 DEF Goto
    <2>2. Moves(t) /\ pc'[t] = "wallet"
      BY <1>2, <1>3, <1>4, <2>1 DEF Moves, TurnsTyped, Steps
    <2>3. Quiet(t) /\ ~Holding(t)'
      BY <1>2, <2>2 DEF Quiet, Holding
    <2>4. Cap > 0 => spent < Cap
      BY <1>4, <1>6, Typed, ConstantsTyped DEF HardCapped, MoneyTyped
    <2>5. FreshInv' /\ CachesTyped'
      BY <1>2, <1>3, <2>2, <2>3, FreshTurnStays, FreshStays, L1Left
    <2>6. ChargeInv' /\ BooksAgree' /\ CapInv'
      BY <1>2, <1>3, <2>2, <2>3, <2>4, QuietKeeps, LetThrough
    <2>7. LadderTypeOK'
      <3>1. MoneyTyped' /\ CatalogueTyped' /\ BoundsTyped'
        BY <1>2, <1>3, <1>4, Typed DEF MoneyTyped, CatalogueTyped, BoundsTyped, ScopeTyped
      <3> QED
        BY <2>2, <2>5, <3>1, TypedNext DEF Moves
    <2> QED
      BY <2>5, <2>6, <2>7 DEF LadderInv
  <1> QED
    BY <1>5, <1>6

LEMMA ReadWalletKeeps ==
    ASSUME LadderInv, NEW t \in Turns, ReadWallet(t)
    PROVE  LadderInv'
  <1>1. /\ UNCHANGED <<query, ver, vectored, ans, rung, price, l1, l2, outlived, spent, kill,
                       balance,
                       granted, bought, lostSpend, lostLedger, dv, written, visible, owed, shown, erasing, erasures, late,
                       asked, scope>>
        /\ pc[t] = "wallet" /\ pc' = [pc EXCEPT ![t] = "retrieve"]
    BY DEF ReadWallet, Goto, cacheVars, catalogueVars
  <1>2. LadderTypeOK /\ TurnsTyped /\ MoneyTyped /\ BoundsTyped
    BY Typed DEF LadderInv
  <1>3. faults' \in 0..scope.faults
    <2>1. Works(FALSE) => faults' \in 0..scope.faults
      BY <1>2, WorksTyped
    <2> QED
      BY <1>2, <2>1 DEF ReadWallet, BoundsTyped, ScopeTyped
  <1>4. cached' \subseteq Int /\ Cardinality(cached') <= 1
    <2>1. cached' = cached \/ cached' = {balance}
      BY DEF ReadWallet
    <2>2. Cardinality({balance}) = 1
      BY FS_Singleton
    <2>3. CASE cached' = cached
      BY <1>2, <2>3 DEF MoneyTyped
    <2>4. CASE cached' = {balance}
      <3>1. cached' \subseteq Int
        BY <1>2, <2>4 DEF MoneyTyped
      <3>2. Cardinality(cached') = 1
        BY <2>2, <2>4
      <3> QED
        BY <3>1, <3>2
    <2> QED
      BY <2>1, <2>3, <2>4
  <1>5. restricted' \in [Turns -> BOOLEAN] /\ \A o \in Turns \ {t} : restricted'[o] = restricted[o]
    <2>1. \/ restricted' = restricted
          \/ \E b \in Int : restricted' = [restricted EXCEPT ![t] = b <= 0]
      BY <1>2 DEF ReadWallet, MoneyTyped
    <2>2. ASSUME NEW b \in Int, restricted' = [restricted EXCEPT ![t] = b <= 0]
          PROVE  \E limited \in BOOLEAN : restricted' = [restricted EXCEPT ![t] = limited]
      <3>1. (b <= 0) \in BOOLEAN
        OBVIOUS
      <3> QED
        BY <2>2, <3>1, Zenon
    <2> QED
      BY <1>2, <2>1, <2>2 DEF TurnsTyped
  <1>6. Moves(t) /\ pc'[t] = "retrieve"
    BY <1>1, <1>2, <1>5 DEF Moves, TurnsTyped, Steps
  <1>7. Quiet(t) /\ ~Holding(t)'
    BY <1>1, <1>6 DEF Quiet, Holding
  <1>8. MayBuy' \subseteq MayBuy
    BY <1>1, <1>2, <1>6, MayBuyShrinks DEF MayBuy
  <1>9. FreshTurn(t)'
    BY <1>1, <1>7, FreshTurnStays
  <1>10. QuietStep(t)
    BY <1>1, <1>2, <1>3, <1>4, <1>6, <1>7, <1>8, <1>9, L1Left DEF QuietStep, BoundsTyped, ScopeTyped
  <1> QED
    BY <1>10, QuietStepKeeps

-----------------------------------------------------------------------------
(* Retrieval and generation.                                               *)

LEMMA RetrieveKeeps ==
    ASSUME LadderInv, NEW t \in Turns, Retrieve(t)
    PROVE  LadderInv'
  <1>1. PICK ok \in BOOLEAN :
          /\ Works(ok)
          /\ IF ok
             THEN /\ ans' = [ans EXCEPT ![t] = Found]
                  /\ Priced(t, "search")
                  /\ Goto(t, IF Tier[query[t]] = "search" THEN "charge" ELSE "generate")
             ELSE Goto(t, "down") /\ UNCHANGED <<ans, rung, price>>
    BY DEF Retrieve
  <1>2. /\ UNCHANGED <<query, ver, vectored, restricted, cacheVars, moneyVars, catalogueVars,
                       asked, scope>>
        /\ pc[t] = "retrieve" /\ UNCHANGED <<dv, shown>>
    BY DEF Retrieve, catalogueVars
  <1>3. LadderTypeOK /\ TurnsTyped /\ CatalogueTyped /\ faults' \in 0..scope.faults
    BY <1>1, Typed, WorksTyped DEF LadderInv
  <1>4. CASE ok
    <2>1. PICK credits \in Price["search"] : price' = [price EXCEPT ![t] = credits]
      BY <1>1, <1>4 DEF Priced
    <2>2. PICK step \in {"charge", "generate"} : pc' = [pc EXCEPT ![t] = step]
      BY <1>1, <1>4 DEF Goto
    <2>3. ans' = [ans EXCEPT ![t] = Found] /\ rung' = [rung EXCEPT ![t] = "search"]
      BY <1>1, <1>4 DEF Priced
    <2>4. Found \in Answer /\ Found.seen = visible /\ credits \in Nat
      BY <1>3, ConstantsTyped DEF Found, Answer, CatalogueTyped, Rungs
    <2>5. Moves(t) /\ pc'[t] = step /\ rung'[t] = "search" /\ ans'[t] = Found
          /\ restricted'[t] = restricted[t]
      BY <1>2, <1>3, <2>1, <2>2, <2>3, <2>4 DEF Moves, TurnsTyped, Steps, Rungs
    <2>6. Quiet(t)
      BY <1>2, <2>5 DEF Quiet
    <2>7. MayBuy' \subseteq MayBuy
      BY <1>2, <1>3, <2>5, MayBuyShrinks DEF MayBuy
    <2>8. t \notin late => ans'[t].seen >= shown[ver[t]]
      BY <1>3, <2>4, <2>5 DEF LadderInv, FreshInv, FreshTurn, CatalogueTyped
    <2> QED
      BY <1>2, <1>3, <2>5, <2>6, <2>7, <2>8, PlainStepKeeps
  <1>5. CASE ~ok
    <2>1. Goto(t, "down") /\ UNCHANGED <<ans, rung, price>> /\ "down" \in Resting
      BY <1>1, <1>5 DEF Resting
    <2>2. Moves(t) /\ pc'[t] = "down"
      BY <1>2, <1>3, <2>1, GoesOn
    <2>3. Quiet(t) /\ ~Holding(t)' /\ MayBuy' \subseteq MayBuy
      BY <1>2, <1>3, <2>2, MayBuyShrinks DEF Quiet, Holding
    <2> QED
      BY <1>2, <1>3, <2>2, <2>3, PlainStepKeeps
  <1> QED
    BY <1>4, <1>5

LEMMA DegradeKeeps ==
    ASSUME LadderInv, NEW t \in Turns, Degrade(t)
    PROVE  LadderInv'
  <1>1. /\ Goto(t, "charge") /\ pc[t] = "generate"
        /\ UNCHANGED <<query, ver, vectored, restricted, ans, rung, price, cacheVars, moneyVars,
                       catalogueVars, asked, faults, scope, dv, shown>>
    BY DEF Degrade, boundVars, catalogueVars
  <1>2. LadderTypeOK /\ faults' \in 0..scope.faults /\ "charge" \in Steps
    BY <1>1, Typed DEF LadderInv, BoundsTyped, Steps
  <1>3. Moves(t) /\ pc'[t] = "charge"
    BY <1>1, <1>2, GoesOn
  <1>4. Quiet(t) /\ MayBuy' \subseteq MayBuy
    BY <1>1, <1>2, <1>3, MayBuyShrinks DEF Quiet, LadderInv, ChargeInv
  <1>5. t \notin late => ans'[t].seen >= shown[ver[t]]
    BY <1>1 DEF LadderInv, FreshInv, FreshTurn, Holding
  <1> QED
    BY <1>1, <1>2, <1>3, <1>4, <1>5, PlainStepKeeps

LEMMA GenerateByKeeps ==
    ASSUME LadderInv, NEW t \in Turns, NEW e \in Endpoints, GenerateBy(t, e)
    PROVE  LadderInv'
  <1> DEFINE billed == BilledAs(t, e)
  <1>1. PICK grounded \in BOOLEAN, credits \in Price[billed] :
          /\ ans' = [ans EXCEPT ![t].grounded = grounded]
          /\ rung' = [rung EXCEPT ![t] = billed]
          /\ price' = [price EXCEPT ![t] = credits]
    BY DEF GenerateBy, Priced
  <1>2. /\ UNCHANGED <<query, ver, vectored, restricted, l1, l2, outlived, spent, kill, cached,
                       balance,
                       granted, lostSpend, lostLedger, dv, written, visible, owed, shown, erasing, erasures, late,
                       asked, faults, scope>>
        /\ pc[t] = "generate" /\ pc' = [pc EXCEPT ![t] = "charge"]
        /\ e \in Candidates(t)
        /\ bought' = IF e.local THEN bought ELSE bought + price'[t]
    BY DEF GenerateBy, Goto, cacheVars, catalogueVars, boundVars
  <1>3. LadderTypeOK /\ TurnsTyped /\ MoneyTyped /\ BoundsTyped
    BY Typed DEF LadderInv
  <1>4. billed \in Rungs /\ credits \in Nat
    BY ConstantsTyped DEF BilledAs, Rungs
  <1>5. /\ ans' \in [Turns -> Answer] /\ ans'[t].seen = ans[t].seen
        /\ \A o \in Turns \ {t} : ans'[o] = ans[o]
    BY <1>1, <1>3 DEF TurnsTyped, Answer
  <1> HIDE DEF billed
  <1>6. Moves(t) /\ pc'[t] = "charge" /\ rung'[t] = billed /\ price'[t] = credits
    BY <1>1, <1>2, <1>3, <1>4, <1>5 DEF Moves, TurnsTyped, Steps
  <1>7. ~e.local => t \in MayBuy /\ billed = "frontier"
    BY <1>2, TurnLadderAssumption DEF Candidates, PreferLocal, BilledAs, billed, MayBuy
  <1>8. bought' \in Nat
    BY <1>2, <1>3, <1>4, <1>6 DEF MoneyTyped
  <1>9. LadderTypeOK'
    <2>1. CachesTyped' /\ MoneyTyped' /\ CatalogueTyped' /\ BoundsTyped'
      BY <1>2, <1>3, <1>8, Typed
         DEF CachesTyped, CacheEntry, MoneyTyped, CatalogueTyped, BoundsTyped, ScopeTyped
    <2> QED
      BY <1>6, <2>1, TypedNext DEF Moves
  <1>10. FreshInv'
    <2>1. t \notin late => ans'[t].seen >= shown[ver[t]]
      BY <1>2, <1>5 DEF LadderInv, FreshInv, FreshTurn, Holding
    <2> QED
      BY <1>2, <1>6, <2>1, FreshTurnStays, FreshStays, L1Left
  <1>11. t \notin Bought /\ t \notin Unmetered /\ t \notin MayBuy' /\ Unmetered' = Unmetered
    BY <1>2, <1>3, <1>6, SetsMove DEF Bought, Unmetered, MayBuy
  <1>12. /\ price \in [Turns -> Nat] /\ price' \in [Turns -> Nat] /\ price'[t] = credits
         /\ Bought \in SUBSET Turns /\ Unmetered \in SUBSET Turns /\ MayBuy \in SUBSET Turns
         /\ \A o \in Bought \cup Unmetered : price'[o] = price[o]
    BY <1>3, <1>6, <1>11, SetsMove
  <1>13. ChargeInv'
    <2>1. \A o \in Turns : pc'[o] = "generate" => rung'[o] = "search"
      BY <1>6 DEF LadderInv, ChargeInv, Moves
    <2> DEFINE c == Cardinality(Credits(Bought, price))
    <2>2. scope.before + bought <= spent + lostSpend + c /\ spent >= scope.before /\ c \in Nat
      BY <1>3, <1>12, CreditsFinite DEF LadderInv, ChargeInv
    <2>3. CASE billed = "frontier"
      <3>1. Bought' = Bought \cup {t}
        BY <1>3, <1>6, <2>3, SetsMove DEF Bought
      <3>2. Cardinality(Credits(Bought', price')) = c + credits
        BY <1>11, <1>12, <3>1, CreditsAdd
      <3>3. \A o \in Bought' : price'[o] \in Price["frontier"]
        BY <1>1, <1>12, <2>3, <3>1 DEF LadderInv, ChargeInv
      <3> HIDE DEF c
      <3>4. scope.before' + bought' <= spent' + lostSpend' + (c + credits)
        BY <1>2, <1>3, <1>4, <1>12, <2>2 DEF MoneyTyped, BoundsTyped, ScopeTyped
      <3> QED
        BY <1>2, <2>1, <2>2, <3>2, <3>3, <3>4 DEF ChargeInv
    <2>4. CASE billed # "frontier"
      <3>1. Bought' = Bought
        BY <1>3, <1>6, <1>11, <2>4, SetsMove DEF Bought
      <3>2. Credits(Bought', price') = Credits(Bought, price)
        BY <1>12, <3>1, CreditsSame
      <3>3. bought' = bought
        BY <1>2, <1>7, <2>4
      <3> QED
        BY <1>2, <1>12, <2>1, <3>1, <3>2, <3>3 DEF LadderInv, ChargeInv
    <2> QED
      BY <2>3, <2>4
  <1>14. BooksAgree'
    <2>1. Credits(Unmetered', price') = Credits(Unmetered, price)
      BY <1>11, <1>12, CreditsSame
    <2> QED
      BY <1>2, <2>1 DEF LadderInv, BooksAgree, Unmetered
  <1>15. CapInv'
    <2>1. MayBuy' \subseteq MayBuy /\ MayBuy' = MayBuy \ {t}
      BY <1>3, <1>6, <1>11, SetsMove
    <2>2. CASE e.local
      <3>1. bought' = bought /\ lostSpend' = lostSpend /\ lostSpend \in Nat
        BY <1>2, <1>3, <2>2 DEF MoneyTyped
      <3> QED
        BY <1>2, <1>3, <1>12, <2>1, <3>1, CapShrinks DEF LadderInv
    <2>3. CASE ~e.local
      <3>1. IsFiniteSet(MayBuy) /\ Cardinality(MayBuy) \in Nat
        BY <1>12, CreditsFinite, <1>3 DEF TurnsTyped
      <3>2. Cardinality(MayBuy') = Cardinality(MayBuy) - 1 /\ Cardinality(MayBuy') \in Nat
        BY <1>7, <2>1, <2>3, <3>1, FS_RemoveElement, FS_CardinalityType
      <3> DEFINE m == Cardinality(MayBuy') * Dearest
                 n == Cardinality(Turns) * Dearest
      <3>3. Cardinality(Turns) \in Nat
        BY ConstantsTyped, FS_CardinalityType
      <3>4. m \in Nat /\ n \in Nat
        BY <3>2, <3>3, DearestIsMaximal, Products
      <3>5. Cardinality(MayBuy) * Dearest = m + Dearest
        <4>1. Cardinality(MayBuy) = Cardinality(MayBuy') + 1 /\ 1 * Dearest = Dearest
          BY <3>1, <3>2, DearestIsMaximal
        <4> QED
          BY <3>2, <4>1, DearestIsMaximal, Products
      <3>6. bought' = bought + credits /\ credits <= Dearest /\ Dearest \in Nat
        BY <1>1, <1>2, <1>6, <1>7, <2>3, DearestIsMaximal
      <3>7. /\ bought \in Nat /\ scope.before \in Nat /\ lostSpend \in Nat /\ Cap \in Nat
            /\ scope.before' = scope.before /\ lostSpend' = lostSpend
        BY <1>2, <1>3, ConstantsTyped DEF MoneyTyped, BoundsTyped, ScopeTyped
      <3>8. Cap > 0 => /\ scope.before < Cap
                       /\ bought + (m + Dearest) <= Cap - scope.before - 1 + n + lostSpend
        BY <1>7, <2>3, <3>5, <3>7 DEF LadderInv, CapInv
      <3> HIDE DEF m, n
      <3>9. Cap > 0 => /\ scope.before' < Cap
                       /\ bought' + m <= Cap - scope.before' - 1 + n + lostSpend'
        BY <1>4, <3>4, <3>6, <3>7, <3>8
      <3> QED
        BY <3>7, <3>9 DEF CapInv, m, n
    <2> QED
      BY <2>2, <2>3
  <1> QED
    BY <1>9, <1>10, <1>13, <1>14, <1>15 DEF LadderInv

-----------------------------------------------------------------------------
(* Charge and ledger.                                                      *)

LEMMA ChargeKeeps ==
    ASSUME LadderInv, NEW t \in Turns, Charge(t)
    PROVE  LadderInv'
  <1>1. PICK ok \in BOOLEAN :
          /\ Works(ok)
          /\ spent' = IF ok THEN spent + price[t] ELSE spent
          /\ lostSpend' = IF ok THEN lostSpend ELSE lostSpend + price[t]
    BY DEF Charge
  <1>2. /\ UNCHANGED <<query, ver, vectored, restricted, ans, rung, price, l1, l2, outlived,
                       kill, cached,
                       balance, granted, bought, lostLedger, dv, written, visible, owed, shown, erasing, erasures, late,
                       asked, scope>>
        /\ pc[t] = "charge" /\ Goto(t, "meter")
    BY DEF Charge, cacheVars, catalogueVars
  <1>3. /\ LadderTypeOK /\ TurnsTyped /\ MoneyTyped /\ BoundsTyped
        /\ faults' \in 0..scope.faults /\ "meter" \in Steps
    BY <1>1, Typed, WorksTyped DEF LadderInv, Steps
  <1>4. Moves(t) /\ pc'[t] = "meter"
    BY <1>2, <1>3, GoesOn
  <1>5. /\ price[t] \in Nat /\ spent' \in Nat /\ lostSpend' \in Nat
        /\ spent' + lostSpend' = spent + lostSpend + price[t]
        /\ spent' >= spent /\ lostSpend' >= lostSpend
    BY <1>1, <1>3 DEF TurnsTyped, MoneyTyped
  <1>6. LadderTypeOK'
    <2>1. CachesTyped' /\ MoneyTyped' /\ CatalogueTyped' /\ BoundsTyped'
      BY <1>2, <1>3, <1>5, Typed
         DEF CachesTyped, CacheEntry, MoneyTyped, CatalogueTyped, BoundsTyped, ScopeTyped
    <2> QED
      BY <1>4, <2>1, TypedNext DEF Moves
  <1>7. FreshInv'
    <2>1. t \notin late => ans'[t].seen >= shown[ver[t]]
      BY <1>2 DEF LadderInv, FreshInv, FreshTurn, Holding
    <2> QED
      BY <1>2, <1>4, <2>1, FreshTurnStays, FreshStays, L1Left
  <1>8. /\ t \notin Bought' /\ t \notin Unmetered /\ Unmetered' = Unmetered \cup {t}
        /\ Bought' = Bought \ {t} /\ MayBuy' \subseteq MayBuy
        /\ Bought' \in SUBSET Turns /\ Unmetered \in SUBSET Turns /\ MayBuy \subseteq Turns
        /\ price \in [Turns -> Nat] /\ price' = price
    BY <1>2, <1>3, <1>4, SetsMove, MayBuyShrinks DEF Bought, Unmetered
  <1>9. ChargeInv'
    <2> DEFINE c == Cardinality(Credits(Bought, price))
               rest == Cardinality(Credits(Bought', price))
    <2>1. c \in Nat /\ rest \in Nat /\ c <= rest + price[t]
      <3>1. rest \in Nat
        BY <1>8, CreditsFinite
      <3>2. CASE t \in Bought
        <4>1. Bought = Bought' \cup {t}
          BY <1>8, <3>2
        <4>2. c = rest + price[t]
          BY <1>8, <4>1, CreditsAdd
        <4> QED
          BY <1>5, <3>1, <4>2
      <3>3. CASE t \notin Bought
        <4>1. c = rest
          BY <1>8, <3>3
        <4> QED
          BY <1>5, <3>1, <4>1
      <3> QED
        BY <3>2, <3>3
    <2>2. scope.before + bought <= spent + lostSpend + c /\ spent >= scope.before
      BY DEF LadderInv, ChargeInv
    <2> HIDE DEF c, rest
    <2>3. scope.before' + bought' <= spent' + lostSpend' + rest /\ spent' >= scope.before'
      BY <1>2, <1>3, <1>5, <2>1, <2>2 DEF MoneyTyped, BoundsTyped, ScopeTyped
    <2>4. \A o \in Turns : pc'[o] = "generate" => rung'[o] = "search"
      BY <1>4 DEF LadderInv, ChargeInv, Moves
    <2>5. \A o \in Bought' : price'[o] \in Price["frontier"]
      BY <1>8 DEF LadderInv, ChargeInv
    <2> QED
      BY <1>8, <2>3, <2>4, <2>5 DEF ChargeInv, rest
  <1>10. BooksAgree'
    <2> DEFINE c == Cardinality(Credits(Unmetered, price))
    <2>1. Cardinality(Credits(Unmetered', price')) = c + price[t] /\ c \in Nat
      BY <1>8, CreditsAdd, CreditsFinite
    <2>2. (spent - scope.before) + lostSpend = (granted - balance) + lostLedger + c
      BY DEF LadderInv, BooksAgree, Unmetered
    <2> HIDE DEF c
    <2>3. (spent' - scope.before') + lostSpend' =
            (granted' - balance') + lostLedger' + (c + price[t])
      BY <1>2, <1>3, <1>5, <2>1, <2>2 DEF MoneyTyped, BoundsTyped, ScopeTyped
    <2> QED
      BY <2>1, <2>3 DEF BooksAgree, Unmetered
  <1>11. CapInv'
    BY <1>2, <1>3, <1>5, <1>8, CapShrinks DEF LadderInv
  <1> QED
    BY <1>6, <1>7, <1>9, <1>10, <1>11 DEF LadderInv

LEMMA MeterKeeps ==
    ASSUME LadderInv, NEW t \in Turns, Meter(t)
    PROVE  LadderInv'
  <1> DEFINE cost == price[t]
  <1>1. PICK ok \in BOOLEAN :
          /\ Works(ok)
          /\ balance' = IF ok THEN balance - cost ELSE balance
          /\ lostLedger' = IF ok THEN lostLedger ELSE lostLedger + cost
    BY DEF Meter, RecordCharge
  <1>2. /\ UNCHANGED <<query, ver, l1, l2, outlived, spent, kill, cached, granted, bought,
                       lostSpend,
                       dv, written, visible, owed, shown, erasing, erasures, late, asked, scope>>
        /\ pc[t] = "meter"
        /\ Reply(t, rung[t], ans[t]) \/ (Goto(t, "storeL1") /\ UNCHANGED replyVars)
    BY DEF Meter, cacheVars, catalogueVars
  <1>3. /\ LadderTypeOK /\ TurnsTyped /\ MoneyTyped /\ BoundsTyped
        /\ faults' \in 0..scope.faults /\ "storeL1" \in Steps
        /\ rung[t] \in Rungs /\ ans[t] \in Answer
    BY <1>1, Typed, WorksTyped DEF LadderInv, Steps, TurnsTyped
  <1>4. Moves(t) /\ pc'[t] \in {"replied", "storeL1"} /\ (pc'[t] = "storeL1" => ans'[t] = ans[t])
    <2>1. CASE Reply(t, rung[t], ans[t])
      BY <1>2, <1>3, <2>1, Replies
    <2>2. CASE Goto(t, "storeL1") /\ UNCHANGED replyVars
      BY <1>2, <1>3, <2>2, GoesOn DEF replyVars
    <2> QED
      BY <1>2, <2>1, <2>2
  <1>5. /\ cost \in Nat /\ balance' \in Int /\ lostLedger' \in Nat
        /\ (granted - balance') + lostLedger' = (granted - balance) + lostLedger + cost
    BY <1>1, <1>3 DEF TurnsTyped, MoneyTyped
  <1>6. LadderTypeOK'
    <2>1. CachesTyped' /\ MoneyTyped' /\ CatalogueTyped' /\ BoundsTyped'
      BY <1>2, <1>3, <1>5, Typed
         DEF CachesTyped, CacheEntry, MoneyTyped, CatalogueTyped, BoundsTyped, ScopeTyped
    <2> QED
      BY <1>4, <2>1, TypedNext DEF Moves
  <1>7. FreshInv'
    <2>1. t \notin late /\ Holding(t)' => ans'[t].seen >= shown[ver[t]]
      BY <1>2, <1>4 DEF LadderInv, FreshInv, FreshTurn, Holding
    <2> QED
      BY <1>2, <1>4, <2>1, FreshTurnStays, FreshStays, L1Left
  <1>8. /\ t \notin Unmetered' /\ Unmetered = Unmetered' \cup {t} /\ Bought' = Bought
        /\ t \notin Bought /\ MayBuy' \subseteq MayBuy
        /\ Bought \in SUBSET Turns /\ Unmetered' \in SUBSET Turns /\ MayBuy \subseteq Turns
        /\ price \in [Turns -> Nat] /\ price' \in [Turns -> Nat]
        /\ \A o \in Bought \cup Unmetered' : price'[o] = price[o]
    BY <1>2, <1>3, <1>4, SetsMove, MayBuyShrinks DEF Bought, Unmetered
  <1>9. ChargeInv'
    <2>1. Credits(Bought', price') = Credits(Bought, price)
      BY <1>8, CreditsSame
    <2>2. \A o \in Turns : pc'[o] = "generate" => rung'[o] = "search"
      BY <1>4 DEF LadderInv, ChargeInv, Moves
    <2> QED
      BY <1>2, <1>8, <2>1, <2>2 DEF LadderInv, ChargeInv
  <1>10. BooksAgree'
    <2> DEFINE c == Cardinality(Credits(Unmetered', price'))
    <2>1. c \in Nat
      BY <1>8, CreditsFinite
    <2>2. Cardinality(Credits(Unmetered, price)) = c + cost
      BY <1>8, CreditsAdd
    <2>3. (spent - scope.before) + lostSpend = (granted - balance) + lostLedger + (c + cost)
      BY <2>2 DEF LadderInv, BooksAgree, Unmetered
    <2>4. /\ spent' = spent /\ scope.before' = scope.before /\ lostSpend' = lostSpend /\ granted' = granted
          /\ {spent, scope.before, lostSpend, granted, lostLedger, lostLedger', cost, c} \subseteq Int
          /\ balance \in Int /\ balance' \in Int
      BY <1>2, <1>3, <1>5, <2>1 DEF MoneyTyped, BoundsTyped, ScopeTyped
    <2> HIDE DEF c, cost
    <2>5. (spent' - scope.before') + lostSpend' = (granted' - balance') + lostLedger' + c
      BY <1>5, <2>3, <2>4
    <2> QED
      BY <2>5 DEF BooksAgree, Unmetered, c
  <1>11. CapInv'
    BY <1>2, <1>3, <1>8, CapShrinks DEF LadderInv, MoneyTyped
  <1> QED
    BY <1>6, <1>7, <1>9, <1>10, <1>11 DEF LadderInv

-----------------------------------------------------------------------------
(* The caches.                                                             *)

\* A step that stores the answer of t and goes on or replies.
LEMMA StoreStepKeeps ==
    ASSUME LadderInv, NEW t \in Turns, pc[t] \in {"storeL1", "storeL2"}, Moves(t),
           pc'[t] \in {"storeL2", "replied"},
           CachesTyped', L1IsOfItsVersion', faults' \in 0..scope.faults,
           UNCHANGED <<ver, moneyVars, catalogueVars, asked, scope>>
    PROVE  LadderInv'
  <1>1. UNCHANGED <<spent, kill, cached, balance, granted, bought, lostSpend,
                    lostLedger, dv, written, visible, owed, shown, erasing, erasures, late>>
    BY DEF moneyVars, catalogueVars
  <1>2. LadderTypeOK /\ cached' \subseteq Int /\ Cardinality(cached') <= 1
        /\ asked' \in 0..scope.turns
    BY <1>1, Typed DEF LadderInv, MoneyTyped, BoundsTyped, ScopeTyped
  <1>3. Quiet(t) /\ ~Holding(t)' /\ MayBuy' \subseteq MayBuy
    BY <1>2, MayBuyShrinks DEF Quiet, Holding
  <1>4. FreshTurn(t)'
    BY <1>1, <1>3, FreshTurnStays
  <1>5. QuietStep(t)
    BY <1>1, <1>2, <1>3, <1>4 DEF QuietStep
  <1> QED
    BY <1>5, QuietStepKeeps

LEMMA StoreL1Keeps ==
    ASSUME LadderInv, NEW t \in Turns, StoreL1(t)
    PROVE  LadderInv'
  <1> DEFINE entry == L1Entry(t)
  <1>1. PICK ok \in BOOLEAN :
          /\ Works(ok)
          /\ IF ok
             THEN /\ l1' = (l1 \ L1Hits(t)) \cup {entry}
                  /\ outlived' = (outlived \ L1Hits(t)) \cup (IF t \in late THEN {entry} ELSE {})
             ELSE UNCHANGED <<l1, outlived>>
    BY DEF StoreL1
  <1>2. /\ UNCHANGED <<query, ver, l2, moneyVars, catalogueVars, asked, scope>>
        /\ UNCHANGED <<dv, shown>>
        /\ pc[t] = "storeL1"
        /\ Reply(t, rung[t], ans[t]) \/ (Goto(t, "storeL2") /\ UNCHANGED replyVars)
    BY DEF StoreL1, catalogueVars
  <1>3. /\ LadderTypeOK /\ TurnsTyped /\ CachesTyped
        /\ faults' \in 0..scope.faults /\ "storeL2" \in Steps
        /\ rung[t] \in Rungs /\ ans[t] \in Answer
    BY <1>1, Typed, WorksTyped DEF LadderInv, Steps, TurnsTyped
  <1>4. Moves(t) /\ pc'[t] \in {"storeL2", "replied"}
    <2>1. CASE Reply(t, rung[t], ans[t])
      BY <1>2, <1>3, <2>1, Replies
    <2>2. CASE Goto(t, "storeL2") /\ UNCHANGED replyVars
      BY <1>2, <1>3, <2>2, GoesOn DEF replyVars
    <2> QED
      BY <1>2, <2>1, <2>2
  <1>5. /\ entry \in CacheEntry
        /\ t \notin late => entry.ver <= dv /\ entry.ans.seen >= shown[entry.ver]
    BY <1>2, <1>3
       DEF L1Entry, TurnsTyped, CacheEntry, LadderInv, FreshInv, FreshTurn, Holding
  <1> HIDE DEF entry
  <1>6. /\ l1' \subseteq l1 \cup {entry} /\ outlived' \subseteq l1'
        /\ l1' \ outlived' \subseteq (l1 \ outlived) \cup (IF t \in late THEN {} ELSE {entry})
    BY <1>1, <1>3 DEF CachesTyped
  <1>7. CachesTyped'
    BY <1>2, <1>3, <1>5, <1>6 DEF CachesTyped, CacheEntry
  <1>8. L1IsOfItsVersion'
    BY <1>2, <1>5, <1>6 DEF LadderInv, FreshInv, L1IsOfItsVersion
  <1> QED
    BY <1>2, <1>3, <1>4, <1>7, <1>8, StoreStepKeeps

LEMMA NewestIsTyped ==
    ASSUME NEW s \in Seq(Entry)
    PROVE  Newest(s) \in Seq(Entry) /\ Len(Newest(s)) <= L2Max
  <1>1. Len(s) \in Nat /\ L2Max \in Nat
    BY ConstantsTyped
  <1> DEFINE k == Min({L2Max, Len(s)})
  <1>2. k \in {L2Max, Len(s)} /\ k <= L2Max /\ k <= Len(s)
    <2>1. \E x \in {L2Max, Len(s)} : \A y \in {L2Max, Len(s)} : x <= y
      BY <1>1
    <2> QED
      BY <2>1 DEF Min
  <1>3. k \in Nat /\ k <= Len(s) /\ k <= L2Max
    BY <1>1, <1>2
  <1> HIDE DEF k
  <1>4. SubSeq(s, 1, k) \in Seq(Entry) /\ Len(SubSeq(s, 1, k)) = k
    BY <1>1, <1>3
  <1> QED
    BY <1>3, <1>4 DEF Newest, k

LEMMA StoreL2Keeps ==
    ASSUME LadderInv, NEW t \in Turns, StoreL2(t)
    PROVE  LadderInv'
  <1> DEFINE entry == [query |-> query[t], ans |-> ans[t]]
  <1>1. PICK ok \in BOOLEAN :
          Works(ok) /\ l2' = IF ok THEN Newest(<<entry>> \o l2) ELSE l2
    BY DEF StoreL2
  <1>2. /\ UNCHANGED <<query, ver, l1, outlived, moneyVars, catalogueVars, asked, scope>>
        /\ UNCHANGED <<dv, shown>>
        /\ pc[t] = "storeL2" /\ Reply(t, rung[t], ans[t])
    BY DEF StoreL2, catalogueVars
  <1>3. /\ LadderTypeOK /\ TurnsTyped /\ CachesTyped /\ faults' \in 0..scope.faults
        /\ rung[t] \in Rungs /\ ans[t] \in Answer
    BY <1>1, Typed, WorksTyped DEF LadderInv, TurnsTyped
  <1>4. Moves(t) /\ pc'[t] = "replied"
    BY <1>2, <1>3, Replies
  <1>5. entry \in Entry
    BY <1>3 DEF TurnsTyped, Entry
  <1> HIDE DEF entry
  <1>6. <<entry>> \o l2 \in Seq(Entry)
    BY <1>3, <1>5 DEF CachesTyped
  <1>7. l2' \in Seq(Entry) /\ Len(l2') <= L2Max
    BY <1>1, <1>3, <1>6, NewestIsTyped DEF CachesTyped
  <1>8. CachesTyped' /\ L1IsOfItsVersion'
    BY <1>2, <1>3, <1>7, L1Left DEF CachesTyped, CacheEntry
  <1> QED
    BY <1>2, <1>3, <1>4, <1>8, StoreStepKeeps

-----------------------------------------------------------------------------
(* Around the turns.                                                       *)

\* A step of no turn: what has been granted shows in the ledger's balance, and the
\* other books stand still.
Beside ==
    /\ LadderTypeOK' /\ FreshInv'
    /\ UNCHANGED <<pc, restricted, rung, price, spent, scope, bought, lostSpend, lostLedger>>
    /\ granted' - balance' = granted - balance

LEMMA BesideKeeps ==
    ASSUME LadderInv, Beside
    PROVE  LadderInv'
  <1>1. Bought' = Bought /\ Unmetered' = Unmetered /\ MayBuy' = MayBuy
    BY DEF Beside, Bought, Unmetered, MayBuy
  <1>2. ChargeInv'
    <2>1. Credits(Bought', price') = Credits(Bought, price)
      BY <1>1 DEF Beside
    <2>2. \A t \in Turns : pc'[t] = "generate" => rung'[t] = "search"
      BY DEF Beside, LadderInv, ChargeInv
    <2> QED
      BY <1>1, <2>1, <2>2 DEF Beside, LadderInv, ChargeInv
  <1>3. CapInv'
    BY <1>1 DEF Beside, LadderInv, CapInv
  <1>4. BooksAgree'
    <2>1. Credits(Unmetered', price') = Credits(Unmetered, price)
      BY <1>1 DEF Beside
    <2> DEFINE owing == Cardinality(Credits(Unmetered, price))
    <2>2. (spent - scope.before) + lostSpend = (granted - balance) + lostLedger + owing
      BY DEF LadderInv, BooksAgree, Unmetered
    <2>3. (spent' - scope.before') + lostSpend' = (granted' - balance') + lostLedger' + owing
      BY <2>2 DEF Beside
    <2> QED
      BY <2>1, <2>3 DEF BooksAgree, Unmetered
  <1> QED
    BY <1>2, <1>3, <1>4 DEF Beside, LadderInv

LEMMA FreshLeft ==
    ASSUME LadderInv, UNCHANGED <<turnVars, dv, shown, late>>,
           l1' \ outlived' \subseteq l1 \ outlived
    PROVE  FreshInv'
  BY DEF LadderInv, FreshInv, FreshTurn, L1IsOfItsVersion, Holding, turnVars

\* The turns and the data version are left alone.
LEMMA StoresBesideKeep ==
    ASSUME LadderInv, UNCHANGED <<turnVars, dv, shown, late, asked, scope>>,
           faults' \in 0..scope.faults,
           CachesTyped', l1' \ outlived' \subseteq l1 \ outlived, MoneyTyped', CatalogueTyped',
           UNCHANGED <<spent, bought, lostSpend, lostLedger>>,
           granted' - balance' = granted - balance
    PROVE  LadderInv'
  <1>1. TurnsTyped /\ BoundsTyped
    BY Typed DEF LadderInv
  <1>2. TurnsTyped' /\ BoundsTyped'
    BY <1>1 DEF turnVars, TurnsTyped, BoundsTyped, ScopeTyped
  <1>3. LadderTypeOK'
    BY <1>2, TypedNext
  <1>4. Beside
    BY <1>3, FreshLeft DEF Beside, turnVars
  <1> QED
    BY <1>4, BesideKeeps

\* So is the money.
LEMMA CatalogueBesideKeeps ==
    ASSUME LadderInv,
           UNCHANGED <<turnVars, l1, outlived, moneyVars, dv, shown, late, asked, scope>>,
           faults' \in 0..scope.faults,
           l2' \in Seq(Entry), Len(l2') <= L2Max, CatalogueTyped'
    PROVE  LadderInv'
  <1>1. MoneyTyped /\ CachesTyped
    BY Typed DEF LadderInv
  <1>2. MoneyTyped' /\ UNCHANGED <<granted, balance, spent, bought, lostSpend, lostLedger>>
    BY <1>1 DEF MoneyTyped, moneyVars
  <1>3. CachesTyped'
    BY <1>1 DEF CachesTyped, CacheEntry
  <1> QED
    BY <1>2, <1>3, StoresBesideKeep

\* What a step that leaves caches and bounds alone keeps of their types.
LEMMA CachesLeft ==
    ASSUME LadderInv, UNCHANGED <<cacheVars, boundVars>>
    PROVE  /\ CachesTyped' /\ l2' \in Seq(Entry) /\ Len(l2') <= L2Max
           /\ UNCHANGED <<l1, l2, outlived, asked, scope>> /\ faults' \in 0..scope.faults
  <1>1. CachesTyped /\ BoundsTyped
    BY Typed DEF LadderInv
  <1> QED
    BY <1>1 DEF CachesTyped, CacheEntry, BoundsTyped, cacheVars, boundVars

LEMMA WriteIndexKeeps ==
    ASSUME LadderInv, WriteIndex
    PROVE  LadderInv'
  <1>1. CatalogueTyped /\ BoundsTyped
    BY Typed DEF LadderInv
  <1>2. /\ UNCHANGED <<turnVars, moneyVars, dv, shown, late, visible, erasing, erasures>>
        /\ UNCHANGED <<cacheVars, boundVars>>
        /\ written < scope.edits + erasures /\ written' = written + 1 /\ owed' = owed + 1
    BY DEF WriteIndex
  <1>3. UNCHANGED scope /\ scope.edits \in Nat /\ erasures \in Nat
    BY <1>1, <1>2 DEF boundVars, BoundsTyped, ScopeTyped, CatalogueTyped
  <1>4. CatalogueTyped'
    BY <1>1, <1>2, <1>3 DEF CatalogueTyped
  <1> QED
    BY <1>2, <1>4, CachesLeft, CatalogueBesideKeeps

LEMMA RefreshIndexKeeps ==
    ASSUME LadderInv, RefreshIndex
    PROVE  LadderInv'
  <1>1. CatalogueTyped /\ BoundsTyped
    BY Typed DEF LadderInv
  <1>2. /\ UNCHANGED <<turnVars, moneyVars, dv, shown, late, written, owed, erasing, erasures>>
        /\ UNCHANGED <<cacheVars, boundVars>>
        /\ visible < written /\ visible' = written
    BY DEF RefreshIndex
  <1>3. UNCHANGED scope /\ scope.edits \in Nat /\ erasures \in Nat
    BY <1>1, <1>2 DEF boundVars, BoundsTyped, ScopeTyped, CatalogueTyped
  <1>4. written \in Nat /\ visible \in Nat /\ 0..visible \subseteq 0..visible'
    BY <1>1, <1>2, <1>3 DEF CatalogueTyped
  <1>5. shown' \in [0..dv' -> 0..visible']
    BY <1>1, <1>2, <1>4 DEF CatalogueTyped
  <1>6. CatalogueTyped'
    BY <1>1, <1>2, <1>3, <1>4, <1>5 DEF CatalogueTyped
  <1> QED
    BY <1>2, <1>6, CachesLeft, CatalogueBesideKeeps

\* A new version is announced with what searches see; what was shown under the earlier
\* ones, which turns and entries hold, stays.
LEMMA BumpVersionKeeps ==
    ASSUME LadderInv, BumpVersion
    PROVE  LadderInv'
  <1>1. PICK ok \in BOOLEAN :
          /\ Works(ok)
          /\ dv' = IF ok THEN dv + 1 ELSE dv
          /\ shown' = IF ok
                      THEN [d \in 0..(dv + 1) |-> IF d = dv + 1 THEN visible ELSE shown[d]]
                      ELSE shown
    BY DEF BumpVersion
  <1>2. /\ UNCHANGED <<turnVars, cacheVars, moneyVars, written, visible, erasing, erasures, late,
                       asked, scope>>
        /\ owed > 0 /\ owed' = owed - 1
    BY DEF BumpVersion
  <1>3. /\ TurnsTyped /\ CachesTyped /\ MoneyTyped /\ CatalogueTyped /\ BoundsTyped
        /\ faults' \in 0..scope.faults
    BY <1>1, Typed, WorksTyped DEF LadderInv
  <1>4. dv \in Nat /\ dv' \in Nat /\ visible \in Nat
    BY <1>1, <1>3 DEF CatalogueTyped, BoundsTyped, ScopeTyped
  <1>5. /\ 0..dv \subseteq 0..dv' /\ dv <= dv'
        /\ \A d \in 0..dv : shown'[d] = shown[d]
        /\ shown' \in [0..dv' -> 0..visible]
    <2>1. CASE ok
      BY <1>1, <1>3, <1>4, <2>1 DEF CatalogueTyped
    <2>2. CASE ~ok
      BY <1>1, <1>3, <1>4, <2>2 DEF CatalogueTyped
    <2> QED
      BY <2>1, <2>2
  <1>6. TurnsTyped' /\ CachesTyped' /\ MoneyTyped' /\ BoundsTyped'
    BY <1>2, <1>3 DEF TurnsTyped, CachesTyped, CacheEntry, MoneyTyped, BoundsTyped, ScopeTyped,
                      turnVars, cacheVars, moneyVars
  <1>7. CatalogueTyped'
    BY <1>2, <1>3, <1>4, <1>5 DEF CatalogueTyped
  <1>8. LadderTypeOK'
    BY <1>6, <1>7, TypedNext
  <1>9. FreshInv'
    <2>1. \A t \in Turns : FreshTurn(t)'
      BY <1>2, <1>5 DEF LadderInv, FreshInv, FreshTurn, Holding, turnVars
    <2>2. L1IsOfItsVersion'
      <3>1. \A e \in l1 \ outlived : e.ver \in 0..dv /\ e.ans.seen >= shown[e.ver]
        BY <1>3, <1>4 DEF CachesTyped, CacheEntry, LadderInv, FreshInv, L1IsOfItsVersion
      <3> QED
        BY <1>2, <1>4, <1>5, <3>1 DEF L1IsOfItsVersion, cacheVars
    <2> QED
      BY <2>1, <2>2 DEF FreshInv
  <1>10. Beside
    BY <1>2, <1>8, <1>9 DEF Beside, turnVars, moneyVars
  <1> QED
    BY <1>10, BesideKeeps

LEMMA EraseCatalogueKeeps ==
    ASSUME LadderInv, EraseCatalogue
    PROVE  LadderInv'
  <1>1. PICK ok \in BOOLEAN : Works(ok) /\ written' = IF ok THEN written + 1 ELSE written
    BY DEF EraseCatalogue
  <1>2. /\ UNCHANGED <<turnVars, cacheVars, moneyVars, dv, visible, owed, shown, late, asked,
                       scope>>
        /\ erasures < scope.erasures /\ erasures' = erasures + 1 /\ erasing' = "l2"
    BY DEF EraseCatalogue
  <1>3. /\ CatalogueTyped /\ CachesTyped /\ BoundsTyped /\ faults' \in 0..scope.faults
    BY <1>1, Typed, WorksTyped DEF LadderInv
  <1>4. /\ scope.edits \in Nat /\ scope.erasures \in Nat /\ erasures \in Nat
        /\ visible \in Nat /\ written \in Nat
    BY <1>3 DEF BoundsTyped, ScopeTyped, CatalogueTyped
  <1>5. CatalogueTyped'
    <2>1. written' \in 0..(scope.edits + erasures') /\ visible \in 0..written'
      BY <1>1, <1>2, <1>3, <1>4 DEF CatalogueTyped
    <2>2. erasures' \in 0..scope.erasures
      BY <1>2, <1>4
    <2> QED
      BY <1>2, <1>3, <2>1, <2>2 DEF CatalogueTyped
  <1>6. UNCHANGED <<l1, l2, outlived>> /\ l2' \in Seq(Entry) /\ Len(l2') <= L2Max
    BY <1>2, <1>3 DEF cacheVars, CachesTyped
  <1> QED
    BY <1>2, <1>3, <1>5, <1>6, CatalogueBesideKeeps

LEMMA EraseL2Keeps ==
    ASSUME LadderInv, EraseL2
    PROVE  LadderInv'
  <1>1. PICK ok \in BOOLEAN : Works(ok) /\ l2' = IF ok THEN <<>> ELSE l2
    BY DEF EraseL2
  <1>2. /\ UNCHANGED <<turnVars, l1, outlived, moneyVars, dv, written, visible, owed, shown,
                       erasures, late, asked, scope>>
        /\ erasing' = "version"
    BY DEF EraseL2
  <1>3. /\ CatalogueTyped /\ CachesTyped /\ faults' \in 0..scope.faults
    BY <1>1, Typed, WorksTyped DEF LadderInv
  <1>4. CatalogueTyped'
    BY <1>2, <1>3 DEF CatalogueTyped
  <1>5. l2' \in Seq(Entry) /\ Len(l2') <= L2Max
    BY <1>1, <1>3, ConstantsTyped DEF CachesTyped
  <1> QED
    BY <1>2, <1>3, <1>4, <1>5, CatalogueBesideKeeps

\* The version is taken back: it promises nothing, and what turns and cache hold of the
\* versions it had is set apart.
LEMMA EraseVersionKeeps ==
    ASSUME LadderInv, EraseVersion
    PROVE  LadderInv'
  <1>1. PICK ok \in BOOLEAN :
          /\ Works(ok)
          /\ IF ok
             THEN /\ dv' = 0
                  /\ shown' = [d \in {0} |-> 0]
                  /\ outlived' = l1
                  /\ late' = Turns
             ELSE UNCHANGED <<dv, shown, outlived, late>>
    BY DEF EraseVersion
  <1>2. /\ UNCHANGED <<turnVars, l1, l2, moneyVars, written, visible, owed, erasures, asked, scope>>
        /\ erasing' = "none"
    BY DEF EraseVersion
  <1>3. /\ TurnsTyped /\ CachesTyped /\ MoneyTyped /\ CatalogueTyped /\ BoundsTyped
        /\ faults' \in 0..scope.faults
    BY <1>1, Typed, WorksTyped DEF LadderInv
  <1>4. TurnsTyped' /\ CachesTyped' /\ MoneyTyped' /\ BoundsTyped'
    BY <1>1, <1>2, <1>3 DEF TurnsTyped, CachesTyped, CacheEntry, MoneyTyped, BoundsTyped,
                            ScopeTyped, turnVars, moneyVars
  <1>5. CatalogueTyped'
    <2>1. CASE ok
      <3>1. visible \in Nat
        BY <1>3 DEF CatalogueTyped, BoundsTyped, ScopeTyped
      <3>2. dv' = 0 /\ 0..dv' = {0} /\ shown' \in [0..dv' -> 0..visible]
        BY <1>1, <2>1, <3>1
      <3> QED
        BY <1>1, <1>2, <1>3, <2>1, <3>2 DEF CatalogueTyped
    <2>2. CASE ~ok
      BY <1>1, <1>2, <1>3, <2>2 DEF CatalogueTyped
    <2> QED
      BY <2>1, <2>2
  <1>6. LadderTypeOK'
    BY <1>4, <1>5, TypedNext
  <1>7. FreshInv'
    <2>1. CASE ok
      BY <1>1, <1>2, <2>1 DEF FreshInv, FreshTurn, L1IsOfItsVersion
    <2>2. CASE ~ok
      BY <1>1, <1>2, <2>2, FreshLeft
    <2> QED
      BY <2>1, <2>2
  <1>8. Beside
    BY <1>2, <1>6, <1>7 DEF Beside, turnVars, moneyVars
  <1> QED
    BY <1>8, BesideKeeps

LEMMA ExpireL1Keeps ==
    ASSUME LadderInv, ExpireL1
    PROVE  LadderInv'
  <1>1. PICK e \in l1 : l1' = l1 \ {e} /\ outlived' = outlived \ {e}
    BY DEF ExpireL1
  <1>2. MoneyTyped /\ CatalogueTyped /\ CachesTyped /\ BoundsTyped
    BY Typed DEF LadderInv
  <1>3. /\ MoneyTyped' /\ CatalogueTyped' /\ faults' \in 0..scope.faults
        /\ UNCHANGED <<turnVars, l2, dv, shown, late, asked, scope>>
        /\ UNCHANGED <<granted, balance, spent, bought, lostSpend, lostLedger>>
    BY <1>2 DEF ExpireL1, MoneyTyped, CatalogueTyped, BoundsTyped, moneyVars, catalogueVars,
                boundVars
  <1>4. CachesTyped' /\ l1' \ outlived' \subseteq l1 \ outlived
    BY <1>1, <1>2, <1>3 DEF CachesTyped, CacheEntry
  <1> QED
    BY <1>3, <1>4, StoresBesideKeep

\* Steps that write only money.
LEMMA MoneyBesideKeeps ==
    ASSUME LadderInv, UNCHANGED <<turnVars, cacheVars, catalogueVars, boundVars>>, MoneyTyped',
           UNCHANGED <<spent, bought, lostSpend, lostLedger>>,
           granted' - balance' = granted - balance
    PROVE  LadderInv'
  <1>1. CatalogueTyped
    BY Typed DEF LadderInv
  <1>2. CatalogueTyped' /\ UNCHANGED <<dv, shown, late>>
    BY <1>1 DEF CatalogueTyped, catalogueVars, boundVars
  <1> QED
    BY <1>2, CachesLeft, StoresBesideKeep

LEMMA ExpireWalletKeeps ==
    ASSUME LadderInv, ExpireWallet
    PROVE  LadderInv'
  <1>1. MoneyTyped
    BY Typed DEF LadderInv
  <1>2. cached' \subseteq Int /\ Cardinality(cached') <= 1
    BY FS_EmptySet DEF ExpireWallet
  <1>3. MoneyTyped' /\ UNCHANGED <<granted, balance, spent, bought, lostSpend, lostLedger>>
    BY <1>1, <1>2 DEF ExpireWallet, MoneyTyped
  <1> QED
    BY <1>3, MoneyBesideKeeps DEF ExpireWallet

LEMMA GrantKeeps ==
    ASSUME LadderInv, Grant
    PROVE  LadderInv'
  <1>1. MoneyTyped /\ GrantSize \in Nat
    BY Typed, ConstantsTyped DEF LadderInv
  <1>2. /\ granted' \in Nat /\ balance' \in Int
        /\ granted' - balance' = granted - balance
    BY <1>1 DEF Grant, MoneyTyped
  <1>3. MoneyTyped' /\ UNCHANGED <<spent, bought, lostSpend, lostLedger>>
    BY <1>1, <1>2 DEF Grant, MoneyTyped
  <1> QED
    BY <1>2, <1>3, MoneyBesideKeeps DEF Grant

LEMMA SetKillSwitchKeeps ==
    ASSUME LadderInv, NEW k \in Switches, SetKillSwitch(k)
    PROVE  LadderInv'
  <1>1. MoneyTyped
    BY Typed DEF LadderInv
  <1>2. kill' \subseteq Switches
    BY <1>1 DEF SetKillSwitch, MoneyTyped
  <1>3. MoneyTyped' /\ UNCHANGED <<granted, balance, spent, bought, lostSpend, lostLedger>>
    BY <1>1, <1>2 DEF SetKillSwitch, MoneyTyped
  <1> QED
    BY <1>3, MoneyBesideKeeps DEF SetKillSwitch

-----------------------------------------------------------------------------
(* The theorems.                                                           *)

LEMMA LadderStarts ==
    ASSUME Init
    PROVE  LadderInv
  <1>1. (CHOOSE q \in Queries : TRUE) \in Queries
    BY TurnLadderAssumption
  <1>2. TurnsTyped
    BY <1>1, AnswerFields DEF Init, TurnsTyped, Resting, Rungs
  <1>3. BoundsTyped
    BY ScopesTyped DEF Init, BoundsTyped, ScopeTyped
  <1>4. CachesTyped /\ CatalogueTyped /\ MoneyTyped
    BY <1>3, ConstantsTyped, FS_EmptySet
       DEF Init, CachesTyped, CatalogueTyped, MoneyTyped, BoundsTyped, ScopeTyped
  <1>5. LadderTypeOK
    BY <1>2, <1>3, <1>4, Typed
  <1>6. FreshInv
    BY DEF Init, FreshInv, FreshTurn, Holding, L1IsOfItsVersion
  <1>7. Bought = {} /\ Unmetered = {} /\ MayBuy = {}
    BY DEF Init, Bought, Unmetered, MayBuy
  <1>8. Cardinality(Credits({}, price)) = 0
    BY FS_EmptySet DEF Credits
  <1>9. spent = scope.before /\ scope.before \in Nat /\ bought = 0 /\ lostSpend = 0
        /\ granted = 0 /\ balance = 0 /\ lostLedger = 0
    BY <1>3 DEF Init, BoundsTyped, ScopeTyped
  <1>10. ChargeInv
    BY <1>7, <1>8, <1>9 DEF Init, ChargeInv
  <1>11. BooksAgree
    BY <1>7, <1>8, <1>9 DEF BooksAgree, Unmetered
  <1>12. CapInv
    <2>1. Cardinality(MayBuy) = 0
      BY <1>7, FS_EmptySet
    <2>2. Cardinality(MayBuy) * Dearest = 0
      BY <2>1, DearestIsMaximal
    <2>3. Cardinality(Turns) * Dearest \in Nat /\ Cap \in Nat
      BY ConstantsTyped, FS_CardinalityType, DearestIsMaximal, Products
    <2> QED
      BY <1>7, <1>9, <2>2, <2>3 DEF CapInv
  <1> QED
    BY <1>5, <1>6, <1>10, <1>11, <1>12 DEF LadderInv

LEMMA LadderStutters ==
    ASSUME LadderInv, UNCHANGED vars
    PROVE  LadderInv'
  <1>1. /\ UNCHANGED <<turnVars, cacheVars, moneyVars, catalogueVars, boundVars>>
        /\ UNCHANGED <<spent, bought, lostSpend, lostLedger, granted, balance>>
    BY DEF vars, moneyVars
  <1>2. MoneyTyped
    BY Typed DEF LadderInv
  <1>3. MoneyTyped'
    BY <1>1, <1>2 DEF MoneyTyped, moneyVars
  <1> QED
    BY <1>1, <1>3, MoneyBesideKeeps

LEMMA LadderSteps ==
    ASSUME LadderInv, [Next]_vars
    PROVE  LadderInv'
  <1>1. ASSUME NEW t \in Turns, NEW q \in Queries, Ask(t, q)
        PROVE  LadderInv'
    BY <1>1, AskKeeps
  <1>2. ASSUME NEW t \in Turns, TurnStep(t)
        PROVE  LadderInv'
    BY <1>2, LookupL1Keeps, LookupL2Keeps, ReadBudgetKeeps, ReadWalletKeeps, RetrieveKeeps,
       GenerateByKeeps, DegradeKeeps, ChargeKeeps, MeterKeeps, StoreL1Keeps, StoreL2Keeps
       DEF TurnStep
  <1>3. ASSUME NEW k \in Switches, SetKillSwitch(k)
        PROVE  LadderInv'
    BY <1>3, SetKillSwitchKeeps
  <1> QED
    BY <1>1, <1>2, <1>3, WriteIndexKeeps, RefreshIndexKeeps, BumpVersionKeeps,
       EraseCatalogueKeeps, EraseL2Keeps, EraseVersionKeeps, ExpireL1Keeps, ExpireWalletKeeps,
       GrantKeeps, LadderStutters DEF Next

\* The inductive invariant: answers on their way are as fresh as their version, what was
\* bought is charged, lost or about to be, and only turns let through below the cap buy.
THEOREM LadderInvariance == Spec => []LadderInv
  <1>1. Init => LadderInv
    BY LadderStarts
  <1>2. LadderInv /\ [Next]_vars => LadderInv'
    BY LadderSteps
  <1> QED
    BY <1>1, <1>2, PTL DEF Spec

\* The state of turns, caches, budget, ledger and catalogue is of its type: the semantic
\* cache never exceeds its limit, no turn holds a version that was not announced.
THEOREM LadderIsTyped == Spec => []LadderTypeOK
  BY LadderInvariance, PTL DEF LadderInv

\* However turns and catalogue writes interleave, the exact cache holds under a data
\* version nothing older than what searches saw when the version was announced, but for
\* what it holds of versions that an erasure took back.
THEOREM CacheKeepsItsPromise == Spec => []L1IsOfItsVersion
  <1>1. LadderInv => L1IsOfItsVersion
    BY DEF LadderInv, FreshInv
  <1> QED
    BY <1>1, LadderInvariance, PTL

\* The hard cap is overrun by at most one answer for each turn in progress, whatever the
\* budget's failures, which are counted.
THEOREM CapBoundsPurchases == Spec => []FrontierWithinCap
  <1>1. LadderInv => FrontierWithinCap
    <2> SUFFICES ASSUME LadderInv, Cap > 0
                 PROVE  bought <= IF scope.before >= Cap THEN 0
                          ELSE Cap - scope.before - 1 + Cardinality(Turns) * Max(Price["frontier"])
                                 + lostSpend
      BY DEF FrontierWithinCap
    <2>1. MayBuy \subseteq Turns /\ bought \in Nat
      BY Typed DEF LadderInv, MayBuy, MoneyTyped
    <2>2. Cardinality(MayBuy) \in Nat
      BY <2>1, ConstantsTyped, FS_Subset, FS_CardinalityType
    <2>3. Cardinality(MayBuy) * Dearest \in Nat
      BY <2>2, DearestIsMaximal, Products
    <2>4. /\ scope.before \in Nat /\ lostSpend \in Nat /\ Cap \in Nat
          /\ Cardinality(Turns) * Dearest \in Nat
      BY Typed, ConstantsTyped, FS_CardinalityType, DearestIsMaximal, Products
         DEF LadderInv, BoundsTyped, ScopeTyped, MoneyTyped
    <2>5. IF scope.before >= Cap
          THEN bought = 0
          ELSE bought + Cardinality(MayBuy) * Dearest
                 <= Cap - scope.before - 1 + Cardinality(Turns) * Dearest + lostSpend
      BY DEF LadderInv, CapInv
    <2>6. bought <= IF scope.before >= Cap THEN 0
                    ELSE Cap - scope.before - 1 + Cardinality(Turns) * Dearest + lostSpend
      BY <2>1, <2>3, <2>4, <2>5
    <2> QED
      BY <2>6 DEF Dearest
  <1> QED
    BY <1>1, LadderInvariance, PTL

\* The budget's counter and the credit ledger tell the same story of every turn.
THEOREM BooksTellTheSame == Spec => []BooksAgree
  BY LadderInvariance, PTL DEF LadderInv

=============================================================================
