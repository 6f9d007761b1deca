------------------------- MODULE TradeAssetsProofs -------------------------
(***************************************************************************)
(* What trades and saves do to items and gold, for any number of players:  *)
(* a trade gives each side what the other one offers and nothing else, and *)
(* the database never holds more gold than there was and has been earned,  *)
(* whatever is saved when and wherever a crash cuts the saves short.       *)
(***************************************************************************)
EXTENDS TradeProofs, FiniteSetTheorems, WellFoundedInduction

-----------------------------------------------------------------------------
(* A sum as the number of coins: each one a player and a number.           *)

Coins(f, R) == {c \in R \X Nat : c[2] \in 1..f[c[1]]}

LEMMA CoinsOfOne ==
  ASSUME NEW f, NEW x, f[x] \in Nat
  PROVE  IsFiniteSet(Coins(f, {x})) /\ Cardinality(Coins(f, {x})) = f[x]
<1> DEFINE b == [n \in 1..f[x] |-> <<x, n>>]
<1>1. b \in Bijection(1..f[x], Coins(f, {x}))
  <2>1. \A n \in 1..f[x] : <<x, n>> \in Coins(f, {x})
    BY DEF Coins
  <2>2. \A c \in Coins(f, {x}) : c[2] \in 1..f[x] /\ c = <<x, c[2]>>
    BY DEF Coins
  <2>3. b \in [1..f[x] -> Coins(f, {x})] /\ \A m, n \in 1..f[x] : b[m] = b[n] => m = n
    BY <2>1
  <2>4. \A c \in Coins(f, {x}) : \E n \in 1..f[x] : b[n] = c
    BY <2>2
  <2> HIDE DEF b
  <2>. QED
    BY <2>3, <2>4 DEF Bijection, Injection, Surjection, IsInjective
<1>2. ExistsBijection(1..f[x], Coins(f, {x}))
  BY <1>1 DEF ExistsBijection
<1>3. IsFiniteSet(1..f[x]) /\ Cardinality(1..f[x]) = f[x]
  <2>1. IsFiniteSet(1..f[x]) /\ Cardinality(1..f[x]) = IF 1 > f[x] THEN 0 ELSE f[x] - 1 + 1
    BY FS_Interval
  <2>. QED
    BY <2>1
<1>. QED
  BY <1>2, <1>3, FS_Bijection

LEMMA CoinsOfTwo ==
  ASSUME NEW f, NEW R, NEW x, x \notin R, f[x] \in Nat, IsFiniteSet(Coins(f, R))
  PROVE  /\ IsFiniteSet(Coins(f, R \union {x}))
         /\ Cardinality(Coins(f, R \union {x})) = Cardinality(Coins(f, R)) + f[x]
<1> DEFINE old == Coins(f, R)
           new == Coins(f, {x})
           all == Coins(f, R \union {x})
<1>1. all = old \union new /\ old \intersect new = {}
  BY DEF Coins
<1>2. IsFiniteSet(new) /\ Cardinality(new) = f[x] /\ IsFiniteSet(old)
  BY CoinsOfOne
<1> HIDE DEF old, new, all
<1>3. /\ IsFiniteSet(old \union new)
      /\ Cardinality(old \union new) = Cardinality(old) + Cardinality(new) - Cardinality(old \intersect new)
  BY <1>2, FS_Union
<1>4. Cardinality(old) \in Nat
  BY <1>2, FS_CardinalityType
<1>5. Cardinality(old \intersect new) = 0
  BY <1>1, FS_EmptySet
<1>6. Cardinality(all) = Cardinality(old) + Cardinality(new) - Cardinality(old \intersect new)
  BY <1>1, <1>3
<1>7. Cardinality(all) = Cardinality(old) + f[x]
  BY <1>2, <1>4, <1>5, <1>6
<1>. QED
  BY <1>1, <1>3, <1>7 DEF old, all

\* The recursion of GoldOf.
Sums(f, g) == g = [s \in SUBSET DOMAIN f |->
                     IF s = {} THEN 0
                     ELSE f[CHOOSE x \in s : TRUE] + g[s \ {CHOOSE x \in s : TRUE}]]

\* By induction over the subsets of D: any solution of the recursion counts the coins.
LEMMA SumsCount ==
  ASSUME NEW D, IsFiniteSet(D), NEW f \in [D -> Nat]
  PROVE  /\ \A s \in SUBSET D : IsFiniteSet(Coins(f, s))
         /\ Sums(f, [s \in SUBSET D |-> Cardinality(Coins(f, s))])
         /\ \A g : Sums(f, g) => g[D] = Cardinality(Coins(f, D))
<1> DEFINE chosen(s) == CHOOSE x \in s : TRUE
           count == [s \in SUBSET D |-> Cardinality(Coins(f, s))]
           less == StrictSubsetOrdering(D)
<1>1. IsWellFoundedOn(less, SUBSET D)
  BY FS_StrictSubsetOrderingWellFounded, FS_FiniteSubsetsOfFinite
<1>2. ASSUME NEW s \in SUBSET D, s # {}
      PROVE  /\ chosen(s) \in s /\ chosen(s) \in D /\ f[chosen(s)] \in Nat
             /\ s \ {chosen(s)} \in SUBSET D /\ <<s \ {chosen(s)}, s>> \in less
             /\ chosen(s) \notin s \ {chosen(s)} /\ s = (s \ {chosen(s)}) \union {chosen(s)}
  <2>1. chosen(s) \in s
    BY <1>2
  <2> HIDE DEF chosen
  <2>. QED
    BY <2>1 DEF StrictSubsetOrdering
<1> HIDE DEF chosen, less
<1>3. Coins(f, {}) = {} /\ IsFiniteSet({}) /\ Cardinality({}) = 0
  BY FS_EmptySet DEF Coins
<1>4. \A s \in SUBSET D : IsFiniteSet(Coins(f, s))
  <2> DEFINE bad == {s \in SUBSET D : ~IsFiniteSet(Coins(f, s))}
  <2> SUFFICES ASSUME bad # {} PROVE FALSE
    OBVIOUS
  <2>1. PICK s \in bad : \A t \in bad : <<t, s>> \notin less
    <3>1. bad \subseteq SUBSET D
      OBVIOUS
    <3> HIDE DEF bad
    <3>. QED
      BY <1>1, <3>1, WFMin
  <2>2. s \in SUBSET D /\ ~IsFiniteSet(Coins(f, s)) /\ s # {}
    BY <1>3, <2>1
  <2>3. IsFiniteSet(Coins(f, s \ {chosen(s)}))
    BY <1>2, <2>1, <2>2
  <2>4. IsFiniteSet(Coins(f, (s \ {chosen(s)}) \union {chosen(s)}))
    BY <1>2, <2>2, <2>3, CoinsOfTwo
  <2>. QED
    BY <1>2, <2>2, <2>4
<1>5. ASSUME NEW s \in SUBSET D, s # {}
      PROVE  Cardinality(Coins(f, s)) = f[chosen(s)] + Cardinality(Coins(f, s \ {chosen(s)}))
  <2>1. IsFiniteSet(Coins(f, s \ {chosen(s)}))
    BY <1>2, <1>4, <1>5
  <2>2. Cardinality(Coins(f, (s \ {chosen(s)}) \union {chosen(s)})) =
           Cardinality(Coins(f, s \ {chosen(s)})) + f[chosen(s)]
    BY <1>2, <1>5, <2>1, CoinsOfTwo
  <2>3. Cardinality(Coins(f, s \ {chosen(s)})) \in Nat /\ f[chosen(s)] \in Nat
    BY <1>2, <1>5, <2>1, FS_CardinalityType
  <2>4. s = (s \ {chosen(s)}) \union {chosen(s)}
    BY <1>2, <1>5
  <2>5. Cardinality(Coins(f, s)) = Cardinality(Coins(f, s \ {chosen(s)})) + f[chosen(s)]
    BY <2>2, <2>4
  <2>. QED
    BY <2>3, <2>5
<1>6. Sums(f, count)
  <2>1. \A s \in SUBSET D : count[s] = IF s = {} THEN 0 ELSE f[chosen(s)] + count[s \ {chosen(s)}]
    BY <1>2, <1>3, <1>5
  <2>2. count = [s \in SUBSET D |-> IF s = {} THEN 0 ELSE f[chosen(s)] + count[s \ {chosen(s)}]]
    BY <2>1
  <2>. QED
    BY <2>2 DEF Sums, chosen
<1>7. ASSUME NEW g, Sums(f, g) PROVE g[D] = Cardinality(Coins(f, D))
  <2>1. \A s \in SUBSET D : g[s] = IF s = {} THEN 0 ELSE f[chosen(s)] + g[s \ {chosen(s)}]
    <3>1. g = [s \in SUBSET D |-> IF s = {} THEN 0 ELSE f[chosen(s)] + g[s \ {chosen(s)}]]
      BY <1>7 DEF Sums, chosen
    <3>. QED
      BY <3>1
  <2> DEFINE bad == {s \in SUBSET D : g[s] # Cardinality(Coins(f, s))}
  <2>2. bad = {}
    <3> SUFFICES ASSUME bad # {} PROVE FALSE
      OBVIOUS
    <3>1. PICK s \in bad : \A t \in bad : <<t, s>> \notin less
      <4>1. bad \subseteq SUBSET D
        OBVIOUS
      <4> HIDE DEF bad
      <4>. QED
        BY <1>1, <4>1, WFMin
    <3>2. s \in SUBSET D /\ g[s] # Cardinality(Coins(f, s))
      BY <3>1
    <3>3. s # {}
      BY <1>3, <2>1, <3>2
    <3>4. g[s \ {chosen(s)}] = Cardinality(Coins(f, s \ {chosen(s)}))
      BY <1>2, <3>1, <3>2, <3>3
    <3>. QED
      BY <1>5, <2>1, <3>2, <3>3, <3>4
  <2>. QED
    BY <2>2
<1>. QED
  BY <1>4, <1>6, <1>7

LEMMA GoldIsCoins ==
  ASSUME NEW f \in [Players -> Nat]
  PROVE  /\ GoldOf(f) = Cardinality(Coins(f, Players))
         /\ \A R \in SUBSET Players : IsFiniteSet(Coins(f, R)) /\ Cardinality(Coins(f, R)) \in Nat
<1>1. DOMAIN f = Players /\ IsFiniteSet(Players)
  BY TradeSetsAssumption
<1>2. GoldOf(f) = (CHOOSE g : Sums(f, g))[Players]
  BY <1>1 DEF GoldOf, FoldFunction, FoldFunctionOnSet, MapThenFoldSet, Sums
<1>3. Sums(f, [s \in SUBSET Players |-> Cardinality(Coins(f, s))])
  BY <1>1, SumsCount
<1>4. Sums(f, CHOOSE g : Sums(f, g))
  BY <1>3
<1>5. \A R \in SUBSET Players : IsFiniteSet(Coins(f, R))
  BY <1>1, SumsCount
<1>6. \A g : Sums(f, g) => g[Players] = Cardinality(Coins(f, Players))
  BY <1>1, SumsCount
<1>. QED
  BY <1>2, <1>4, <1>5, <1>6, FS_CardinalityType

\* Less for each is not more in all.
LEMMA GoldMonotone ==
  ASSUME NEW f \in [Players -> Nat], NEW g \in [Players -> Nat], NEW R \in SUBSET Players,
         \A p \in R : f[p] <= g[p]
  PROVE  Cardinality(Coins(f, R)) <= Cardinality(Coins(g, R))
<1>1. Coins(f, R) \subseteq Coins(g, R)
  <2> SUFFICES ASSUME NEW c \in R \X Nat, c[2] \in 1..f[c[1]] PROVE c[2] \in 1..g[c[1]]
    BY DEF Coins
  <2>1. c[1] \in R /\ f[c[1]] \in Nat /\ g[c[1]] \in Nat /\ f[c[1]] <= g[c[1]]
    OBVIOUS
  <2>. QED
    BY <2>1
<1>. QED
  BY <1>1, GoldIsCoins, FS_Subset

\* The gold of one player, and of two, set apart.
LEMMA GoldApart ==
  ASSUME NEW f \in [Players -> Nat], NEW p \in Players
  PROVE  /\ GoldOf(f) = Cardinality(Coins(f, Players \ {p})) + f[p]
         /\ \A q \in Players \ {p} : GoldOf(f) = Cardinality(Coins(f, Players \ {p, q})) + f[q] + f[p]
<1>1. GoldOf(f) = Cardinality(Coins(f, Players \ {p})) + f[p]
  <2>1. Players = (Players \ {p}) \union {p} /\ IsFiniteSet(Coins(f, Players \ {p}))
    BY GoldIsCoins
  <2>2. Cardinality(Coins(f, (Players \ {p}) \union {p})) = Cardinality(Coins(f, Players \ {p})) + f[p]
    BY <2>1, CoinsOfTwo
  <2>. QED
    BY <2>1, <2>2, GoldIsCoins
<1>2. ASSUME NEW q \in Players \ {p}
      PROVE  GoldOf(f) = Cardinality(Coins(f, Players \ {p, q})) + f[q] + f[p]
  <2>1. Players \ {p} = (Players \ {p, q}) \union {q} /\ IsFiniteSet(Coins(f, Players \ {p, q}))
    BY GoldIsCoins
  <2>2. Cardinality(Coins(f, (Players \ {p, q}) \union {q})) = Cardinality(Coins(f, Players \ {p, q})) + f[q]
    BY <2>1, CoinsOfTwo
  <2>3. Cardinality(Coins(f, Players \ {p})) = Cardinality(Coins(f, Players \ {p, q})) + f[q]
    BY <2>1, <2>2
  <2>. QED
    BY <1>1, <2>3
<1>. QED
  BY <1>1, <1>2

\* One player gets d more at most, or two share what they have.
LEMMA GoldOfOne ==
  ASSUME NEW f \in [Players -> Nat], NEW g \in [Players -> Nat], NEW p \in Players, NEW d \in Nat,
         g[p] <= f[p] + d, \A r \in Players \ {p} : g[r] <= f[r]
  PROVE  GoldOf(g) <= GoldOf(f) + d
<1>1. /\ GoldOf(f) = Cardinality(Coins(f, Players \ {p})) + f[p]
      /\ GoldOf(g) = Cardinality(Coins(g, Players \ {p})) + g[p]
  BY GoldApart
<1>2. Cardinality(Coins(g, Players \ {p})) <= Cardinality(Coins(f, Players \ {p}))
  BY GoldMonotone
<1>3. Cardinality(Coins(f, Players \ {p})) \in Nat /\ Cardinality(Coins(g, Players \ {p})) \in Nat
  BY GoldIsCoins
<1>. QED
  BY <1>1, <1>2, <1>3

LEMMA GoldOfTwo ==
  ASSUME NEW f \in [Players -> Nat], NEW g \in [Players -> Nat],
         NEW p \in Players, NEW q \in Players \ {p},
         g[p] + g[q] <= f[p] + f[q], \A r \in Players \ {p, q} : g[r] <= f[r]
  PROVE  GoldOf(g) <= GoldOf(f)
<1>1. /\ GoldOf(f) = Cardinality(Coins(f, Players \ {p, q})) + f[q] + f[p]
      /\ GoldOf(g) = Cardinality(Coins(g, Players \ {p, q})) + g[q] + g[p]
  BY GoldApart
<1>2. Cardinality(Coins(g, Players \ {p, q})) <= Cardinality(Coins(f, Players \ {p, q}))
  BY GoldMonotone
<1>3. Cardinality(Coins(f, Players \ {p, q})) \in Nat /\ Cardinality(Coins(g, Players \ {p, q})) \in Nat
  BY GoldIsCoins
<1>. QED
  BY <1>1, <1>2, <1>3

-----------------------------------------------------------------------------
(* moveItems, slot by slot.                                                *)

LEMMA Least ==
  ASSUME NEW T \in SUBSET Nat, T # {}
  PROVE  \E n \in T : \A m \in T : n <= m
<1>1. PICK n \in T : \A m \in T : ~(<<m, n>> \in OpToRel(<, Nat))
  BY NatLessThanWellFounded, WFMin
<1>2. \A m \in T : ~(m < n)
  BY <1>1 DEF OpToRel
<1>. QED
  BY <1>2

\* Items are offered in one slot each.
OneSlot(f) == \A s, r \in Slots : f[s] # None /\ f[s] = f[r] => s = r
Distinct == \A p \in Players : trade[p] # None => OneSlot(trade[p].item)

\* The items of the first n slots, and who owns what when they have been moved.
Given(p, n) == {GetItem(p, s) : s \in 0..(n - 1)} \ {None}
Half(p, q, n) == [i \in Items |-> IF i \in Given(p, n) THEN q
                                  ELSE IF i \in Given(q, n) THEN p
                                  ELSE IF i \in Offered(p) \union Offered(q) THEN None ELSE owner[i]]

\* Traders whose windows are well formed.
Dealing(p, q) == /\ p \in Players /\ q \in Players /\ p # q
                 /\ owner \in [Items -> Players \union {None}]
                 /\ trade[p] \in TradeData /\ trade[q] \in TradeData
                 /\ OneSlot(trade[p].item) /\ OneSlot(trade[q].item)

LEMMA GivenFact ==
  ASSUME NEW p, NEW q, Dealing(p, q), NEW x \in {p, q}, NEW n \in 1..TradedCount
  PROVE  /\ GetItem(x, n - 1) = None \/ GetItem(x, n - 1) \in Items
         /\ GetItem(x, n - 1) # None => /\ owner[GetItem(x, n - 1)] = x
                                        /\ GetItem(x, n - 1) \in Offered(x)
                                        /\ GetItem(x, n - 1) \notin Given(x, n - 1)
         /\ Given(x, n) = Given(x, n - 1) \union ({GetItem(x, n - 1)} \ {None})
         /\ Given(x, n) \subseteq Offered(x)
         /\ Given(x, n - 1) \subseteq Offered(x)
<1>1. TradedCount \in Nat /\ n \in Nat /\ n - 1 \in 0..(TradedCount - 1)
      /\ Slots \ {NonTraded} = 0..(TradedCount - 1)
  BY TradeBoundsAssumption DEF Slots, NonTraded
<1>2. \A s \in Slots : trade[x].item[s] \in Items \union {None}
  BY DEF Dealing, TradeData
<1>3. \A s \in Slots : GetItem(x, s) = None \/ (GetItem(x, s) \in Items /\ owner[GetItem(x, s)] = x
                                                /\ GetItem(x, s) = trade[x].item[s])
  BY <1>2 DEF GetItem
<1>4. 0..(n - 1) = (0..(n - 2)) \union {n - 1} /\ (n - 1) - 1 = n - 2 /\ n - 1 \notin 0..(n - 2)
      /\ 0..(n - 1) \subseteq 0..(TradedCount - 1) /\ 0..(TradedCount - 1) \subseteq Slots
  BY <1>1 DEF Slots
<1>5. \A s \in 0..(n - 2) : GetItem(x, n - 1) # None => GetItem(x, s) # GetItem(x, n - 1)
  BY <1>1, <1>3, <1>4 DEF Dealing, OneSlot
<1>6. /\ Given(x, n) = {GetItem(x, s) : s \in 0..(n - 1)} \ {None}
      /\ Given(x, n - 1) = {GetItem(x, s) : s \in 0..(n - 2)} \ {None}
      /\ Offered(x) = {GetItem(x, s) : s \in 0..(TradedCount - 1)} \ {None}
  BY <1>1, <1>4 DEF Given, Offered
<1>7. GetItem(x, n - 1) = None \/ (GetItem(x, n - 1) \in Items /\ owner[GetItem(x, n - 1)] = x)
  <2>1. n - 1 \in Slots
    BY <1>1, <1>4
  <2>. QED
    BY <1>3, <2>1
<1>8. GetItem(x, n - 1) # None => GetItem(x, n - 1) \in Offered(x) /\ GetItem(x, n - 1) \notin Given(x, n - 1)
  BY <1>1, <1>5, <1>6
<1>9. Given(x, n) = Given(x, n - 1) \union ({GetItem(x, n - 1)} \ {None})
  BY <1>4, <1>6
<1>10. Given(x, n) \subseteq Offered(x)
  BY <1>4, <1>6
<1>. QED
  BY <1>7, <1>8, <1>9, <1>10

LEMMA OfferedFact ==
  ASSUME NEW p, NEW q, Dealing(p, q), NEW x \in {p, q}
  PROVE  /\ Offered(x) \subseteq {i \in Items : owner[i] = x}
         /\ Given(x, TradedCount) = Offered(x)
         /\ Given(x, 0) = {}
<1>1. TradedCount \in Nat /\ Slots \ {NonTraded} = 0..(TradedCount - 1) /\ 0..(0 - 1) = {}
  BY TradeBoundsAssumption DEF Slots, NonTraded
<1>2. \A s \in Slots : GetItem(x, s) = None \/ (GetItem(x, s) \in Items /\ owner[GetItem(x, s)] = x)
  BY DEF Dealing, TradeData, GetItem
<1>. QED
  BY <1>1, <1>2 DEF Offered, Given

\* The bags of x hold less than they can while something is still to come from y.
LEMMA Room ==
  ASSUME NEW p, NEW q, Dealing(p, q), Fits(p, q), NEW n \in 1..TradedCount,
         NEW x \in {p, q}, NEW y \in {p, q}, x # y, GetItem(y, n - 1) # None,
         NEW own, {i \in Items : own[i] = x} = {i \in Items : Half(p, q, n - 1)[i] = x}
  PROVE  CanStore(own, x)
<1> DEFINE kept == {i \in Items : owner[i] = x} \ Offered(x)
           held == {i \in Items : Half(p, q, n - 1)[i] = x}
           item == GetItem(y, n - 1)
<1>1. /\ item \in Offered(y) /\ item \notin Given(y, n - 1) /\ item \in Items /\ owner[item] = y
      /\ Given(y, n - 1) \subseteq Offered(y) /\ Given(x, n - 1) \subseteq Offered(x)
  BY GivenFact
<1>2. /\ Offered(x) \subseteq {i \in Items : owner[i] = x}
      /\ Offered(y) \subseteq {i \in Items : owner[i] = y}
  BY OfferedFact
<1>3. x # None /\ {x, y} = {p, q} /\ x \in Players
  BY TradeSetsAssumption DEF Dealing
<1>4. held = kept \union Given(y, n - 1)
  BY <1>1, <1>2, <1>3 DEF Half
<1>5. Cardinality(kept) + Cardinality(Offered(y)) <= Space
  BY <1>3 DEF Fits, CanStoreItems
<1>6. IsFiniteSet(kept) /\ IsFiniteSet(Offered(y)) /\ kept \intersect Offered(y) = {}
  <2>1. IsFiniteSet(Items) /\ kept \subseteq Items /\ Offered(y) \subseteq Items
    BY <1>2, TradeSetsAssumption
  <2>. QED
    BY <1>2, <2>1, FS_Subset
<1> HIDE DEF kept, held, item
<1>7. IsFiniteSet(kept \union Offered(y))
      /\ Cardinality(kept \union Offered(y)) <= Space
  <2>1. /\ IsFiniteSet(kept \union Offered(y))
        /\ Cardinality(kept \union Offered(y)) = Cardinality(kept) + Cardinality(Offered(y)) - Cardinality(kept \intersect Offered(y))
    BY <1>6, FS_Union
  <2>2. Cardinality(kept \intersect Offered(y)) = 0
    BY <1>6, FS_EmptySet
  <2>3. Cardinality(kept) \in Nat /\ Cardinality(Offered(y)) \in Nat
    BY <1>6, FS_CardinalityType
  <2>. QED
    BY <1>5, <2>1, <2>2, <2>3
<1>8. held \union {item} \subseteq kept \union Offered(y) /\ item \notin held
  BY <1>1, <1>2, <1>4, <1>3 DEF kept
<1>9. /\ IsFiniteSet(held \union {item}) /\ Cardinality(held \union {item}) <= Cardinality(kept \union Offered(y))
      /\ IsFiniteSet(held)
  BY <1>7, <1>8, FS_Subset
<1>10. Cardinality(held \union {item}) = Cardinality(held) + 1 /\ Cardinality(held) \in Nat
  BY <1>8, <1>9, FS_AddElement, FS_CardinalityType
<1>11. Cardinality(held \union {item}) \in Nat /\ Cardinality(kept \union Offered(y)) \in Nat
  BY <1>7, <1>9, FS_CardinalityType
<1>12. Cardinality(held) < Space
  BY <1>7, <1>9, <1>10, <1>11, TradeBoundsAssumption
<1>. QED
  BY <1>12 DEF CanStore, held

\* One slot: both items arrive.
LEMMA MoveSlotFact ==
  ASSUME NEW p, NEW q, Dealing(p, q), Fits(p, q), NEW n \in 1..TradedCount
  PROVE  MoveSlot(Half(p, q, n - 1), GetItem(p, n - 1), GetItem(q, n - 1), p, q) = Half(p, q, n)
<1> DEFINE own == Half(p, q, n - 1)
           mine == GetItem(p, n - 1)
           his == GetItem(q, n - 1)
           both == Store(own, mine, q)
<1>1. p # None /\ q # None /\ p # q
  BY TradeSetsAssumption DEF Dealing
<1>2. /\ mine = None \/ mine \in Items
      /\ mine # None => owner[mine] = p /\ mine \in Offered(p) /\ mine \notin Given(p, n - 1)
      /\ Given(p, n) = Given(p, n - 1) \union ({mine} \ {None})
      /\ Given(p, n - 1) \subseteq Offered(p)
  BY GivenFact
<1>3. /\ his = None \/ his \in Items
      /\ his # None => owner[his] = q /\ his \in Offered(q) /\ his \notin Given(q, n - 1)
      /\ Given(q, n) = Given(q, n - 1) \union ({his} \ {None})
      /\ Given(q, n - 1) \subseteq Offered(q)
  BY GivenFact
<1>4. /\ Offered(p) \subseteq {i \in Items : owner[i] = p}
      /\ Offered(q) \subseteq {i \in Items : owner[i] = q}
  BY OfferedFact
<1>5. mine # None => CanStore(own, q)
  BY <1>1, Room
<1>6. his # None => CanStore(own, p)
  BY <1>1, Room
<1>7. /\ DOMAIN own = Items
      /\ \A i \in Items : own[i] = IF i \in Given(p, n - 1) THEN q
                                   ELSE IF i \in Given(q, n - 1) THEN p
                                   ELSE IF i \in Offered(p) \union Offered(q) THEN None ELSE owner[i]
  BY DEF Half
<1>8. MoveSlot(own, mine, his, p, q) = Store(both, his, p)
  BY <1>5, <1>6 DEF MoveSlot
<1> HIDE DEF own, mine, his
<1>9. both = IF mine = None THEN own ELSE [own EXCEPT ![mine] = q]
  BY <1>5 DEF Store
<1>10. /\ both = [i \in Items |-> both[i]]
       /\ \A i \in Items : both[i] = IF i = mine THEN q ELSE own[i]
  <2>1. own = [i \in Items |-> own[i]]
    BY DEF own, Half
  <2>2. CASE mine = None
    BY <1>9, <2>1, <2>2, TradeSetsAssumption
  <2>3. CASE mine # None
    <3>1. both = [own EXCEPT ![mine] = q]
      BY <1>9, <2>3
    <3>2. both = [i \in Items |-> IF i = mine THEN q ELSE own[i]]
      BY <2>1, <3>1
    <3>. QED
      BY <3>2
  <2>. QED
    BY <2>2, <2>3
<1> HIDE DEF both
<1>11. his # None => CanStore(both, p)
  <2>1. ASSUME NEW i \in Items PROVE both[i] = p <=> own[i] = p
    <3>1. CASE i = mine
      <4>1. owner[i] = p /\ i \in Offered(p) /\ i \notin Given(p, n - 1) /\ i \notin Given(q, n - 1)
        BY <1>1, <1>2, <1>3, <1>4, <3>1, TradeSetsAssumption
      <4>. QED
        BY <1>1, <1>7, <1>10, <3>1, <4>1
    <3>. QED
      BY <1>10, <3>1
  <2>2. {i \in Items : both[i] = p} = {i \in Items : own[i] = p}
    BY <2>1
  <2>. QED
    BY <1>1, <2>2, Room DEF own, his
<1>12. Store(both, his, p) = IF his = None THEN both ELSE [both EXCEPT ![his] = p]
  BY <1>11 DEF Store
<1>13. Store(both, his, p) = [i \in Items |-> IF i = his THEN p ELSE both[i]]
  <2>1. CASE his = None
    <3>1. Store(both, his, p) = both /\ \A i \in Items : i # his
      BY <1>12, <2>1, TradeSetsAssumption
    <3>2. [i \in Items |-> IF i = his THEN p ELSE both[i]] = [i \in Items |-> both[i]]
      BY <3>1
    <3>. QED
      BY <1>10, <3>1, <3>2
  <2>2. CASE his # None
    <3>1. Store(both, his, p) = [both EXCEPT ![his] = p]
      BY <1>12, <2>2
    <3>2. [both EXCEPT ![his] = p] = [i \in Items |-> IF i = his THEN p ELSE both[i]]
      BY <1>10
    <3>. QED
      BY <3>1, <3>2
  <2>. QED
    BY <2>1, <2>2
<1>14. ASSUME NEW i \in Items
       PROVE  (IF i = his THEN p ELSE both[i]) =
                 IF i \in Given(p, n) THEN q
                 ELSE IF i \in Given(q, n) THEN p
                 ELSE IF i \in Offered(p) \union Offered(q) THEN None ELSE owner[i]
  BY <1>1, <1>2, <1>3, <1>4, <1>7, <1>10, TradeSetsAssumption
<1>15. Store(both, his, p) = Half(p, q, n)
  BY <1>13, <1>14 DEF Half
<1>. QED
  BY <1>8, <1>15 DEF own, mine, his

\* By induction over the slots: everything offered changes hands, nothing else.
LEMMA MoveItemsFact ==
  ASSUME NEW p, NEW q, Dealing(p, q), Fits(p, q)
  PROVE  MoveItems(p, q) = [i \in Items |-> IF i \in Offered(p) THEN q
                                            ELSE IF i \in Offered(q) THEN p ELSE owner[i]]
<1> DEFINE first == [i \in Items |-> IF i \in Offered(p) \union Offered(q) THEN None ELSE owner[i]]
           Moves(m) == m = [n \in 0..TradedCount |->
                              IF n = 0 THEN first
                              ELSE MoveSlot(m[n - 1], GetItem(p, n - 1), GetItem(q, n - 1), p, q)]
           halves == [n \in 0..TradedCount |-> Half(p, q, n)]
<1>1. TradedCount \in Nat
  BY TradeBoundsAssumption
<1>2. MoveItems(p, q) = (CHOOSE m : Moves(m))[TradedCount]
  BY DEF MoveItems
<1>3. Half(p, q, 0) = first
  BY OfferedFact DEF Half
<1>4. Moves(halves)
  <2> HIDE DEF first
  <2>1. ASSUME NEW n \in 0..TradedCount
        PROVE  Half(p, q, n) = IF n = 0 THEN first
                               ELSE MoveSlot(halves[n - 1], GetItem(p, n - 1), GetItem(q, n - 1), p, q)
    <3>1. CASE n = 0
      BY <1>3, <3>1
    <3>2. CASE n # 0
      <4>1. n \in 1..TradedCount /\ n - 1 \in 0..TradedCount
        BY <1>1, <3>2
      <4>2. halves[n - 1] = Half(p, q, n - 1)
        BY <4>1
      <4>. QED
        BY <3>2, <4>1, <4>2, MoveSlotFact
    <3>. QED
      BY <3>1, <3>2
  <2>. QED
    BY <2>1
<1> DEFINE m == CHOOSE m : Moves(m)
<1>5. Moves(m)
  BY <1>4
<1> HIDE DEF m, first
<1>6. \A n \in 0..TradedCount : m[n] = Half(p, q, n)
  <2> DEFINE bad == {n \in 0..TradedCount : m[n] # Half(p, q, n)}
  <2> SUFFICES ASSUME bad # {} PROVE FALSE
    OBVIOUS
  <2>1. bad \in SUBSET Nat
    BY <1>1
  <2>2. PICK n \in bad : \A k \in bad : n <= k
    <3> HIDE DEF bad
    <3>. QED
      BY <2>1, Least
  <2>3. n \in 0..TradedCount /\ m[n] # Half(p, q, n)
    BY <2>2
  <2>4. m[n] = IF n = 0 THEN first
               ELSE MoveSlot(m[n - 1], GetItem(p, n - 1), GetItem(q, n - 1), p, q)
    BY <1>5, <2>3
  <2>5. n # 0
    BY <1>3, <2>3, <2>4
  <2>6. n \in 1..TradedCount /\ n - 1 \in 0..TradedCount /\ ~(n <= n - 1)
    BY <1>1, <2>3, <2>5
  <2>7. m[n - 1] = Half(p, q, n - 1)
    BY <2>2, <2>6
  <2>. QED
    BY <2>3, <2>4, <2>5, <2>6, <2>7, MoveSlotFact
<1>7. MoveItems(p, q) = Half(p, q, TradedCount)
  BY <1>1, <1>2, <1>6 DEF m
<1>. QED
  BY <1>7, OfferedFact DEF Half

-----------------------------------------------------------------------------
(* Items stay in one slot each.                                            *)

\* p and q trade with each other in u, and what p offers is in one slot each if it was.
Kept(t, u, p, q) == /\ Dealt(t, u, p, q)
                    /\ u[p].item = t[p].item /\ u[q].item = t[q].item

LEMMA FlagKept ==
  ASSUME NEW t, NEW p \in Players, NEW q \in Players, Pair(t, p, q), NEW v \in BOOLEAN
  PROVE  Kept(t, [t EXCEPT ![p].accepted = v], p, q)
<1> DEFINE d == [t[p] EXCEPT !.accepted = v]
           u == [t EXCEPT ![p] = d]
<1>1. d \in TradeData /\ d.with = q /\ d.item = t[p].item
  BY DEF Pair, TradeData
<1>2. u = [t EXCEPT ![p] = d]
  OBVIOUS
<1> HIDE DEF d, u
<1>3. Pair(u, p, q) /\ u[p] = d /\ \A r \in Players \ {p} : u[r] = t[r]
  BY <1>1, <1>2, TradeNoneAssumption DEF Pair
<1>4. u[q] = t[q]
  BY <1>3 DEF Pair
<1>5. u[p].item = t[p].item
  BY <1>1, <1>3
<1>6. Kept(t, u, p, q)
  BY <1>3, <1>4, <1>5 DEF Kept, Dealt
<1>. QED
  BY <1>6 DEF u, d

LEMMA Swapped ==
  ASSUME NEW t, NEW u, NEW p, NEW q
  PROVE  /\ Kept(t, u, p, q) => Kept(t, u, q, p)
         /\ Pair(t, p, q) => Pair(t, q, p)
  BY DEF Kept, Dealt, Pair

LEMMA KeptTwice ==
  ASSUME NEW t, NEW u, NEW w, NEW p, NEW q, Kept(t, u, p, q), Kept(u, w, p, q)
  PROVE  Kept(t, w, p, q)
  BY DEF Kept, Dealt

LEMMA UnacceptKept ==
  ASSUME NEW t, NEW p \in Players, NEW q \in Players, Pair(t, p, q)
  PROVE  Kept(t, Unaccept(t, p), p, q)
<1> DEFINE u == [t EXCEPT ![p].accepted = FALSE]
           w == [u EXCEPT ![q].accepted = FALSE]
<1>1. Kept(t, u, p, q)
  BY FlagKept
<1>2. Unaccept(t, p) = w
  BY DEF Unaccept, Pair
<1> HIDE DEF u
<1>3. Pair(u, q, p)
  BY <1>1, Swapped DEF Kept, Dealt
<1>4. Kept(u, w, p, q)
  BY <1>3, FlagKept, Swapped
<1>. QED
  BY <1>1, <1>2, <1>4, KeptTwice

\* A change of p's side that leaves its items alone.
LEMMA ChangeKept ==
  ASSUME NEW t, NEW p \in Players, NEW q \in Players, Pair(t, p, q),
         NEW d \in TradeData, d.with = q
  PROVE  LET u == Unaccept([t EXCEPT ![p] = d], p)
         IN  Dealt(t, u, p, q) /\ u[p].item = d.item /\ u[q].item = t[q].item
<1> DEFINE w == [t EXCEPT ![p] = d]
           u == Unaccept(w, p)
<1>1. w = [t EXCEPT ![p] = d]
  OBVIOUS
<1> HIDE DEF w
<1>2. Pair(w, p, q) /\ w[p] = d /\ \A r \in Players \ {p} : w[r] = t[r]
  BY <1>1, TradeNoneAssumption DEF Pair
<1>3. Kept(w, u, p, q)
  BY <1>2, UnacceptKept
<1>4. w[q] = t[q]
  BY <1>2 DEF Pair
<1> HIDE DEF u
<1>5. Dealt(t, u, p, q) /\ u[p].item = d.item /\ u[q].item = t[q].item
  BY <1>2, <1>3, <1>4 DEF Kept, Dealt
<1>. QED
  BY <1>5 DEF u, w

LEMMA SetSpellKept ==
  ASSUME NEW t, NEW p \in Players, NEW q \in Players, Pair(t, p, q),
         NEW spell \in Spells \union {None}
  PROVE  Kept(t, SetSpell(t, p, spell), p, q)
<1> DEFINE d == [t[p] EXCEPT !.spell = spell]
<1>1. CASE t[p].spell = spell
  BY <1>1 DEF SetSpell, Kept, Dealt
<1>2. CASE t[p].spell # spell
  <2>1. d \in TradeData /\ d.with = q /\ d.item = t[p].item
    BY DEF Pair, TradeData
  <2>2. SetSpell(t, p, spell) = Unaccept([t EXCEPT ![p] = d], p)
    BY <1>2 DEF SetSpell
  <2> HIDE DEF d
  <2>. QED
    BY <2>1, <2>2, ChangeKept DEF Kept
<1>. QED
  BY <1>1, <1>2

LEMMA SetMoneyKept ==
  ASSUME NEW t, NEW p \in Players, NEW q \in Players, Pair(t, p, q),
         NEW money \in 0..MaxMoney
  PROVE  Kept(t, SetMoney(t, p, money), p, q)
<1> DEFINE d == [t[p] EXCEPT !.gold = money]
<1>1. CASE t[p].gold = money \/ money > gold[p]
  BY <1>1 DEF SetMoney, Kept, Dealt
<1>2. CASE ~(t[p].gold = money \/ money > gold[p])
  <2>1. d \in TradeData /\ d.with = q /\ d.item = t[p].item
    BY DEF Pair, TradeData
  <2>2. SetMoney(t, p, money) = Unaccept([t EXCEPT ![p] = d], p)
    BY <1>2 DEF SetMoney
  <2> HIDE DEF d
  <2>. QED
    BY <2>1, <2>2, ChangeKept DEF Kept
<1>. QED
  BY <1>1, <1>2

\* An item that is in no slot, or no item, is put into one.
LEMMA SetItemOneSlot ==
  ASSUME NEW t, NEW p \in Players, NEW q \in Players, Pair(t, p, q),
         OneSlot(t[p].item), OneSlot(t[q].item),
         NEW slot \in Slots, NEW i \in Items \union {None},
         i = None \/ \A s \in Slots : t[p].item[s] # i
  PROVE  LET u == SetItem(t, p, slot, i)
         IN  Dealt(t, u, p, q) /\ OneSlot(u[p].item) /\ OneSlot(u[q].item)
<1> DEFINE put == [t[p].item EXCEPT ![slot] = i]
           d == [t[p] EXCEPT !.item = put]
           set == Unaccept([t EXCEPT ![p] = d], p)
           open == IF slot = NonTraded THEN SetSpell(set, q, None) ELSE set
           u == SetSpell(open, p, None)
<1>1. CASE t[p].item[slot] = i
  BY <1>1 DEF SetItem, Dealt
<1>2. CASE t[p].item[slot] # i
  <2>1. d \in TradeData /\ d.with = q /\ d.item = put
    BY DEF Pair, TradeData
  <2>2. OneSlot(put)
    BY DEF OneSlot, Pair, TradeData
  <2> HIDE DEF d, put
  <2>3. Dealt(t, set, p, q) /\ set[p].item = put /\ set[q].item = t[q].item
    BY <2>1, ChangeKept
  <2> HIDE DEF set
  <2>4. Kept(set, open, p, q)
    <3>1. Pair(set, p, q) /\ Pair(set, q, p)
      BY <2>3, Swapped DEF Dealt
    <3>2. Kept(set, SetSpell(set, q, None), p, q)
      BY <3>1, SetSpellKept, Swapped
    <3>3. Kept(set, set, p, q)
      BY <3>1 DEF Kept, Dealt
    <3>. QED
      BY <3>2, <3>3
  <2> HIDE DEF open
  <2>5. Kept(open, u, p, q)
    BY <2>4, SetSpellKept DEF Kept, Dealt
  <2>6. SetItem(t, p, slot, i) = u
    BY <1>2 DEF SetItem, Pair, u, open, set, d, put
  <2> HIDE DEF u
  <2>7. Kept(set, u, p, q)
    BY <2>4, <2>5, KeptTwice
  <2>. QED
    BY <2>2, <2>3, <2>6, <2>7 DEF Kept, Dealt
<1>. QED
  BY <1>1, <1>2

\* Any step of a trade that goes on, and any one that ends it.
LEMMA DistinctStep ==
  ASSUME Distinct, NEW p \in Players, NEW q \in Players, Dealt(trade, trade', p, q),
         OneSlot(trade'[p].item), OneSlot(trade'[q].item)
  PROVE  Distinct'
<1> SUFFICES ASSUME NEW r \in Players, trade'[r] # None PROVE OneSlot(trade'[r].item)
  BY DEF Distinct, OneSlot
<1>. QED
  BY DEF Distinct, Dealt

LEMMA DistinctKept ==
  ASSUME IInv, Distinct, NEW p \in Players, Trading(p), Kept(trade, trade', p, With(p))
  PROVE  Distinct'
<1>1. With(p) \in Players /\ Pair(trade, p, With(p))
  BY PartnerFact
<1>2. OneSlot(trade[p].item) /\ OneSlot(trade[With(p)].item)
  BY <1>1 DEF Distinct, Pair
<1>. QED
  BY <1>1, <1>2, DistinctStep DEF Kept

LEMMA DistinctLess ==
  ASSUME Distinct, \A r \in Players : trade'[r] = None \/ trade'[r] = trade[r]
  PROVE  Distinct'
<1> SUFFICES ASSUME NEW r \in Players, trade'[r] # None PROVE OneSlot(trade'[r].item)
  BY DEF Distinct, OneSlot
<1>. QED
  BY DEF Distinct

LEMMA EndTradeFact ==
  ASSUME IInv, NEW p \in Players, Trading(p)
  PROVE  /\ EndTrade(p)[p] = None /\ EndTrade(p)[With(p)] = None
         /\ \A r \in Players \ {p, With(p)} : EndTrade(p)[r] = trade[r]
<1>1. With(p) \in Players /\ Pair(trade, p, With(p))
  BY PartnerFact
<1>. QED
  BY <1>1 DEF EndTrade, Pair

LEMMA DistinctFact ==
  ASSUME IInv, Distinct, owner \in [Items -> Players \union {None}], [Next]_vars
  PROVE  Distinct'
<1>1. ASSUME NEW p \in Players, NEW q \in Players, HandleInitiateTrade(p, q)
      PROVE  Distinct'
  <2>1. /\ trade' = [trade EXCEPT ![p] = NewTrade(q), ![q] = NewTrade(p)]
        /\ trade \in [Players -> TradeData \union {None}]
    BY <1>1 DEF HandleInitiateTrade, IInv, TradeShape
  <2>2. \A r \in Players : trade'[r] = trade[r] \/ \E a \in Players : trade'[r] = NewTrade(a)
    BY <2>1
  <2>3. \A a \in Players : OneSlot(NewTrade(a).item)
    BY DEF NewTrade, OneSlot
  <2> SUFFICES ASSUME NEW r \in Players, trade'[r] # None PROVE OneSlot(trade'[r].item)
    BY DEF Distinct, OneSlot
  <2>. QED
    BY <2>2, <2>3 DEF Distinct
<1>2. ASSUME NEW p \in Players, HandleSetTradeItem(p) \/ HandleClearTradeItem(p)
      PROVE  Distinct'
  <2>1. Trading(p)
    BY <1>2 DEF HandleSetTradeItem, HandleClearTradeItem
  <2>2. With(p) \in Players /\ Pair(trade, p, With(p))
    BY <2>1, PartnerFact
  <2>3. OneSlot(trade[p].item) /\ OneSlot(trade[With(p)].item)
    BY <2>2 DEF Distinct, Pair
  <2>4. PICK slot \in Slots, i \in Items \union {None} :
           /\ trade' = SetItem(trade, p, slot, i)
           /\ i = None \/ \A s \in Slots : trade[p].item[s] # i
    BY <1>2 DEF HandleSetTradeItem, HandleClearTradeItem
  <2>5. Dealt(trade, trade', p, With(p)) /\ OneSlot(trade'[p].item) /\ OneSlot(trade'[With(p)].item)
    BY <2>2, <2>3, <2>4, SetItemOneSlot
  <2>. QED
    BY <2>2, <2>5, DistinctStep
<1>3. ASSUME NEW p \in Players, HandleSetTradeGold(p) \/ CastOnTradeSlot(p)
      PROVE  Distinct'
  <2>1. Trading(p)
    BY <1>3 DEF HandleSetTradeGold, CastOnTradeSlot
  <2>2. With(p) \in Players /\ Pair(trade, p, With(p))
    BY <2>1, PartnerFact
  <2>3. Kept(trade, trade', p, With(p))
    <3>1. CASE HandleSetTradeGold(p)
      BY <2>2, <3>1, SetMoneyKept DEF HandleSetTradeGold
    <3>2. CASE CastOnTradeSlot(p)
      BY <2>2, <3>2, SetSpellKept DEF CastOnTradeSlot
    <3>. QED
      BY <1>3, <3>1, <3>2
  <2>. QED
    BY <2>1, <2>3, DistinctKept
<1>4. ASSUME NEW p \in Players,
             \/ HandleUnaccept(p) \/ AcceptRefused(p) \/ AcceptPartnerPoor(p) \/ AcceptUntradable(p)
             \/ AcceptFirst(p) \/ AcceptSpellFails(p) \/ AcceptNoSpace(p)
      PROVE  Distinct'
  <2>1. Trading(p)
    BY <1>4 DEF HandleUnaccept, AcceptRefused, AcceptPartnerPoor, AcceptUntradable, AcceptFirst,
                AcceptSpellFails, AcceptNoSpace, BothAccept
  <2>2. With(p) \in Players /\ Pair(trade, p, With(p))
    BY <2>1, PartnerFact
  <2>3. Kept(trade, Accepting(p), p, With(p))
    BY <2>2, FlagKept DEF Accepting
  <2>4. Pair(Accepting(p), p, With(p)) /\ Pair(Accepting(p), With(p), p)
    BY <2>3, Swapped DEF Kept, Dealt
  <2>5. CASE HandleUnaccept(p) \/ AcceptRefused(p)
    <3>1. trade' = [trade EXCEPT ![p].accepted = FALSE]
      BY <2>5 DEF HandleUnaccept, AcceptRefused
    <3>. QED
      BY <2>1, <2>2, <3>1, FlagKept, DistinctKept
  <2>6. CASE AcceptUntradable(p) \/ AcceptFirst(p)
    <3>1. trade' = Accepting(p)
      BY <2>6 DEF AcceptUntradable, AcceptFirst
    <3>. QED
      BY <2>1, <2>3, <3>1, DistinctKept
  <2>7. CASE AcceptPartnerPoor(p)
    <3>1. trade' = [Accepting(p) EXCEPT ![With(p)].accepted = FALSE]
      BY <2>7 DEF AcceptPartnerPoor
    <3>2. Kept(Accepting(p), trade', p, With(p))
      BY <2>2, <2>4, <3>1, FlagKept, Swapped
    <3>. QED
      BY <2>1, <2>3, <3>2, KeptTwice, DistinctKept
  <2>8. CASE AcceptSpellFails(p)
    <3>1. PICK caster \in {p, With(p)} : trade' = SetSpell(Accepting(p), caster, None)
      BY <2>8 DEF AcceptSpellFails
    <3>2. Kept(Accepting(p), trade', p, With(p))
      BY <2>2, <2>4, <3>1, SetSpellKept, Swapped
    <3>. QED
      BY <2>1, <2>3, <3>2, KeptTwice, DistinctKept
  <2>9. CASE AcceptNoSpace(p)
    BY <2>1, <2>2, <2>9, UnacceptKept, DistinctKept DEF AcceptNoSpace
  <2>. QED
    BY <1>4, <2>5, <2>6, <2>7, <2>8, <2>9
<1>5. ASSUME NEW p \in Players, Exchange(p) \/ TradeCancel(p) \/ Logout(p)
      PROVE  Distinct'
  <2>1. trade' = trade \/ (Trading(p) /\ trade' = EndTrade(p))
    BY <1>5 DEF Exchange, BothAccept, TradeCancel, Logout, Trading
  <2>2. Trading(p) => \A r \in Players : EndTrade(p)[r] = None \/ EndTrade(p)[r] = trade[r]
    BY EndTradeFact
  <2>. QED
    BY <2>1, <2>2, DistinctLess
<1>6. CASE trade' = trade
  BY <1>6, DistinctLess
<1>7. CASE Crash
  BY <1>7, DistinctLess DEF Crash
<1>8. ASSUME NEW p \in Players, Login(p) \/ Spend(p) \/ Earn(p) \/ SendItem(p)
      PROVE  trade' = trade
  BY <1>8 DEF Login, Spend, Earn, SendItem
<1>9. ExecuteSave \/ UNCHANGED vars => trade' = trade
  BY DEF ExecuteSave, vars
<1>. QED
  BY <1>1, <1>2, <1>3, <1>4, <1>5, <1>6, <1>7, <1>8, <1>9 DEF Next, HandleAcceptTrade

-----------------------------------------------------------------------------
(* A trade that completes.                                                 *)

Purses == [Players -> 0..MaxMoney]
Holdings == [Items -> Players \union {None}]

Assets == /\ online \subseteq Players /\ changes \in 0..MaxChanges
          /\ gold \in Purses /\ owner \in Holdings
          /\ dbGold \in Purses /\ dbOwner \in Holdings

LEMMA PayFact ==
  ASSUME NEW g \in 0..MaxMoney, NEW n \in 0..MaxMoney
  PROVE  /\ Pay(g, n) \in 0..MaxMoney /\ Receive(g, n) \in 0..MaxMoney
         /\ Pay(g, n) <= g
         /\ n <= g => Pay(g, n) = g - n
         /\ Receive(g, n) = IF g + n > MaxMoney THEN MaxMoney ELSE g + n
  BY TradeBoundsAssumption DEF Pay, Receive

LEMMA TwoShares ==
  ASSUME NEW g \in 0..MaxMoney, NEW h \in 0..MaxMoney, NEW m \in 0..g, NEW n \in 0..h
  PROVE  Receive(g - m, n) + Receive(h - n, m) <= g + h
<1>1. /\ Receive(g - m, n) \in Nat /\ Receive(g - m, n) <= g - m + n
      /\ Receive(h - n, m) \in Nat /\ Receive(h - n, m) <= h - n + m
  BY TradeBoundsAssumption DEF Receive
<1>2. g \in Nat /\ h \in Nat /\ m \in Nat /\ n \in Nat
  BY TradeBoundsAssumption
<1>. QED
  BY <1>1, <1>2

\* The traders of an exchange, its gold and its items.
LEMMA ExchangeFact ==
  ASSUME IInv, Assets, Distinct, NEW p \in Players, Exchange(p)
  PROVE  LET q == With(p)
         IN  /\ Dealing(p, q) /\ Fits(p, q) /\ With(q) = p /\ trade[q].accepted
             /\ trade[p].gold \in 0..gold[p] /\ trade[q].gold \in 0..gold[q]
             /\ gold' \in Purses
             /\ \A r \in Players \ {p, q} : gold'[r] = gold[r]
             /\ gold'[p] = Receive(gold[p] - trade[p].gold, trade[q].gold)
             /\ gold'[q] = Receive(gold[q] - trade[q].gold, trade[p].gold)
             /\ owner' = [i \in Items |-> IF i \in Offered(p) THEN q
                                          ELSE IF i \in Offered(q) THEN p ELSE owner[i]]
             /\ trade'[p] = None /\ trade'[q] = None
             /\ \A r \in Players \ {p, q} : trade'[r] = trade[r]
<1> DEFINE q == With(p)
<1>1. /\ Trading(p) /\ trade[q].accepted /\ Solvent(p) /\ Solvent(q) /\ Fits(p, q)
      /\ ExchangeGold(p, q) /\ owner' = MoveItems(p, q) /\ trade' = EndTrade(p)
  BY DEF Exchange, BothAccept
<1>2. q \in Players /\ Pair(trade, p, q)
  BY <1>1, PartnerFact
<1>3. With(q) = p /\ p # q /\ trade[p] \in TradeData /\ trade[q] \in TradeData
  BY <1>2 DEF Pair, With
<1>4. Dealing(p, q)
  BY <1>2, <1>3 DEF Dealing, Distinct, Assets, Holdings, Pair
<1>5. /\ gold[p] \in 0..MaxMoney /\ gold[q] \in 0..MaxMoney
      /\ trade[p].gold \in 0..MaxMoney /\ trade[q].gold \in 0..MaxMoney
  BY <1>2, <1>3 DEF Assets, Purses, TradeData
<1>6. trade[p].gold \in 0..gold[p] /\ trade[q].gold \in 0..gold[q]
  BY <1>1, <1>5, TradeBoundsAssumption DEF Solvent
<1>7. Pay(gold[p], trade[p].gold) = gold[p] - trade[p].gold /\ Pay(gold[q], trade[q].gold) = gold[q] - trade[q].gold
  BY <1>5, <1>6, PayFact
<1>8. /\ Receive(gold[p] - trade[p].gold, trade[q].gold) \in 0..MaxMoney
      /\ Receive(gold[q] - trade[q].gold, trade[p].gold) \in 0..MaxMoney
  BY <1>5, <1>7, PayFact
<1>9. gold' = [gold EXCEPT ![p] = Receive(gold[p] - trade[p].gold, trade[q].gold),
                           ![q] = Receive(gold[q] - trade[q].gold, trade[p].gold)]
  BY <1>1, <1>3, <1>7 DEF ExchangeGold
<1>10. /\ gold' \in Purses
       /\ \A r \in Players \ {p, q} : gold'[r] = gold[r]
       /\ gold'[p] = Receive(gold[p] - trade[p].gold, trade[q].gold)
       /\ gold'[q] = Receive(gold[q] - trade[q].gold, trade[p].gold)
  BY <1>2, <1>3, <1>8, <1>9 DEF Assets, Purses
<1>11. owner' = [i \in Items |-> IF i \in Offered(p) THEN q
                                 ELSE IF i \in Offered(q) THEN p ELSE owner[i]]
  BY <1>1, <1>4, MoveItemsFact
<1>12. /\ trade'[p] = None /\ trade'[q] = None
       /\ \A r \in Players \ {p, q} : trade'[r] = trade[r]
  BY <1>1, EndTradeFact
<1>. QED
  BY <1>1, <1>3, <1>4, <1>6, <1>10, <1>11, <1>12

\* The same, seen from either side.
LEMMA FairFact ==
  ASSUME IInv, Assets, Distinct, NEW a \in Players, Exchange(a), NEW p \in {a, With(a)}
  PROVE  LET q   == With(p)
             sum == gold[p] - trade[p].gold + trade[q].gold
         IN  /\ trade[p].accepted \/ trade[q].accepted
             /\ gold'[p] = IF sum > MaxMoney THEN MaxMoney ELSE sum
             /\ \A i \in Items : owner'[i] = IF i \in Offered(p) THEN q
                                             ELSE IF i \in Offered(q) THEN p ELSE owner[i]
<1> DEFINE b == With(a)
           q == With(p)
<1>1. /\ Dealing(a, b) /\ With(b) = a /\ trade[b].accepted
      /\ trade[a].gold \in 0..gold[a] /\ trade[b].gold \in 0..gold[b]
      /\ gold'[a] = Receive(gold[a] - trade[a].gold, trade[b].gold)
      /\ gold'[b] = Receive(gold[b] - trade[b].gold, trade[a].gold)
      /\ owner' = [i \in Items |-> IF i \in Offered(a) THEN b
                                   ELSE IF i \in Offered(b) THEN a ELSE owner[i]]
  BY ExchangeFact
<1>2. /\ Offered(a) \subseteq {i \in Items : owner[i] = a}
      /\ Offered(b) \subseteq {i \in Items : owner[i] = b} /\ a # b
  BY <1>1, OfferedFact DEF Dealing
<1>3. \A i \in Items : ~(i \in Offered(a) /\ i \in Offered(b))
  BY <1>2
<1>4. (p = a /\ q = b) \/ (p = b /\ q = a)
  BY <1>1
<1>5. /\ gold[p] \in 0..MaxMoney /\ trade[p].gold \in 0..gold[p] /\ trade[q].gold \in 0..MaxMoney
      /\ gold'[p] = Receive(gold[p] - trade[p].gold, trade[q].gold)
  BY <1>1, <1>4 DEF Dealing, Assets, Purses, TradeData
<1>6. gold[p] - trade[p].gold \in 0..MaxMoney
  BY <1>5, TradeBoundsAssumption
<1>7. gold'[p] = IF gold[p] - trade[p].gold + trade[q].gold > MaxMoney THEN MaxMoney
                 ELSE gold[p] - trade[p].gold + trade[q].gold
  BY <1>5, <1>6, PayFact
<1>8. \A i \in Items : owner'[i] = IF i \in Offered(p) THEN q
                                   ELSE IF i \in Offered(q) THEN p ELSE owner[i]
  BY <1>1, <1>3, <1>4
<1>. QED
  BY <1>1, <1>4, <1>7, <1>8

-----------------------------------------------------------------------------
(* What is owned, saved and shown is well formed.                          *)

Saves == [gold : UNION {[R -> 0..MaxMoney] : R \in SUBSET Players},
          owner : UNION {[I -> Players \union {None}] : I \in SUBSET Items}]

Typed == /\ Assets
         /\ agreed \in [Players -> Windows \union {None}]
         /\ pending \in Seq(Saves)
         /\ minted \in Nat

LEMMA SaveFact ==
  ASSUME gold' \in Purses, owner' \in Holdings, NEW R \in SUBSET Players, NEW I \in SUBSET Items
  PROVE  /\ Save(R, I) \in Saves
         /\ DOMAIN Save(R, I).gold = R /\ \A x \in R : Save(R, I).gold[x] = gold'[x]
<1>1. [x \in R |-> gold'[x]] \in [R -> 0..MaxMoney] /\ [i \in I |-> owner'[i]] \in [I -> Players \union {None}]
  BY DEF Purses, Holdings
<1>. QED
  BY <1>1 DEF Save, Saves

\* What a step appends to the queue: a save of players P.
Saved(P, I) == /\ P \in SUBSET Players /\ I \in SUBSET Items
               /\ pending' = Append(pending, Save(P, I))

LEMMA AgreedFact ==
  ASSUME IInv', agreed \in [Players -> Windows \union {None}], NEW who, Agree(who)
  PROVE  agreed' \in [Players -> Windows \union {None}]
<1>1. \A d \in TradeData : Offer(d) \in (0..MaxMoney) \X [Slots -> Items \union {None}] \X (Spells \union {None})
  BY DEF Offer, TradeData
<1>2. ASSUME NEW r \in Players, trade'[r] # None PROVE Window(trade', r) \in Windows
  <2>1. trade'[r] \in TradeData /\ trade'[r].with \in Players
    BY <1>2 DEF IInv, TradeShape, TradeData
  <2>2. trade'[trade'[r].with] \in TradeData
    BY <1>2, <2>1 DEF IInv, TradeShape, TradeSymmetric, With
  <2>. QED
    BY <1>1, <2>1, <2>2 DEF Window, Windows
<1>3. DOMAIN agreed' = Players /\ agreed' = [r \in Players |-> agreed'[r]]
  BY DEF Agree
<1>4. \A r \in Players : agreed'[r] \in Windows \union {None}
  BY <1>2 DEF Agree
<1>. QED
  BY <1>3, <1>4

\* What the handlers of a trade that goes on, or is cancelled, leave alone.
Idle(p) == \/ \E q \in Players : HandleInitiateTrade(p, q)
           \/ HandleSetTradeGold(p) \/ HandleSetTradeItem(p) \/ HandleClearTradeItem(p)
           \/ CastOnTradeSlot(p) \/ HandleUnaccept(p) \/ TradeCancel(p)
           \/ AcceptRefused(p) \/ AcceptPartnerPoor(p) \/ AcceptUntradable(p)
           \/ AcceptFirst(p) \/ AcceptSpellFails(p) \/ AcceptNoSpace(p)

LEMMA IdleFact ==
  ASSUME NEW p \in Players, Idle(p)
  PROVE  UNCHANGED <<online, gold, owner, changes, pending, dbGold, dbOwner, minted>> /\ \E who : Agree(who)
<1>1. CASE \E q \in Players : HandleInitiateTrade(p, q)
  BY <1>1 DEF HandleInitiateTrade, assets
<1>2. CASE \/ HandleSetTradeGold(p) \/ HandleSetTradeItem(p) \/ HandleClearTradeItem(p)
           \/ CastOnTradeSlot(p) \/ HandleUnaccept(p) \/ TradeCancel(p)
  BY <1>2 DEF HandleSetTradeGold, HandleSetTradeItem, HandleClearTradeItem, CastOnTradeSlot,
              HandleUnaccept, TradeCancel, assets
<1>3. CASE \/ AcceptRefused(p) \/ AcceptPartnerPoor(p) \/ AcceptUntradable(p)
           \/ AcceptFirst(p) \/ AcceptSpellFails(p) \/ AcceptNoSpace(p)
  BY <1>3 DEF AcceptRefused, AcceptPartnerPoor, AcceptUntradable, AcceptFirst, AcceptSpellFails,
              AcceptNoSpace, assets
<1>. QED
  BY <1>1, <1>2, <1>3 DEF Idle

\* Every step is one of these.
LEMMA StepFact ==
  ASSUME [Next]_vars
  PROVE  \/ \E p \in Players : Idle(p) \/ Exchange(p) \/ Logout(p) \/ Login(p)
                               \/ Spend(p) \/ Earn(p) \/ SendItem(p)
         \/ ExecuteSave \/ Crash \/ UNCHANGED vars
  BY DEF Next, HandleAcceptTrade, Idle

\* A save of a player, or of two, is appended.
LEMMA SavedFact ==
  ASSUME IInv, Typed, Distinct, NEW p \in Players
  PROVE  /\ Exchange(p) => /\ {p, With(p)} \subseteq Players
                           /\ Saved({p, With(p)}, Inventory({p, With(p)}))
         /\ Logout(p) => Saved({p}, Inventory({p}))
         /\ SendItem(p) => \E I \in SUBSET Items : Saved({p}, I)
<1>1. \A P : Inventory(P) \in SUBSET Items
  BY DEF Inventory
<1>2. \A s : Queue(<<s>>) => pending' = Append(pending, s)
  <2>1. \A s : pending \o <<s>> = Append(pending, s)
    BY DEF Typed
  <2>. QED
    BY <2>1 DEF Queue
<1>3. ASSUME Exchange(p)
      PROVE  {p, With(p)} \subseteq Players /\ Saved({p, With(p)}, Inventory({p, With(p)}))
  <2>1. With(p) \in Players /\ Queue(<<Save({p, With(p)}, Inventory({p, With(p)}))>>)
    BY <1>3, PartnerFact DEF Exchange, BothAccept, SaveBoth
  <2>. QED
    BY <1>1, <1>2, <2>1 DEF Saved
<1>4. ASSUME Logout(p) PROVE Saved({p}, Inventory({p}))
  BY <1>1, <1>2, <1>4 DEF Logout, Saved
<1>5. ASSUME SendItem(p) PROVE \E I \in SUBSET Items : Saved({p}, I)
  <2>1. PICK i \in Items : Queue(<<Save({p}, Inventory({p}) \union {i})>>)
    BY <1>5 DEF SendItem
  <2>2. Inventory({p}) \union {i} \in SUBSET Items
    BY <1>1
  <2>3. pending' = Append(pending, Save({p}, Inventory({p}) \union {i}))
    BY <1>2, <2>1
  <2>4. Saved({p}, Inventory({p}) \union {i})
    BY <2>2, <2>3 DEF Saved
  <2>. QED
    BY <2>2, <2>4
<1>. QED
  BY <1>3, <1>4, <1>5

LEMMA AssetsFact ==
  ASSUME IInv, Typed, Distinct, [Next]_vars
  PROVE  Assets'
<1>1. ASSUME NEW p \in Players, Idle(p) PROVE Assets'
  BY <1>1, IdleFact DEF Typed, Assets
<1>2. ASSUME NEW p \in Players, Exchange(p) PROVE Assets'
  <2>1. PICK q \in Players : /\ gold' \in Purses
                             /\ owner' = [i \in Items |-> IF i \in Offered(p) THEN q
                                          ELSE IF i \in Offered(q) THEN p ELSE owner[i]]
    BY <1>2, ExchangeFact DEF Typed, Dealing
  <2>2. owner' \in Holdings
    BY <2>1 DEF Typed, Assets, Holdings
  <2>3. UNCHANGED <<online, changes, dbGold, dbOwner>>
    BY <1>2 DEF Exchange, database
  <2>. QED
    BY <2>1, <2>2, <2>3 DEF Typed, Assets
<1>3. ASSUME NEW p \in Players, Logout(p) PROVE Assets'
  BY <1>3 DEF Logout, database, Typed, Assets
<1>4. ASSUME NEW p \in Players, Login(p) PROVE Assets'
  <2>1. gold' \in Purses /\ owner' \in Holdings
    BY <1>4 DEF Login, Typed, Assets, Purses, Holdings
  <2>. QED
    BY <1>4, <2>1 DEF Login, database, Typed, Assets
<1>5. ASSUME NEW p \in Players, Spend(p) \/ Earn(p) PROVE Assets'
  <2>1. gold[p] \in 0..MaxMoney /\ gold \in Purses
    BY DEF Typed, Assets, Purses
  <2>2. Pay(gold[p], 1) \in 0..MaxMoney
    BY <2>1, TradeBoundsAssumption DEF Pay
  <2>3. Receive(gold[p], 1) \in 0..MaxMoney
    BY <2>1, TradeBoundsAssumption DEF Receive
  <2>4. gold' \in Purses
    BY <1>5, <2>1, <2>2, <2>3 DEF Spend, Earn, Purses
  <2>5. changes' \in 0..MaxChanges
    BY <1>5, TradeBoundsAssumption DEF Spend, Earn, Change, Typed, Assets
  <2>. QED
    BY <1>5, <2>4, <2>5 DEF Spend, Earn, database, Typed, Assets
<1>6. ASSUME NEW p \in Players, SendItem(p) PROVE Assets'
  <2>1. owner' \in Holdings
    BY <1>6 DEF SendItem, Typed, Assets, Holdings
  <2>2. changes' \in 0..MaxChanges
    BY <1>6, TradeBoundsAssumption DEF SendItem, Change, Typed, Assets
  <2>3. gold' = gold /\ UNCHANGED <<online, dbGold, dbOwner>>
    BY <1>6 DEF SendItem, database
  <2>. QED
    BY <2>1, <2>2, <2>3 DEF Typed, Assets
<1>7. ASSUME ExecuteSave PROVE Assets'
  <2>1. Head(pending) \in Saves
    BY <1>7 DEF ExecuteSave, Typed
  <2>2. PICK R \in SUBSET Players, I \in SUBSET Items :
           Head(pending).gold \in [R -> 0..MaxMoney] /\ Head(pending).owner \in [I -> Players \union {None}]
    BY <2>1 DEF Saves
  <2>3. Written(dbGold, Head(pending).gold) \in [Players -> 0..MaxMoney]
    <3>1. dbGold \in [Players -> 0..MaxMoney]
      BY DEF Typed, Assets, Purses
    <3>. QED
      BY <2>2, <3>1 DEF Written
  <2>4. Written(dbOwner, Head(pending).owner) \in [Items -> Players \union {None}]
    <3>1. dbOwner \in [Items -> Players \union {None}]
      BY DEF Typed, Assets, Holdings
    <3>. QED
      BY <2>2, <3>1 DEF Written
  <2>. QED
    BY <1>7, <2>3, <2>4 DEF ExecuteSave, Typed, Assets, Purses, Holdings
<1>8. ASSUME Crash PROVE Assets'
  BY <1>8 DEF Crash, Typed, Assets
<1>9. ASSUME UNCHANGED vars PROVE Assets'
  BY <1>9 DEF vars, Typed, Assets
<1>. QED
  BY <1>1, <1>2, <1>3, <1>4, <1>5, <1>6, <1>7, <1>8, <1>9, StepFact

LEMMA PendingFact ==
  ASSUME IInv, Typed, Distinct, [Next]_vars
  PROVE  pending' \in Seq(Saves)
<1>1. ASSUME NEW P, NEW I, Saved(P, I) PROVE pending' \in Seq(Saves)
  <2>1. gold' \in Purses /\ owner' \in Holdings
    BY AssetsFact DEF Assets
  <2>2. Save(P, I) \in Saves
    BY <1>1, <2>1, SaveFact DEF Saved
  <2>. QED
    BY <1>1, <2>2 DEF Saved, Typed
<1>2. ASSUME NEW p \in Players, Exchange(p) \/ Logout(p) \/ SendItem(p) PROVE pending' \in Seq(Saves)
  BY <1>1, <1>2, SavedFact
<1>3. ASSUME NEW p \in Players, Idle(p) PROVE pending' = pending
  BY <1>3, IdleFact
<1>4. ASSUME NEW p \in Players, Login(p) \/ Spend(p) \/ Earn(p) PROVE pending' = pending
  BY <1>4 DEF Login, Spend, Earn
<1>5. ASSUME ExecuteSave PROVE pending' \in Seq(Saves)
  BY <1>5 DEF ExecuteSave, Typed
<1>6. ASSUME Crash PROVE pending' \in Seq(Saves)
  BY <1>6 DEF Crash
<1>7. ASSUME UNCHANGED vars PROVE pending' = pending
  BY <1>7 DEF vars
<1>. QED
  BY <1>2, <1>3, <1>4, <1>5, <1>6, <1>7, StepFact DEF Typed

LEMMA AgreedStep ==
  ASSUME IInv, Typed, [Next]_vars
  PROVE  agreed' \in [Players -> Windows \union {None}]
<1>1. IInv'
  BY NextFact
<1>2. ASSUME NEW p \in Players, Idle(p) \/ Exchange(p) \/ Logout(p) PROVE \E who : Agree(who)
  BY <1>2, IdleFact DEF Exchange, Logout
<1>3. ASSUME NEW p \in Players, Login(p) \/ Spend(p) \/ Earn(p) \/ SendItem(p) PROVE agreed' = agreed
  BY <1>3 DEF Login, Spend, Earn, SendItem
<1>4. ExecuteSave \/ UNCHANGED vars => agreed' = agreed
  BY DEF ExecuteSave, vars
<1>5. Crash => agreed' \in [Players -> Windows \union {None}]
  BY DEF Crash
<1>6. (\E who : Agree(who)) => agreed' \in [Players -> Windows \union {None}]
  BY <1>1, AgreedFact DEF Typed
<1>7. (\E who : Agree(who)) \/ agreed' = agreed \/ Crash
  BY <1>2, <1>3, <1>4, StepFact
<1>. QED
  BY <1>5, <1>6, <1>7 DEF Typed

LEMMA PurseFact ==
  ASSUME NEW f \in Purses
  PROVE  f \in [Players -> Nat] /\ GoldOf(f) \in Nat
<1>1. f \in [Players -> Nat]
  BY TradeBoundsAssumption DEF Purses
<1>. QED
  BY <1>1, GoldIsCoins

LEMMA MintedFact ==
  ASSUME Typed, [Next]_vars
  PROVE  /\ minted' \in Nat
         /\ minted' = minted \/ Crash \/ \E p \in Players : Earn(p)
<1>1. ASSUME NEW p \in Players, Idle(p) PROVE minted' = minted
  BY <1>1, IdleFact
<1>2. ASSUME NEW p \in Players, Exchange(p) \/ Logout(p) \/ Login(p) \/ Spend(p) \/ SendItem(p)
      PROVE minted' = minted
  BY <1>2 DEF Exchange, Logout, Login, Spend, SendItem, database
<1>3. ASSUME NEW p \in Players, Earn(p) PROVE minted' \in Nat
  <2>1. gold[p] \in 0..MaxMoney /\ gold'[p] = Receive(gold[p], 1)
    BY <1>3 DEF Typed, Assets, Purses, Earn
  <2>2. gold'[p] - gold[p] \in Nat
    BY <2>1, TradeBoundsAssumption DEF Receive
  <2>. QED
    BY <1>3, <2>2 DEF Earn, Typed
<1>4. Crash => minted' \in Nat
  BY PurseFact DEF Crash, Typed, Assets
<1>5. ExecuteSave \/ UNCHANGED vars => minted' = minted
  BY DEF ExecuteSave, vars
<1>. QED
  BY <1>1, <1>2, <1>3, <1>4, <1>5, StepFact DEF Typed

LEMMA TypedFact ==
  ASSUME IInv, Typed, Distinct, [Next]_vars
  PROVE  Typed'
<1>1. Assets' /\ pending' \in Seq(Saves)
  BY AssetsFact, PendingFact
<1>2. agreed' \in [Players -> Windows \union {None}] /\ minted' \in Nat
  BY AgreedStep, MintedFact
<1>. QED
  BY <1>1, <1>2 DEF Typed

LEMMA TypedInit == Init => Typed
<1> SUFFICES ASSUME Init PROVE Typed
  OBVIOUS
<1>1. gold \in Purses /\ dbGold \in Purses
  BY TradeInitAssumption DEF Init, Purses
<1>2. minted \in Nat
  BY <1>1, PurseFact DEF Init
<1>3. /\ owner \in Holdings /\ dbOwner \in Holdings /\ online \subseteq Players
      /\ changes \in 0..MaxChanges /\ agreed \in [Players -> Windows \union {None}]
      /\ pending \in Seq(Saves)
  BY TradeBoundsAssumption DEF Init, Holdings
<1>. QED
  BY <1>1, <1>2, <1>3 DEF Typed, Assets

LEMMA TypedIsType == IInv /\ Typed => TradeTypeOK
<1> SUFFICES ASSUME IInv, Typed PROVE TradeTypeOK
  OBVIOUS
<1>1. ASSUME NEW n \in DOMAIN pending
      PROVE  /\ \E P \in SUBSET Players : pending[n].gold \in [P -> 0..MaxMoney]
             /\ \E I \in SUBSET Items : pending[n].owner \in [I -> Players \union {None}]
  <2>1. pending[n] \in Saves
    BY DEF Typed
  <2>. QED
    BY <2>1 DEF Saves
<1>. QED
  BY <1>1 DEF TradeTypeOK, Typed, Assets, Purses, Holdings, IInv, TradeShape

-----------------------------------------------------------------------------
(* The books: the gold in the database after each of the saves that wait.  *)

Larger(f, g) == [p \in Players |-> IF f[p] > g[p] THEN f[p] ELSE g[p]]

\* h[k] is the table when k saves have been executed. None of the tables holds more than m,
\* not even if everybody had what he carries, where that is more.
Ledger(h, db, saves, g, m) ==
    /\ h \in [0..Len(saves) -> Purses]
    /\ h[0] = db
    /\ \A k \in 1..Len(saves) : h[k] = Written(h[k - 1], saves[k].gold)
    /\ \A k \in 0..Len(saves) : GoldOf(h[k]) <= m
    /\ GoldOf(Larger(g, h[Len(saves)])) <= m

Books == \E h : Ledger(h, dbGold, pending, gold, minted)

LEMMA LargerFact ==
  ASSUME NEW f \in Purses, NEW g \in Purses
  PROVE  /\ Larger(f, g) \in Purses
         /\ \A p \in Players : /\ Larger(f, g)[p] = IF f[p] > g[p] THEN f[p] ELSE g[p]
                               /\ f[p] <= Larger(f, g)[p] /\ g[p] <= Larger(f, g)[p]
<1>1. \A p \in Players : f[p] \in 0..MaxMoney /\ g[p] \in 0..MaxMoney
  BY DEF Purses
<1>2. \A p \in Players : Larger(f, g)[p] = IF f[p] > g[p] THEN f[p] ELSE g[p]
  BY DEF Larger
<1>3. \A p \in Players : /\ f[p] <= Larger(f, g)[p] /\ g[p] <= Larger(f, g)[p]
                         /\ Larger(f, g)[p] \in 0..MaxMoney
  BY <1>1, <1>2, TradeBoundsAssumption
<1>4. Larger(f, g) = [p \in Players |-> Larger(f, g)[p]]
  BY DEF Larger
<1>5. Larger(f, g) \in Purses
  BY <1>3, <1>4 DEF Purses
<1>. QED
  BY <1>2, <1>3, <1>5

LEMMA PurseMonotone ==
  ASSUME NEW f \in Purses, NEW g \in Purses, \A p \in Players : f[p] <= g[p]
  PROVE  GoldOf(f) <= GoldOf(g)
<1>1. f \in [Players -> Nat] /\ g \in [Players -> Nat]
  BY PurseFact
<1>2. Cardinality(Coins(f, Players)) <= Cardinality(Coins(g, Players))
  BY <1>1, GoldMonotone
<1>. QED
  BY <1>1, <1>2, GoldIsCoins

\* Nothing is saved; the purses, and what may be there, change.
LEMMA LedgerKept ==
  ASSUME NEW h, NEW db, NEW saves \in Seq(Saves), NEW g, NEW m \in Nat, Ledger(h, db, saves, g, m),
         NEW g2, NEW m2 \in Nat, m <= m2, GoldOf(Larger(g2, h[Len(saves)])) <= m2
  PROVE  Ledger(h, db, saves, g2, m2)
<1>1. \A k \in 0..Len(saves) : GoldOf(h[k]) \in Nat
  BY PurseFact DEF Ledger
<1>2. \A k \in 0..Len(saves) : GoldOf(h[k]) <= m
  BY DEF Ledger
<1>3. \A k \in 0..Len(saves) : GoldOf(h[k]) <= m2
  BY <1>1, <1>2
<1>. QED
  BY <1>3 DEF Ledger

\* A save is appended.
LEMMA LedgerAppended ==
  ASSUME NEW h, NEW db, NEW saves \in Seq(Saves), NEW g \in Purses, NEW m \in Nat,
         Ledger(h, db, saves, g, m),
         NEW s \in Saves, NEW g2 \in Purses, NEW next \in Purses, next = Written(h[Len(saves)], s.gold),
         GoldOf(Larger(g2, next)) <= m
  PROVE  \E w : Ledger(w, db, Append(saves, s), g2, m)
<1> DEFINE n == Len(saves)
           more == Append(saves, s)
           w == [k \in 0..(n + 1) |-> IF k = n + 1 THEN next ELSE h[k]]
<1>1. /\ n \in Nat /\ Len(more) = n + 1
      /\ more[n + 1] = s /\ \A k \in 1..n : more[k] = saves[k]
  OBVIOUS
<1>2. /\ h \in [0..n -> Purses] /\ h[0] = db
      /\ \A k \in 1..n : h[k] = Written(h[k - 1], saves[k].gold)
      /\ \A k \in 0..n : GoldOf(h[k]) <= m
  BY DEF Ledger
<1>3. next = Written(h[n], s.gold) /\ GoldOf(next) <= m
  <2>1. GoldOf(next) <= GoldOf(Larger(g2, next))
    BY LargerFact, PurseMonotone
  <2>2. GoldOf(next) \in Nat /\ GoldOf(Larger(g2, next)) \in Nat
    BY LargerFact, PurseFact
  <2>. QED
    BY <2>1, <2>2
<1> HIDE DEF n, more
<1>4. /\ w \in [0..(n + 1) -> Purses] /\ w[n + 1] = next /\ \A k \in 0..n : w[k] = h[k]
  BY <1>1, <1>2
<1> HIDE DEF w
<1>5. ASSUME NEW k \in 1..(n + 1) PROVE w[k] = Written(w[k - 1], more[k].gold)
  <2>1. CASE k = n + 1
    <3>1. k - 1 = n /\ w[k - 1] = h[n]
      BY <1>1, <1>4, <2>1
    <3>. QED
      BY <1>1, <1>3, <1>4, <2>1, <3>1
  <2>2. CASE k # n + 1
    <3>1. k \in 1..n /\ k \in 0..n /\ k - 1 \in 0..n
      BY <1>1, <2>2
    <3>. QED
      BY <1>1, <1>2, <1>4, <3>1
  <2>. QED
    BY <2>1, <2>2
<1>6. ASSUME NEW k \in 0..(n + 1) PROVE GoldOf(w[k]) <= m
  <2>1. k = n + 1 \/ k \in 0..n
    BY <1>1
  <2>. QED
    BY <1>2, <1>3, <1>4, <2>1
<1>7. w[0] = db
  BY <1>1, <1>2, <1>4
<1>8. Ledger(w, db, more, g2, m)
  BY <1>1, <1>4, <1>5, <1>6, <1>7 DEF Ledger
<1>. QED
  BY <1>8 DEF more

\* The oldest save is executed.
LEMMA LedgerExecuted ==
  ASSUME NEW h, NEW db, NEW saves \in Seq(Saves), saves # <<>>, NEW g, NEW m,
         Ledger(h, db, saves, g, m)
  PROVE  \E w : Ledger(w, Written(db, Head(saves).gold), Tail(saves), g, m)
<1> DEFINE n == Len(saves)
           rest == Tail(saves)
           w == [k \in 0..(n - 1) |-> h[k + 1]]
<1>1. /\ n \in Nat \ {0} /\ Len(rest) = n - 1 /\ Head(saves) = saves[1]
      /\ \A k \in 1..(n - 1) : rest[k] = saves[k + 1]
  OBVIOUS
<1>2. /\ h \in [0..n -> Purses] /\ h[0] = db
      /\ \A k \in 1..n : h[k] = Written(h[k - 1], saves[k].gold)
      /\ \A k \in 0..n : GoldOf(h[k]) <= m
      /\ GoldOf(Larger(g, h[n])) <= m
  BY DEF Ledger
<1> HIDE DEF n, rest
<1>3. w \in [0..(n - 1) -> Purses] /\ \A k \in 0..(n - 1) : w[k] = h[k + 1]
  BY <1>1, <1>2
<1> HIDE DEF w
<1>4. w[0] = Written(db, saves[1].gold)
  <2>1. 0 \in 0..(n - 1) /\ 0 + 1 = 1 /\ 1 \in 1..n /\ 1 - 1 = 0
    BY <1>1
  <2>2. w[0] = h[1] /\ h[1] = Written(h[1 - 1], saves[1].gold)
    BY <1>2, <1>3, <2>1
  <2>. QED
    BY <1>2, <2>1, <2>2
<1>5. ASSUME NEW k \in 1..(n - 1) PROVE w[k] = Written(w[k - 1], rest[k].gold)
  <2>1. /\ k \in 0..(n - 1) /\ k - 1 \in 0..(n - 1) /\ (k - 1) + 1 = k
        /\ k + 1 \in 1..n /\ (k + 1) - 1 = k
    BY <1>1
  <2>2. h[k + 1] = Written(h[k], saves[k + 1].gold)
    BY <1>2, <2>1
  <2>. QED
    BY <1>1, <1>3, <2>1, <2>2
<1>6. ASSUME NEW k \in 0..(n - 1) PROVE GoldOf(w[k]) <= m
  BY <1>1, <1>2, <1>3
<1>7. w[n - 1] = h[n]
  BY <1>1, <1>3
<1>8. Ledger(w, Written(db, saves[1].gold), rest, g, m)
  BY <1>1, <1>2, <1>3, <1>4, <1>5, <1>6, <1>7 DEF Ledger
<1>. QED
  BY <1>1, <1>8 DEF rest

\* Nothing waits, and everybody carries what the database says.
LEMMA LedgerClosed ==
  ASSUME NEW db \in Purses, NEW m, GoldOf(db) <= m
  PROVE  \E w : Ledger(w, db, <<>>, db, m)
<1> DEFINE w == [k \in 0..0 |-> db]
<1>1. Larger(db, db) = db
  BY DEF Larger, Purses
<1>2. w \in [0..Len(<<>>) -> Purses] /\ w[0] = db /\ Len(<<>>) = 0 /\ \A k \in 0..0 : k = 0
  OBVIOUS
<1> HIDE DEF w
<1>3. Ledger(w, db, <<>>, db, m)
  BY <1>1, <1>2 DEF Ledger
<1>. QED
  BY <1>3

\* By induction over the queue: a player in none of its saves has what the table says.
LEMMA LedgerUntouched ==
  ASSUME NEW h, NEW db, NEW saves \in Seq(Saves), NEW g, NEW m, Ledger(h, db, saves, g, m),
         NEW p \in Players, \A n \in DOMAIN saves : p \notin DOMAIN saves[n].gold
  PROVE  h[Len(saves)][p] = db[p]
<1> DEFINE n == Len(saves)
           bad == {k \in 0..n : h[k][p] # db[p]}
<1>1. n \in Nat /\ DOMAIN saves = 1..n
  OBVIOUS
<1>2. /\ h \in [0..n -> Purses] /\ h[0] = db
      /\ \A k \in 1..n : h[k] = Written(h[k - 1], saves[k].gold)
  BY DEF Ledger
<1>3. bad = {}
  <2> SUFFICES ASSUME bad # {} PROVE FALSE
    OBVIOUS
  <2>1. bad \in SUBSET Nat
    BY <1>1
  <2>2. PICK k \in bad : \A j \in bad : k <= j
    <3> HIDE DEF bad
    <3>. QED
      BY <2>1, Least
  <2>3. k \in 0..n /\ h[k][p] # db[p] /\ k # 0
    BY <1>2, <2>2
  <2>4. k \in 1..n /\ k - 1 \in 0..n /\ ~(k <= k - 1)
    BY <1>1, <2>3
  <2>5. h[k - 1][p] = db[p]
    BY <2>2, <2>4
  <2>6. h[k] = Written(h[k - 1], saves[k].gold) /\ p \in DOMAIN h[k - 1] /\ p \notin DOMAIN saves[k].gold
    BY <1>1, <1>2, <2>4 DEF Purses
  <2>7. h[k][p] = h[k - 1][p]
    BY <2>6 DEF Written
  <2>. QED
    BY <2>3, <2>5, <2>7
<1>. QED
  BY <1>1, <1>3

\* The books at hand.
LEMMA BooksAtHand ==
  ASSUME Typed, NEW h, Ledger(h, dbGold, pending, gold, minted)
  PROVE  /\ h[Len(pending)] \in Purses /\ pending \in Seq(Saves) /\ minted \in Nat
         /\ gold \in Purses /\ dbGold \in Purses
         /\ GoldOf(Larger(gold, h[Len(pending)])) <= minted
         /\ Larger(gold, h[Len(pending)]) \in Purses
         /\ \A p \in Players : /\ gold[p] \in 0..MaxMoney
                               /\ gold[p] <= Larger(gold, h[Len(pending)])[p]
                               /\ h[Len(pending)][p] <= Larger(gold, h[Len(pending)])[p]
<1>1. pending \in Seq(Saves) /\ minted \in Nat /\ gold \in Purses /\ dbGold \in Purses
  BY DEF Typed, Assets
<1>2. h[Len(pending)] \in Purses
  BY <1>1 DEF Ledger
<1>3. \A p \in Players : gold[p] \in 0..MaxMoney
  BY <1>1 DEF Purses
<1>. QED
  BY <1>1, <1>2, <1>3, LargerFact DEF Ledger

\* Nothing is saved and nobody's gold is more than it was, or may have been.
LEMMA BooksLess ==
  ASSUME Typed, Books, gold' \in Purses, UNCHANGED <<dbGold, pending, minted>>,
         \A h : Ledger(h, dbGold, pending, gold, minted) =>
                    \A p \in Players : gold'[p] <= gold[p] \/ gold'[p] <= h[Len(pending)][p]
  PROVE  Books'
<1>1. PICK h : Ledger(h, dbGold, pending, gold, minted)
  BY DEF Books
<1> DEFINE last == h[Len(pending)]
           f == Larger(gold, last)
           u == Larger(gold', last)
<1>2. /\ last \in Purses /\ pending \in Seq(Saves) /\ minted \in Nat /\ gold \in Purses
      /\ GoldOf(f) <= minted /\ f \in Purses
      /\ \A p \in Players : gold[p] \in 0..MaxMoney /\ gold[p] <= f[p] /\ last[p] <= f[p]
  BY <1>1, BooksAtHand
<1>3. \A p \in Players : gold'[p] <= gold[p] \/ gold'[p] <= last[p]
  BY <1>1
<1> HIDE DEF last
<1>4. u \in Purses /\ \A p \in Players : u[p] = IF gold'[p] > last[p] THEN gold'[p] ELSE last[p]
  BY <1>2, LargerFact
<1> HIDE DEF f, u
<1>5. \A p \in Players : u[p] <= f[p]
  <2> SUFFICES ASSUME NEW p \in Players PROVE u[p] <= f[p]
    OBVIOUS
  <2>1. gold'[p] \in Nat /\ gold[p] \in Nat /\ last[p] \in Nat /\ f[p] \in Nat
    BY <1>2, TradeBoundsAssumption DEF Purses
  <2>. QED
    BY <1>2, <1>3, <1>4, <2>1
<1>6. GoldOf(u) <= GoldOf(f) /\ GoldOf(u) \in Nat /\ GoldOf(f) \in Nat
  BY <1>2, <1>4, <1>5, PurseMonotone, PurseFact
<1>7. GoldOf(u) <= minted
  BY <1>2, <1>6
<1>8. Ledger(h, dbGold, pending, gold', minted)
  BY <1>1, <1>2, <1>7, LedgerKept DEF u, last
<1>. QED
  BY <1>8 DEF Books

\* Whoever earns d gets no more than d.
LEMMA BooksEarn ==
  ASSUME Typed, Books, NEW p \in Players, Earn(p)
  PROVE  Books'
<1>1. PICK h : Ledger(h, dbGold, pending, gold, minted)
  BY DEF Books
<1> DEFINE last == h[Len(pending)]
           f == Larger(gold, last)
           u == Larger(gold', last)
           d == gold'[p] - gold[p]
<1>2. /\ last \in Purses /\ pending \in Seq(Saves) /\ minted \in Nat /\ gold \in Purses
      /\ GoldOf(f) <= minted /\ f \in Purses
      /\ \A r \in Players : gold[r] \in 0..MaxMoney /\ gold[r] <= f[r] /\ last[r] <= f[r]
  BY <1>1, BooksAtHand
<1>3. gold' = [gold EXCEPT ![p] = Receive(gold[p], 1)] /\ minted' = minted + d /\ UNCHANGED <<dbGold, pending>>
  BY DEF Earn
<1>4. /\ gold' \in Purses /\ gold'[p] = Receive(gold[p], 1) /\ \A r \in Players \ {p} : gold'[r] = gold[r]
      /\ Receive(gold[p], 1) \in 0..MaxMoney
      /\ d \in Nat
  <2>1. Receive(gold[p], 1) \in 0..MaxMoney /\ Receive(gold[p], 1) - gold[p] \in Nat
    BY <1>2, TradeBoundsAssumption DEF Receive
  <2>2. gold' \in Purses /\ gold'[p] = Receive(gold[p], 1) /\ \A r \in Players \ {p} : gold'[r] = gold[r]
    BY <1>2, <1>3, <2>1 DEF Purses
  <2>. QED
    BY <2>1, <2>2
<1>5. gold'[p] = gold[p] + d
  BY <1>2, <1>4
<1> HIDE DEF last, d
<1>6. u \in Purses /\ \A r \in Players : u[r] = IF gold'[r] > last[r] THEN gold'[r] ELSE last[r]
  BY <1>2, <1>4, LargerFact
<1> HIDE DEF f, u
<1>7. \A r \in Players : gold[r] \in Nat /\ gold'[r] \in Nat /\ last[r] \in Nat /\ f[r] \in Nat
  BY <1>2, <1>4, TradeBoundsAssumption DEF Purses
<1>8. u[p] <= f[p] + d /\ \A r \in Players \ {p} : u[r] <= f[r]
  BY <1>2, <1>4, <1>5, <1>6, <1>7
<1>9. f \in [Players -> Nat] /\ u \in [Players -> Nat] /\ GoldOf(f) \in Nat /\ GoldOf(u) \in Nat
  BY <1>2, <1>6, PurseFact
<1>10. GoldOf(u) <= GoldOf(f) + d
  BY <1>4, <1>8, <1>9, GoldOfOne
<1>11. minted + d \in Nat /\ minted <= minted + d /\ GoldOf(u) <= minted + d
  BY <1>2, <1>4, <1>9, <1>10
<1>12. Ledger(h, dbGold, pending, gold', minted + d)
  BY <1>1, <1>2, <1>11, LedgerKept DEF u, last
<1>. QED
  BY <1>3, <1>12 DEF Books

\* A save of one player, whose gold is as it was.
LEMMA BooksSaved ==
  ASSUME Typed, Books, NEW P, NEW I, Saved(P, I), gold' = gold, owner' \in Holdings,
         UNCHANGED <<dbGold, minted>>
  PROVE  Books'
<1>1. PICK h : Ledger(h, dbGold, pending, gold, minted)
  BY DEF Books
<1> DEFINE last == h[Len(pending)]
           s == Save(P, I)
           next == Written(last, s.gold)
           f == Larger(gold, last)
           u == Larger(gold, next)
<1>2. /\ last \in Purses /\ pending \in Seq(Saves) /\ minted \in Nat /\ gold \in Purses
      /\ GoldOf(f) <= minted /\ f \in Purses
      /\ \A r \in Players : gold[r] \in 0..MaxMoney /\ gold[r] <= f[r] /\ last[r] <= f[r]
  BY <1>1, BooksAtHand
<1>3. s \in Saves /\ DOMAIN s.gold = P /\ (\A x \in P : s.gold[x] = gold[x]) /\ P \in SUBSET Players /\ pending' = Append(pending, s)
  BY <1>2, SaveFact DEF Saved
<1> HIDE DEF last, s
<1>4. next \in Purses /\ \A x \in Players : next[x] = IF x \in P THEN gold[x] ELSE last[x]
  <2>1. DOMAIN last = Players /\ DOMAIN s.gold = P /\ last = [x \in Players |-> last[x]]
    BY <1>2, <1>3 DEF Purses
  <2>2. \A x \in Players : next[x] = IF x \in P THEN gold[x] ELSE last[x]
    BY <1>3, <2>1 DEF Written
  <2>. QED
    BY <1>2, <2>1, <2>2 DEF Written, Purses
<1>5. next = Written(last, s.gold)
  OBVIOUS
<1> HIDE DEF next
<1>6. u \in Purses /\ \A r \in Players : u[r] = IF gold[r] > next[r] THEN gold[r] ELSE next[r]
  BY <1>2, <1>4, LargerFact
<1> HIDE DEF f, u
<1>7. \A r \in Players : u[r] <= f[r]
  BY <1>2, <1>4, <1>6
<1>8. GoldOf(u) <= GoldOf(f) /\ GoldOf(u) \in Nat /\ GoldOf(f) \in Nat
  BY <1>2, <1>6, <1>7, PurseMonotone, PurseFact
<1>9. GoldOf(u) <= minted
  BY <1>2, <1>8
<1>10. \E w : Ledger(w, dbGold, Append(pending, s), gold, minted)
  BY <1>1, <1>2, <1>3, <1>4, <1>5, <1>9, LedgerAppended DEF u, last
<1>. QED
  BY <1>3, <1>10 DEF Books

\* The gold of two players, saved together, is no more than it was.
LEMMA BooksExchange ==
  ASSUME IInv, Typed, Distinct, Books, NEW p \in Players, Exchange(p)
  PROVE  Books'
<1>1. PICK h : Ledger(h, dbGold, pending, gold, minted)
  BY DEF Books
<1> DEFINE q == With(p)
           last == h[Len(pending)]
           s == Save({p, q}, Inventory({p, q}))
           next == Written(last, s.gold)
           f == Larger(gold, last)
           u == Larger(gold', next)
<1>2. /\ last \in Purses /\ pending \in Seq(Saves) /\ minted \in Nat /\ gold \in Purses
      /\ GoldOf(f) <= minted /\ f \in Purses
      /\ \A r \in Players : gold[r] \in 0..MaxMoney /\ gold[r] <= f[r] /\ last[r] <= f[r]
  BY <1>1, BooksAtHand
<1>3. /\ q \in Players \ {p} /\ gold' \in Purses
      /\ trade[p].gold \in 0..gold[p] /\ trade[q].gold \in 0..gold[q]
      /\ \A r \in Players \ {p, q} : gold'[r] = gold[r]
      /\ gold'[p] = Receive(gold[p] - trade[p].gold, trade[q].gold)
      /\ gold'[q] = Receive(gold[q] - trade[q].gold, trade[p].gold)
  BY ExchangeFact DEF Typed, Dealing
<1>4. gold'[p] + gold'[q] <= gold[p] + gold[q]
  <2>1. gold[p] \in 0..MaxMoney /\ gold[q] \in 0..MaxMoney
    BY <1>2, <1>3
  <2>. QED
    BY <1>3, <2>1, TwoShares
<1>5. UNCHANGED <<dbGold, minted>> /\ owner' \in Holdings
  BY AssetsFact DEF Exchange, database, Next, HandleAcceptTrade, Assets
<1>6. /\ s \in Saves /\ DOMAIN s.gold = {p, q} /\ (\A x \in {p, q} : s.gold[x] = gold'[x])
      /\ pending' = Append(pending, s)
  BY <1>3, <1>5, SaveFact, SavedFact DEF Saved, Inventory
<1> HIDE DEF last, s, q
<1>7. next \in Purses /\ \A x \in Players : next[x] = IF x \in {p, q} THEN gold'[x] ELSE last[x]
  <2>1. DOMAIN last = Players /\ DOMAIN s.gold = {p, q} /\ last = [x \in Players |-> last[x]]
    BY <1>2, <1>6 DEF Purses
  <2>2. \A x \in Players : next[x] = IF x \in {p, q} THEN gold'[x] ELSE last[x]
    BY <1>6, <2>1 DEF Written
  <2>. QED
    BY <1>2, <1>3, <2>1, <2>2 DEF Written, Purses
<1>8. next = Written(last, s.gold)
  OBVIOUS
<1> HIDE DEF next
<1>9. u \in Purses /\ \A r \in Players : u[r] = IF gold'[r] > next[r] THEN gold'[r] ELSE next[r]
  BY <1>3, <1>7, LargerFact
<1> HIDE DEF f, u
<1>10. u[p] + u[q] <= f[p] + f[q] /\ \A r \in Players \ {p, q} : u[r] <= f[r]
  <2>1. \A r \in Players : gold'[r] \in Nat /\ gold[r] \in Nat /\ f[r] \in Nat /\ last[r] \in Nat
    BY <1>2, <1>3, TradeBoundsAssumption DEF Purses
  <2>2. u[p] = gold'[p] /\ u[q] = gold'[q]
    BY <1>3, <1>7, <1>9, <2>1
  <2>3. \A r \in Players \ {p, q} : u[r] <= f[r]
    BY <1>2, <1>3, <1>7, <1>9, <2>1
  <2>4. gold[p] <= f[p] /\ gold[q] <= f[q]
    BY <1>2, <1>3
  <2>5. u[p] + u[q] <= f[p] + f[q]
    BY <1>3, <1>4, <2>1, <2>2, <2>4
  <2>. QED
    BY <2>3, <2>5
<1>11. f \in [Players -> Nat] /\ u \in [Players -> Nat] /\ GoldOf(f) \in Nat /\ GoldOf(u) \in Nat
  BY <1>2, <1>9, PurseFact
<1>12. GoldOf(u) <= GoldOf(f)
  BY <1>3, <1>10, <1>11, GoldOfTwo
<1>13. GoldOf(u) <= minted
  BY <1>2, <1>11, <1>12
<1>14. \E w : Ledger(w, dbGold, Append(pending, s), gold', minted)
  BY <1>1, <1>2, <1>3, <1>6, <1>7, <1>8, <1>13, LedgerAppended DEF u, last
<1>. QED
  BY <1>5, <1>6, <1>14 DEF Books

LEMMA BooksFact ==
  ASSUME IInv, Typed, Distinct, Books, [Next]_vars
  PROVE  Books'
<1>1. Typed' /\ Assets'
  BY TypedFact DEF Typed
<1>2. ASSUME UNCHANGED <<gold, dbGold, pending, minted>> PROVE Books'
  BY <1>2 DEF Books
<1>3. ASSUME NEW p \in Players, Idle(p) PROVE Books'
  BY <1>2, <1>3, IdleFact
<1>4. ASSUME NEW p \in Players, Exchange(p) PROVE Books'
  BY <1>4, BooksExchange
<1>5. ASSUME NEW p \in Players, Logout(p) \/ SendItem(p) PROVE Books'
  <2>1. gold' = gold /\ UNCHANGED <<dbGold, minted>> /\ owner' \in Holdings
    BY <1>1, <1>5 DEF Logout, SendItem, database, Assets
  <2>2. \E P, I : Saved(P, I)
    BY <1>5, SavedFact
  <2>. QED
    BY <2>1, <2>2, BooksSaved
<1>6. ASSUME NEW p \in Players, Login(p) PROVE Books'
  <2>1. /\ UNCHANGED <<dbGold, pending, minted>> /\ gold' \in Purses
        /\ \A n \in DOMAIN pending : p \notin DOMAIN pending[n].gold
    BY <1>1, <1>6 DEF Login, database, Assets
  <2>2. gold'[p] = dbGold[p] /\ \A r \in Players \ {p} : gold'[r] = gold[r]
    BY <1>6 DEF Login, Typed, Assets, Purses
  <2>3. \A r \in Players : gold'[r] \in Nat
    BY <2>1, TradeBoundsAssumption DEF Purses
  <2>4. ASSUME NEW h, Ledger(h, dbGold, pending, gold, minted), NEW r \in Players
        PROVE  gold'[r] <= gold[r] \/ gold'[r] <= h[Len(pending)][r]
    <3>1. h[Len(pending)][p] = dbGold[p]
      BY <2>1, <2>4, LedgerUntouched DEF Typed
    <3>2. r # p => gold'[r] <= gold[r]
      BY <2>2, <2>3
    <3>3. r = p => gold'[r] <= h[Len(pending)][r]
      BY <2>2, <2>3, <3>1
    <3>. QED
      BY <3>2, <3>3
  <2>. QED
    BY <2>1, <2>4, BooksLess
<1>7. ASSUME NEW p \in Players, Spend(p) PROVE Books'
  <2>1. UNCHANGED <<dbGold, pending, minted>> /\ gold' \in Purses /\ gold' = [gold EXCEPT ![p] = Pay(gold[p], 1)]
    BY <1>1, <1>7 DEF Spend, database, Assets
  <2>2. \A r \in Players : gold[r] \in 0..MaxMoney
    BY DEF Typed, Assets, Purses
  <2>3. Pay(gold[p], 1) <= gold[p]
    BY <2>2, TradeBoundsAssumption DEF Pay
  <2>4. \A r \in Players : gold'[r] <= gold[r]
    BY <2>1, <2>2, <2>3, TradeBoundsAssumption DEF Typed, Assets, Purses
  <2>. QED
    BY <2>1, <2>4, BooksLess
<1>8. ASSUME NEW p \in Players, Earn(p) PROVE Books'
  BY <1>8, BooksEarn
<1>9. ASSUME ExecuteSave PROVE Books'
  <2>1. PICK h : Ledger(h, dbGold, pending, gold, minted)
    BY DEF Books
  <2>2. \E w : Ledger(w, Written(dbGold, Head(pending).gold), Tail(pending), gold, minted)
    BY <1>9, <2>1, LedgerExecuted DEF ExecuteSave, Typed
  <2>. QED
    BY <1>9, <2>2 DEF ExecuteSave, Books
<1>10. ASSUME Crash PROVE Books'
  <2>1. dbGold \in Purses /\ GoldOf(dbGold) \in Nat
    BY PurseFact DEF Typed, Assets
  <2>2. GoldOf(dbGold) <= GoldOf(dbGold)
    BY <2>1
  <2>3. \E w : Ledger(w, dbGold, <<>>, dbGold, GoldOf(dbGold))
    BY <2>1, <2>2, LedgerClosed
  <2>. QED
    BY <1>10, <2>3 DEF Crash, Books
<1>11. ASSUME UNCHANGED vars PROVE Books'
  BY <1>2, <1>11 DEF vars
<1>. QED
  BY <1>3, <1>4, <1>5, <1>6, <1>7, <1>8, <1>9, <1>10, <1>11, StepFact

LEMMA BooksInit == Init => Books
<1> SUFFICES ASSUME Init PROVE Books
  OBVIOUS
<1>1. dbGold \in Purses /\ gold = dbGold /\ pending = <<>> /\ minted = GoldOf(dbGold)
  BY TypedInit DEF Init, Typed, Assets
<1>2. GoldOf(dbGold) <= GoldOf(dbGold)
  BY <1>1, PurseFact
<1>3. \E w : Ledger(w, dbGold, <<>>, dbGold, GoldOf(dbGold))
  BY <1>1, <1>2, LedgerClosed
<1>. QED
  BY <1>1, <1>3 DEF Books

-----------------------------------------------------------------------------
(* The theorems.                                                           *)

AInv == IInv /\ Typed /\ Distinct /\ Books

LEMMA AssetsInit == Init => AInv
<1>1. Init => Distinct
  BY DEF Init, Distinct
<1>. QED
  BY <1>1, InitFact, TypedInit, BooksInit DEF AInv

LEMMA AssetsNext ==
  ASSUME AInv, [Next]_vars
  PROVE  AInv'
<1>1. IInv' /\ Typed' /\ Books'
  BY NextFact, TypedFact, BooksFact DEF AInv
<1>2. Distinct'
  BY DistinctFact DEF AInv, Typed, Assets, Holdings
<1>. QED
  BY <1>1, <1>2 DEF AInv

\* What trades, saves and crashes keep together: the two sides of a trade, the type of every
\* table and save, an item in one slot of a window, and books that balance.
THEOREM AssetsInductive == Spec => []AInv
<1>1. Init => AInv
  BY AssetsInit
<1>2. AInv /\ [Next]_vars => AInv'
  BY AssetsNext
<1>. QED
  BY <1>1, <1>2, PTL DEF Spec

\* TradeData, the coinage, the owners, what waits to be saved and the two tables are what
\* the code takes them for, for any number of players, items and slots.
THEOREM TradeTypes == Spec => []TradeTypeOK
<1>1. AInv => TradeTypeOK
  BY TypedIsType DEF AInv
<1>. QED
  BY <1>1, AssetsInductive, PTL

\* However trades, sales, logouts and logins are mixed and wherever a crash cuts the queue
\* of saves short, table characters never holds more gold than there was when the server
\* started and has been earned since: both traders are saved in one transaction.
THEOREM NothingMinted == Spec => []DbMintsNothing
<1>1. AInv => DbMintsNothing
  <2> SUFFICES ASSUME AInv PROVE DbMintsNothing
    OBVIOUS
  <2>1. PICK h : Ledger(h, dbGold, pending, gold, minted)
    BY DEF AInv, Books
  <2>2. Len(pending) \in Nat
    BY DEF AInv, Typed
  <2>3. h[0] = dbGold /\ GoldOf(h[0]) <= minted
    BY <2>1, <2>2 DEF Ledger
  <2>. QED
    BY <2>3 DEF DbMintsNothing
<1>. QED
  BY <1>1, AssetsInductive, PTL

\* Only an exchange completes a trade.
LEMMA CompletedFact ==
  ASSUME AInv, [Next]_vars, NEW p \in Players, Completed(p)
  PROVE  \E a \in Players : Exchange(a) /\ p \in {a, With(a)}
<1>1. /\ trade[p] # None /\ trade'[p] = None /\ Len(pending') > Len(pending)
      /\ gold' # gold \/ owner' # owner
  BY DEF Completed
<1>2. Len(pending) \in Nat /\ ~(Len(pending) > Len(pending))
  BY DEF AInv, Typed
<1>3. \A r \in Players : ~Idle(r)
  BY <1>1, <1>2, IdleFact
<1>4. \A r \in Players : ~Login(r) /\ ~Spend(r) /\ ~Earn(r) /\ ~SendItem(r) /\ ~Logout(r)
  BY <1>1 DEF Login, Spend, Earn, SendItem, Logout
<1>5. ~ExecuteSave /\ ~Crash /\ ~UNCHANGED vars
  <2>1. ~ExecuteSave /\ ~UNCHANGED vars
    BY <1>1 DEF ExecuteSave, vars
  <2>2. Crash => Len(pending') = 0
    BY DEF Crash
  <2>. QED
    BY <1>1, <1>2, <2>1, <2>2
<1>6. PICK a \in Players : Exchange(a)
  BY <1>3, <1>4, <1>5, StepFact
<1>7. \A r \in Players \ {a, With(a)} : trade'[r] = trade[r]
  BY <1>6, ExchangeFact DEF AInv, Typed
<1>. QED
  BY <1>1, <1>6, <1>7

\* For any number of players, items and slots: who completes a trade gets the gold and the
\* items the other side had offered and still has, cut off at the cap, and loses his own
\* offer; everything else stays, and one of them had accepted before (moveItems never takes
\* its branch for full bags once CanStoreItems has let the trade through).
THEOREM ExchangeIsFair == Spec => FairExchange
<1>1. ASSUME AInv, [Next]_vars, NEW p \in Players, Completed(p)
      PROVE  LET q   == With(p)
                 sum == gold[p] - trade[p].gold + trade[q].gold
             IN  /\ trade[p].accepted \/ trade[q].accepted
                 /\ gold'[p] = IF sum > MaxMoney THEN MaxMoney ELSE sum
                 /\ \A i \in Items : owner'[i] = IF i \in Offered(p) THEN q
                                                 ELSE IF i \in Offered(q) THEN p ELSE owner[i]
  <2>1. PICK a \in Players : Exchange(a) /\ p \in {a, With(a)}
    BY <1>1, CompletedFact
  <2>. QED
    BY <1>1, <2>1, FairFact DEF AInv, Typed
<1>2. AInv /\ [Next]_vars => \A p \in Players : Completed(p) =>
             LET q   == With(p)
                 sum == gold[p] - trade[p].gold + trade[q].gold
             IN  /\ trade[p].accepted \/ trade[q].accepted
                 /\ gold'[p] = IF sum > MaxMoney THEN MaxMoney ELSE sum
                 /\ \A i \in Items : owner'[i] = IF i \in Offered(p) THEN q
                                                 ELSE IF i \in Offered(q) THEN p ELSE owner[i]
  BY <1>1
<1>. QED
  BY <1>2, AssetsInductive, PTL DEF Spec, FairExchange
=============================================================================
