---------------------------- MODULE TradeProofs ----------------------------
(***************************************************************************)
(* What a trade relies on, for any number of players, items and spells:    *)
(* the two sides of a trade point at each other, and an acceptance is for  *)
(* what the window of its player shows.                                    *)
(***************************************************************************)
EXTENDS Trade, TLAPS

TradeShape == trade \in [Players -> TradeData \union {None}]

IInv == TradeShape /\ TradeSymmetric /\ AcceptedAsShown

\* p and q trade with each other in t.
Pair(t, p, q) == /\ t \in [Players -> TradeData \union {None}]
                 /\ t[p] # None /\ t[q] # None /\ p # q
                 /\ t[p].with = q /\ t[q].with = p

\* p and q still trade with each other in u, and nobody else's trade is touched.
Dealt(t, u, p, q) == Pair(u, p, q) /\ \A r \in Players \ {p, q} : u[r] = t[r]

\* Neither of them has accepted.
Silent(t, p, q) == t[p].accepted = FALSE /\ t[q].accepted = FALSE

\* No offer has changed, and only who has.
SameOffers(t, u, p, q, who) ==
    \A x \in {p, q} : /\ Offer(u[x]) = Offer(t[x])
                      /\ u[x].accepted = TRUE /\ x # who => t[x].accepted = TRUE

-----------------------------------------------------------------------------
(* The helpers of TradeData.                                               *)

LEMMA UnacceptFact ==
  ASSUME NEW t, NEW p \in Players, NEW q \in Players, Pair(t, p, q)
  PROVE  Dealt(t, Unaccept(t, p), p, q) /\ Silent(Unaccept(t, p), p, q)
<1> DEFINE u == [t EXCEPT ![p].accepted = FALSE, ![q].accepted = FALSE]
<1>1. Unaccept(t, p) = u
  BY DEF Unaccept, Pair
<1>2. /\ u[p] = [t[p] EXCEPT !.accepted = FALSE]
      /\ u[q] = [t[q] EXCEPT !.accepted = FALSE]
      /\ \A r \in Players \ {p, q} : u[r] = t[r]
      /\ DOMAIN u = Players
  BY DEF Pair
<1>3. t[p] \in TradeData /\ t[q] \in TradeData
  BY DEF Pair
<1>4. /\ u[p] \in TradeData /\ u[p].with = q /\ u[p].accepted = FALSE
      /\ u[q] \in TradeData /\ u[q].with = p /\ u[q].accepted = FALSE
  BY <1>2, <1>3 DEF TradeData, Pair
<1>5. u \in [Players -> TradeData \union {None}]
  BY <1>2, <1>4 DEF Pair
<1>. QED
  BY <1>1, <1>2, <1>4, <1>5, TradeNoneAssumption DEF Dealt, Silent, Pair

\* A change of p's own side leaves the pair as it is.
LEMMA PutFact ==
  ASSUME NEW t, NEW p \in Players, NEW q \in Players, Pair(t, p, q),
         NEW d \in TradeData, d.with = q, NEW u, u = [t EXCEPT ![p] = d]
  PROVE  Pair(u, p, q) /\ u[p] = d /\ \A r \in Players \ {p} : u[r] = t[r]
  BY TradeNoneAssumption DEF Pair

LEMMA ChangeFact ==
  ASSUME NEW t, NEW p \in Players, NEW q \in Players, Pair(t, p, q),
         NEW d \in TradeData, d.with = q
  PROVE  LET u == [t EXCEPT ![p] = d]
         IN  Dealt(t, Unaccept(u, p), p, q) /\ Silent(Unaccept(u, p), p, q)
<1> DEFINE u == [t EXCEPT ![p] = d]
<1>1. Pair(u, p, q) /\ \A r \in Players \ {p} : u[r] = t[r]
  BY PutFact
<1>2. Dealt(u, Unaccept(u, p), p, q) /\ Silent(Unaccept(u, p), p, q)
  BY <1>1, UnacceptFact
<1>. QED
  BY <1>1, <1>2 DEF Dealt

LEMMA SetSpellFact ==
  ASSUME NEW t, NEW p \in Players, NEW q \in Players, Pair(t, p, q),
         NEW spell \in Spells \union {None}
  PROVE  /\ Dealt(t, SetSpell(t, p, spell), p, q)
         /\ SetSpell(t, p, spell) = t \/ Silent(SetSpell(t, p, spell), p, q)
<1> DEFINE d == [t[p] EXCEPT !.spell = spell]
<1>1. CASE t[p].spell = spell
  BY <1>1 DEF SetSpell, Dealt
<1>2. CASE t[p].spell # spell
  <2>1. d \in TradeData /\ d.with = q
    BY DEF Pair, TradeData
  <2>2. SetSpell(t, p, spell) = Unaccept([t EXCEPT ![p] = d], p)
    BY <1>2 DEF SetSpell
  <2>. QED
    BY <2>1, <2>2, ChangeFact
<1>. QED
  BY <1>1, <1>2

LEMMA SetMoneyFact ==
  ASSUME NEW t, NEW p \in Players, NEW q \in Players, Pair(t, p, q),
         NEW money \in 0..MaxMoney
  PROVE  /\ Dealt(t, SetMoney(t, p, money), p, q)
         /\ SetMoney(t, p, money) = t \/ Silent(SetMoney(t, p, money), p, q)
<1> DEFINE d == [t[p] EXCEPT !.gold = money]
<1>1. CASE t[p].gold = money \/ money > gold[p]
  BY <1>1 DEF SetMoney, Dealt
<1>2. CASE ~(t[p].gold = money \/ money > gold[p])
  <2>1. d \in TradeData /\ d.with = q
    BY DEF Pair, TradeData
  <2>2. SetMoney(t, p, money) = Unaccept([t EXCEPT ![p] = d], p)
    BY <1>2 DEF SetMoney
  <2>. QED
    BY <2>1, <2>2, ChangeFact
<1>. QED
  BY <1>1, <1>2

\* Both spells that can be forgotten with an item: acceptances stay withdrawn.
LEMMA SetSpellSilent ==
  ASSUME NEW t, NEW p \in Players, NEW q \in Players, Pair(t, p, q), Silent(t, p, q),
         NEW spell \in Spells \union {None}
  PROVE  Dealt(t, SetSpell(t, p, spell), p, q) /\ Silent(SetSpell(t, p, spell), p, q)
  BY SetSpellFact

LEMMA SetItemFact ==
  ASSUME NEW t, NEW p \in Players, NEW q \in Players, Pair(t, p, q),
         NEW slot \in Slots, NEW i \in Items \union {None}
  PROVE  /\ Dealt(t, SetItem(t, p, slot, i), p, q)
         /\ SetItem(t, p, slot, i) = t \/ Silent(SetItem(t, p, slot, i), p, q)
<1> DEFINE d == [t[p] EXCEPT !.item = [@ EXCEPT ![slot] = i]]
           set == Unaccept([t EXCEPT ![p] = d], p)
           open == IF slot = NonTraded THEN SetSpell(set, q, None) ELSE set
<1>1. CASE t[p].item[slot] = i
  BY <1>1 DEF SetItem, Dealt
<1>2. CASE t[p].item[slot] # i
  <2>1. d \in TradeData /\ d.with = q
    BY DEF Pair, TradeData
  <2>2. Dealt(t, set, p, q) /\ Silent(set, p, q)
    BY <2>1, ChangeFact
  <2>3. Dealt(set, open, p, q) /\ Silent(open, p, q)
    <3>1. Pair(set, q, p) /\ Silent(set, q, p)
      BY <2>2 DEF Dealt, Pair, Silent
    <3>2. Dealt(set, SetSpell(set, q, None), q, p) /\ Silent(SetSpell(set, q, None), q, p)
      BY <3>1, SetSpellSilent
    <3>. QED
      BY <2>2, <3>2 DEF Dealt, Pair, Silent
  <2>4. Dealt(open, SetSpell(open, p, None), p, q) /\ Silent(SetSpell(open, p, None), p, q)
    <3> HIDE DEF open
    <3>1. Pair(open, p, q) /\ Silent(open, p, q)
      BY <2>3 DEF Dealt
    <3>. QED
      BY <3>1, SetSpellSilent
  <2>5. SetItem(t, p, slot, i) = SetSpell(open, p, None)
    BY <1>2 DEF SetItem, Pair
  <2>. QED
    BY <2>2, <2>3, <2>4, <2>5 DEF Dealt
<1>. QED
  BY <1>1, <1>2

-----------------------------------------------------------------------------
(* Steps of a trade that goes on, and of one that ends.                    *)

LEMMA PartnerFact ==
  ASSUME IInv, NEW p \in Players, Trading(p)
  PROVE  /\ With(p) \in Players /\ Pair(trade, p, With(p))
         /\ \A r \in Players \ {p, With(p)} : trade[r] # None => With(r) \notin {p, With(p)}
<1>1. trade[p] \in TradeData /\ With(p) \in Players
  BY DEF IInv, TradeShape, Trading, With, TradeData
<1>. QED
  BY <1>1 DEF IInv, TradeShape, TradeSymmetric, Trading, With, Pair

\* Agree, of one of the two or of nobody.
LEMMA AgreeFact ==
  ASSUME NEW who, Agree(who)
  PROVE  \A r \in Players : trade'[r] # None /\ trade'[r].accepted = TRUE =>
             agreed'[r] = IF r = who THEN Window(trade', r) ELSE agreed[r]
  BY DEF Agree

LEMMA PairStep ==
  ASSUME IInv, NEW p \in Players, Trading(p), NEW who \in {p, None}, Agree(who), online' = online,
         Dealt(trade, trade', p, With(p)),
         Silent(trade', p, With(p)) \/ SameOffers(trade, trade', p, With(p), who)
  PROVE  IInv'
<1> DEFINE q == With(p)
<1>1. q \in Players /\ Pair(trade, p, q) /\ Pair(trade', p, q)
  BY PartnerFact DEF Dealt
<1>2. \A r \in Players \ {p, q} : /\ trade'[r] = trade[r]
                                  /\ trade[r] # None => With(r) \notin {p, q} /\ With(r) \in Players
  BY PartnerFact DEF Dealt, IInv, TradeShape, With, TradeData
<1>3. TradeShape'
  BY <1>1 DEF TradeShape, Pair
<1>4. TradeSymmetric'
  <2> SUFFICES ASSUME NEW r \in Players, trade'[r] # None
               PROVE  /\ r \in online /\ With(r)' \in online /\ With(r)' # r
                      /\ trade'[With(r)'] # None /\ trade'[With(r)'].with = r
    BY DEF TradeSymmetric, With
  <2>1. CASE r \in {p, q}
    BY <1>1, <2>1 DEF Pair, With, IInv, TradeSymmetric
  <2>2. CASE r \notin {p, q}
    BY <1>2, <2>2 DEF With, IInv, TradeSymmetric
  <2>. QED
    BY <2>1, <2>2
<1>5. AcceptedAsShown'
  <2> SUFFICES ASSUME NEW r \in Players, trade'[r] # None, trade'[r].accepted = TRUE
               PROVE  agreed'[r] = Window(trade', r)
    BY DEF AcceptedAsShown
  <2>1. CASE r = who
    BY <2>1, AgreeFact
  <2>2. CASE r # who /\ r \in {p, q}
    <3>1. SameOffers(trade, trade', p, q, who)
      BY <2>2 DEF Silent
    <3>2. trade[r] # None /\ trade[r].accepted = TRUE /\ agreed'[r] = agreed[r]
      BY <2>2, <3>1, <1>1, AgreeFact DEF SameOffers, Pair
    <3>3. agreed[r] = Window(trade, r)
      BY <3>2 DEF IInv, AcceptedAsShown
    <3>4. Window(trade', r) = Window(trade, r)
      BY <2>2, <3>1, <1>1 DEF Window, SameOffers, Pair
    <3>. QED
      BY <3>2, <3>3, <3>4
  <2>3. CASE r # who /\ r \notin {p, q}
    <3>1. agreed'[r] = agreed[r] /\ trade[r] = trade'[r]
      BY <2>3, <1>2, AgreeFact
    <3>2. agreed[r] = Window(trade, r)
      BY <3>1 DEF IInv, AcceptedAsShown
    <3>3. Window(trade', r) = Window(trade, r)
      BY <1>2, <2>3, <3>1 DEF Window, With
    <3>. QED
      BY <3>1, <3>2, <3>3
  <2>. QED
    BY <2>1, <2>2, <2>3
<1>. QED
  BY <1>3, <1>4, <1>5 DEF IInv

LEMMA EndStep ==
  ASSUME IInv, NEW p \in Players, Trading(p), Agree(None),
         trade' = EndTrade(p), online \ {p} \subseteq online'
  PROVE  IInv'
<1> DEFINE q == With(p)
<1>1. q \in Players /\ Pair(trade, p, q)
  BY PartnerFact
<1>2. /\ trade'[p] = None /\ trade'[q] = None
      /\ \A r \in Players \ {p, q} : trade'[r] = trade[r]
      /\ TradeShape'
  BY <1>1 DEF EndTrade, TradeShape, Pair
<1>3. \A r \in Players : trade'[r] # None =>
         /\ r \notin {p, q} /\ trade[r] = trade'[r]
         /\ With(r) \in Players \ {p, q} /\ trade'[With(r)] = trade[With(r)]
  BY <1>2, PartnerFact DEF IInv, TradeShape, With, TradeData
<1>4. TradeSymmetric'
  BY <1>3 DEF IInv, TradeSymmetric, With
<1>5. AcceptedAsShown'
  <2> SUFFICES ASSUME NEW r \in Players, trade'[r] # None, trade'[r].accepted = TRUE
               PROVE  agreed'[r] = Window(trade', r)
    BY DEF AcceptedAsShown
  <2>1. agreed'[r] = agreed[r]
    BY AgreeFact, TradeSetsAssumption
  <2>2. agreed[r] = Window(trade, r)
    BY <1>3 DEF IInv, AcceptedAsShown
  <2>3. Window(trade', r) = Window(trade, r)
    BY <1>3 DEF Window, With
  <2>. QED
    BY <2>1, <2>2, <2>3
<1>. QED
  BY <1>2, <1>4, <1>5 DEF IInv

-----------------------------------------------------------------------------
(* The actions.                                                            *)

LEMMA InitFact == Init => IInv
  BY DEF Init, IInv, TradeShape, TradeSymmetric, AcceptedAsShown

\* Neither trades before, so neither is anybody's partner.
LEMMA InitiateFact ==
  ASSUME IInv, NEW p \in Players, NEW q \in Players, HandleInitiateTrade(p, q)
  PROVE  IInv'
<1>1. /\ p # q /\ {p, q} \subseteq online /\ online' = online
      /\ trade[p] = None /\ trade[q] = None /\ Agree(None)
      /\ trade' = [trade EXCEPT ![p] = NewTrade(q), ![q] = NewTrade(p)]
  BY DEF HandleInitiateTrade, CanInitiate
<1>2. \A a \in Players : NewTrade(a) \in TradeData /\ NewTrade(a).with = a /\ NewTrade(a).accepted = FALSE
  BY TradeBoundsAssumption DEF NewTrade, TradeData
<1>3. /\ Pair(trade', p, q) /\ Silent(trade', p, q)
      /\ \A r \in Players \ {p, q} : trade'[r] = trade[r]
  BY <1>1, <1>2, TradeNoneAssumption DEF IInv, TradeShape, Pair, Silent
<1>4. \A r \in Players \ {p, q} : trade[r] # None => With(r) \in Players \ {p, q}
  BY <1>1 DEF IInv, TradeShape, TradeSymmetric, With, TradeData
<1>5. TradeShape'
  BY <1>3 DEF TradeShape, Pair
<1>6. TradeSymmetric'
  <2> SUFFICES ASSUME NEW r \in Players, trade'[r] # None
               PROVE  /\ r \in online /\ With(r)' \in online /\ With(r)' # r
                      /\ trade'[With(r)'] # None /\ trade'[With(r)'].with = r
    BY <1>1 DEF TradeSymmetric, With
  <2>1. CASE r \in {p, q}
    BY <1>1, <1>3, <2>1 DEF Pair, With
  <2>2. CASE r \notin {p, q}
    BY <1>3, <1>4, <2>2 DEF With, IInv, TradeSymmetric
  <2>. QED
    BY <2>1, <2>2
<1>7. AcceptedAsShown'
  <2> SUFFICES ASSUME NEW r \in Players, trade'[r] # None, trade'[r].accepted = TRUE
               PROVE  agreed'[r] = Window(trade', r)
    BY DEF AcceptedAsShown
  <2>1. r \notin {p, q} /\ trade'[r] = trade[r]
    BY <1>3 DEF Silent
  <2>2. agreed'[r] = agreed[r]
    BY <1>1, AgreeFact, TradeSetsAssumption
  <2>3. agreed[r] = Window(trade, r)
    BY <2>1 DEF IInv, AcceptedAsShown
  <2>4. Window(trade', r) = Window(trade, r)
    BY <1>3, <1>4, <2>1 DEF Window, With
  <2>. QED
    BY <2>2, <2>3, <2>4
<1>. QED
  BY <1>5, <1>6, <1>7 DEF IInv

\* A change of p's offer withdraws both acceptances, unless nothing is changed.
LEMMA OfferSteps ==
  ASSUME IInv, NEW p \in Players,
         HandleSetTradeGold(p) \/ HandleSetTradeItem(p) \/ HandleClearTradeItem(p) \/ CastOnTradeSlot(p)
  PROVE  IInv'
<1>1. Trading(p) /\ Agree(None) /\ online' = online
  BY DEF HandleSetTradeGold, HandleSetTradeItem, HandleClearTradeItem, CastOnTradeSlot
<1>2. With(p) \in Players /\ Pair(trade, p, With(p))
  BY <1>1, PartnerFact
<1>3. /\ Dealt(trade, trade', p, With(p))
      /\ trade' = trade \/ Silent(trade', p, With(p))
  <2>1. CASE HandleSetTradeGold(p)
    BY <1>2, <2>1, SetMoneyFact DEF HandleSetTradeGold
  <2>2. CASE HandleSetTradeItem(p)
    BY <1>2, <2>2, SetItemFact DEF HandleSetTradeItem
  <2>3. CASE HandleClearTradeItem(p)
    BY <1>2, <2>3, SetItemFact DEF HandleClearTradeItem
  <2>4. CASE CastOnTradeSlot(p)
    BY <1>2, <2>4, SetSpellFact DEF CastOnTradeSlot
  <2>. QED
    BY <2>1, <2>2, <2>3, <2>4
<1>4. trade' = trade => SameOffers(trade, trade', p, With(p), None)
  BY DEF SameOffers
<1>. QED
  BY <1>1, <1>3, <1>4, PairStep

\* The flag of p only is another in u.
Flagged(t, u, p, q) == /\ Dealt(t, u, p, q) /\ u[q] = t[q]
                       /\ Offer(u[p]) = Offer(t[p])

LEMMA AcceptFact ==
  ASSUME NEW t, NEW p \in Players, NEW q \in Players, Pair(t, p, q),
         NEW u, u = [t EXCEPT ![p].accepted = TRUE]
  PROVE  Flagged(t, u, p, q)
<1> DEFINE d == [t[p] EXCEPT !.accepted = TRUE]
<1>1. d \in TradeData /\ d.with = q
  BY DEF Pair, TradeData
<1>2. Offer(d) = Offer(t[p])
  BY DEF Pair, TradeData, Offer
<1>3. u[p] = d /\ (\A r \in Players \ {p} : u[r] = t[r]) /\ DOMAIN u = Players
  BY DEF Pair
<1>4. Pair(u, p, q)
  <2> HIDE DEF d
  <2>1. u \in [Players -> TradeData \union {None}]
    <3>1. \A r \in Players : u[r] \in TradeData \union {None}
      BY <1>1, <1>3 DEF Pair
    <3>2. u = [r \in Players |-> u[r]]
      BY <1>3
    <3>. QED
      BY <3>1, <3>2
  <2>. QED
    BY <1>1, <1>3, <2>1, TradeNoneAssumption DEF Pair
<1>. QED
  BY <1>2, <1>3, <1>4 DEF Flagged, Dealt, Pair

LEMMA WithdrawFact ==
  ASSUME NEW t, NEW p \in Players, NEW q \in Players, Pair(t, p, q),
         NEW u, u = [t EXCEPT ![p].accepted = FALSE]
  PROVE  Flagged(t, u, p, q) /\ u[p].accepted = FALSE
<1> DEFINE d == [t[p] EXCEPT !.accepted = FALSE]
<1>1. d \in TradeData /\ d.with = q
  BY DEF Pair, TradeData
<1>2. Offer(d) = Offer(t[p])
  BY DEF Pair, TradeData, Offer
<1>3. u[p] = d /\ (\A r \in Players \ {p} : u[r] = t[r]) /\ DOMAIN u = Players
  BY DEF Pair
<1>4. Pair(u, p, q)
  <2> HIDE DEF d
  <2>1. u \in [Players -> TradeData \union {None}]
    <3>1. \A r \in Players : u[r] \in TradeData \union {None}
      BY <1>1, <1>3 DEF Pair
    <3>2. u = [r \in Players |-> u[r]]
      BY <1>3
    <3>. QED
      BY <3>1, <3>2
  <2>. QED
    BY <1>1, <1>3, <2>1, TradeNoneAssumption DEF Pair
<1>5. d.accepted = FALSE
  BY DEF Pair, TradeData
<1>. QED
  BY <1>2, <1>3, <1>4, <1>5 DEF Flagged, Dealt, Pair

\* An acceptance that is given, withdrawn, or kept although the trade is not made.
LEMMA FlagSteps ==
  ASSUME IInv, NEW p \in Players,
         HandleUnaccept(p) \/ AcceptRefused(p) \/ AcceptUntradable(p) \/ AcceptFirst(p)
  PROVE  IInv'
<1>1. With(p) \in Players /\ Pair(trade, p, With(p)) /\ Trading(p) /\ online' = online
  BY PartnerFact DEF HandleUnaccept, AcceptRefused, AcceptUntradable, AcceptFirst
<1>2. CASE HandleUnaccept(p) \/ AcceptRefused(p)
  <2>1. trade' = [trade EXCEPT ![p].accepted = FALSE] /\ Agree(None)
    BY <1>2 DEF HandleUnaccept, AcceptRefused
  <2>2. Flagged(trade, trade', p, With(p)) /\ trade'[p].accepted = FALSE
    BY <1>1, <2>1, WithdrawFact
  <2>3. Dealt(trade, trade', p, With(p)) /\ SameOffers(trade, trade', p, With(p), None)
    BY <2>2 DEF SameOffers, Flagged
  <2>. QED
    BY <1>1, <2>1, <2>3, PairStep
<1>3. CASE AcceptUntradable(p) \/ AcceptFirst(p)
  <2>1. trade' = [trade EXCEPT ![p].accepted = TRUE] /\ Agree(p)
    BY <1>3 DEF AcceptUntradable, AcceptFirst, Accepting
  <2>2. Flagged(trade, trade', p, With(p))
    BY <1>1, <2>1, AcceptFact
  <2>3. Dealt(trade, trade', p, With(p)) /\ SameOffers(trade, trade', p, With(p), p)
    BY <2>2 DEF SameOffers, Flagged
  <2>. QED
    BY <1>1, <2>1, <2>3, PairStep
<1>. QED
  BY <1>2, <1>3

\* p accepts, and the partner, who cannot pay, is taken back.
LEMMA PartnerPoorFact ==
  ASSUME IInv, NEW p \in Players, AcceptPartnerPoor(p)
  PROVE  IInv'
<1> DEFINE q == With(p)
           t == [trade EXCEPT ![p].accepted = TRUE]
<1>1. q \in Players /\ Pair(trade, p, q) /\ Trading(p) /\ online' = online /\ Agree(p)
  BY PartnerFact DEF AcceptPartnerPoor
<1>2. trade' = [t EXCEPT ![q].accepted = FALSE]
  BY DEF AcceptPartnerPoor, Accepting
<1>3. Flagged(trade, t, p, q)
  BY <1>1, AcceptFact
<1> HIDE DEF t
<1>4. Pair(t, q, p)
  BY <1>3 DEF Flagged, Dealt, Pair
<1>5. Flagged(t, trade', q, p) /\ trade'[q].accepted = FALSE
  BY <1>1, <1>2, <1>4, WithdrawFact
<1>6. Dealt(trade, trade', p, q)
  BY <1>3, <1>5 DEF Flagged, Dealt, Pair
<1>7. SameOffers(trade, trade', p, q, p)
  BY <1>3, <1>5 DEF Flagged, SameOffers
<1>. QED
  BY <1>1, <1>6, <1>7, PairStep

\* The spell of one of the two cannot be cast and is forgotten.
LEMMA SpellFailsFact ==
  ASSUME IInv, NEW p \in Players, AcceptSpellFails(p)
  PROVE  IInv'
<1> DEFINE q == With(p)
           t == [trade EXCEPT ![p].accepted = TRUE]
<1>1. q \in Players /\ Pair(trade, p, q) /\ Trading(p) /\ online' = online /\ Agree(p)
  BY PartnerFact DEF AcceptSpellFails, BothAccept
<1>2. PICK caster \in {p, q} : trade[caster].spell # None /\ trade' = SetSpell(t, caster, None)
  BY DEF AcceptSpellFails, Accepting
<1>3. Flagged(trade, t, p, q)
  BY <1>1, AcceptFact
<1>4. t[caster].spell # None
  BY <1>2, <1>3 DEF Flagged, Offer
<1> HIDE DEF t
<1>5. Pair(t, p, q) /\ Pair(t, q, p)
  BY <1>3 DEF Flagged, Dealt, Pair
<1>6. /\ Dealt(t, trade', p, q)
      /\ trade' = t \/ Silent(trade', p, q)
  <2>1. CASE caster = p
    BY <1>1, <1>2, <1>5, <2>1, SetSpellFact
  <2>2. CASE caster = q
    <3>1. Dealt(t, trade', q, p) /\ (trade' = t \/ Silent(trade', q, p))
      BY <1>1, <1>2, <1>5, <2>2, SetSpellFact
    <3>. QED
      BY <3>1 DEF Dealt, Pair, Silent
  <2>. QED
    BY <2>1, <2>2
<1>7. Dealt(trade, trade', p, q)
  BY <1>3, <1>6 DEF Flagged, Dealt
<1>8. trade' = t => SameOffers(trade, trade', p, q, p)
  BY <1>3 DEF Flagged, SameOffers
<1>. QED
  BY <1>1, <1>6, <1>7, <1>8, PairStep

LEMMA NoSpaceFact ==
  ASSUME IInv, NEW p \in Players, AcceptNoSpace(p)
  PROVE  IInv'
<1>1. /\ With(p) \in Players /\ Pair(trade, p, With(p)) /\ Trading(p) /\ online' = online
      /\ Agree(None) /\ trade' = Unaccept(trade, p)
  BY PartnerFact DEF AcceptNoSpace, BothAccept
<1>. QED
  BY <1>1, UnacceptFact, PairStep

\* Completed, cancelled, or left by one of the two.
LEMMA EndSteps ==
  ASSUME IInv, NEW p \in Players, Exchange(p) \/ TradeCancel(p)
  PROVE  IInv'
  BY EndStep DEF Exchange, TradeCancel, BothAccept

\* Nobody's trade is touched.
LEMMA KeptFact ==
  ASSUME IInv, trade' = trade, agreed' = agreed, online \subseteq online'
  PROVE  IInv'
  BY DEF IInv, TradeShape, TradeSymmetric, AcceptedAsShown, Window, With

LEMMA LogoutFact ==
  ASSUME IInv, NEW p \in Players, Logout(p)
  PROVE  IInv'
<1>1. CASE trade[p] # None
  BY <1>1, EndStep DEF Logout, Trading
<1>2. CASE trade[p] = None
  <2>1. trade' = trade /\ online' = online \ {p} /\ Agree(None)
    BY <1>2 DEF Logout
  <2>2. TradeShape' /\ TradeSymmetric'
    BY <1>2, <2>1 DEF IInv, TradeShape, TradeSymmetric, With, TradeData
  <2>3. AcceptedAsShown'
    <3> SUFFICES ASSUME NEW r \in Players, trade'[r] # None, trade'[r].accepted = TRUE
                 PROVE  agreed'[r] = Window(trade', r)
      BY DEF AcceptedAsShown
    <3>1. agreed'[r] = agreed[r]
      BY <2>1, AgreeFact, TradeSetsAssumption
    <3>. QED
      BY <2>1, <3>1 DEF IInv, AcceptedAsShown
  <2>. QED
    BY <2>2, <2>3 DEF IInv
<1>. QED
  BY <1>1, <1>2

LEMMA CrashFact == Crash => IInv'
  BY DEF Crash, IInv, TradeShape, TradeSymmetric, AcceptedAsShown

LEMMA NextFact ==
  ASSUME IInv, [Next]_vars
  PROVE  IInv'
<1>1. CASE \E p, q \in Players : HandleInitiateTrade(p, q)
  BY <1>1, InitiateFact
<1>2. ASSUME NEW p \in Players,
             \/ HandleSetTradeGold(p) \/ HandleSetTradeItem(p)
             \/ HandleClearTradeItem(p) \/ CastOnTradeSlot(p)
      PROVE  IInv'
  BY <1>2, OfferSteps
<1>3. ASSUME NEW p \in Players, HandleAcceptTrade(p)
      PROVE  IInv'
  BY <1>3, FlagSteps, PartnerPoorFact, SpellFailsFact, NoSpaceFact, EndSteps DEF HandleAcceptTrade
<1>4. ASSUME NEW p \in Players, HandleUnaccept(p) \/ TradeCancel(p) \/ Logout(p)
      PROVE  IInv'
  BY <1>4, FlagSteps, EndSteps, LogoutFact
<1>5. ASSUME NEW p \in Players, Login(p) \/ Spend(p) \/ Earn(p) \/ SendItem(p)
      PROVE  IInv'
  BY <1>5, KeptFact DEF Login, Spend, Earn, SendItem
<1>6. CASE ExecuteSave
  BY <1>6, KeptFact DEF ExecuteSave
<1>7. CASE Crash
  BY <1>7, CrashFact
<1>8. CASE UNCHANGED vars
  BY <1>8, KeptFact DEF vars
<1>. QED
  BY <1>1, <1>2, <1>3, <1>4, <1>5, <1>6, <1>7, <1>8 DEF Next

-----------------------------------------------------------------------------
(* The theorems.                                                           *)

THEOREM TradeInductive == Spec => []IInv
<1>1. Init => IInv
  BY InitFact
<1>2. IInv /\ [Next]_vars => IInv'
  BY NextFact
<1>. QED
  BY <1>1, <1>2, PTL DEF Spec

\* However many players ask each other, cancel, complete, leave and crash, the two sides
\* of a trade point at each other and are in the world: the handlers of TradeHandler.cpp
\* never follow m_trader to a player without a trade of its own.
THEOREM SymmetryHolds == Spec => []TradeSymmetric
<1>1. IInv => TradeSymmetric
  BY DEF IInv
<1>. QED
  BY <1>1, TradeInductive, PTL

\* For any number of items, slots and spells: while a player has accepted, both sides of
\* its window are what they were when it did (SetItem, SetSpell and SetMoney withdraw both
\* acceptances), whatever early return of HandleAcceptTradeOpcode was taken in between.
THEOREM AcceptanceHolds == Spec => []AcceptedAsShown
<1>1. IInv => AcceptedAsShown
  BY DEF IInv
<1>. QED
  BY <1>1, TradeInductive, PTL
=============================================================================
