------------------------------- MODULE Trade -------------------------------
(***************************************************************************)
(* Trade between players: the TradeData of both sides, the handlers of     *)
(* TradeHandler.cpp, which all run on the world thread, what else changes  *)
(* the gold and the items of the traders meanwhile, and the saves that go  *)
(* to the character database, which a crash of the server cuts short.      *)
(***************************************************************************)
EXTENDS Naturals, Sequences, FiniteSets, Functions

CONSTANTS Players, Items, Spells,
          TradedCount,   \* TRADE_SLOT_TRADED_COUNT; slot TradedCount is TRADE_SLOT_NONTRADED
          MaxMoney,      \* MAX_MONEY_AMOUNT
          Space,         \* bag slots of a player
          InitGold,      \* what each player owns when the server first starts
          MaxChanges,    \* bound: changes of gold or items other than by trade
          MaxPending,    \* bound: saves that wait in the database queue
          None

ASSUME TradeSetsAssumption == IsFiniteSet(Players) /\ IsFiniteSet(Items) /\ None \notin Players \union Items \union Spells
ASSUME TradeBoundsAssumption == TradedCount \in Nat /\ MaxMoney \in Nat /\ Space \in Nat /\ MaxChanges \in Nat /\ MaxPending \in Nat
ASSUME TradeInitAssumption == InitGold \in 0..MaxMoney

VARIABLES online,   \* players in the world
          gold,     \* PLAYER_FIELD_COINAGE
          owner,    \* who has an item in his bags; None once it is mailed
          trade,    \* Player::m_trade
          agreed,   \* history: the trade window as it was when its player accepted it
          changes,  \* of gold and items by anything but a trade
          pending,  \* transactions that wait in the queue of CharacterDatabase
          dbGold, dbOwner, \* table characters, table character_inventory
          minted    \* history: the gold in the database when the server started, and earned since

vars == <<online, gold, owner, trade, agreed, changes, pending, dbGold, dbOwner, minted>>

Slots == 0..TradedCount
NonTraded == TradedCount

\* TradeData, apart from m_acceptProccess, which is set only within one handler.
TradeData == [with : Players, accepted : BOOLEAN, gold : 0..MaxMoney,
              item : [Slots -> Items \union {None}], spell : Spells \union {None}]
NewTrade(q) == [with |-> q, accepted |-> FALSE, gold |-> 0,
                item |-> [s \in Slots |-> None], spell |-> None]
ASSUME TradeNoneAssumption == None \notin TradeData

Offer(t) == <<t.gold, t.item, t.spell>>
\* What the client of p shows.
Window(t, p) == <<Offer(t[p]), Offer(t[t[p].with])>>
Windows == LET Offers == (0..MaxMoney) \X [Slots -> Items \union {None}] \X (Spells \union {None})
           IN  Offers \X Offers

GoldOf(f) == FoldFunction(+, 0, f)

Init == /\ online = Players
        /\ gold = [p \in Players |-> InitGold] /\ dbGold = gold
        /\ owner \in [Items -> Players] /\ dbOwner = owner
        /\ \A p \in Players : Cardinality({i \in Items : owner[i] = p}) <= Space
        /\ trade = [p \in Players |-> None]
        /\ agreed = [p \in Players |-> None]
        /\ changes = 0
        /\ pending = <<>>
        /\ minted = GoldOf(gold)

-----------------------------------------------------------------------------
(* TradeData and the helpers of the handlers.                              *)

Trading(p) == p \in online /\ trade[p] # None
With(p) == trade[p].with

\* History: p has just accepted what its window shows; None when nobody has.
Agree(p) == agreed' = [q \in Players |-> IF trade'[q] = None THEN None
                                         ELSE IF ~trade'[q].accepted THEN None
                                         ELSE IF q = p THEN Window(trade', q) ELSE agreed[q]]

\* Fault: a change of one's own offer leaves the partner's acceptance alone.
Unaccept_own(t, p) == [t EXCEPT ![p].accepted = FALSE]

\* SetAccepted(false) on both sides, after a change of p's side.
Unaccept(t, p) == [t EXCEPT ![p].accepted = FALSE, ![t[p].with].accepted = FALSE]

SetSpell(t, p, spell) == IF t[p].spell = spell THEN t
                         ELSE Unaccept([t EXCEPT ![p].spell = spell], p)

\* An item in the slot that is not traded can be the target of the partner's spell.
SetItem(t, p, slot, i) ==
    IF t[p].item[slot] = i THEN t
    ELSE LET set  == Unaccept([t EXCEPT ![p].item[slot] = i], p)
             open == IF slot = NonTraded THEN SetSpell(set, t[p].with, None) ELSE set
         IN  SetSpell(open, p, None)

SetMoney(t, p, money) == IF t[p].gold = money \/ money > gold[p] THEN t
                         ELSE Unaccept([t EXCEPT ![p].gold = money], p)

\* TradeData::GetItem: the offered item, if its player still has it.
GetItem(p, slot) == LET i == trade[p].item[slot]
                    IN  IF i # None /\ owner[i] = p THEN i ELSE None
Offered(p) == {GetItem(p, s) : s \in Slots \ {NonTraded}} \ {None}

\* Fault: what is received is not cut off at MAX_MONEY_AMOUNT.
Receive_uncapped(g, n) == g + n

\* Player::ModifyMoney.
Pay(g, n) == IF g > n THEN g - n ELSE 0
Receive(g, n) == IF g < MaxMoney - n THEN g + n ELSE MaxMoney

\* Player::CanStoreItems: items with the in-trade flag take no space.
CanStoreItems(p, items, leaving) ==
    Cardinality({i \in Items : owner[i] = p} \ leaving) + Cardinality(items) <= Space

\* CanStoreItem and MoveItemToInventory.
CanStore(own, p) == Cardinality({i \in Items : own[i] = p}) < Space
Store(own, i, p) == IF i # None /\ CanStore(own, p) THEN [own EXCEPT ![i] = p] ELSE own

\* moveItems for one slot: both sides, or else both items back to where they came from.
MoveSlot(own, mine, his, p, q) ==
    IF (mine = None \/ CanStore(own, q)) /\ (his = None \/ CanStore(own, p))
    THEN Store(Store(own, mine, q), his, p)
    ELSE Store(Store(own, mine, p), his, q)

\* "execute trade": 1. remove, 2. store (moveItems).
MoveItems(p, q) ==
    LET moved[n \in 0..TradedCount] ==
          IF n = 0 THEN [i \in Items |-> IF i \in Offered(p) \union Offered(q) THEN None ELSE owner[i]]
          ELSE MoveSlot(moved[n - 1], GetItem(p, n - 1), GetItem(q, n - 1), p, q)
    IN  moved[TradedCount]

\* One transaction with the gold of the players P and the inventory rows of the items I.
Save(P, I) == [gold |-> [p \in P |-> gold'[p]], owner |-> [i \in I |-> owner'[i]]]
Inventory(P) == {i \in Items : owner'[i] \in P}

Queue(saves) == /\ Len(pending) < MaxPending
                /\ pending' = pending \o saves

\* Fault: each trader is saved in a transaction of its own.
SaveBoth_apart(p, q) == Queue(<<Save({p}, Inventory({p})), Save({q}, Inventory({q}))>>)

\* SaveInventoryAndGoldToDB of both traders between BeginTransaction and CommitTransaction.
SaveBoth(p, q) == Queue(<<Save({p, q}, Inventory({p, q}))>>)

-----------------------------------------------------------------------------
(* The handlers.                                                           *)

assets == <<gold, owner, changes, pending, dbGold, dbOwner, minted>>
database == <<dbGold, dbOwner, minted>>

\* Fault: the partner's trade is not looked at.
CanInitiate_unchecked(p, q) == /\ {p, q} \subseteq online /\ p # q
                               /\ trade[p] = None

\* The refusals of HandleInitiateTradeOpcode that depend on trades; the others (dead,
\* stunned, taxi, faction, distance, logging out) refuse and change nothing.
CanInitiate(p, q) == /\ {p, q} \subseteq online /\ p # q
                     /\ trade[p] = None /\ trade[q] = None

HandleInitiateTrade(p, q) ==
    /\ CanInitiate(p, q)
    /\ trade' = [trade EXCEPT ![p] = NewTrade(q), ![q] = NewTrade(p)]
    /\ Agree(None)
    /\ UNCHANGED <<online, assets>>

HandleSetTradeGold(p) ==
    /\ Trading(p)
    /\ \E money \in 0..MaxMoney : trade' = SetMoney(trade, p, money)
    /\ Agree(None)
    /\ UNCHANGED <<online, assets>>

\* An item that is not there, cannot be traded or is in the window already is refused.
HandleSetTradeItem(p) ==
    /\ Trading(p)
    /\ \E slot \in Slots, i \in {j \in Items : owner[j] = p} :
           /\ \A s \in Slots : trade[p].item[s] # i
           /\ trade' = SetItem(trade, p, slot, i)
    /\ Agree(None)
    /\ UNCHANGED <<online, assets>>

HandleClearTradeItem(p) ==
    /\ Trading(p)
    /\ \E slot \in Slots : trade' = SetItem(trade, p, slot, None)
    /\ Agree(None)
    /\ UNCHANGED <<online, assets>>

\* Spell::CheckCast on the item in the partner's slot that is not traded, which CheckItems
\* has found.
CastOnTradeSlot(p) ==
    /\ Trading(p) /\ GetItem(With(p), NonTraded) # None
    /\ \E spell \in Spells : trade' = SetSpell(trade, p, spell)
    /\ Agree(None)
    /\ UNCHANGED <<online, assets>>

HandleUnaccept(p) ==
    /\ Trading(p)
    /\ trade' = [trade EXCEPT ![p].accepted = FALSE]
    /\ Agree(None)
    /\ UNCHANGED <<online, assets>>

\* SetAccepted(true), before any check.
Accepting(p) == [trade EXCEPT ![p].accepted = TRUE]

\* p is too far from its partner, or has not the gold it offers.
AcceptRefused(p) ==
    /\ Trading(p)
    /\ trade' = [trade EXCEPT ![p].accepted = FALSE]
    /\ Agree(None)
    /\ UNCHANGED <<online, assets>>

Solvent(p) == trade[p].gold <= gold[p]

\* The partner has not the gold it offers: its acceptance is withdrawn, p's is not.
AcceptPartnerPoor(p) ==
    /\ Trading(p) /\ Solvent(p) /\ ~Solvent(With(p))
    /\ trade' = [Accepting(p) EXCEPT ![With(p)].accepted = FALSE]
    /\ Agree(p)
    /\ UNCHANGED <<online, assets>>

\* An offered item cannot be traded any more (it is bound now, or holds something): the
\* acceptance stays.
AcceptUntradable(p) ==
    /\ Trading(p) /\ Solvent(p) /\ Solvent(With(p))
    /\ Offered(p) \union Offered(With(p)) # {}
    /\ trade' = Accepting(p)
    /\ Agree(p)
    /\ UNCHANGED <<online, assets>>

AcceptFirst(p) ==
    /\ Trading(p) /\ Solvent(p) /\ Solvent(With(p))
    /\ ~trade[With(p)].accepted
    /\ trade' = Accepting(p)
    /\ Agree(p)
    /\ UNCHANGED <<online, assets>>

\* Both have accepted and all is still there to be paid.
BothAccept(p) == /\ Trading(p) /\ Solvent(p) /\ Solvent(With(p))
                 /\ trade[With(p)].accepted

CanCast(p) == trade[p].spell = None \/ GetItem(With(p), NonTraded) # None

\* The spell of a trader cannot be cast: no item to cast it on, or CheckCast refuses.
AcceptSpellFails(p) ==
    /\ BothAccept(p)
    /\ \E caster \in {p, With(p)} : /\ trade[caster].spell # None
                                    /\ caster = p \/ CanCast(p)
                                    /\ trade' = SetSpell(Accepting(p), caster, None)
    /\ Agree(p)
    /\ UNCHANGED <<online, assets>>

\* Fault: only the partner's bags are tested for space.
Fits_partner(p, q) == CanStoreItems(q, Offered(p), Offered(q))

Fits(p, q) == /\ CanStoreItems(q, Offered(p), Offered(q))
              /\ CanStoreItems(p, Offered(q), Offered(p))

AcceptNoSpace(p) ==
    /\ BothAccept(p) /\ CanCast(p) /\ CanCast(With(p))
    /\ ~Fits(p, With(p))
    /\ trade' = Unaccept(trade, p)
    /\ Agree(None)
    /\ UNCHANGED <<online, assets>>

ExchangeGold(p, q) ==
    gold' = [gold EXCEPT ![p] = Receive(Pay(@, trade[p].gold), trade[q].gold),
                         ![q] = Receive(Pay(@, trade[q].gold), trade[p].gold)]

\* Both TradeData are deleted.
EndTrade(p) == [trade EXCEPT ![p] = None, ![With(p)] = None]

Exchange(p) ==
    /\ BothAccept(p) /\ CanCast(p) /\ CanCast(With(p))
    /\ Fits(p, With(p))
    /\ ExchangeGold(p, With(p))
    /\ owner' = MoveItems(p, With(p))
    /\ trade' = EndTrade(p)
    /\ SaveBoth(p, With(p))
    /\ Agree(None)
    /\ UNCHANGED <<online, changes, database>>

HandleAcceptTrade(p) == \/ AcceptRefused(p) \/ AcceptPartnerPoor(p) \/ AcceptUntradable(p)
                        \/ AcceptFirst(p) \/ AcceptSpellFails(p) \/ AcceptNoSpace(p)
                        \/ Exchange(p)

\* Cancel, busy or ignore from the client, a taxi, or SetPosition too far from the partner.
TradeCancel(p) == /\ Trading(p)
                  /\ trade' = EndTrade(p)
                  /\ Agree(None)
                  /\ UNCHANGED <<online, assets>>

-----------------------------------------------------------------------------
(* What happens to the traders meanwhile.                                  *)

\* LogoutPlayer: CleanupsBeforeDelete cancels the trade, SaveToDB saves the player.
Logout(p) == /\ p \in online
             /\ online' = online \ {p}
             /\ trade' = IF trade[p] = None THEN trade ELSE EndTrade(p)
             /\ UNCHANGED <<gold, owner, changes, database>>
             /\ Queue(<<Save({p}, Inventory({p}))>>)
             /\ Agree(None)

\* The login query waits behind the saves that were queued before it.
Login(p) == /\ p \notin online
            /\ \A n \in DOMAIN pending : p \notin DOMAIN pending[n].gold
            /\ online' = online \union {p}
            /\ gold' = [gold EXCEPT ![p] = dbGold[p]]
            /\ owner' = [i \in Items |-> IF dbOwner[i] = p THEN p ELSE owner[i]]
            /\ UNCHANGED <<trade, agreed, changes, pending, database>>

Change == changes < MaxChanges /\ changes' = changes + 1

\* Something is bought from a vendor, or sold to it; nothing is saved.
Spend(p) == /\ p \in online /\ gold[p] > 0
            /\ Change
            /\ gold' = [gold EXCEPT ![p] = Pay(@, 1)]
            /\ UNCHANGED <<online, owner, trade, agreed, pending, database>>

Earn(p) == /\ p \in online
           /\ Change
           /\ gold' = [gold EXCEPT ![p] = Receive(@, 1)]
           /\ minted' = minted + (gold'[p] - gold[p])
           /\ UNCHANGED <<online, owner, trade, agreed, pending, dbGold, dbOwner>>

\* HandleSendMail: the item leaves the bags and the player is saved.
SendItem(p) == /\ p \in online
               /\ Change
               /\ \E i \in {j \in Items : owner[j] = p} :
                      /\ owner' = [owner EXCEPT ![i] = None]
                      /\ gold' = gold
                      /\ Queue(<<Save({p}, Inventory({p}) \union {i})>>)
               /\ UNCHANGED <<online, trade, agreed, database>>

\* A table with some of its rows written anew.
Written(table, rows) == [key \in DOMAIN table |-> IF key \in DOMAIN rows THEN rows[key] ELSE table[key]]

\* The delay thread executes the oldest transaction.
ExecuteSave == /\ pending # <<>>
               /\ dbGold' = Written(dbGold, Head(pending).gold)
               /\ dbOwner' = Written(dbOwner, Head(pending).owner)
               /\ pending' = Tail(pending)
               /\ UNCHANGED <<online, gold, owner, trade, agreed, changes, minted>>

\* The server dies and is started again: what was not executed is gone.
Crash == /\ online' = {}
         /\ gold' = dbGold
         /\ owner' = dbOwner
         /\ trade' = [p \in Players |-> None]
         /\ agreed' = [p \in Players |-> None]
         /\ pending' = <<>>
         /\ minted' = GoldOf(dbGold)
         /\ UNCHANGED <<changes, dbGold, dbOwner>>

Next == \/ \E p, q \in Players : HandleInitiateTrade(p, q)
        \/ \E p \in Players : \/ HandleSetTradeGold(p) \/ HandleSetTradeItem(p)
                              \/ HandleClearTradeItem(p) \/ CastOnTradeSlot(p)
                              \/ HandleAcceptTrade(p) \/ HandleUnaccept(p) \/ TradeCancel(p)
                              \/ Logout(p) \/ Login(p)
                              \/ Spend(p) \/ Earn(p) \/ SendItem(p)
        \/ ExecuteSave \/ Crash

Spec == Init /\ [][Next]_vars

-----------------------------------------------------------------------------
(* Properties.                                                             *)

TradeTypeOK == /\ online \subseteq Players
               /\ gold \in [Players -> 0..MaxMoney]
               /\ owner \in [Items -> Players \union {None}]
               /\ trade \in [Players -> TradeData \union {None}]
               /\ agreed \in [Players -> Windows \union {None}]
               /\ changes \in 0..MaxChanges
               /\ \A n \in DOMAIN pending :
                      /\ \E P \in SUBSET Players : pending[n].gold \in [P -> 0..MaxMoney]
                      /\ \E I \in SUBSET Items : pending[n].owner \in [I -> Players \union {None}]
               /\ dbGold \in [Players -> 0..MaxMoney]
               /\ dbOwner \in [Items -> Players \union {None}]
               /\ minted \in Nat

\* The TradeData of the two sides point at each other and at players in the world:
\* GetTraderData and m_trader, which no handler checks, are never dangling, whoever of
\* three players begins, cancels, completes or leaves.
TradeSymmetric == \A p \in Players : trade[p] # None =>
    /\ p \in online /\ With(p) \in online /\ With(p) # p
    /\ trade[With(p)] # None
    /\ With(With(p)) = p

\* An acceptance is for what the window showed when it was given: no change of gold, item
\* or spell, by either side, survives under it.
AcceptedAsShown == \A p \in Players :
    (trade[p] # None /\ trade[p].accepted) => agreed[p] = Window(trade, p)

\* A trade that completes gives each side the gold and the items the other one had offered
\* and still has, and takes nothing else; only gold above the cap is cut off.
Completed(p) == trade[p] # None /\ trade'[p] = None /\ Len(pending') > Len(pending)
                                /\ (gold' # gold \/ owner' # owner)
FairExchange == [][\A p \in Players : Completed(p) =>
    LET q   == With(p)
        sum == gold[p] - trade[p].gold + trade[q].gold
    IN  /\ trade[p].accepted \/ trade[q].accepted
        /\ gold'[p] = IF sum > MaxMoney THEN MaxMoney ELSE sum
        /\ \A i \in Items : owner'[i] = IF i \in Offered(p) THEN q
                                        ELSE IF i \in Offered(q) THEN p ELSE owner[i]
  ]_vars

\* Whenever the server dies, the database holds no more gold than there was and has been
\* earned, although the gold of two players changes with each trade.
DbMintsNothing == GoldOf(dbGold) <= minted
=============================================================================
