------------------------- MODULE BacktestStep_proofs -------------------------
(***************************************************************************)
(* Through every step of a backtest, for any orders, symbols, quantities   *)
(* and menus: the types, the books and the holdings agree, a filled order  *)
(* is filled in full, a closed one stays closed, and OnData finds the      *)
(* orders that rested before its slice settled.                            *)
(***************************************************************************)
EXTENDS BacktestStep, OrderStore_proofs, CountingLemmas

(* Asking a set of open orders to cancel keeps them all.                   *)
LEMMA CancelEachKeeps ==
    ASSUME NEW s, StoreOK(s), NEW ids, ids \subseteq s.openIds,
           NEW r, r = CancelEach(s, ids)
    PROVE  /\ StoreOK(r)
           /\ DOMAIN r.orders = DOMAIN s.orders
           /\ r.openIds = s.openIds
           /\ Kept(s, r, {})
<1> DEFINE Ask(f) == [id \in DOMAIN f |->
                         IF id \in ids THEN WithStatus(f[id], "CancelPending") ELSE f[id]]
<1>1. /\ r.orders = Ask(s.orders)
      /\ r.tickets = Ask(s.tickets)
      /\ r.openIds = s.openIds
      /\ r.openCount = s.openCount
      /\ r.cancelRequests = s.cancelRequests \cup ids
      /\ r.updateRequests = s.updateRequests \ ids
  BY DEF CancelEach, StoreOK, IsStore
<1>2. \A o, t \in Order :
          Shows(t, o) => /\ WithStatus(o, "CancelPending") \in Order
                         /\ WithStatus(t, "CancelPending") \in Order
                         /\ WithStatus(o, "CancelPending").status = "CancelPending"
                         /\ Shows(WithStatus(t, "CancelPending"), WithStatus(o, "CancelPending"))
  BY WithStatusOK DEF Status
<1>3. \A o \in Order : /\ WithStatus(o, "CancelPending").symbol = o.symbol
                       /\ WithStatus(o, "CancelPending").filled = o.filled
                       /\ WithStatus(o, "CancelPending").quantity = o.quantity
  BY DEF WithStatus, Order
<1>4. IsOpen("CancelPending")
  BY DEF IsOpen
<1>5. /\ DOMAIN r.orders = DOMAIN s.orders /\ DOMAIN r.tickets = DOMAIN s.orders
      /\ \A i \in DOMAIN s.orders \ ids :
            r.orders[i] = s.orders[i] /\ r.tickets[i] = s.tickets[i]
      /\ \A i \in DOMAIN s.orders \cap ids :
            /\ r.orders[i] = WithStatus(s.orders[i], "CancelPending")
            /\ r.tickets[i] = WithStatus(s.tickets[i], "CancelPending")
  BY <1>1, StoreFields
<1>6. \A i \in DOMAIN s.orders :
          /\ r.orders[i] \in Order /\ r.tickets[i] \in Order
          /\ Shows(r.tickets[i], r.orders[i])
          /\ r.orders[i].symbol = s.orders[i].symbol
          /\ r.orders[i].filled = s.orders[i].filled
          /\ r.orders[i].quantity = s.orders[i].quantity
  BY <1>2, <1>3, <1>5, StoreFields
<1>7. \A i \in DOMAIN s.orders : /\ i \in ids => IsOpen(s.orders[i].status)
                                 /\ i \in ids => IsOpen(r.orders[i].status)
                                 /\ i \notin ids => r.orders[i] = s.orders[i]
  <2>1. \A i \in ids : i \in DOMAIN s.orders /\ IsOpen(s.orders[i].status)
    BY StoreFields
  <2>2. \A i \in DOMAIN s.orders \cap ids : r.orders[i].status = "CancelPending"
    BY <1>2, <1>5, StoreFields
  <2> QED BY <2>1, <2>2, <1>4, <1>5
<1>8. Kept(s, r, {})
  BY <1>5, <1>6, <1>7 DEF Kept
<1>9. IsStore(r)
  <2>1. r.orders \in [DOMAIN r.orders -> Order] /\ r.tickets \in [DOMAIN r.tickets -> Order]
    BY <1>1, <1>5, <1>6
  <2>2. r.cancelRequests \subseteq OrderIds /\ r.updateRequests \subseteq OrderIds
    BY <1>1, StoreFields
  <2>3. r = [orders |-> r.orders, tickets |-> r.tickets, openIds |-> r.openIds,
             openCount |-> r.openCount, cancelRequests |-> r.cancelRequests,
             updateRequests |-> r.updateRequests]
    BY DEF CancelEach, StoreOK, IsStore
  <2> QED BY <2>1, <2>2, <2>3, <1>1, <1>5 DEF StoreOK, IsStore
<1>10. IndexExact(r)
  <2>1. {i \in DOMAIN r.orders : IsOpen(r.orders[i].status)}
            = {i \in DOMAIN s.orders : IsOpen(s.orders[i].status)}
    BY <1>5, <1>7
  <2> QED BY <2>1, <1>1 DEF StoreOK, IndexExact
<1>11. TicketsMirror(r)
  BY <1>5, <1>6 DEF TicketsMirror
<1> QED BY <1>1, <1>5, <1>8, <1>9, <1>10, <1>11 DEF StoreOK

---------------------------------------------------------------------------
(* What is filled of the orders of a symbol in a store.                    *)
Filleds(s, symbol) == [id \in OrdersIn(s, symbol) |-> s.orders[id].filled]
FilledOf(s, symbol) == Total(Filleds(s, symbol), OrdersIn(s, symbol))

(* FilledIn is that of the store of the runner.                            *)
LEMMA FilledInIsFilledOf ==
    ASSUME NEW symbol
    PROVE  /\ FilledIn(symbol) = FilledOf(tm, symbol)
           /\ FilledIn(symbol)' = FilledOf(tm', symbol)
<1>1. FilledIn(symbol) = SumFunctionOnSet(Filleds(tm, symbol), OrdersIn(tm, symbol))
  <2>1. /\ DOMAIN Filleds(tm, symbol) = OrdersIn(tm, symbol)
        /\ OrdersOf(symbol) = OrdersIn(tm, symbol)
    BY DEF Filleds, OrdersOf, OrdersIn
  <2> QED BY <2>1 DEF FilledIn, SumFunction, Filleds
<1>2. FilledIn(symbol)' = SumFunctionOnSet(Filleds(tm', symbol), OrdersIn(tm', symbol))
  <2>1. /\ DOMAIN Filleds(tm', symbol) = OrdersIn(tm', symbol)
        /\ OrdersOf(symbol)' = OrdersIn(tm', symbol)
    BY DEF Filleds, OrdersOf, OrdersIn
  <2> QED BY <2>1 DEF FilledIn, SumFunction, Filleds
<1> QED BY <1>1, <1>2, SumFunctionOnSetIsTotal DEF FilledOf

(* The orders of a symbol are finitely many, their fills integers.         *)
LEMMA FilledsType ==
    ASSUME NEW s, StoreOK(s), NEW symbol
    PROVE  /\ IsFiniteSet(OrdersIn(s, symbol))
           /\ \A id \in OrdersIn(s, symbol) : Filleds(s, symbol)[id] \in Int
<1>1. OrdersIn(s, symbol) \subseteq OrderIds
  BY StoreFields DEF OrdersIn
<1>2. IsFiniteSet(OrdersIn(s, symbol))
  BY <1>1, OrderIdsAssumption, FS_Subset
<1>3. \A id \in OrdersIn(s, symbol) : Filleds(s, symbol)[id] \in Int
  BY StoreFields DEF OrdersIn, Filleds, Order
<1> QED BY <1>2, <1>3

(* A store that keeps the orders of s has as much filled.                  *)
LEMMA KeptFills ==
    ASSUME NEW s, StoreOK(s), NEW r, StoreOK(r), NEW resized, Kept(s, r, resized), NEW symbol
    PROVE  FilledOf(r, symbol) = FilledOf(s, symbol)
<1>1. OrdersIn(s, symbol) \subseteq OrdersIn(r, symbol)
  BY DEF Kept, OrdersIn
<1>2. \A id \in OrdersIn(r, symbol) \ OrdersIn(s, symbol) : Filleds(r, symbol)[id] = 0
  <2>1. \A id \in OrdersIn(r, symbol) \ OrdersIn(s, symbol) :
            id \in DOMAIN r.orders \ DOMAIN s.orders
    BY DEF Kept, OrdersIn
  <2> QED BY <2>1 DEF Kept, Filleds
<1>3. \A id \in OrdersIn(s, symbol) : Filleds(r, symbol)[id] = Filleds(s, symbol)[id]
  BY <1>1 DEF Kept, OrdersIn, Filleds
<1>4. Total(Filleds(r, symbol), OrdersIn(r, symbol))
          = Total(Filleds(r, symbol), OrdersIn(s, symbol))
  BY <1>1, <1>2, FilledsType, TotalZeros
<1>5. Total(Filleds(r, symbol), OrdersIn(s, symbol))
          = Total(Filleds(s, symbol), OrdersIn(s, symbol))
  BY <1>3, FilledsType, TotalSame
<1> QED BY <1>4, <1>5 DEF FilledOf

---------------------------------------------------------------------------
(* Liquidated symbols end flat.  What is on its way for a symbol is a sum   *)
(* over its open market orders; while the symbol counts as liquidated it    *)
(* has no other open order.                                                 *)
OpenOf(s, symbol) == {id \in s.openIds : s.orders[id].symbol = symbol}
WayIn(s, k, symbol) == {id \in s.openIds : s.orders[id].symbol = symbol /\ k[id] = "Market"}
Rests(s, k, symbol) == [id \in WayIn(s, k, symbol) |-> Remaining(s.orders[id])]
DueOf(s, k, symbol) == Total(Rests(s, k, symbol), WayIn(s, k, symbol))

Flat(symbol) ==
    /\ holdings[symbol] + Due(symbol) = 0
    /\ OpenIn(symbol) \subseteq OnTheirWay(symbol)

AllFlat == \A symbol \in liquidated : Flat(symbol)

(* Due is that of the store of the runner.                                  *)
LEMMA DueIsDueOf ==
    ASSUME NEW symbol
    PROVE  /\ Due(symbol) = DueOf(tm, kind, symbol)
           /\ Due(symbol)' = DueOf(tm', kind', symbol)
           /\ OnTheirWay(symbol) = WayIn(tm, kind, symbol)
           /\ OnTheirWay(symbol)' = WayIn(tm', kind', symbol)
<1>1. /\ OnTheirWay(symbol) = WayIn(tm, kind, symbol)
      /\ OnTheirWay(symbol)' = WayIn(tm', kind', symbol)
  BY DEF OnTheirWay, OpenIn, WayIn
<1>2. Due(symbol) = SumFunctionOnSet(Rests(tm, kind, symbol), WayIn(tm, kind, symbol))
  <2>1. DOMAIN Rests(tm, kind, symbol) = WayIn(tm, kind, symbol)
    BY DEF Rests
  <2> QED BY <1>1, <2>1 DEF Due, SumFunction, Rests
<1>3. Due(symbol)' = SumFunctionOnSet(Rests(tm', kind', symbol), WayIn(tm', kind', symbol))
  <2>1. DOMAIN Rests(tm', kind', symbol) = WayIn(tm', kind', symbol)
    BY DEF Rests
  <2> QED BY <1>1, <2>1 DEF Due, SumFunction, Rests
<1> QED BY <1>1, <1>2, <1>3, SumFunctionOnSetIsTotal DEF DueOf

(* What is on its way is finite, of integers.                               *)
LEMMA RestsType ==
    ASSUME NEW s, StoreOK(s), NEW k, NEW symbol
    PROVE  /\ IsFiniteSet(WayIn(s, k, symbol))
           /\ \A id \in WayIn(s, k, symbol) : Rests(s, k, symbol)[id] \in Int
<1>1. WayIn(s, k, symbol) \subseteq DOMAIN s.orders /\ WayIn(s, k, symbol) \subseteq OrderIds
  BY StoreFields DEF WayIn
<1>2. IsFiniteSet(WayIn(s, k, symbol))
  BY <1>1, OrderIdsAssumption, FS_Subset
<1>3. \A id \in WayIn(s, k, symbol) : Rests(s, k, symbol)[id] \in Int
  BY <1>1, StoreFields DEF Rests, Remaining, Order
<1> QED BY <1>2, <1>3

(* A store that keeps the orders of s, has no new order of the symbol and   *)
(* resizes none of it, has as much on its way.                              *)
LEMMA KeptDue ==
    ASSUME NEW s, StoreOK(s), NEW r, StoreOK(r), NEW resized, Kept(s, r, resized),
           NEW k, NEW l, \A id \in DOMAIN s.orders : l[id] = k[id],
           NEW symbol,
           \A id \in DOMAIN r.orders \ DOMAIN s.orders : r.orders[id].symbol # symbol,
           \A id \in resized : s.orders[id].symbol # symbol
    PROVE  /\ OpenOf(r, symbol) = OpenOf(s, symbol)
           /\ WayIn(r, l, symbol) = WayIn(s, k, symbol)
           /\ DueOf(r, l, symbol) = DueOf(s, k, symbol)
<1>1. /\ s.openIds = {i \in DOMAIN s.orders : IsOpen(s.orders[i].status)}
      /\ r.openIds = {i \in DOMAIN r.orders : IsOpen(r.orders[i].status)}
  BY StoreFields
<1>2. OpenOf(r, symbol) = OpenOf(s, symbol)
  BY <1>1 DEF Kept, OpenOf
<1>3. WayIn(r, l, symbol) = WayIn(s, k, symbol)
  <2>1. \A id \in s.openIds : id \in DOMAIN s.orders
    BY <1>1
  <2> QED BY <1>2, <2>1 DEF WayIn, OpenOf
<1>4. \A id \in WayIn(s, k, symbol) : Rests(r, l, symbol)[id] = Rests(s, k, symbol)[id]
  <2>1. \A id \in WayIn(s, k, symbol) : id \in DOMAIN s.orders /\ id \notin resized
    BY <1>1 DEF WayIn
  <2>2. \A id \in WayIn(s, k, symbol) : Remaining(r.orders[id]) = Remaining(s.orders[id])
    BY <2>1 DEF Kept, Remaining
  <2> QED BY <1>3, <2>2 DEF Rests
<1>5. Total(Rests(r, l, symbol), WayIn(s, k, symbol))
          = Total(Rests(s, k, symbol), WayIn(s, k, symbol))
  BY <1>4, RestsType, TotalSame
<1> QED BY <1>2, <1>3, <1>5 DEF DueOf

---------------------------------------------------------------------------
(* The inductive invariant.  Fills are pending in a settled stage only,     *)
(* when the framework cannot resize an order; and an open order has no      *)
(* fill, for a fill in part does not exist.                                 *)
OpenUnfilled == \A id \in tm.openIds : tm.orders[id].filled = 0

Books ==
    /\ StoreOK(tm)
    /\ TypeOK
    /\ fills # {} => stage.settled
    /\ PendingFillsFit
    /\ OpenUnfilled
    /\ FilledInFull
    /\ HoldingsMatchFills
    /\ AllFlat

(* A step leaves closed orders closed, and the symbol and kind of each.     *)
OrdersStay ==
    /\ StaysClosed
    /\ \A id \in DOMAIN tm.orders :
          /\ id \in DOMAIN tm'.orders /\ tm'.orders[id].symbol = tm.orders[id].symbol
          /\ kind'[id] = kind[id]

(* Whatever a step adds to the orders is among the amended ones.            *)
Amending ==
    /\ DOMAIN tm'.orders \subseteq DOMAIN tm.orders \cup amended'
    /\ amended \subseteq amended' /\ fresh \subseteq fresh'

(* A step that keeps the orders, and resizes none that has a fill pending,  *)
(* keeps the books.                                                         *)
LEMMA KeepingOrders ==
    ASSUME Books, StoreOK(tm)', NEW resized, Kept(tm, tm', resized), resized = {} \/ fills = {},
           fills' = fills, holdings' = holdings
    PROVE  PendingFillsFit' /\ OpenUnfilled' /\ FilledInFull' /\ HoldingsMatchFills' /\ StaysClosed
<1>1. StoreOK(tm) /\ StoreOK(tm')
  BY DEF Books, StoreOK, IsStore, IndexExact, TicketsMirror
<1>2. PICK s, r : s = tm /\ r = tm'
  OBVIOUS
<1>3. StoreOK(s) /\ StoreOK(r) /\ Kept(s, r, resized)
  BY <1>1, <1>2
<1>4. /\ s.openIds = {i \in DOMAIN s.orders : IsOpen(s.orders[i].status)}
      /\ r.openIds = {i \in DOMAIN r.orders : IsOpen(r.orders[i].status)}
  BY <1>3, StoreFields
<1>5. PendingFillsFit'
  <2>1. \A fill \in fills : /\ fill.id \in s.openIds /\ fill.quantity = s.orders[fill.id].quantity
    BY <1>2 DEF Books, PendingFillsFit
  <2>2. \A fill \in fills : /\ fill.id \in r.openIds /\ fill.quantity = r.orders[fill.id].quantity
    BY <2>1, <1>3, <1>4 DEF Kept
  <2> QED BY <2>2, <1>2 DEF PendingFillsFit
<1>6. OpenUnfilled'
  <2>1. \A id \in s.openIds : s.orders[id].filled = 0
    BY <1>2 DEF Books, OpenUnfilled
  <2>2. \A id \in r.openIds : r.orders[id].filled = 0
    BY <2>1, <1>3, <1>4 DEF Kept
  <2> QED BY <2>2, <1>2 DEF OpenUnfilled
<1>7. FilledInFull'
  <2>1. \A id \in DOMAIN s.orders :
            s.orders[id].status = "Filled" => s.orders[id].filled = s.orders[id].quantity
    BY <1>2 DEF Books, FilledInFull
  <2>2. \A id \in DOMAIN r.orders :
            r.orders[id].status = "Filled" => r.orders[id].filled = r.orders[id].quantity
    BY <2>1, <1>3 DEF Kept, IsOpen
  <2> QED BY <2>2, <1>2 DEF FilledInFull
<1>8. HoldingsMatchFills'
  <2>1. \A symbol \in Symbols : FilledOf(r, symbol) = FilledOf(s, symbol)
    BY <1>3, KeptFills
  <2>2. ASSUME NEW symbol \in Symbols PROVE holdings'[symbol] = FilledIn(symbol)'
    <3>1. FilledIn(symbol) = FilledOf(tm, symbol) /\ FilledIn(symbol)' = FilledOf(tm', symbol)
      BY FilledInIsFilledOf
    <3>2. holdings[symbol] = FilledIn(symbol)
      BY DEF Books, HoldingsMatchFills
    <3> QED BY <3>1, <3>2, <2>1, <1>2
  <2> QED BY <2>2 DEF HoldingsMatchFills
<1>9. StaysClosed
  <2>1. \A id \in DOMAIN s.orders :
            ~IsOpen(s.orders[id].status) => r.orders[id].status = s.orders[id].status
    BY <1>3 DEF Kept
  <2> QED BY <2>1, <1>2 DEF StaysClosed
<1> QED BY <1>5, <1>6, <1>7, <1>8, <1>9

(* A symbol such a step does not hold, place or resize stays flat.          *)
LEMMA KeepingFlat ==
    ASSUME Books, NEW symbol \in Symbols, StoreOK(tm)', NEW resized, Kept(tm, tm', resized),
           \A id \in DOMAIN tm.orders : kind'[id] = kind[id],
           \A id \in DOMAIN tm'.orders \ DOMAIN tm.orders : tm'.orders[id].symbol # symbol,
           \A id \in resized : tm.orders[id].symbol # symbol,
           holdings'[symbol] = holdings[symbol]
    PROVE  Flat(symbol) => Flat(symbol)'
<1>1. PICK s, r, k, l : s = tm /\ r = tm' /\ k = kind /\ l = kind'
  OBVIOUS
<1>2. StoreOK(s) /\ StoreOK(r)
  BY <1>1 DEF Books, StoreOK, IsStore, IndexExact, TicketsMirror
<1>3. /\ OpenOf(r, symbol) = OpenOf(s, symbol)
      /\ WayIn(r, l, symbol) = WayIn(s, k, symbol)
      /\ DueOf(r, l, symbol) = DueOf(s, k, symbol)
  <2>1. /\ Kept(s, r, resized) /\ \A id \in DOMAIN s.orders : l[id] = k[id]
        /\ \A id \in DOMAIN r.orders \ DOMAIN s.orders : r.orders[id].symbol # symbol
        /\ \A id \in resized : s.orders[id].symbol # symbol
    BY <1>1
  <2> QED BY <1>2, <2>1, KeptDue
<1>4. /\ OpenIn(symbol)' = OpenIn(symbol)
      /\ OnTheirWay(symbol)' = OnTheirWay(symbol)
      /\ Due(symbol)' = Due(symbol)
  BY <1>1, <1>3, DueIsDueOf DEF OpenIn, OpenOf
<1> QED BY <1>4 DEF Flat
(* The orders a step has placed are of these symbols.                       *)
PlacedOnly(symbols) ==
    \A id \in DOMAIN tm'.orders \ DOMAIN tm.orders : tm'.orders[id].symbol \in symbols

KindsKept == \A id \in DOMAIN tm.orders : kind'[id] = kind[id]

(* ... and all the books, when what else it sets has its type and every      *)
(* symbol liquidated is flat or left alone.                                 *)
LEMMA KeepingBooks ==
    ASSUME Books, StoreOK(tm)', NEW resized, Kept(tm, tm', resized), resized = {} \/ fills = {},
           fills' = fills, holdings' = holdings,
           kind' \in [DOMAIN tm'.orders -> Kinds], KindsKept,
           slice' \in [data : SUBSET Symbols, met : SUBSET OrderIds],
           cached' \subseteq Symbols, behind' \in BOOLEAN, control' \in BOOLEAN,
           fresh' \subseteq DOMAIN tm'.orders, amended' \subseteq DOMAIN tm'.orders,
           stage' \in [at : 1..Len(Stages), settled : BOOLEAN, fired : BOOLEAN],
           fills # {} => stage'.settled,
           liquidated' \subseteq Symbols,
           NEW placed, PlacedOnly(placed),
           \A symbol \in liquidated' :
               \/ Flat(symbol)'
               \/ /\ symbol \in liquidated \ placed
                  /\ \A id \in resized : tm.orders[id].symbol # symbol
    PROVE  Books' /\ OrdersStay
<1>1. PendingFillsFit' /\ OpenUnfilled' /\ FilledInFull' /\ HoldingsMatchFills' /\ StaysClosed
  BY KeepingOrders
<1>2. IsStore(tm)'
  BY DEF StoreOK
<1>3. fills' \subseteq [id : DOMAIN tm'.orders, quantity : Int]
  BY DEF Books, TypeOK, Kept
<1>4. TypeOK'
  BY <1>2, <1>3 DEF Books, TypeOK
<1>5. AllFlat'
  <2>1. ASSUME NEW symbol \in Symbols, symbol \in liquidated \ placed,
               \A id \in resized : tm.orders[id].symbol # symbol
        PROVE  Flat(symbol)'
    <3>1. /\ \A id \in DOMAIN tm.orders : kind'[id] = kind[id]
          /\ \A id \in DOMAIN tm'.orders \ DOMAIN tm.orders : tm'.orders[id].symbol # symbol
          /\ holdings'[symbol] = holdings[symbol]
          /\ Flat(symbol)
      BY <2>1 DEF KindsKept, PlacedOnly, Books, AllFlat
    <3> QED BY <2>1, <3>1, KeepingFlat
  <2>2. liquidated \subseteq Symbols
    BY DEF Books, TypeOK
  <2> QED BY <2>1, <2>2 DEF AllFlat
<1>6. OrdersStay
  BY <1>1 DEF OrdersStay, Kept, KindsKept
<1> QED BY <1>1, <1>4, <1>5, <1>6 DEF Books

(* A map of kinds stays one.                                                *)
LEMMA PutKind ==
    ASSUME NEW D, NEW f \in [D -> Kinds], NEW id, NEW k \in Kinds
    PROVE  Put(f, id, k) \in [D \cup {id} -> Kinds]
BY DEF Put

(* A new order is open and unfilled.                                        *)
LEMMA NewOrderType ==
    ASSUME NEW item \in Item
    PROVE  NewOrder(item) \in Order /\ NewOrder(item).filled = 0 /\ IsOpen(NewOrder(item).status)
BY DEF NewOrder, Order, Item, Status, IsOpen

(* What the algorithm may place is an item.                                 *)
LEMMA MenuType == \A id \in OrderIds : Menu[id] \subseteq Item
BY MenuAssumption

(* The algorithm has control when it acts, and leaves the runner alone.      *)
LEMMA RunningFacts ==
    ASSUME Books, Running
    PROVE  /\ StoreOK(tm) /\ DOMAIN tm.orders \subseteq OrderIds
           /\ fills' = fills /\ holdings' = holdings
           /\ cached' \subseteq Symbols /\ behind' \in BOOLEAN /\ control' \in BOOLEAN
           /\ stage' \in [at : 1..Len(Stages), settled : BOOLEAN, fired : BOOLEAN]
           /\ fills # {} => stage'.settled
           /\ kind \in [DOMAIN tm.orders -> Kinds]
           /\ slice \in [data : SUBSET Symbols, met : SUBSET OrderIds]
           /\ fresh \subseteq DOMAIN tm.orders /\ amended \subseteq DOMAIN tm.orders
           /\ liquidated \subseteq Symbols
BY DEF Running, Books, TypeOK, IsStore

(* Placing an order in a store that keeps the orders of the runner's.        *)
LEMMA PlacingKeeps ==
    ASSUME Books, NEW s, StoreOK(s), Kept(tm, s, {}), DOMAIN s.orders = DOMAIN tm.orders,
           NEW id \in OrderIds, IsNext(id), NEW item \in Item,
           tm' = AddOrder(s, id, NewOrder(item)),
           kind' = Put(kind, id, item.kind),
           fresh' = Stamped(id),
           amended' = amended \cup {id}
    PROVE  /\ StoreOK(tm)' /\ Kept(tm, tm', {})
           /\ DOMAIN tm'.orders = DOMAIN tm.orders \cup {id}
           /\ kind' \in [DOMAIN tm'.orders -> Kinds]
           /\ fresh' \subseteq DOMAIN tm'.orders /\ amended' \subseteq DOMAIN tm'.orders
           /\ KindsKept /\ PlacedOnly({item.symbol})
           /\ Amending
<1>1. id \notin DOMAIN s.orders
  BY DEF IsNext
<1>2. PICK o \in Order : o = NewOrder(item) /\ o.filled = 0 /\ IsOpen(o.status)
  BY NewOrderType
<1>3. PICK r : r = tm'
  OBVIOUS
<1>4. /\ StoreOK(r)
      /\ DOMAIN r.orders = DOMAIN s.orders \cup {id}
      /\ r.orders[id] = o
      /\ Kept(s, r, {})
  BY <1>1, <1>2, <1>3, AddKeeps
<1>5. StoreOK(tm)'
  BY <1>3, <1>4 DEF StoreOK, IsStore, IndexExact, TicketsMirror
<1>6. Kept(tm, r, {})
  BY <1>4, KeptTwice
<1>7. kind' \in [DOMAIN tm.orders \cup {id} -> Kinds]
  BY PutKind DEF Books, TypeOK, Item
<1>8. fresh' \subseteq DOMAIN tm.orders \cup {id} /\ amended' \subseteq DOMAIN tm.orders \cup {id}
  BY DEF Stamped, Books, TypeOK
<1>9. KindsKept
  BY <1>1 DEF KindsKept, Put, Books, TypeOK
<1>10. PlacedOnly({item.symbol})
  BY <1>2, <1>3, <1>4 DEF PlacedOnly, NewOrder
<1>11. Amending
  BY <1>3, <1>4 DEF Amending, Stamped
<1> QED BY <1>3, <1>4, <1>5, <1>6, <1>7, <1>8, <1>9, <1>10, <1>11

(* The algorithm's operations, one lemma each: Place.                       *)
LEMMA PlaceKeepsBooks ==
    ASSUME Books, NEW id \in OrderIds, NEW item \in Menu[id], Place(id, item)
    PROVE  Books' /\ OrdersStay
<1>1. item \in Item /\ item.symbol \in Symbols
  BY MenuType DEF Item
<1>2. StoreOK(tm) /\ Kept(tm, tm, {})
  BY DEF Books, Kept
<1>3. /\ StoreOK(tm)' /\ Kept(tm, tm', {})
      /\ kind' \in [DOMAIN tm'.orders -> Kinds]
      /\ fresh' \subseteq DOMAIN tm'.orders /\ amended' \subseteq DOMAIN tm'.orders
      /\ KindsKept /\ PlacedOnly({item.symbol})
  BY <1>1, <1>2, PlacingKeeps DEF Place
<1>4. Running /\ slice' = slice /\ liquidated' = liquidated \ {item.symbol}
  BY DEF Place
<1> QED BY <1>3, <1>4, RunningFacts, KeepingBooks

(* Cancel.                                                                  *)
LEMMA CancelKeepsBooks ==
    ASSUME Books, NEW id \in OrderIds, Cancel(id)
    PROVE  Books' /\ OrdersStay
<1>1. /\ Running /\ slice' = slice /\ liquidated' = liquidated
      /\ kind' = kind /\ fresh' = fresh /\ amended' = amended
  BY DEF Cancel
<1>2. PICK r : r = tm'
  OBVIOUS
<1>3. StoreOK(r) /\ DOMAIN r.orders = DOMAIN tm.orders /\ Kept(tm, r, {})
  BY <1>2, CancelKeeps DEF Books, Cancel
<1>4. StoreOK(tm)'
  BY <1>2, <1>3 DEF StoreOK, IsStore, IndexExact, TicketsMirror
<1>5. KindsKept /\ PlacedOnly({})
  BY <1>1, <1>2, <1>3 DEF KindsKept, PlacedOnly
<1> QED BY <1>1, <1>2, <1>3, <1>4, <1>5, RunningFacts, KeepingBooks

(* A level that moves leaves the slice a slice.                             *)
LEMMA MoveLevelType ==
    ASSUME slice \in [data : SUBSET Symbols, met : SUBSET OrderIds], NEW id \in OrderIds,
           MoveLevel(id)
    PROVE  slice' \in [data : SUBSET Symbols, met : SUBSET OrderIds]
<1>1. slice.met \cup {id} \in SUBSET OrderIds /\ slice.met \ {id} \in SUBSET OrderIds
  OBVIOUS
<1>2. CASE slice' = [slice EXCEPT !.met = @ \cup {id}]
  BY <1>1, <1>2
<1>3. CASE slice' = [slice EXCEPT !.met = @ \ {id}]
  BY <1>1, <1>3
<1> QED BY <1>2, <1>3 DEF MoveLevel

(* UpdateTicket: the quantity is the order's own.                           *)
LEMMA UpdateTicketKeepsBooks ==
    ASSUME Books, NEW id \in OrderIds, UpdateTicket(id)
    PROVE  Books' /\ OrdersStay
<1>1. /\ Running /\ MoveLevel(id) /\ liquidated' = liquidated
      /\ kind' = kind /\ fresh' = fresh /\ amended' = amended \cup {id}
      /\ CanRequestUpdate(tm, id) /\ StoreOK(tm)
  BY DEF UpdateTicket, Books
<1>2. PICK r : r = tm'
  OBVIOUS
<1>3. id \in DOMAIN tm.orders /\ tm.orders[id] \in Order
  BY <1>1, StoreFields DEF CanRequestUpdate
<1>4. PICK quantity \in Int : quantity = tm.orders[id].quantity
  BY <1>3 DEF Order
<1>5. r = RequestUpdateOrder(tm, id, quantity)
  BY <1>2, <1>4 DEF UpdateTicket
<1>6. StoreOK(r) /\ DOMAIN r.orders = DOMAIN tm.orders /\ Kept(tm, r, {})
  <2>1. /\ StoreOK(r) /\ DOMAIN r.orders = DOMAIN tm.orders /\ Kept(tm, r, {id})
        /\ r.orders[id].quantity = quantity
    BY <1>1, <1>5, UpdateKeeps
  <2> QED BY <2>1, <1>3, <1>4 DEF Kept
<1>7. StoreOK(tm)'
  BY <1>2, <1>6 DEF StoreOK, IsStore, IndexExact, TicketsMirror
<1>8. slice' \in [data : SUBSET Symbols, met : SUBSET OrderIds]
  BY <1>1, RunningFacts, MoveLevelType
<1>9. KindsKept /\ PlacedOnly({})
  BY <1>1, <1>2, <1>6 DEF KindsKept, PlacedOnly
<1> QED BY <1>1, <1>2, <1>3, <1>6, <1>7, <1>8, <1>9, RunningFacts, KeepingBooks

(* UpdateExecution: the framework runs in a stage that is not settled, so   *)
(* no fill is pending.                                                      *)
LEMMA UpdateExecutionKeepsBooks ==
    ASSUME Books, NEW id \in OrderIds, NEW quantity \in Resizes, UpdateExecution(id, quantity)
    PROVE  Books' /\ OrdersStay
<1>1. /\ Running /\ MoveLevel(id) /\ liquidated' = liquidated \ {tm.orders[id].symbol}
      /\ kind' = kind /\ fresh' = fresh /\ amended' = amended \cup {id}
      /\ CanRequestUpdate(tm, id) /\ StoreOK(tm)
  BY DEF UpdateExecution, Books
<1>2. fills = {}
  BY DEF UpdateExecution, InFramework, Books
<1>3. PICK r : r = tm'
  OBVIOUS
<1>4. quantity \in Int /\ id \in DOMAIN tm.orders
  BY <1>1, OtherAssumption DEF CanRequestUpdate
<1>5. StoreOK(r) /\ DOMAIN r.orders = DOMAIN tm.orders /\ Kept(tm, r, {id})
  <2>1. r = RequestUpdateOrder(tm, id, quantity)
    BY <1>3 DEF UpdateExecution
  <2> QED BY <1>1, <1>4, <2>1, UpdateKeeps
<1>6. StoreOK(tm)'
  BY <1>3, <1>5 DEF StoreOK, IsStore, IndexExact, TicketsMirror
<1>7. slice' \in [data : SUBSET Symbols, met : SUBSET OrderIds]
  BY <1>1, RunningFacts, MoveLevelType
<1>8. KindsKept /\ PlacedOnly({})
  BY <1>1, <1>3, <1>5 DEF KindsKept, PlacedOnly
<1>9. PICK resized : resized = {id}
  OBVIOUS
<1>10. \A symbol \in liquidated' : /\ symbol \in liquidated \ {}
                                   /\ \A i \in resized : tm.orders[i].symbol # symbol
  <2>1. \A symbol \in liquidated' : symbol \in liquidated /\ tm.orders[id].symbol # symbol
    BY <1>1
  <2> QED BY <2>1, <1>9
<1>11. Kept(tm, tm', resized)
  BY <1>3, <1>5, <1>9
<1>12. fresh' \subseteq DOMAIN tm'.orders /\ amended' \subseteq DOMAIN tm'.orders
       /\ kind' \in [DOMAIN tm'.orders -> Kinds]
  BY <1>1, <1>3, <1>4, <1>5, RunningFacts
<1>13. Running /\ liquidated' \subseteq liquidated
  BY <1>1
<1> QED BY <1>2, <1>6, <1>7, <1>8, <1>10, <1>11, <1>12, <1>13, RunningFacts, KeepingBooks

(* The open orders of a symbol, asked to cancel.                            *)
LEMMA CancelSomeKeeps ==
    ASSUME Books, NEW s, StoreOK(s), Kept(tm, s, {}), DOMAIN s.orders = DOMAIN tm.orders,
           s.openIds = tm.openIds, NEW ids, ids \subseteq tm.openIds,
           NEW r, r = CancelEach(s, ids)
    PROVE  /\ StoreOK(r) /\ Kept(tm, r, {})
           /\ DOMAIN r.orders = DOMAIN tm.orders /\ r.openIds = tm.openIds
<1>1. StoreOK(r) /\ Kept(s, r, {}) /\ DOMAIN r.orders = DOMAIN s.orders /\ r.openIds = s.openIds
  BY CancelEachKeeps
<1> QED BY <1>1, KeptTwice

(* Replace.                                                                 *)
LEMMA ReplaceKeepsBooks ==
    ASSUME Books, NEW id \in OrderIds, NEW item \in Menu[id], Replace(id, item)
    PROVE  Books' /\ OrdersStay
<1>1. item \in Item /\ item.symbol \in Symbols
  BY MenuType DEF Item
<1>2. PICK s : s = CancelEach(tm, OpenIn(item.symbol))
  OBVIOUS
<1>3. StoreOK(s) /\ Kept(tm, s, {}) /\ DOMAIN s.orders = DOMAIN tm.orders
  <2>1. StoreOK(tm) /\ Kept(tm, tm, {}) /\ OpenIn(item.symbol) \subseteq tm.openIds
    BY DEF Books, Kept, OpenIn
  <2> QED BY <1>2, <2>1, CancelSomeKeeps
<1>4. /\ StoreOK(tm)' /\ Kept(tm, tm', {})
      /\ kind' \in [DOMAIN tm'.orders -> Kinds]
      /\ fresh' \subseteq DOMAIN tm'.orders /\ amended' \subseteq DOMAIN tm'.orders
      /\ KindsKept /\ PlacedOnly({item.symbol})
  BY <1>1, <1>2, <1>3, PlacingKeeps DEF Replace
<1>5. Running /\ slice' = slice /\ liquidated' = liquidated \ {item.symbol}
  BY DEF Replace
<1> QED BY <1>4, <1>5, RunningFacts, KeepingBooks

(* What a symbol has on its way at the market is an integer.                *)
LEMMA DueType ==
    ASSUME Books, NEW symbol \in Symbols
    PROVE  Due(symbol) \in Int
<1> DEFINE on == OnTheirWay(symbol)
           rest == [id \in on |-> Remaining(tm.orders[id])]
<1>1. StoreOK(tm)
  BY DEF Books
<1>2. on \subseteq DOMAIN tm.orders /\ on \subseteq OrderIds
  BY <1>1, StoreFields DEF OnTheirWay, OpenIn
<1>3. IsFiniteSet(on)
  BY <1>2, OrderIdsAssumption, FS_Subset
<1>4. \A id \in on : rest[id] \in Int
  BY <1>1, <1>2, StoreFields DEF Remaining, Order
<1>5. Due(symbol) = SumFunctionOnSet(rest, on)
  BY DEF Due, SumFunction
<1> HIDE DEF on, rest
<1>6. Due(symbol) = Total(rest, on)
  BY <1>5, SumFunctionOnSetIsTotal
<1> QED BY <1>3, <1>4, <1>6, TotalType

(* A market order placed adds its quantity to what is on its way.           *)
LEMMA PlacingDue ==
    ASSUME Books, NEW symbol \in Symbols,
           NEW s, StoreOK(s), Kept(tm, s, {}), DOMAIN s.orders = DOMAIN tm.orders,
           NEW id \in OrderIds, id \notin DOMAIN tm.orders,
           NEW item \in Item, item.kind = "Market", item.symbol = symbol,
           tm' = AddOrder(s, id, NewOrder(item)),
           kind' = Put(kind, id, "Market")
    PROVE  /\ Due(symbol)' = Due(symbol) + item.quantity
           /\ OpenIn(symbol)' = OpenIn(symbol) \cup {id}
           /\ OnTheirWay(symbol)' = OnTheirWay(symbol) \cup {id}
<1>1. PICK o \in Order : o = NewOrder(item) /\ o.filled = 0 /\ IsOpen(o.status)
  BY NewOrderType
<1>2. PICK t, r, k, l : t = tm /\ r = tm' /\ k = kind /\ l = kind'
  OBVIOUS
<1>3. StoreOK(t) /\ Kept(t, s, {}) /\ DOMAIN s.orders = DOMAIN t.orders /\ id \notin DOMAIN s.orders
  BY <1>2 DEF Books
<1>4. r = AddOrder(s, id, o)
  BY <1>1, <1>2
<1>5. /\ StoreOK(r)
      /\ DOMAIN r.orders = DOMAIN s.orders \cup {id}
      /\ r.orders[id] = o
      /\ Kept(s, r, {})
  BY <1>1, <1>3, <1>4, AddKeeps
<1>6. /\ DOMAIN k = DOMAIN t.orders
      /\ l[id] = "Market"
      /\ \A i \in DOMAIN t.orders : l[i] = k[i]
  BY <1>2, <1>3 DEF Books, TypeOK, Put
<1>7. /\ OpenOf(s, symbol) = OpenOf(t, symbol)
      /\ WayIn(s, k, symbol) = WayIn(t, k, symbol)
      /\ DueOf(s, k, symbol) = DueOf(t, k, symbol)
  BY <1>3, KeptDue
<1>8. o.symbol = symbol /\ o.quantity = item.quantity /\ Remaining(o) = item.quantity
  <2>1. o.symbol = symbol /\ o.quantity = item.quantity /\ o.filled = 0 /\ item.quantity \in Int
    BY <1>1 DEF NewOrder, Item
  <2> QED BY <2>1 DEF Remaining
<1>9. /\ OpenOf(r, symbol) = OpenOf(s, symbol) \cup {id}
      /\ WayIn(r, l, symbol) = WayIn(s, k, symbol) \cup {id}
      /\ id \notin WayIn(s, k, symbol)
  <2>1. r.openIds = s.openIds \cup {id} /\ id \notin s.openIds
    BY <1>1, <1>3, <1>5, StoreFields DEF Kept
  <2>2. \A i \in s.openIds : i \in DOMAIN s.orders /\ r.orders[i].symbol = s.orders[i].symbol
                             /\ l[i] = k[i]
    BY <1>3, <1>5, <1>6, StoreFields DEF Kept
  <2> QED BY <2>1, <2>2, <1>5, <1>6, <1>8 DEF OpenOf, WayIn
<1>10. DueOf(r, l, symbol) = DueOf(s, k, symbol) + item.quantity
  <2>1. PICK f, g, W : /\ f = Rests(s, k, symbol) /\ g = Rests(r, l, symbol)
                       /\ W = WayIn(s, k, symbol)
    OBVIOUS
  <2>2. IsFiniteSet(W) /\ \A i \in W : f[i] \in Int
    BY <1>3, <1>5, <2>1, RestsType, AddKeeps
  <2>3. \A i \in W \cup {id} : g[i] \in Int
    BY <1>5, <1>9, <2>1, RestsType
  <2>4. \A i \in W : f[i] = g[i]
    <3>1. \A i \in W : i \in DOMAIN s.orders /\ Remaining(r.orders[i]) = Remaining(s.orders[i])
      BY <1>3, <1>5, <2>1, StoreFields DEF WayIn, Kept, Remaining
    <3> QED BY <3>1, <2>1, <1>9 DEF Rests
  <2>5. g[id] = item.quantity
    BY <1>5, <1>8, <1>9, <2>1 DEF Rests
  <2>6. Total(f, W) = Total(g, W)
    BY <2>2, <2>4, TotalSame
  <2>7. Total(g, W \cup {id}) = g[id] + Total(g, W)
    BY <1>9, <2>1, <2>2, <2>3, TotalAdd
  <2>8. Total(f, W) \in Int /\ item.quantity \in Int
    BY <2>2, TotalType DEF Item
  <2>9. DueOf(r, l, symbol) = Total(g, W \cup {id}) /\ DueOf(s, k, symbol) = Total(f, W)
    BY <1>9, <2>1 DEF DueOf
  <2> QED BY <2>5, <2>6, <2>7, <2>8, <2>9
<1>11. /\ OpenIn(symbol) = OpenOf(t, symbol) /\ OpenIn(symbol)' = OpenOf(r, symbol)
       /\ OnTheirWay(symbol) = WayIn(t, k, symbol) /\ OnTheirWay(symbol)' = WayIn(r, l, symbol)
       /\ Due(symbol) = DueOf(t, k, symbol) /\ Due(symbol)' = DueOf(r, l, symbol)
  BY <1>2, DueIsDueOf DEF OpenIn, OpenOf
<1> QED BY <1>7, <1>9, <1>10, <1>11

(* liquidate, from a store that keeps the orders of the runner's: what is   *)
(* held and what is on its way then cancel out.                             *)
LEMMA LiquidatingKeeps ==
    ASSUME Books, NEW symbol \in Symbols,
           NEW s, StoreOK(s), Kept(tm, s, {}), DOMAIN s.orders = DOMAIN tm.orders,
           s.openIds = tm.openIds, LiquidateInto(s, symbol), holdings' = holdings
    PROVE  /\ StoreOK(tm)' /\ Kept(tm, tm', {})
           /\ kind' \in [DOMAIN tm'.orders -> Kinds]
           /\ fresh' \subseteq DOMAIN tm'.orders /\ amended' \subseteq DOMAIN tm'.orders
           /\ KindsKept /\ PlacedOnly({symbol})
           /\ Amending
           /\ holdings[symbol] # 0 /\ OpenIn(symbol) = OnTheirWay(symbol) => Flat(symbol)'
<1> DEFINE closing == [symbol |-> symbol, quantity |-> Closing(symbol), kind |-> "Market"]
           asked   == CancelEach(s, OpenIn(symbol) \ OnTheirWay(symbol))
<1>1. /\ kind \in [DOMAIN tm.orders -> Kinds]
      /\ fresh \subseteq DOMAIN tm.orders /\ amended \subseteq DOMAIN tm.orders
      /\ holdings[symbol] \in Int /\ Due(symbol) \in Int
  BY DueType DEF Books, TypeOK
<1>2. PICK a : a = asked
  OBVIOUS
<1>3. StoreOK(a) /\ Kept(tm, a, {}) /\ DOMAIN a.orders = DOMAIN tm.orders
  <2>1. OpenIn(symbol) \ OnTheirWay(symbol) \subseteq tm.openIds
    BY DEF OpenIn
  <2> QED BY <1>2, <2>1, CancelSomeKeeps
<1>4. CASE holdings[symbol] = 0 /\ tm' = s /\ UNCHANGED <<kind, fresh, amended>>
  <2>1. StoreOK(tm)'
    BY <1>4 DEF StoreOK, IsStore, IndexExact, TicketsMirror
  <2>2. Amending
    BY <1>4 DEF Amending
  <2> QED BY <1>1, <1>4, <2>1, <2>2 DEF KindsKept, PlacedOnly
<1>5. CASE closing.quantity = 0 /\ tm' = asked /\ UNCHANGED <<kind, fresh, amended>>
  <2>1. StoreOK(tm)' /\ Kept(tm, tm', {})
    BY <1>2, <1>3, <1>5 DEF StoreOK, IsStore, IndexExact, TicketsMirror
  <2>2. KindsKept /\ PlacedOnly({symbol}) /\ DOMAIN tm'.orders = DOMAIN tm.orders
    BY <1>2, <1>3, <1>5 DEF KindsKept, PlacedOnly
  <2>3. ASSUME OpenIn(symbol) = OnTheirWay(symbol) PROVE Flat(symbol)'
    <3>1. Flat(symbol)
      BY <1>1, <1>5, <2>3 DEF Flat, Closing
    <3>2. /\ \A id \in DOMAIN tm.orders : kind'[id] = kind[id]
          /\ \A id \in DOMAIN tm'.orders \ DOMAIN tm.orders : tm'.orders[id].symbol # symbol
      BY <2>2 DEF KindsKept
    <3> QED BY <2>1, <3>1, <3>2, KeepingFlat
  <2>4. Amending
    BY <1>5, <2>2 DEF Amending
  <2> QED BY <1>1, <1>5, <2>1, <2>2, <2>3, <2>4
<1>6. CASE /\ closing.quantity # 0
           /\ \E id \in OrderIds : /\ IsNext(id)
                                   /\ tm' = AddOrder(asked, id, NewOrder(closing))
                                   /\ kind' = Put(kind, id, "Market")
                                   /\ fresh' = Stamped(id)
                                   /\ amended' = amended \cup {id}
  <2>1. closing \in Item
    <3>1. Closing(symbol) \in Int
      BY <1>1 DEF Closing
    <3> QED BY <1>6, <3>1 DEF Item, Kinds
  <2>2. PICK item \in Item : item = closing
    BY <2>1
  <2>3. /\ item.kind = "Market" /\ item.symbol = symbol
        /\ item.quantity = -holdings[symbol] - Due(symbol)
    BY <2>2 DEF Closing
  <2>4. PICK id \in OrderIds : /\ IsNext(id)
                               /\ tm' = AddOrder(a, id, NewOrder(item))
                               /\ kind' = Put(kind, id, item.kind)
                               /\ fresh' = Stamped(id)
                               /\ amended' = amended \cup {id}
    BY <1>2, <1>6, <2>2
  <2> HIDE DEF closing, asked
  <2>5. /\ StoreOK(tm)' /\ Kept(tm, tm', {})
        /\ kind' \in [DOMAIN tm'.orders -> Kinds]
        /\ fresh' \subseteq DOMAIN tm'.orders /\ amended' \subseteq DOMAIN tm'.orders
        /\ KindsKept /\ PlacedOnly({item.symbol})
        /\ Amending
    BY <1>3, <2>4, PlacingKeeps
  <2>6. ASSUME OpenIn(symbol) = OnTheirWay(symbol) PROVE Flat(symbol)'
    <3>1. id \notin DOMAIN tm.orders
      BY <2>4 DEF IsNext
    <3>2. /\ Due(symbol)' = Due(symbol) + item.quantity
          /\ OpenIn(symbol)' = OpenIn(symbol) \cup {id}
          /\ OnTheirWay(symbol)' = OnTheirWay(symbol) \cup {id}
      BY <1>3, <2>3, <2>4, <3>1, PlacingDue
    <3>3. PICK h \in Int, d \in Int : h = holdings[symbol] /\ d = Due(symbol)
      BY <1>1
    <3>4. Due(symbol)' = d + (-h - d)
      BY <2>3, <3>2, <3>3
    <3>5. holdings'[symbol] + Due(symbol)' = 0
      BY <3>3, <3>4
    <3> QED BY <2>6, <3>2, <3>5 DEF Flat
  <2> QED BY <2>3, <2>5, <2>6
<1> QED BY <1>4, <1>5, <1>6 DEF LiquidateInto

(* Liquidate.                                                               *)
LEMMA LiquidateKeepsBooks ==
    ASSUME Books, NEW symbol \in Symbols, Liquidate(symbol)
    PROVE  Books' /\ OrdersStay
<1>1. StoreOK(tm) /\ Kept(tm, tm, {})
  BY DEF Books, Kept
<1>2. /\ Running /\ slice' = slice /\ holdings' = holdings /\ holdings[symbol] # 0
      /\ liquidated' \subseteq liquidated \cup {symbol}
      /\ symbol \in liquidated' => OpenIn(symbol) = OnTheirWay(symbol)
  BY DEF Liquidate, Running
<1>3. /\ StoreOK(tm)' /\ Kept(tm, tm', {})
      /\ kind' \in [DOMAIN tm'.orders -> Kinds]
      /\ fresh' \subseteq DOMAIN tm'.orders /\ amended' \subseteq DOMAIN tm'.orders
      /\ KindsKept /\ PlacedOnly({symbol})
      /\ symbol \in liquidated' => Flat(symbol)'
  BY <1>1, <1>2, LiquidatingKeeps DEF Liquidate
<1> QED BY <1>2, <1>3, RunningFacts, KeepingBooks

(* RemoveSecurity.                                                          *)
LEMMA RemoveSecurityKeepsBooks ==
    ASSUME Books, NEW symbol \in Symbols, RemoveSecurity(symbol)
    PROVE  Books' /\ OrdersStay
<1>1. StoreOK(tm) /\ Kept(tm, tm, {}) /\ OpenIn(symbol) \subseteq tm.openIds
  BY DEF Books, Kept, OpenIn
<1>2. PICK s : s = CancelEach(tm, OpenIn(symbol))
  OBVIOUS
<1>3. /\ StoreOK(s) /\ Kept(tm, s, {})
      /\ DOMAIN s.orders = DOMAIN tm.orders /\ s.openIds = tm.openIds
  BY <1>1, <1>2, CancelSomeKeeps
<1>4. /\ Running /\ slice' = slice /\ holdings' = holdings
      /\ liquidated' \subseteq liquidated \cup {symbol}
      /\ symbol \in liquidated' => /\ holdings[symbol] # 0
                                   /\ OpenIn(symbol) = OnTheirWay(symbol)
  BY DEF RemoveSecurity, Running
<1>5. /\ StoreOK(tm)' /\ Kept(tm, tm', {})
      /\ kind' \in [DOMAIN tm'.orders -> Kinds]
      /\ fresh' \subseteq DOMAIN tm'.orders /\ amended' \subseteq DOMAIN tm'.orders
      /\ KindsKept /\ PlacedOnly({symbol})
      /\ symbol \in liquidated' => Flat(symbol)'
  BY <1>2, <1>3, <1>4, LiquidatingKeeps DEF RemoveSecurity
<1> QED BY <1>4, <1>5, RunningFacts, KeepingBooks

---------------------------------------------------------------------------
(* The runner's operations.                                                 *)

(* MarginCall: an order placed when no fill is pending.                     *)
LEMMA MarginCallKeepsBooks ==
    ASSUME Books, NEW id \in OrderIds, NEW item \in Menu[id], MarginCall(id, item)
    PROVE  Books' /\ OrdersStay
<1>1. item \in Item /\ item.symbol \in Symbols
  BY MenuType DEF Item
<1>2. StoreOK(tm) /\ Kept(tm, tm, {}) /\ fills = {}
  BY DEF Books, Kept, MarginCall, StageDone
<1>3. /\ StoreOK(tm)' /\ Kept(tm, tm', {})
      /\ kind' \in [DOMAIN tm'.orders -> Kinds]
      /\ fresh' \subseteq DOMAIN tm'.orders /\ amended' \subseteq DOMAIN tm'.orders
      /\ KindsKept /\ PlacedOnly({item.symbol})
  BY <1>1, <1>2, PlacingKeeps DEF MarginCall
<1>4. /\ fills' = fills /\ holdings' = holdings
      /\ slice' \in [data : SUBSET Symbols, met : SUBSET OrderIds]
      /\ cached' \subseteq Symbols /\ behind' \in BOOLEAN /\ control' \in BOOLEAN
      /\ liquidated' \subseteq Symbols /\ liquidated' = liquidated \ {item.symbol}
      /\ stage' \in [at : 1..Len(Stages), settled : BOOLEAN, fired : BOOLEAN]
  BY DEF MarginCall, Books, TypeOK
<1> QED BY <1>2, <1>3, <1>4, KeepingBooks

(* The moves from stage to stage: NewSlice, FireScheduled, Advance,          *)
(* SkipFramework.                                                           *)
LEMMA StageKeepsBooks ==
    ASSUME Books,
           \/ \E data \in SUBSET Symbols, met \in SUBSET Levels : NewSlice(data, met)
           \/ \E late \in BOOLEAN : FireScheduled(late)
           \/ Advance
           \/ SkipFramework
    PROVE  Books' /\ OrdersStay
<1>1. /\ tm' = tm /\ kind' = kind /\ holdings' = holdings /\ fills' = fills
      /\ liquidated' = liquidated
  BY DEF NewSlice, FireScheduled, Advance, SkipFramework
<1>2. fills = {}
  BY DEF NewSlice, FireScheduled, Advance, SkipFramework, StageDone, Books
<1>3. Len(Stages) = 5
  BY DEF Stages
<1>4. TypeOK
  BY DEF Books
<1>5. /\ slice' \in [data : SUBSET Symbols, met : SUBSET OrderIds]
      /\ cached' \subseteq Symbols /\ behind' \in BOOLEAN /\ control' \in BOOLEAN
      /\ fresh' \subseteq DOMAIN tm'.orders /\ amended' \subseteq DOMAIN tm'.orders
      /\ liquidated' \subseteq Symbols
      /\ stage' \in [at : 1..Len(Stages), settled : BOOLEAN, fired : BOOLEAN]
  <2>1. CASE \E data \in SUBSET Symbols, met \in SUBSET Levels : NewSlice(data, met)
    BY <2>1, <1>3, <1>4 DEF NewSlice, Levels, TypeOK
  <2>2. CASE \E late \in BOOLEAN : FireScheduled(late)
    BY <2>2, <1>1, <1>4 DEF FireScheduled, TypeOK
  <2>3. CASE Advance
    <3>1. stage.at \in 1..5 /\ stage.at < 5 /\ stage.at + 1 \in 1..5
      BY <2>3, <1>3, <1>4 DEF Advance, TypeOK
    <3>2. stage' \in [at : 1..Len(Stages), settled : BOOLEAN, fired : BOOLEAN]
      BY <2>3, <3>1, <1>3 DEF Advance
    <3>3. control' \in BOOLEAN
      BY <2>3 DEF Advance
    <3> QED BY <2>3, <3>2, <3>3, <1>1, <1>4 DEF Advance, TypeOK
  <2>4. CASE SkipFramework
    <3>1. stage.at \in 1..5 /\ stage.at # 5
      BY <2>4, <1>3, <1>4 DEF SkipFramework, TypeOK, Stages
    <3>2. stage.at + 1 \in 1..5
      BY <3>1
    <3> QED BY <2>4, <3>2, <1>1, <1>3, <1>4 DEF SkipFramework, TypeOK
  <2> QED BY <2>1, <2>2, <2>3, <2>4
<1>6. StoreOK(tm)' /\ Kept(tm, tm', {}) /\ kind' \in [DOMAIN tm'.orders -> Kinds]
  BY <1>1, <1>4 DEF Books, Kept, TypeOK, StoreOK, IsStore, IndexExact, TicketsMirror
<1>7. KindsKept /\ PlacedOnly({})
  BY <1>1 DEF KindsKept, PlacedOnly
<1> QED BY <1>1, <1>2, <1>5, <1>6, <1>7, KeepingBooks

(* Settle: the fills made are of open orders, at their quantity.            *)
LEMMA SettleKeepsBooks ==
    ASSUME Books, Settle
    PROVE  Books' /\ OrdersStay
<1>1. /\ tm' = tm /\ kind' = kind /\ holdings' = holdings /\ slice' = slice
      /\ fresh' = fresh /\ amended' = amended /\ liquidated' = liquidated
      /\ control' = FALSE /\ cached' = cached \cup slice.data
  BY DEF Settle
<1>2. StoreOK(tm) /\ TypeOK
  BY DEF Books
<1>3. \A fill \in fills' : /\ fill \in [id : DOMAIN tm.orders, quantity : Int]
                           /\ fill.id \in tm.openIds
                           /\ fill.quantity = tm.orders[fill.id].quantity
  <2>1. \A id \in tm.openIds : id \in DOMAIN tm.orders /\ tm.orders[id].quantity \in Int
    BY <1>2, StoreFields DEF Order
  <2>2. \A fill \in fills' : \E id \in tm.openIds :
            fill = [id |-> id, quantity |-> tm.orders[id].quantity]
    BY DEF Settle, Scanned
  <2> QED BY <2>1, <2>2
<1>4. /\ stage' \in [at : 1..Len(Stages), settled : BOOLEAN, fired : BOOLEAN]
      /\ stage'.settled
  BY <1>2 DEF Settle, TypeOK
<1>5. behind' \in BOOLEAN
  BY DEF Settle
<1>6. TypeOK'
  BY <1>1, <1>2, <1>3, <1>4, <1>5 DEF TypeOK, IsStore
<1>7. StoreOK(tm)' /\ OpenUnfilled' /\ FilledInFull' /\ StaysClosed
  BY <1>1 DEF Books, StoreOK, IsStore, IndexExact, TicketsMirror, OpenUnfilled, FilledInFull,
              StaysClosed
<1>8. HoldingsMatchFills'
  <2>1. \A symbol \in Symbols : FilledIn(symbol)' = FilledIn(symbol)
    BY <1>1, FilledInIsFilledOf
  <2> QED BY <1>1, <2>1 DEF Books, HoldingsMatchFills
<1>9. PendingFillsFit'
  BY <1>1, <1>3 DEF PendingFillsFit
<1>10. AllFlat'
  BY <1>1, DueIsDueOf DEF Books, AllFlat, Flat, OpenIn
<1>11. OrdersStay
  BY <1>1, <1>7 DEF OrdersStay
<1> QED BY <1>4, <1>6, <1>7, <1>8, <1>9, <1>10, <1>11 DEF Books

(* What an event that closes an order does to a store.                      *)
LEMMA ClosingEvent ==
    ASSUME NEW s, StoreOK(s), NEW event \in OrderEvent, event.orderId \in DOMAIN s.orders,
           ~IsOpen(event.status), NEW r, r = ProcessOrderEvent(s, event)
    PROVE  /\ StoreOK(r)
           /\ DOMAIN r.orders = DOMAIN s.orders
           /\ \A i \in DOMAIN s.orders : i # event.orderId => r.orders[i] = s.orders[i]
           /\ r.orders[event.orderId] = WithEvent(s.orders[event.orderId], event)
           /\ r.openIds = s.openIds \ {event.orderId}
<1>1. StoreOK(r)
  BY ProcessOrderEventOK
<1>2. PICK id : id = event.orderId
  OBVIOUS
<1>3. r.orders = [s.orders EXCEPT ![id] = WithEvent(s.orders[id], event)]
  BY <1>2 DEF ProcessOrderEvent, Write, AdjustOpenOrderIndex, StoreOK, IsStore
<1>4. /\ DOMAIN r.orders = DOMAIN s.orders
      /\ \A i \in DOMAIN s.orders : i # id => r.orders[i] = s.orders[i]
      /\ r.orders[id] = WithEvent(s.orders[id], event)
  BY <1>2, <1>3
<1>5. ~IsOpen(r.orders[id].status)
  <2>1. s.orders[id] \in Order
    BY <1>2, StoreFields
  <2> QED BY <1>2, <1>4, <2>1 DEF WithEvent, Order
<1>6. r.openIds = s.openIds \ {id}
  BY <1>1, <1>2, <1>4, <1>5, StoreFields
<1> QED BY <1>1, <1>2, <1>4, <1>6

(* A pending fill that closes its order leaves the others fitting theirs.   *)
LEMMA ClosingFill ==
    ASSUME Books, NEW fill \in fills, fills' = fills \ {fill},
           NEW event \in OrderEvent, event.orderId = fill.id, ~IsOpen(event.status),
           tm' = ProcessOrderEvent(tm, event),
           kind' = kind, slice' = slice, cached' = cached, behind' = behind, stage' = stage,
           fresh' = fresh, amended' = amended, control' = TRUE,
           liquidated' \subseteq liquidated, holdings' \in [Symbols -> Int]
    PROVE  /\ StoreOK(tm)' /\ TypeOK' /\ (fills' # {} => stage'.settled)
           /\ PendingFillsFit' /\ OpenUnfilled' /\ OrdersStay
           /\ DOMAIN tm'.orders = DOMAIN tm.orders
           /\ \A i \in DOMAIN tm.orders : i # fill.id => tm'.orders[i] = tm.orders[i]
           /\ tm'.orders[fill.id] = WithEvent(tm.orders[fill.id], event)
           /\ fill.id \in tm.openIds /\ tm'.openIds = tm.openIds \ {fill.id}
<1>1. StoreOK(tm) /\ TypeOK
  BY DEF Books
<1>2. /\ \A f \in fills : /\ f \in [id : DOMAIN tm.orders, quantity : Int]
                          /\ f.id \in tm.openIds
                          /\ f.quantity = tm.orders[f.id].quantity
  BY <1>1 DEF Books, TypeOK, PendingFillsFit
<1>3. fill.id \in DOMAIN tm.orders /\ IsOpen(tm.orders[fill.id].status)
  BY <1>1, <1>2, StoreFields
<1>4. PICK r : r = tm'
  OBVIOUS
<1>5. /\ StoreOK(r)
      /\ DOMAIN r.orders = DOMAIN tm.orders
      /\ \A i \in DOMAIN tm.orders : i # event.orderId => r.orders[i] = tm.orders[i]
      /\ r.orders[event.orderId] = WithEvent(tm.orders[event.orderId], event)
      /\ r.openIds = tm.openIds \ {event.orderId}
  BY <1>1, <1>3, <1>4, ClosingEvent
<1>6. StoreOK(tm)'
  BY <1>4, <1>5 DEF StoreOK, IsStore, IndexExact, TicketsMirror
<1>7. TypeOK'
  <2>1. IsStore(tm)'
    BY <1>6 DEF StoreOK
  <2> QED BY <2>1, <1>1, <1>4, <1>5 DEF TypeOK
<1>8. \A f \in fills' : f.id # fill.id
  <2>1. ASSUME NEW f \in fills, f.id = fill.id PROVE f = fill
    BY <1>2, <2>1
  <2> QED BY <2>1
<1>9. PendingFillsFit'
  <2>1. \A f \in fills' : /\ f.id \in r.openIds
                          /\ f.quantity = r.orders[f.id].quantity
    <3>1. ASSUME NEW f \in fills' PROVE f.id \in DOMAIN tm.orders /\ f.id # event.orderId
                                        /\ f.id \in tm.openIds
                                        /\ f.quantity = tm.orders[f.id].quantity
      BY <1>2, <1>8
    <3> QED BY <3>1, <1>5
  <2> QED BY <2>1, <1>4 DEF PendingFillsFit
<1>10. OpenUnfilled'
  <2>1. \A id \in r.openIds : id \in DOMAIN tm.orders /\ id # event.orderId /\ id \in tm.openIds
    BY <1>1, <1>5, StoreFields
  <2>2. \A id \in r.openIds : r.orders[id].filled = 0
    BY <2>1, <1>5 DEF Books, OpenUnfilled
  <2> QED BY <2>2, <1>4 DEF OpenUnfilled
<1>11. OrdersStay
  <2>1. StaysClosed
    BY <1>3, <1>4, <1>5 DEF StaysClosed
  <2>2. tm.orders[fill.id] \in Order /\ fill.id = event.orderId
    BY <1>1, <1>3, StoreFields
  <2>3. r.orders[fill.id].symbol = tm.orders[fill.id].symbol
    BY <1>5, <2>2 DEF WithEvent, Order
  <2>4. \A i \in DOMAIN tm.orders : r.orders[i].symbol = tm.orders[i].symbol
    BY <1>5, <2>2, <2>3
  <2> QED BY <1>4, <1>5, <2>1, <2>4 DEF OrdersStay
<1>12. fills' # {} => stage'.settled
  BY DEF Books
<1> QED BY <1>2, <1>4, <1>5, <1>6, <1>7, <1>9, <1>10, <1>11, <1>12

(* An order that closes takes its remainder from what is on its way.        *)
LEMMA ClosingDue ==
    ASSUME Books, StoreOK(tm)', NEW x \in tm.openIds, kind' = kind,
           DOMAIN tm'.orders = DOMAIN tm.orders,
           \A i \in DOMAIN tm.orders : i # x => tm'.orders[i] = tm.orders[i],
           tm'.openIds = tm.openIds \ {x}, NEW symbol
    PROVE  /\ symbol # tm.orders[x].symbol
                  => /\ OpenIn(symbol)' = OpenIn(symbol)
                     /\ OnTheirWay(symbol)' = OnTheirWay(symbol)
                     /\ Due(symbol)' = Due(symbol)
           /\ x \in OnTheirWay(symbol)
                  => /\ OpenIn(symbol)' = OpenIn(symbol) \ {x}
                     /\ OnTheirWay(symbol)' = OnTheirWay(symbol) \ {x}
                     /\ Due(symbol) = Remaining(tm.orders[x]) + Due(symbol)'
<1>1. PICK s, r, k : s = tm /\ r = tm' /\ k = kind
  OBVIOUS
<1>2. StoreOK(s) /\ StoreOK(r)
  BY <1>1 DEF Books, StoreOK, IsStore, IndexExact, TicketsMirror
<1>3. /\ \A i \in s.openIds : i # x => i \in DOMAIN s.orders /\ r.orders[i] = s.orders[i]
      /\ r.openIds = s.openIds \ {x}
  BY <1>1, <1>2, StoreFields
<1>4. /\ OpenIn(symbol) = OpenOf(s, symbol) /\ OpenIn(symbol)' = OpenOf(r, symbol)
      /\ OnTheirWay(symbol) = WayIn(s, k, symbol) /\ OnTheirWay(symbol)' = WayIn(r, k, symbol)
      /\ Due(symbol) = DueOf(s, k, symbol) /\ Due(symbol)' = DueOf(r, k, symbol)
  BY <1>1, DueIsDueOf DEF OpenIn, OpenOf
<1>5. PICK f, g, V, W : /\ f = Rests(s, k, symbol) /\ g = Rests(r, k, symbol)
                        /\ V = WayIn(s, k, symbol) /\ W = WayIn(r, k, symbol)
  OBVIOUS
<1>6. OpenOf(r, symbol) = OpenOf(s, symbol) \ {x} /\ W = V \ {x}
  BY <1>3, <1>5 DEF OpenOf, WayIn
<1>7. \A i \in W : g[i] = f[i]
  <2>1. \A i \in W : i \in V /\ i # x /\ i \in s.openIds
    BY <1>5, <1>6 DEF WayIn
  <2> QED BY <2>1, <1>3, <1>5 DEF Rests
<1>8. /\ IsFiniteSet(V) /\ IsFiniteSet(W)
      /\ \A i \in V : f[i] \in Int
  BY <1>2, <1>5, RestsType
<1>9. Total(g, W) = Total(f, W)
  BY <1>7, <1>8, TotalSame
<1>10. DueOf(s, k, symbol) = Total(f, V) /\ DueOf(r, k, symbol) = Total(g, W)
  BY <1>5 DEF DueOf
<1>11. CASE symbol # tm.orders[x].symbol
  <2>1. x \notin OpenOf(s, symbol) /\ x \notin V
    BY <1>1, <1>5, <1>11 DEF OpenOf, WayIn
  <2>2. OpenOf(r, symbol) = OpenOf(s, symbol) /\ W = V
    BY <1>6, <2>1
  <2> QED BY <1>4, <1>5, <1>9, <1>10, <1>11, <2>1, <2>2
<1>12. CASE symbol = tm.orders[x].symbol
  <2>1. ASSUME x \in V
        PROVE  Total(f, V) = Remaining(tm.orders[x]) + Total(f, W)
    <3>1. Total(f, V) = f[x] + Total(f, V \ {x})
      BY <1>8, <2>1, TotalRemove
    <3>2. f[x] = Remaining(tm.orders[x])
      BY <1>1, <1>5, <2>1 DEF Rests
    <3> QED BY <3>1, <3>2, <1>6
  <2> QED BY <2>1, <1>4, <1>5, <1>6, <1>9, <1>10, <1>12
<1> QED BY <1>11, <1>12

(* ApplyFill: an order with nothing filled is filled by its quantity, and   *)
(* the holding of its symbol moves by as much.                              *)
LEMMA ApplyFillKeepsBooks ==
    ASSUME Books, NEW fill \in fills, ApplyFill(fill)
    PROVE  Books' /\ OrdersStay
<1> DEFINE event == [orderId |-> fill.id, status |-> "Filled", fillQuantity |-> fill.quantity]
<1>1. StoreOK(tm) /\ TypeOK
  BY DEF Books
<1>2. /\ fill.id \in DOMAIN tm.orders /\ fill.id \in OrderIds /\ fill.quantity \in Int
      /\ fill.quantity = tm.orders[fill.id].quantity
      /\ tm.orders[fill.id] \in Order /\ tm.orders[fill.id].filled = 0
  BY <1>1, StoreFields DEF Books, TypeOK, PendingFillsFit, OpenUnfilled
<1>3. event \in OrderEvent /\ event.orderId = fill.id /\ ~IsOpen(event.status)
  BY <1>2 DEF OrderEvent, Status, IsOpen
<1>4. PICK moved : moved = tm.orders[fill.id].symbol
  OBVIOUS
<1>5. moved \in Symbols
  BY <1>2, <1>4 DEF Order
<1>6. /\ holdings' \in [Symbols -> Int]
      /\ holdings'[moved] = holdings[moved] + fill.quantity
      /\ \A symbol \in Symbols : symbol # moved => holdings'[symbol] = holdings[symbol]
  BY <1>1, <1>2, <1>4, <1>5 DEF ApplyFill, TypeOK
<1>7. PICK e : e = event
  OBVIOUS
<1>8. e \in OrderEvent /\ e.orderId = fill.id /\ ~IsOpen(e.status)
  BY <1>3, <1>7
<1>9. /\ StoreOK(tm)' /\ TypeOK' /\ (fills' # {} => stage'.settled)
      /\ PendingFillsFit' /\ OpenUnfilled' /\ OrdersStay
      /\ DOMAIN tm'.orders = DOMAIN tm.orders
      /\ \A i \in DOMAIN tm.orders : i # fill.id => tm'.orders[i] = tm.orders[i]
      /\ tm'.orders[fill.id] = WithEvent(tm.orders[fill.id], e)
      /\ fill.id \in tm.openIds /\ tm'.openIds = tm.openIds \ {fill.id}
  <2>1. /\ tm' = ProcessOrderEvent(tm, e)
        /\ fills' = fills \ {fill}
        /\ kind' = kind /\ slice' = slice /\ cached' = cached /\ behind' = behind
        /\ stage' = stage /\ fresh' = fresh /\ amended' = amended /\ control' = TRUE
        /\ liquidated' = liquidated
    BY <1>7 DEF ApplyFill
  <2> HIDE DEF event
  <2> QED BY <2>1, <1>6, <1>8, ClosingFill
<1>10. /\ tm'.orders[fill.id].filled = fill.quantity
       /\ tm'.orders[fill.id].quantity = fill.quantity
       /\ tm'.orders[fill.id].symbol = moved
  BY <1>2, <1>4, <1>7, <1>9 DEF WithEvent, IsFill, Order
<1>11. FilledInFull'
  BY <1>9, <1>10 DEF Books, FilledInFull
<1>12. HoldingsMatchFills'
  <2>1. PICK s, r : s = tm /\ r = tm'
    OBVIOUS
  <2>2. StoreOK(s) /\ StoreOK(r)
    BY <1>1, <1>9, <2>1 DEF StoreOK, IsStore, IndexExact, TicketsMirror
  <2>3. \A symbol \in Symbols : OrdersIn(r, symbol) = OrdersIn(s, symbol)
    BY <1>4, <1>9, <1>10, <2>1 DEF OrdersIn
  <2>4. FilledOf(r, moved) = FilledOf(s, moved) + fill.quantity
    <3>1. fill.id \in OrdersIn(s, moved)
      BY <1>2, <1>4, <2>1 DEF OrdersIn
    <3>2. \A i \in OrdersIn(s, moved) :
              i # fill.id => Filleds(s, moved)[i] = Filleds(r, moved)[i]
      BY <1>9, <2>1, <2>3, <1>5 DEF Filleds, OrdersIn
    <3>3. /\ Filleds(s, moved)[fill.id] = 0
          /\ Filleds(r, moved)[fill.id] = fill.quantity
      BY <1>2, <1>5, <1>10, <2>1, <2>3, <3>1 DEF Filleds
    <3>4. PICK f, g, S : f = Filleds(s, moved) /\ g = Filleds(r, moved) /\ S = OrdersIn(s, moved)
      OBVIOUS
    <3>5. IsFiniteSet(S) /\ \A i \in S : f[i] \in Int /\ g[i] \in Int
      BY <1>5, <2>2, <2>3, <3>4, FilledsType
    <3>6. Total(g, S) = Total(f, S) + (g[fill.id] - f[fill.id])
      BY <3>1, <3>2, <3>4, <3>5, TotalChange
    <3>7. Total(f, S) \in Int
      BY <3>5, TotalType
    <3>8. g[fill.id] - f[fill.id] = fill.quantity
      BY <3>3, <3>4, <1>2
    <3>9. FilledOf(r, moved) = Total(g, S) /\ FilledOf(s, moved) = Total(f, S)
      BY <1>5, <2>3, <3>4 DEF FilledOf
    <3> QED BY <3>6, <3>8, <3>9
  <2>5. ASSUME NEW symbol \in Symbols, symbol # moved
        PROVE  FilledOf(r, symbol) = FilledOf(s, symbol)
    <3>1. fill.id \notin OrdersIn(s, symbol)
      BY <1>4, <2>1, <2>5 DEF OrdersIn
    <3>2. \A i \in OrdersIn(s, symbol) : Filleds(r, symbol)[i] = Filleds(s, symbol)[i]
      BY <1>9, <2>1, <2>3, <3>1 DEF Filleds, OrdersIn
    <3>3. IsFiniteSet(OrdersIn(s, symbol))
      BY <2>2, FilledsType
    <3>4. Total(Filleds(r, symbol), OrdersIn(s, symbol))
              = Total(Filleds(s, symbol), OrdersIn(s, symbol))
      BY <3>2, <3>3, TotalSame
    <3> QED BY <3>4, <2>3 DEF FilledOf
  <2>6. \A symbol \in Symbols : /\ FilledIn(symbol) = FilledOf(s, symbol)
                                /\ FilledIn(symbol)' = FilledOf(r, symbol)
    BY <2>1, FilledInIsFilledOf
  <2>7. \A symbol \in Symbols : holdings[symbol] = FilledOf(s, symbol)
    BY <2>6 DEF Books, HoldingsMatchFills
  <2>8. \A symbol \in Symbols : holdings'[symbol] = FilledOf(r, symbol)
    BY <1>5, <1>6, <2>4, <2>5, <2>7
  <2> QED BY <2>6, <2>8 DEF HoldingsMatchFills
<1>13. AllFlat'
  <2>1. StoreOK(tm)' /\ kind' = kind /\ liquidated' = liquidated /\ liquidated \subseteq Symbols
    BY <1>1, <1>9 DEF ApplyFill, TypeOK
  <2>2. ASSUME NEW symbol \in liquidated, symbol # moved PROVE Flat(symbol)'
    <3>1. /\ OpenIn(symbol)' = OpenIn(symbol)
          /\ OnTheirWay(symbol)' = OnTheirWay(symbol)
          /\ Due(symbol)' = Due(symbol)
      BY <1>4, <1>9, <2>1, <2>2, ClosingDue
    <3> QED BY <3>1, <1>6, <2>1, <2>2 DEF Books, AllFlat, Flat
  <2>3. ASSUME moved \in liquidated PROVE Flat(moved)'
    <3>1. Flat(moved) /\ Due(moved) \in Int /\ holdings[moved] \in Int
      BY <1>1, <1>5, <2>3, DueType DEF Books, AllFlat, TypeOK
    <3>2. fill.id \in OnTheirWay(moved)
      BY <3>1, <1>4, <1>9 DEF Flat, OpenIn
    <3>3. /\ OpenIn(moved)' = OpenIn(moved) \ {fill.id}
          /\ OnTheirWay(moved)' = OnTheirWay(moved) \ {fill.id}
          /\ Due(moved) = Remaining(tm.orders[fill.id]) + Due(moved)'
      BY <3>2, <1>9, <2>1, ClosingDue
    <3>4. Remaining(tm.orders[fill.id]) = fill.quantity
      BY <1>2 DEF Remaining
    <3>5. Due(moved)' \in Int
      <4>1. Due(moved)' = Total(Rests(tm', kind', moved), WayIn(tm', kind', moved))
        BY DueIsDueOf DEF DueOf
      <4>2. PICK r : r = tm' /\ StoreOK(r)
        BY <1>9 DEF StoreOK, IsStore, IndexExact, TicketsMirror
      <4> QED BY <4>1, <4>2, RestsType, TotalType
    <3>6. PICK h \in Int, d \in Int, e2 \in Int :
              h = holdings[moved] /\ d = Due(moved) /\ e2 = Due(moved)'
      BY <3>1, <3>5
    <3>7. h + d = 0 /\ d = fill.quantity + e2 /\ holdings'[moved] = h + fill.quantity
      BY <1>6, <3>1, <3>3, <3>4, <3>6 DEF Flat
    <3>8. holdings'[moved] + Due(moved)' = 0
      BY <1>2, <3>6, <3>7
    <3> QED BY <3>1, <3>3, <3>8 DEF Flat
  <2> QED BY <2>1, <2>2, <2>3 DEF AllFlat
<1> QED BY <1>9, <1>11, <1>12, <1>13 DEF Books

(* RejectFill: nothing is filled, nothing is held for it.                   *)
LEMMA RejectFillKeepsBooks ==
    ASSUME Books, NEW fill \in fills, RejectFill(fill)
    PROVE  Books' /\ OrdersStay
<1> DEFINE event == [orderId |-> fill.id, status |-> "Invalid", fillQuantity |-> 0]
<1>1. StoreOK(tm) /\ TypeOK
  BY DEF Books
<1>2. /\ fill.id \in DOMAIN tm.orders /\ fill.id \in OrderIds /\ tm.orders[fill.id] \in Order
  BY <1>1, StoreFields DEF Books, TypeOK, PendingFillsFit
<1>3. PICK e : e = event
  OBVIOUS
<1>4. e \in OrderEvent /\ e.orderId = fill.id /\ e.status = "Invalid" /\ ~IsOpen(e.status)
  BY <1>2, <1>3 DEF OrderEvent, Status, IsOpen
<1>5. /\ StoreOK(tm)' /\ TypeOK' /\ (fills' # {} => stage'.settled)
      /\ PendingFillsFit' /\ OpenUnfilled' /\ OrdersStay
      /\ DOMAIN tm'.orders = DOMAIN tm.orders
      /\ \A i \in DOMAIN tm.orders : i # fill.id => tm'.orders[i] = tm.orders[i]
      /\ tm'.orders[fill.id] = WithEvent(tm.orders[fill.id], e)
      /\ fill.id \in tm.openIds /\ tm'.openIds = tm.openIds \ {fill.id}
  <2>1. /\ tm' = ProcessOrderEvent(tm, e)
        /\ fills' = fills \ {fill}
        /\ kind' = kind /\ slice' = slice /\ cached' = cached /\ behind' = behind
        /\ stage' = stage /\ fresh' = fresh /\ amended' = amended /\ control' = TRUE
        /\ liquidated' \subseteq liquidated
    BY <1>3 DEF RejectFill
  <2>2. holdings' \in [Symbols -> Int]
    BY <1>1 DEF RejectFill, TypeOK
  <2> HIDE DEF event
  <2> QED BY <2>1, <2>2, <1>4, ClosingFill
<1>6. /\ tm'.orders[fill.id].filled = tm.orders[fill.id].filled
      /\ tm'.orders[fill.id].symbol = tm.orders[fill.id].symbol
      /\ tm'.orders[fill.id].status = "Invalid"
  BY <1>2, <1>4, <1>5 DEF WithEvent, IsFill, Order
<1>7. FilledInFull'
  BY <1>5, <1>6 DEF Books, FilledInFull
<1>8. HoldingsMatchFills'
  <2>1. PICK s, r : s = tm /\ r = tm'
    OBVIOUS
  <2>2. \A i \in DOMAIN s.orders : /\ r.orders[i].symbol = s.orders[i].symbol
                                   /\ r.orders[i].filled = s.orders[i].filled
    BY <1>5, <1>6, <2>1
  <2>3. ASSUME NEW symbol \in Symbols
        PROVE  FilledOf(r, symbol) = FilledOf(s, symbol)
    <3>1. OrdersIn(r, symbol) = OrdersIn(s, symbol)
      BY <1>5, <2>1, <2>2 DEF OrdersIn
    <3>2. Filleds(r, symbol) = Filleds(s, symbol)
      BY <2>2, <3>1 DEF Filleds, OrdersIn
    <3> QED BY <3>1, <3>2 DEF FilledOf
  <2>4. \A symbol \in Symbols : /\ FilledIn(symbol) = FilledOf(s, symbol)
                                /\ FilledIn(symbol)' = FilledOf(r, symbol)
    BY <2>1, FilledInIsFilledOf
  <2>5. holdings' = holdings
    BY DEF RejectFill
  <2> QED BY <2>3, <2>4, <2>5 DEF Books, HoldingsMatchFills
<1>9. AllFlat'
  <2>1. /\ StoreOK(tm)' /\ kind' = kind /\ holdings' = holdings
        /\ liquidated' = liquidated \ {tm.orders[fill.id].symbol}
    BY <1>5 DEF RejectFill
  <2>2. ASSUME NEW symbol \in liquidated' PROVE Flat(symbol)'
    <3>1. symbol \in liquidated /\ symbol # tm.orders[fill.id].symbol
      BY <2>1, <2>2
    <3>2. /\ OpenIn(symbol)' = OpenIn(symbol)
          /\ OnTheirWay(symbol)' = OnTheirWay(symbol)
          /\ Due(symbol)' = Due(symbol)
      BY <1>5, <2>1, <3>1, ClosingDue
    <3> QED BY <3>1, <3>2, <2>1 DEF Books, AllFlat, Flat
  <2> QED BY <2>2 DEF AllFlat
<1> QED BY <1>5, <1>7, <1>8, <1>9 DEF Books

(* A backtest starts with its books in order.                               *)
LEMMA StartsWithBooks == Init => Books
<1> SUFFICES ASSUME Init PROVE Books
  OBVIOUS
<1>1. StoreOK(tm)
  BY EmptyStoreOK DEF Init
<1>2. DOMAIN tm.orders = {} /\ tm.openIds = {}
  BY DEF Init, EmptyStore
<1>3. TypeOK
  <2>1. IsStore(tm)
    BY <1>1 DEF StoreOK
  <2>2. stage \in [at : 1..Len(Stages), settled : BOOLEAN, fired : BOOLEAN]
    BY DEF Init, Stages
  <2>3. kind \in [DOMAIN tm.orders -> Kinds]
    BY <1>2 DEF Init
  <2>4. holdings \in [Symbols -> Int]
    BY DEF Init
  <2>5. slice \in [data : SUBSET Symbols, met : SUBSET OrderIds]
    BY DEF Init
  <2> QED BY <2>1, <2>2, <2>3, <2>4, <2>5 DEF Init, TypeOK
<1>4. (fills # {} => stage.settled) /\ PendingFillsFit /\ OpenUnfilled /\ FilledInFull
  BY <1>2 DEF Init, PendingFillsFit, OpenUnfilled, FilledInFull
<1>5. HoldingsMatchFills
  <2>1. ASSUME NEW symbol \in Symbols PROVE FilledIn(symbol) = 0
    <3>1. OrdersIn(tm, symbol) = {}
      BY <1>2 DEF OrdersIn
    <3> QED BY <3>1, FilledInIsFilledOf, TotalUnfolds, FS_EmptySet DEF FilledOf
  <2> QED BY <2>1 DEF Init, HoldingsMatchFills
<1>6. AllFlat
  BY DEF Init, AllFlat
<1> QED BY <1>1, <1>3, <1>4, <1>5, <1>6 DEF Books

(* Every step keeps the books and leaves the closed orders closed.          *)
LEMMA StepKeepsBooks == Books /\ [Next]_vars => Books' /\ OrdersStay
<1> SUFFICES ASSUME Books, [Next]_vars PROVE Books' /\ OrdersStay
  OBVIOUS
<1>1. CASE Act
  <2>1. CASE \E id \in OrderIds : \E item \in Menu[id] : Place(id, item)
    BY <2>1, PlaceKeepsBooks
  <2>2. CASE \E id \in OrderIds : \E item \in Menu[id] : Replace(id, item)
    BY <2>2, ReplaceKeepsBooks
  <2>3. CASE \E id \in OrderIds : Cancel(id)
    BY <2>3, CancelKeepsBooks
  <2>4. CASE \E id \in OrderIds : UpdateTicket(id)
    BY <2>4, UpdateTicketKeepsBooks
  <2>5. CASE \E id \in OrderIds : \E quantity \in Resizes : UpdateExecution(id, quantity)
    BY <2>5, UpdateExecutionKeepsBooks
  <2>6. CASE \E symbol \in Symbols : Liquidate(symbol)
    BY <2>6, LiquidateKeepsBooks
  <2>7. CASE \E symbol \in Symbols : RemoveSecurity(symbol)
    BY <2>7, RemoveSecurityKeepsBooks
  <2> QED BY <1>1, <2>1, <2>2, <2>3, <2>4, <2>5, <2>6, <2>7 DEF Act
<1>2. CASE \/ \E data \in SUBSET Symbols, met \in SUBSET Levels : NewSlice(data, met)
           \/ \E late \in BOOLEAN : FireScheduled(late)
           \/ Advance \/ SkipFramework
  BY <1>2, StageKeepsBooks
<1>3. CASE Settle
  BY <1>3, SettleKeepsBooks
<1>4. CASE \E fill \in fills : ApplyFill(fill)
  BY <1>4, ApplyFillKeepsBooks
<1>5. CASE \E fill \in fills : RejectFill(fill)
  BY <1>5, RejectFillKeepsBooks
<1>6. CASE \E id \in OrderIds : \E item \in Menu[id] : MarginCall(id, item)
  BY <1>6, MarginCallKeepsBooks
<1>7. CASE UNCHANGED vars
  <2>1. /\ tm' = tm /\ kind' = kind /\ holdings' = holdings /\ slice' = slice
        /\ cached' = cached /\ behind' = behind /\ fresh' = fresh /\ stage' = stage
        /\ fills' = fills /\ control' = control /\ amended' = amended
        /\ liquidated' = liquidated
    BY <1>7 DEF vars
  <2>2. TypeOK /\ StoreOK(tm) /\ (fills # {} => stage.settled)
    BY DEF Books
  <2>3. StoreOK(tm)' /\ Kept(tm, tm', {})
    BY <2>1, <2>2 DEF Kept, StoreOK, IsStore, IndexExact, TicketsMirror
  <2>4. KindsKept /\ PlacedOnly({})
    BY <2>1 DEF KindsKept, PlacedOnly
  <2> QED BY <2>1, <2>2, <2>3, <2>4, KeepingBooks DEF TypeOK
<1> QED BY <1>1, <1>2, <1>3, <1>4, <1>5, <1>6, <1>7 DEF Next

---------------------------------------------------------------------------
(* What OnData may find.                                                    *)

(* What the slice asks of an order, besides data for its symbol.            *)
MayFill(id) ==
    /\ kind[id] \in {"Limit", "Stop"} => id \in slice.met
    /\ kind[id] = "Limit" => id \notin fresh

(* Once a slice with data has been settled, an order resting since before   *)
(* it that it fills has its fill on the way.                                *)
RestingSettled ==
    (stage.at # 1 \/ stage.settled) /\ slice.data # {} =>
        \A id \in tm.openIds \ amended :
            tm.orders[id].symbol \in slice.data /\ MayFill(id) => \E fill \in fills : fill.id = id

(* A step that leaves the orders it does not amend, and the runner, alone.  *)
OnlyAmends ==
    /\ Amending
    /\ fills' = fills /\ slice'.data = slice.data
    /\ \A id \in slice'.met \ amended' : id \in slice.met

(* The ticket's and the framework's updates move the level of one order.    *)
LEMMA MoveLevelAmends ==
    ASSUME Books, NEW id, MoveLevel(id), amended' = amended \cup {id}
    PROVE  slice'.data = slice.data /\ \A i \in slice'.met \ amended' : i \in slice.met
BY DEF MoveLevel, Books, TypeOK

(* All the algorithm may do is amend: an order placed or changed is among   *)
(* the amended ones.                                                        *)
LEMMA ActsAmend ==
    ASSUME Books, Act
    PROVE  OnlyAmends
<1>1. StoreOK(tm) /\ Kept(tm, tm, {})
  BY DEF Books, Kept
<1>2. ASSUME NEW symbol PROVE OpenIn(symbol) \subseteq tm.openIds
  BY DEF OpenIn
<1>3. ASSUME NEW id \in OrderIds, NEW item \in Menu[id], Place(id, item) PROVE OnlyAmends
  <2>1. item \in Item
    BY MenuType
  <2> QED BY <1>1, <1>3, <2>1, PlacingKeeps DEF Place, Running, OnlyAmends
<1>4. ASSUME NEW id \in OrderIds, NEW item \in Menu[id], Replace(id, item) PROVE OnlyAmends
  <2>1. item \in Item
    BY MenuType
  <2>2. PICK s : s = CancelEach(tm, OpenIn(item.symbol))
    OBVIOUS
  <2>3. StoreOK(s) /\ Kept(tm, s, {}) /\ DOMAIN s.orders = DOMAIN tm.orders
    BY <1>1, <1>2, <2>2, CancelSomeKeeps
  <2>4. Amending
    BY <1>4, <2>1, <2>2, <2>3, PlacingKeeps DEF Replace
  <2> QED BY <1>4, <2>4 DEF Replace, Running, OnlyAmends
<1>5. ASSUME NEW id \in OrderIds, Cancel(id) PROVE OnlyAmends
  <2>1. PICK r : r = tm'
    OBVIOUS
  <2>2. DOMAIN r.orders = DOMAIN tm.orders
    BY <1>5, <2>1, CancelKeeps DEF Books, Cancel
  <2> QED BY <1>5, <2>1, <2>2 DEF Cancel, Running, OnlyAmends, Amending
<1>6. ASSUME NEW id \in OrderIds, NEW quantity \in Int, CanRequestUpdate(tm, id),
             tm' = RequestUpdateOrder(tm, id, quantity), MoveLevel(id),
             Running, fresh' = fresh, amended' = amended \cup {id}
      PROVE  OnlyAmends
  <2>1. PICK r : r = tm'
    OBVIOUS
  <2>2. CanRequestUpdate(tm, id) /\ r = RequestUpdateOrder(tm, id, quantity) /\ quantity \in Int
    BY <1>6, <2>1
  <2>3. DOMAIN r.orders = DOMAIN tm.orders /\ Kept(tm, r, {id})
    BY <1>1, <2>2, UpdateKeeps
  <2>4. slice'.data = slice.data /\ \A i \in slice'.met \ amended' : i \in slice.met
    BY <1>6, MoveLevelAmends
  <2> QED BY <1>6, <2>1, <2>3, <2>4 DEF Running, OnlyAmends, Amending
<1>7. ASSUME NEW id \in OrderIds, UpdateTicket(id) PROVE OnlyAmends
  <2>1. CanRequestUpdate(tm, id)
    BY <1>7 DEF UpdateTicket
  <2>2. tm.orders[id].quantity \in Int
    BY <1>1, <2>1, StoreFields DEF CanRequestUpdate, Order
  <2> QED BY <1>6, <1>7, <2>1, <2>2 DEF UpdateTicket
<1>8. ASSUME NEW id \in OrderIds, NEW quantity \in Resizes, UpdateExecution(id, quantity)
      PROVE  OnlyAmends
  <2>1. quantity \in Int
    BY OtherAssumption
  <2> QED BY <1>6, <1>8, <2>1 DEF UpdateExecution
<1>9. ASSUME NEW symbol \in Symbols, Liquidate(symbol) PROVE OnlyAmends
  <2>1. Amending
    BY <1>1, <1>9, LiquidatingKeeps DEF Liquidate, Running
  <2> QED BY <1>9, <2>1 DEF Liquidate, Running, OnlyAmends
<1>10. ASSUME NEW symbol \in Symbols, RemoveSecurity(symbol) PROVE OnlyAmends
  <2>1. PICK s : s = CancelEach(tm, OpenIn(symbol))
    OBVIOUS
  <2>2. /\ StoreOK(s) /\ Kept(tm, s, {})
        /\ DOMAIN s.orders = DOMAIN tm.orders /\ s.openIds = tm.openIds
    BY <1>1, <1>2, <2>1, CancelSomeKeeps
  <2>3. LiquidateInto(s, symbol) /\ holdings' = holdings
    BY <1>10, <2>1 DEF RemoveSecurity, Running
  <2>4. Amending
    BY <2>2, <2>3, LiquidatingKeeps
  <2> QED BY <1>10, <2>4 DEF RemoveSecurity, Running, OnlyAmends
<1> QED BY <1>3, <1>4, <1>5, <1>7, <1>8, <1>9, <1>10 DEF Act

(* So is the order of a margin call.                                        *)
LEMMA MarginCallAmends ==
    ASSUME Books, NEW id \in OrderIds, NEW item \in Menu[id], MarginCall(id, item)
    PROVE  OnlyAmends
<1>1. item \in Item
  BY MenuType
<1>2. StoreOK(tm) /\ Kept(tm, tm, {})
  BY DEF Books, Kept
<1>3. Amending
  BY <1>1, <1>2, PlacingKeeps DEF MarginCall
<1> QED BY <1>3 DEF MarginCall, OnlyAmends

(* A step that only amends finds an order that rests open, resting before.  *)
LEMMA AmendingKeepsSettled ==
    ASSUME Books, Books', OrdersStay, RestingSettled, OnlyAmends,
           stage'.at # 1 \/ stage'.settled => stage.at # 1 \/ stage.settled
    PROVE  RestingSettled'
<1>1. StoreOK(tm) /\ StoreOK(tm')
  BY DEF Books, StoreOK, IsStore, IndexExact, TicketsMirror
<1>2. PICK s, r : s = tm /\ r = tm'
  OBVIOUS
<1>3. /\ s.openIds = {i \in DOMAIN s.orders : IsOpen(s.orders[i].status)}
      /\ r.openIds = {i \in DOMAIN r.orders : IsOpen(r.orders[i].status)}
  BY <1>1, <1>2, StoreFields
<1>4. ASSUME stage'.at # 1 \/ stage'.settled, slice'.data # {},
             NEW id \in tm'.openIds \ amended',
             tm'.orders[id].symbol \in slice'.data, MayFill(id)'
      PROVE  \E fill \in fills' : fill.id = id
  <2>1. id \in DOMAIN s.orders /\ id \notin amended
    BY <1>2, <1>3, <1>4 DEF OnlyAmends, Amending
  <2>2. /\ r.orders[id].symbol = s.orders[id].symbol /\ kind'[id] = kind[id]
        /\ id \in s.openIds
    BY <1>2, <1>3, <1>4, <2>1 DEF OrdersStay, StaysClosed
  <2>3. MayFill(id)
    BY <1>4, <2>2 DEF MayFill, OnlyAmends, Amending
  <2>4. id \in tm.openIds \ amended /\ tm.orders[id].symbol \in slice.data /\ slice.data # {}
    BY <1>2, <1>4, <2>1, <2>2 DEF OnlyAmends
  <2>5. \E fill \in fills : fill.id = id
    BY <1>4, <2>3, <2>4 DEF RestingSettled
  <2> QED BY <2>5 DEF OnlyAmends
<1> QED BY <1>4 DEF RestingSettled

(* Settle makes the fills of all the orders the slice fills.                *)
LEMMA SettleSettles ==
    ASSUME Books, Settle
    PROVE  RestingSettled'
<1>1. tm' = tm /\ kind' = kind /\ slice' = slice /\ fresh' = fresh /\ amended' = amended
  BY DEF Settle
<1>2. ASSUME slice.data # {}, NEW id \in tm.openIds, tm.orders[id].symbol \in slice.data,
             MayFill(id)
      PROVE  \E fill \in fills' : fill.id = id
  <2>1. Fillable(id)
    BY <1>2 DEF MayFill, Fillable
  <2>2. [id |-> id, quantity |-> tm.orders[id].quantity] \in fills'
    BY <1>2, <2>1 DEF Settle, Settles, Scanned
  <2> QED BY <2>2
<1> QED BY <1>1, <1>2 DEF RestingSettled, MayFill

(* A fill applied or rejected closes its order and leaves the other fills.  *)
LEMMA ClosingKeepsSettled ==
    ASSUME Books, OrdersStay, RestingSettled, NEW fill \in fills, fills' = fills \ {fill},
           StoreOK(tm), tm'.openIds = tm.openIds \ {fill.id},
           kind' = kind, slice' = slice, fresh' = fresh, stage' = stage, amended' = amended
    PROVE  RestingSettled'
<1>1. ASSUME stage.at # 1 \/ stage.settled, slice.data # {},
             NEW id \in tm'.openIds \ amended,
             tm'.orders[id].symbol \in slice.data, MayFill(id)'
      PROVE  \E f \in fills' : f.id = id
  <2>1. id \in tm.openIds \ amended /\ id # fill.id
    BY <1>1
  <2>2. tm.orders[id].symbol \in slice.data
    BY <1>1, <2>1, StoreFields DEF OrdersStay
  <2>3. MayFill(id)
    BY <1>1 DEF MayFill
  <2>4. \E f \in fills : f.id = id
    BY <1>1, <2>1, <2>2, <2>3 DEF RestingSettled
  <2> QED BY <2>1, <2>4
<1> QED BY <1>1 DEF RestingSettled

(* Every step keeps the resting orders settled: a new slice starts over,    *)
(* and the stages after the first are entered from a settled one.           *)
LEMMA StepKeepsSettled ==
    ASSUME Books, Books', OrdersStay, RestingSettled, [Next]_vars
    PROVE  RestingSettled'
<1>1. CASE Act
  <2>1. stage' = stage
    BY <1>1 DEF Act, Place, Replace, Cancel, UpdateTicket, UpdateExecution, Liquidate,
                RemoveSecurity, Running
  <2> QED BY <1>1, <2>1, ActsAmend, AmendingKeepsSettled
<1>2. CASE \E id \in OrderIds : \E item \in Menu[id] : MarginCall(id, item)
  <2>1. stage.settled
    BY <1>2 DEF MarginCall, StageDone
  <2> QED BY <1>2, <2>1, MarginCallAmends, AmendingKeepsSettled
<1>3. CASE Settle
  BY <1>3, SettleSettles
<1>4. ASSUME NEW fill \in fills, ApplyFill(fill) \/ RejectFill(fill) PROVE RestingSettled'
  <2>1. /\ fills' = fills \ {fill} /\ kind' = kind /\ slice' = slice /\ fresh' = fresh
        /\ stage' = stage /\ amended' = amended
    BY <1>4 DEF ApplyFill, RejectFill
  <2>2. StoreOK(tm)
    BY DEF Books
  <2>3. tm'.openIds = tm.openIds \ {fill.id}
    <3>1. fill.id \in DOMAIN tm.orders /\ fill.id \in OrderIds /\ fill.quantity \in Int
      BY <2>2, StoreFields DEF Books, TypeOK
    <3>2. PICK event \in OrderEvent : /\ event.orderId = fill.id /\ ~IsOpen(event.status)
                                      /\ tm' = ProcessOrderEvent(tm, event)
      <4>1. CASE ApplyFill(fill)
        <5>1. PICK event : event = [orderId |-> fill.id, status |-> "Filled",
                                    fillQuantity |-> fill.quantity]
          OBVIOUS
        <5>2. event \in OrderEvent /\ event.orderId = fill.id /\ ~IsOpen(event.status)
          BY <3>1, <5>1 DEF OrderEvent, Status, IsOpen
        <5> QED BY <4>1, <5>1, <5>2 DEF ApplyFill
      <4>2. CASE RejectFill(fill)
        <5>1. PICK event : event = [orderId |-> fill.id, status |-> "Invalid",
                                    fillQuantity |-> 0]
          OBVIOUS
        <5>2. event \in OrderEvent /\ event.orderId = fill.id /\ ~IsOpen(event.status)
          BY <3>1, <5>1 DEF OrderEvent, Status, IsOpen
        <5> QED BY <4>2, <5>1, <5>2 DEF RejectFill
      <4> QED BY <1>4, <4>1, <4>2
    <3>3. PICK r : r = tm'
      OBVIOUS
    <3>4. r.openIds = tm.openIds \ {event.orderId}
      BY <2>2, <3>1, <3>2, <3>3, ClosingEvent
    <3> QED BY <3>2, <3>3, <3>4
  <2> QED BY <2>1, <2>2, <2>3, ClosingKeepsSettled
<1>5. CASE \E data \in SUBSET Symbols, met \in SUBSET Levels : NewSlice(data, met)
  BY <1>5 DEF NewSlice, RestingSettled
<1>6. CASE \/ \E late \in BOOLEAN : FireScheduled(late)
           \/ Advance \/ SkipFramework \/ UNCHANGED vars
  <2>1. /\ tm' = tm /\ kind' = kind /\ slice' = slice /\ fresh' = fresh /\ fills' = fills
        /\ amended' = amended
    BY <1>6 DEF FireScheduled, Advance, SkipFramework, vars
  <2>2. stage'.at # 1 \/ stage'.settled => stage.at # 1 \/ stage.settled
    BY <1>6 DEF FireScheduled, Advance, SkipFramework, StageDone, Books, TypeOK, vars
  <2> QED BY <2>1, <2>2 DEF RestingSettled, MayFill
<1> QED BY <1>1, <1>2, <1>3, <1>4, <1>5, <1>6 DEF Next

(* In every reachable state the portfolio holds what the orders were filled *)
(* for, a pending fill fits its order and a filled order is filled in full. *)
THEOREM BooksHold ==
    Spec => [](TypeOK /\ HoldingsMatchFills /\ PendingFillsFit /\ FilledInFull)
<1>1. Books => TypeOK /\ HoldingsMatchFills /\ PendingFillsFit /\ FilledInFull
  BY DEF Books
<1> QED BY <1>1, StartsWithBooks, StepKeepsBooks, PTL DEF Spec

(* What has been liquidated, and not traded since, ends flat: the holdings  *)
(* and what is on its way cancel out.                                       *)
THEOREM LiquidationsEndFlat == Spec => []LiquidatedEndsFlat
<1>1. Books => LiquidatedEndsFlat
  BY DEF Books, AllFlat, Flat, LiquidatedEndsFlat
<1> QED BY <1>1, StartsWithBooks, StepKeepsBooks, PTL DEF Spec

(* No step of a backtest reopens a closed order or changes how it closed.   *)
THEOREM ClosedOrdersStayClosed == Spec => ClosedForGood
<1>1. Books /\ [Next]_vars => Books' /\ StaysClosed
  BY StepKeepsBooks DEF OrdersStay
<1> QED BY <1>1, StartsWithBooks, PTL DEF Spec, ClosedForGood

(* The variables of a backtest keep their types.                           *)
THEOREM BacktestTyped == Spec => []TypeOK
BY BooksHold, PTL

(* A fill on its way fits what is left of its order.                       *)
THEOREM PendingFillsAlwaysFit == Spec => []PendingFillsFit
BY BooksHold, PTL

(* An order the store calls filled is filled in full.                      *)
THEOREM FilledMeansInFull == Spec => []FilledInFull
BY BooksHold, PTL

(* OnData sees the fills of the orders that rested before the slice: none   *)
(* of them is left to be filled by its data.                                *)
THEOREM DataFindsOrdersSettled == Spec => []SettledBeforeData
<1>1. Init => RestingSettled
  BY DEF Init, RestingSettled
<1>2. Books /\ RestingSettled /\ [Next]_vars => Books' /\ RestingSettled'
  BY StepKeepsBooks, StepKeepsSettled
<1>3. Books /\ RestingSettled => SettledBeforeData
  <2> SUFFICES ASSUME Books, RestingSettled, Stages[stage.at] = "Data", ~stage.settled,
                      slice.data # {}, NEW id \in tm.openIds \ amended,
                      tm.orders[id].symbol \in slice.data, Fillable(id)
               PROVE  FALSE
    BY DEF SettledBeforeData
  <2>1. stage.at # 1
    BY DEF Stages
  <2>2. fills = {}
    BY DEF Books
  <2>3. MayFill(id)
    BY DEF Fillable, MayFill
  <2> QED BY <2>1, <2>2, <2>3 DEF RestingSettled
<1> QED BY <1>1, <1>2, <1>3, StartsWithBooks, PTL DEF Spec
=============================================================================
