---------------------------- MODULE TraderService ---------------------------
(***************************************************************************)
(* The trader's main loop (trader/service.py): check the health of ARES,   *)
(* load its signals, and for each one check the cached balance, scale the  *)
(* order, send it to the exchange and log it; a symbol whose signal fails  *)
(* is quarantined.  Prices and amounts are naturals, quantities are cut to *)
(* the unit below.  Orders are market orders: the price of the signal      *)
(* decides what is sent, the price of the moment what it costs.  The mode  *)
(* is the real one; the simulated one differs in _execute_order, which     *)
(* always succeeds, and in the balance, which is a constant.               *)
(***************************************************************************)
EXTENDS ServiceFiles, FiniteSetsExt, Functions

CONSTANTS Cash,          \* the quote asset, USDT
          Size,          \* size of a signal
          Deposit,       \* what the account holds of each asset at first
          Payouts,       \* the amounts of each asset others take from the account
          BalanceCheck,  \* age above which the cached balance is refreshed
          MaxOrders      \* bound: orders sent in a behaviour

ASSUME TraderAssumption ==
  /\ Cash \notin Sym
  /\ Deposit \in [Sym \cup {Cash} -> Nat]
  /\ Payouts \in [Sym \cup {Cash} -> SUBSET Nat]
  /\ Size \in Nat /\ MaxOrders \in Nat
  /\ BalanceCheck \in Nat /\ BalanceCheck < Old

VARIABLES traderPc,
          gateAge,       \* history: how long ago the gate let through the iteration
                         \* that is about to load its signals
          todo,          \* signals of this iteration not yet processed
          order,         \* the order being sent or logged
          cache,         \* self.account_balance
          cacheAge,      \* age of last_balance_check
          quarantined,   \* self.quarantined_symbols
          funds,         \* the account at the exchange
          market,        \* the price of each symbol there
          sent, accepted, logged,  \* orders, per symbol, over the whole history
          spent          \* history: the account paid since the balance was read

traderLocal == <<traderPc, gateAge, todo, order, cache, cacheAge, quarantined>>
exchange == <<funds, market, accepted, spent>>
traderVars == <<feederFiles, aresFiles, traderLocal, exchange, sent, logged>>

Asset == Sym \cup {Cash}
NoOrder == [symbol |-> Cash, side |-> "NONE", qty |-> 0, price |-> 0]
Zero == [s \in Sym |-> 0]
NoBalance == [a \in Asset |-> 0]

TraderInit ==
  /\ FilesInit
  /\ traderPc = "off"
  /\ gateAge = Old
  /\ todo = {}
  /\ order = NoOrder
  /\ cache = NoBalance
  /\ cacheAge = Old
  /\ quarantined = {}
  /\ funds = Deposit
  /\ market \in [Sym -> Price]
  /\ sent = Zero /\ accepted = Zero /\ logged = Zero
  /\ spent = FALSE

-----------------------------------------------------------------------------
TraderStart ==
  /\ traderPc = "off"
  /\ traderPc' = "check"
  /\ UNCHANGED <<feederFiles, aresFiles, gateAge, todo, order, cache, cacheAge, quarantined,
                 exchange, sent, logged>>

(* A refused iteration sleeps and changes nothing.                          *)
TraderCheck ==
  /\ traderPc = "check"
  /\ Healthy(aresStatus, aresAge, TraderThreshold)
  /\ traderPc' = "load"
  /\ gateAge' = 0
  /\ UNCHANGED <<feederFiles, aresFiles, todo, order, cache, cacheAge, quarantined,
                 exchange, sent, logged>>

(* _load_ares_signals: the timestamp of the file is not looked at, and a    *)
(* signal that was executed in an earlier iteration is taken again; a file  *)
(* that cannot be read holds none.                                          *)
TraderLoad ==
  /\ traderPc = "load"
  /\ todo' \in {signals, {}}
  /\ traderPc' = "next"
  /\ gateAge' = Old
  /\ UNCHANGED <<feederFiles, aresFiles, order, cache, cacheAge, quarantined,
                 exchange, sent, logged>>

(* Mutated: the quote balance is looked at for a SELL as well.              *)
Draws_Quote(g) == Cash

(* The asset an order draws on: quote for BUY, the symbol's base for SELL.  *)
Draws(g) == IF g.side = "BUY" THEN Cash ELSE g.symbol

(* _check_balance: what of it the full size takes.                          *)
Required(g) == IF g.side = "BUY" THEN Size * g.price ELSE Size

(* _adjust_order_size: the quantity that share of the cached balance buys   *)
(* or sells, at the price of the signal.                                    *)
Affordable(g, balance, share) ==
  IF g.side = "BUY" THEN (share * balance[Cash]) \div (20 * g.price)
  ELSE (share * balance[g.symbol]) \div 20

OrderOf(g, qty) == [symbol |-> g.symbol, side |-> g.side, qty |-> qty, price |-> g.price]

(* Mutated: the order is scaled up to the balance.                          *)
Adjusted_ScaledUp(g, balance) == OrderOf(g, Max({Size, Affordable(g, balance, 19)}))

(* Mutated: the whole of the balance may be spent.                          *)
Adjusted_NoMargin(g, balance) == OrderOf(g, Min({Size, Affordable(g, balance, 20)}))

(* At most what 95% of the cached balance affords.                          *)
Adjusted(g, balance) == OrderOf(g, Min({Size, Affordable(g, balance, 19)}))

(* _check_balance: refresh the cache when it is old; a refusal or an error  *)
(* of the exchange leaves the old one in place.                             *)
RefreshedBalance ==
  IF cacheAge > BalanceCheck
  THEN {<<funds, 0, FALSE>>, <<cache, cacheAge, spent>>}
  ELSE {<<cache, cacheAge, spent>>}

(* Mutated: the quarantine is not looked at.                                *)
ProcessSignal_NoQuarantine(g) ==
  /\ traderPc = "next" /\ g \in todo
  /\ todo' = todo \ {g}
  /\ \E b \in RefreshedBalance :
       /\ cache' = b[1] /\ cacheAge' = b[2] /\ spent' = b[3]
       /\ IF cache'[Draws(g)] >= Required(g)
          THEN /\ traderPc' = "send"
               /\ order' = Adjusted(g, cache')
               /\ UNCHANGED quarantined
          ELSE /\ quarantined' = quarantined \cup {g.symbol}
               /\ UNCHANGED <<traderPc, order>>
  /\ UNCHANGED <<feederFiles, aresFiles, gateAge, funds, market, accepted, sent, logged>>

(* _process_signal up to the request.                                       *)
ProcessSignal(g) ==
  /\ traderPc = "next" /\ g \in todo
  /\ todo' = todo \ {g}
  /\ IF g.symbol \in quarantined
     THEN UNCHANGED <<traderPc, order, cache, cacheAge, quarantined, spent>>
     ELSE \E b \in RefreshedBalance :
            /\ cache' = b[1] /\ cacheAge' = b[2] /\ spent' = b[3]
            /\ IF cache'[Draws(g)] >= Required(g)
               THEN /\ traderPc' = "send"
                    /\ order' = Adjusted(g, cache')
                    /\ UNCHANGED quarantined
               ELSE /\ quarantined' = quarantined \cup {g.symbol}
                    /\ UNCHANGED <<traderPc, order>>
  /\ UNCHANGED <<feederFiles, aresFiles, gateAge, funds, market, accepted, sent, logged>>

(* The request leaves the trader.                                           *)
SendOrder ==
  /\ traderPc = "send"
  /\ FoldFunction(+, 0, sent) < MaxOrders
  /\ sent' = [sent EXCEPT ![order.symbol] = @ + 1]
  /\ traderPc' = "answer"
  /\ UNCHANGED <<feederFiles, aresFiles, gateAge, todo, order, cache, cacheAge,
                 quarantined, exchange, logged>>

(* What the order takes from the account, at the price of the moment.       *)
Cost(o) == IF o.side = "BUY" THEN o.qty * market[o.symbol] ELSE o.qty

Covered(o) == funds[Draws(o)] >= Cost(o)

(* The exchange executes an order the account covers.                       *)
Execute(o) ==
  /\ Covered(o)
  /\ funds' = IF o.side = "BUY"
              THEN [funds EXCEPT ![Cash] = @ - Cost(o), ![o.symbol] = @ + o.qty]
              ELSE [funds EXCEPT ![Cash] = @ + o.qty * market[o.symbol], ![o.symbol] = @ - o.qty]
  /\ accepted' = [accepted EXCEPT ![o.symbol] = @ + 1]
  /\ spent' = TRUE
  /\ UNCHANGED market

(* The market moves.                                                        *)
PriceMoves ==
  /\ \E s \in Sym, price \in Price : market' = [market EXCEPT ![s] = price]
  /\ UNCHANGED <<feederFiles, aresFiles, traderLocal, funds, accepted, spent, sent, logged>>

(* Somebody else trades or takes money out on the same account.  (What is   *)
(* paid in can only cover more.)                                            *)
AccountPays ==
  /\ \E a \in Asset : \E amount \in Payouts[a] :
       amount <= funds[a] /\ funds' = [funds EXCEPT ![a] = @ - amount]
  /\ spent' = TRUE
  /\ UNCHANGED <<feederFiles, aresFiles, traderLocal, market, accepted, sent, logged>>

(* Mutated: an answer that is not a 200 is taken for a success too.         *)
OrderAnswered_AnyStatus ==
  /\ traderPc = "answer"
  /\ Execute(order) \/ UNCHANGED exchange
  /\ traderPc' = "log"
  /\ UNCHANGED <<feederFiles, aresFiles, gateAge, todo, order, cache, cacheAge,
                 quarantined, sent, logged>>

(* _execute_order: a 200 answer; a refusal; or a timeout, after which the   *)
(* exchange may have executed the order all the same.                       *)
OrderAnswered ==
  /\ traderPc = "answer"
  /\ \/ /\ Execute(order)
        /\ traderPc' = "log"
        /\ UNCHANGED quarantined
     \/ /\ Execute(order) \/ UNCHANGED exchange
        /\ traderPc' = "next"
        /\ quarantined' = quarantined \cup {order.symbol}
  /\ UNCHANGED <<feederFiles, aresFiles, gateAge, todo, order, cache, cacheAge,
                 sent, logged>>

(* append_event('order_executed') answers False when it fails, and nobody   *)
(* looks at the answer.                                                     *)
LogOrder ==
  /\ traderPc = "log"
  /\ traderPc' = "next"
  /\ logged' \in {logged, [logged EXCEPT ![order.symbol] = @ + 1]}
  /\ UNCHANGED <<feederFiles, aresFiles, gateAge, todo, order, cache, cacheAge,
                 quarantined, exchange, sent>>

(* _update_health writes nothing: set_component_status does not exist.      *)
IterationEnds ==
  /\ traderPc = "next" /\ todo = {}
  /\ traderPc' = "check"
  /\ UNCHANGED <<feederFiles, aresFiles, gateAge, todo, order, cache, cacheAge,
                 quarantined, exchange, sent, logged>>

(* A crash, or a stop and the end of the process, with the request of the   *)
(* moment answered by nobody; what it remembered is gone.                   *)
TraderCrash ==
  /\ traderPc # "off"
  /\ traderPc' = "off"
  /\ IF traderPc = "answer" THEN Execute(order) \/ UNCHANGED exchange ELSE UNCHANGED exchange
  /\ todo' = {}
  /\ order' = NoOrder
  /\ gateAge' = Old
  /\ cache' = NoBalance /\ cacheAge' = Old
  /\ quarantined' = {}
  /\ UNCHANGED <<feederFiles, aresFiles, sent, logged>>

TraderTick ==
  /\ FilesTick
  /\ gateAge' = Older(gateAge)
  /\ cacheAge' = Older(cacheAge)
  /\ UNCHANGED <<traderPc, todo, order, cache, quarantined, exchange, sent, logged>>

TraderSteps ==
  \/ TraderStart
  \/ TraderCheck
  \/ TraderLoad
  \/ \E g \in todo : ProcessSignal(g)
  \/ SendOrder
  \/ OrderAnswered
  \/ LogOrder
  \/ IterationEnds

(* What ARES writes: at most one signal per symbol.  A status that is not   *)
(* GREEN is to the trader what no file is.                                  *)
SignalFiles ==
  {sigs \in SUBSET Signal : \A g, h \in sigs : g.symbol = h.symbol => g = h}

AresWrites ==
  /\ signals' \in SignalFiles /\ signalsAge' = 0
  /\ aresStatus' = "GREEN" /\ aresAge' = 0
  /\ UNCHANGED <<feederFiles, traderLocal, exchange, sent, logged>>

ExchangeMoves == PriceMoves \/ AccountPays

TraderNext == TraderSteps \/ TraderCrash \/ TraderTick \/ ExchangeMoves \/ AresWrites

TraderSpec == TraderInit /\ [][TraderNext]_traderVars

-----------------------------------------------------------------------------
TraderTypeOK ==
  /\ FilesTypeOK
  /\ traderPc \in {"off", "check", "load", "next", "send", "answer", "log"}
  /\ gateAge \in Age /\ cacheAge \in Age
  /\ todo \subseteq Signal
  /\ order \in [symbol : Sym, side : Side, qty : 0 .. Size, price : Price] \cup {NoOrder}
  /\ cache \in [Asset -> Nat] /\ funds \in [Asset -> Nat]
  /\ market \in [Sym -> Price]
  /\ quarantined \subseteq Sym
  /\ sent \in [Sym -> Nat] /\ accepted \in [Sym -> Nat] /\ logged \in [Sym -> Nat]
  /\ spent \in BOOLEAN

(* An 'order_executed' event in the memory layer is an order the exchange   *)
(* executed, and the exchange executed no more than what was sent, through  *)
(* timeouts, refused answers, failed appends and restarts.                  *)
LoggedOrdersExecuted ==
  \A s \in Sym : logged[s] <= accepted[s] /\ accepted[s] <= sent[s]

(* A quarantined symbol is released by a restart only, and until then no    *)
(* order for it is sent, however often its signal is loaded again.          *)
QuarantineHolds ==
  [][\A s \in quarantined :
       traderPc' = "off" \/ (s \in quarantined' /\ sent'[s] = sent[s])]_traderVars

(* Several orders are checked against one cached balance, at the price of   *)
(* their signals, which may be old.  An order the account does not cover is *)
(* sent only when the account paid for something after the balance was read *)
(* (another order, one whose answer was lost included, or somebody else's), *)
(* or when the market is more than a nineteenth above the signal: the 5%    *)
(* that are held back cover any smaller rise.  A balance that could not be  *)
(* refreshed, a restart or a scaled order never leads to one.               *)
RoseTooFar(o) == o.side = "BUY" /\ 19 * market[o.symbol] > 20 * o.price

UncoveredHasCause ==
  [][SendOrder => Covered(order) \/ spent \/ RoseTooFar(order)]_traderVars

(* "Blocks order execution if [...] account balance insufficient": an order *)
(* is sent only when the account covers it.                                 *)
OrdersCovered == [][SendOrder => Covered(order)]_traderVars

(* "Trader should scale down orders and quarantine symbols after repeated   *)
(* failures": a balance that covers part of an order scales it down, and    *)
(* the symbol is not quarantined for it.                                    *)
PartialBalanceScalesDown ==
  [][\A g \in todo :
       (ProcessSignal(g) /\ cache'[Draws(g)] \in 2 .. Required(g) - 1)
         => quarantined' = quarantined]_traderVars
=============================================================================
