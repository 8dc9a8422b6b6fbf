------------------------ MODULE ServicePipelineProofs -----------------------
(***************************************************************************)
(* For all thresholds, prices, sizes, deposits and any set of symbols, on  *)
(* both platforms.  ARES: beside its GREEN status lie recent signals.  The *)
(* trader: what it logs was executed, a quarantined symbol is left alone,  *)
(* and an order the account does not cover has one of two causes.          *)
(* Together: the age of the ARES health file bounds the age of the signals *)
(* the trader loads.                                                       *)
(***************************************************************************)
EXTENDS ServicePipeline, TLAPS

(* Ages grow by one and stop at Old; a bound between two ages survives.     *)
LEMMA OlderFacts ==
  ASSUME NEW a \in Age, NEW b \in Age, NEW k \in Nat
  PROVE  /\ Older(a) \in Age
         /\ a <= b => Older(a) <= Older(b)
         /\ a <= b + k => Older(a) <= Older(b) + k
  BY FilesAssumption DEF Older, Age

(* The types of ARES without its flags, and the flags: the provers take the *)
(* one with arithmetic and the other without.                               *)
AresDataOK ==
  /\ FilesTypeOK
  /\ aresPc \in {"off", "check", "generate", "save", "health", "stamp", "write"}
  /\ lastSignal \in Age \cup {Never}
  /\ pending \subseteq Signal
  /\ judgement \in Status /\ stampAge \in Age
  /\ lag \in Age /\ aresLag \in Age

AresFlagsOK == running \in BOOLEAN /\ unsaved \in BOOLEAN /\ aresUnsaved \in BOOLEAN

(* The types of ARES in two parts: what the arithmetic is about, and flags.  *)
LEMMA AresTypeParts == AresTypeOK <=> AresDataOK /\ AresFlagsOK
  BY Zenon DEF AresTypeOK, AresDataOK, AresFlagsOK

(* The status is one of the traffic light, and GREEN has its reason.        *)
LEMMA StatusFacts ==
  /\ StatusOfSignalAge(lastSignal) \in Status
  /\ StatusOfSignalAge(lastSignal) = "GREEN" => lastSignal # Never /\ lastSignal <= AresThreshold
  BY DEF StatusOfSignalAge, Status

(* The data of ARES keep their types.                                       *)
LEMMA AresDataStep == AresDataOK /\ MemoryBehindFile /\ [AresNext]_aresVars => AresDataOK'
<1> USE FilesAssumption
<1> SUFFICES ASSUME AresDataOK, MemoryBehindFile, [AresNext]_aresVars
             PROVE  AresDataOK'
  OBVIOUS
<1> USE DEF AresDataOK, FilesTypeOK, Age, Status, Never
<1>1. CASE AresStart \/ AresCheck
  BY <1>1 DEF AresStart, AresCheck, feederFiles, aresFiles, aresMemory
<1>2. CASE AresGenerate
  <2>1. SignalsOf(snapshot) \subseteq Signal
    BY DEF SignalsOf
  <2> QED
    BY <1>2, <2>1 DEF AresGenerate, feederFiles, aresFiles
<1>3. CASE UnlinkSignals \/ SaveSignals
  BY <1>3 DEF UnlinkSignals, SaveSignals, feederFiles, aresLocal, aresMemory, MemoryBehindFile
<1>4. CASE JudgeHealth
  BY <1>4, StatusFacts DEF JudgeHealth, feederFiles, aresFiles
<1>5. CASE StampHealth
  BY <1>5 DEF StampHealth, feederFiles, aresFiles
<1>6. CASE UnlinkHealth \/ WriteHealth
  BY <1>6 DEF UnlinkHealth, WriteHealth, feederFiles, aresMemory
<1>7. CASE AresStop
  BY <1>7 DEF AresStop, feederFiles, aresMemory
<1>8. CASE AresExit \/ AresCrash
  BY <1>8 DEF AresExit, AresCrash, AresEnds, feederFiles, aresFiles
<1>9. CASE AresTick
  BY <1>9 DEF AresTick, FilesTick, Older
<1>10. ASSUME NEW quotes \in [Sym -> Quote], FeederSaves(quotes)
       PROVE  AresDataOK'
  BY <1>10 DEF FeederSaves, aresFiles, aresLocal, aresMemory
<1>11. CASE FeederHealthWritten
  BY <1>11 DEF FeederHealthWritten, aresFiles, aresLocal, aresMemory
<1>12. CASE UNCHANGED aresVars
  BY <1>12 DEF aresVars, feederFiles, aresFiles, aresLocal, aresMemory
<1> QED
  BY <1>1, <1>2, <1>3, <1>4, <1>5, <1>6, <1>7, <1>8, <1>9, <1>10, <1>11, <1>12
     DEF AresNext, AresSteps

(* So do its flags: each is set, cleared, copied or left alone.             *)
LEMMA AresFlagsStep == AresFlagsOK /\ [AresNext]_aresVars => AresFlagsOK'
<1> SUFFICES ASSUME AresFlagsOK, [AresNext]_aresVars
             PROVE  AresFlagsOK'
  OBVIOUS
<1> USE DEF AresFlagsOK, aresLocal, aresMemory
<1>1. CASE AresStart \/ AresCheck \/ AresGenerate
  BY <1>1, Zenon DEF AresStart, AresCheck, AresGenerate
<1>2. CASE UnlinkSignals \/ SaveSignals \/ JudgeHealth \/ StampHealth
  BY <1>2, Zenon DEF UnlinkSignals, SaveSignals, JudgeHealth, StampHealth
<1>3. CASE UnlinkHealth \/ WriteHealth \/ AresStop
  BY <1>3, Zenon DEF UnlinkHealth, WriteHealth, AresStop
<1>4. CASE AresExit \/ AresCrash \/ AresTick
  BY <1>4, Zenon DEF AresExit, AresCrash, AresEnds, AresTick
<1>5. CASE (\E quotes \in [Sym -> Quote] : FeederSaves(quotes)) \/ FeederHealthWritten
  BY <1>5, Zenon DEF FeederSaves, FeederHealthWritten
<1>6. CASE UNCHANGED aresVars
  BY <1>6, Zenon DEF aresVars
<1> QED
  BY <1>1, <1>2, <1>3, <1>4, <1>5, <1>6, Zenon DEF AresNext, AresSteps

(* What relates the clocks of ARES to the age of its signals.               *)
AresOrder == MemoryBehindFile /\ JudgementBehindFile /\ ClocksAtRest /\ GreenMeansRecentSignals

(* It survives every step of ARES, of the feeder and of time.               *)
LEMMA AresOrderStep == AresDataOK /\ AresOrder /\ [AresNext]_aresVars => AresOrder'
<1> USE FilesAssumption
<1> SUFFICES ASSUME AresDataOK, AresOrder, [AresNext]_aresVars
             PROVE  AresOrder'
  OBVIOUS
<1> USE DEF AresDataOK, AresOrder, FilesTypeOK, Age, Never,
            MemoryBehindFile, JudgementBehindFile, ClocksAtRest, GreenMeansRecentSignals
<1>1. CASE AresStart \/ AresCheck
  BY <1>1 DEF AresStart, AresCheck, feederFiles, aresFiles, aresMemory
<1>2. CASE AresGenerate
  BY <1>2 DEF AresGenerate, feederFiles, aresFiles
<1>3. CASE UnlinkSignals
  BY <1>3 DEF UnlinkSignals, feederFiles, aresLocal, aresMemory
<1>4. CASE SaveSignals
  <2>1. /\ aresPc = "save" /\ aresPc' = "health"
        /\ UNCHANGED <<aresStatus, aresAge, lastSignal, stampAge, lag, aresLag, aresUnsaved>>
    BY <1>4, Zenon DEF SaveSignals
  <2>2. JudgementBehindFile' /\ ClocksAtRest'
    BY <2>1
  <2>3. CASE signalsAge' = lastSignal /\ ~unsaved'
    <3>1. MemoryBehindFile'
      BY <2>1, <2>3
    <3>2. aresStatus = "GREEN" => lastSignal <= AresThreshold + aresLag + aresAge
      BY <2>1
    <3> QED
      BY <2>1, <2>2, <2>3, <3>1, <3>2
  <2>4. CASE UNCHANGED <<signals, signalsAge, unsaved>>
    BY <2>1, <2>2, <2>4
  <2> QED
    BY <1>4, <2>3, <2>4 DEF SaveSignals
<1>5. CASE JudgeHealth
  BY <1>5, StatusFacts DEF JudgeHealth, feederFiles, aresFiles
<1>6. CASE StampHealth
  BY <1>6 DEF StampHealth, feederFiles, aresFiles
<1>7. CASE UnlinkHealth
  BY <1>7 DEF UnlinkHealth, feederFiles, aresMemory
<1>8. CASE WriteHealth
  <2>1. MemoryBehindFile' /\ JudgementBehindFile' /\ ClocksAtRest'
    BY <1>8 DEF WriteHealth, feederFiles
  <2>2. CASE UNCHANGED <<aresStatus, aresAge, aresLag, aresUnsaved>>
    BY <1>8, <2>1, <2>2 DEF WriteHealth
  <2>3. CASE /\ aresStatus' = judgement /\ aresAge' = stampAge /\ aresLag' = lag
             /\ judgement = "GREEN" => aresUnsaved' = unsaved
    BY <1>8, <2>1, <2>3 DEF WriteHealth
  <2> QED
    BY <1>8, <2>2, <2>3 DEF WriteHealth
<1>9. CASE AresStop
  BY <1>9 DEF AresStop, feederFiles, aresMemory
<1>10. CASE AresExit \/ AresCrash
  BY <1>10 DEF AresExit, AresCrash, AresEnds, feederFiles, aresFiles
<1>11. CASE AresTick
  <2>1. MemoryBehindFile' /\ ClocksAtRest'
    BY <1>11 DEF AresTick, FilesTick, Older
  <2>2. JudgementBehindFile'
    BY <1>11 DEF AresTick, FilesTick, Older
  <2>3. GreenMeansRecentSignals'
    BY <1>11 DEF AresTick, FilesTick, Older
  <2> QED
    BY <2>1, <2>2, <2>3
<1>12. ASSUME NEW quotes \in [Sym -> Quote], FeederSaves(quotes)
       PROVE  AresOrder'
  BY <1>12 DEF FeederSaves, aresFiles, aresLocal, aresMemory
<1>13. CASE FeederHealthWritten
  BY <1>13 DEF FeederHealthWritten, aresFiles, aresLocal, aresMemory
<1>14. CASE UNCHANGED aresVars
  BY <1>14 DEF aresVars, feederFiles, aresFiles, aresLocal, aresMemory
<1> QED
  BY <1>1, <1>2, <1>3, <1>4, <1>5, <1>6, <1>7, <1>8, <1>9, <1>10, <1>11, <1>12, <1>13, <1>14
     DEF AresNext, AresSteps

(* Together: the invariant of ARES is inductive.                            *)
LEMMA AresInvStep == AresInv /\ [AresNext]_aresVars => AresInv'
<1>1. AresInv <=> AresDataOK /\ AresFlagsOK /\ AresOrder
  BY AresTypeParts, Zenon DEF AresInv, AresOrder
<1>2. AresInv' <=> AresDataOK' /\ AresFlagsOK' /\ AresOrder'
  BY <1>1, PTL
<1> QED
  BY <1>1, <1>2, AresDataStep, AresFlagsStep, AresOrderStep DEF AresOrder

(* ARES starts with no status and no signals.                               *)
LEMMA AresInvInit == AresInit => AresInv
<1> SUFFICES ASSUME AresInit
             PROVE  AresInv
  OBVIOUS
<1>1. FilesTypeOK
  BY FilesAssumption DEF AresInit, FilesInit, FilesTypeOK, Age, Status, Quote, NoMove
<1>2. AresDataOK
  BY <1>1, FilesAssumption DEF AresInit, AresDataOK, Never, Age, Status
<1>3. AresFlagsOK
  BY Zenon DEF AresInit, AresFlagsOK
<1>4. AresOrder
  BY DEF AresInit, FilesInit, AresOrder, MemoryBehindFile, JudgementBehindFile, ClocksAtRest,
         GreenMeansRecentSignals
<1> QED
  BY <1>2, <1>3, <1>4, AresTypeParts, Zenon DEF AresInv, AresOrder

(* ARES alone: a GREEN status stands for recent signals on disk.            *)
THEOREM GreenIsRecent == AresSpec => []GreenMeansRecentSignals
<1>1. AresInv => GreenMeansRecentSignals
  BY DEF AresInv
<1> QED
  BY <1>1, AresInvInit, AresInvStep, PTL DEF AresSpec

(* The types of the ARES loop and of the files it shares.                   *)
THEOREM AresTypesHold == AresSpec => []AresTypeOK
<1>1. AresInv => AresTypeOK
  BY DEF AresInv
<1> QED
  BY <1>1, AresInvInit, AresInvStep, PTL DEF AresSpec

-----------------------------------------------------------------------------
(* An order is under way, to be sent, answered or logged.                   *)
Ordering == traderPc \in {"send", "answer", "log"}

(* The part of TraderTypeOK that no order touches.                          *)
LoopTypeOK ==
  /\ FilesTypeOK
  /\ traderPc \in {"off", "check", "load", "next", "send", "answer", "log"}
  /\ gateAge \in Age /\ cacheAge \in Age
  /\ todo \subseteq Signal
  /\ quarantined \subseteq Sym

OrderType == [symbol : Sym, side : Side, qty : 0 .. Size, price : Price]

BookTypeOK ==
  /\ order \in OrderType \cup {NoOrder}
  /\ cache \in [Asset -> Nat] /\ funds \in [Asset -> Nat] /\ market \in [Sym -> Price]
  /\ sent \in [Sym -> Nat] /\ accepted \in [Sym -> Nat] /\ logged \in [Sym -> Nat]
  /\ Ordering => order \in OrderType

(* The order under way is sent and not yet executed, or executed and not    *)
(* yet logged.                                                              *)
CountsInStep ==
  \A s \in Sym :
    /\ logged[s] <= accepted[s] /\ accepted[s] <= sent[s]
    /\ traderPc = "answer" /\ order.symbol = s => accepted[s] < sent[s]
    /\ traderPc = "log" /\ order.symbol = s => logged[s] < accepted[s]

OrderNotQuarantined == traderPc = "send" => order.symbol \notin quarantined

(* An order takes at most 95% of the balance, at the price of its signal.   *)
Within(o, balance) ==
  IF o.side = "BUY" THEN o.qty * (20 * o.price) <= 19 * balance[Cash]
  ELSE o.qty <= balance[o.symbol]

(* Unless the account paid since, it holds at least what the cache says,    *)
(* and the order about to be sent is within the cache.                      *)
CacheCovers ==
  /\ ~spent => \A a \in Asset : cache[a] <= funds[a]
  /\ traderPc = "send" => Within(order, cache)

TraderInv == LoopTypeOK /\ BookTypeOK /\ CountsInStep /\ OrderNotQuarantined /\ CacheCovers

(* The smaller of two numbers is one of them.                               *)
LEMMA MinFacts ==
  ASSUME NEW m \in Nat, NEW n \in Nat
  PROVE  Min({m, n}) \in Nat /\ Min({m, n}) <= m /\ Min({m, n}) <= n
<1>1. \E x \in {m, n} : \A y \in {m, n} : x <= y
  OBVIOUS
<1>2. Min({m, n}) \in {m, n} /\ \A y \in {m, n} : Min({m, n}) <= y
  BY <1>1 DEF Min
<1> QED
  BY <1>2

(* Products keep an order between factors.                                  *)
LEMMA TimesMonotonic ==
  ASSUME NEW q \in Nat, NEW a \in Nat, NEW b \in Nat, a <= b
  PROVE  q * a <= q * b
<1>1. b - a \in Nat /\ q * (b - a) \in Nat
  OBVIOUS
<1>2. q * b = q * a + q * (b - a)
  OBVIOUS
<1>3. q * a \in Nat /\ q * b \in Nat
  OBVIOUS
<1> QED
  BY <1>1, <1>2, <1>3

(* A quotient times its divisor is at most what was divided.                *)
LEMMA QuotientFacts ==
  ASSUME NEW x \in Nat, NEW d \in Nat \ {0}
  PROVE  x \div d \in Nat /\ (x \div d) * d <= x
  OBVIOUS

(* A scaled order has the size of the signal at most, and leaves a          *)
(* twentieth of the balance.                                                *)
LEMMA AdjustedFacts ==
  ASSUME NEW g \in Signal, NEW balance \in [Asset -> Nat]
  PROVE  /\ Adjusted(g, balance) \in OrderType
         /\ Adjusted(g, balance).symbol = g.symbol
         /\ Within(Adjusted(g, balance), balance)
<1> USE TraderAssumption, FilesAssumption
<1>1. g.symbol \in Sym /\ g.side \in Side /\ g.price \in Price /\ g.price \in Nat \ {0}
  BY DEF Signal
<1>2. balance[Cash] \in Nat /\ balance[g.symbol] \in Nat
  BY <1>1 DEF Asset
<1> DEFINE top == Affordable(g, balance, 19)
           qty == Min({Size, top})
<1>3. /\ top \in Nat
      /\ g.side = "BUY" => top * (20 * g.price) <= 19 * balance[Cash]
      /\ g.side # "BUY" => top <= balance[g.symbol]
  <2>1. CASE g.side = "BUY"
    <3>1. 19 * balance[Cash] \in Nat /\ 20 * g.price \in Nat \ {0}
      BY <1>1, <1>2
    <3> QED
      BY <2>1, <3>1, QuotientFacts DEF Affordable
  <2>2. CASE g.side # "BUY"
    BY <1>2, <2>2 DEF Affordable
  <2> QED
    BY <2>1, <2>2
<1> HIDE DEF top
<1>4. qty \in Nat /\ qty <= Size /\ qty <= top
  BY <1>3, MinFacts
<1>5. Adjusted(g, balance) = [symbol |-> g.symbol, side |-> g.side, qty |-> qty, price |-> g.price]
  BY DEF Adjusted, OrderOf, top
<1> HIDE DEF qty
<1>6. Adjusted(g, balance) \in OrderType
  BY <1>1, <1>4, <1>5 DEF OrderType
<1>7. Within(Adjusted(g, balance), balance)
  <2>1. CASE g.side = "BUY"
    <3>1. 20 * g.price \in Nat
      BY <1>1
    <3>2. (20 * g.price) * qty <= (20 * g.price) * top
      BY <1>3, <1>4, <3>1, TimesMonotonic
    <3>3. qty * (20 * g.price) <= 19 * balance[Cash]
      BY <1>1, <1>2, <1>3, <1>4, <2>1, <3>2
    <3> QED
      BY <1>5, <2>1, <3>3 DEF Within
  <2>2. CASE g.side # "BUY"
    BY <1>2, <1>3, <1>4, <1>5, <2>2 DEF Within
  <2> QED
    BY <2>1, <2>2
<1> QED
  BY <1>5, <1>6, <1>7

(* The trader starts with no order and an unknown balance.                  *)
LEMMA TraderInvInit == TraderInit => TraderInv
<1> USE TraderAssumption, FilesAssumption
<1> SUFFICES ASSUME TraderInit
             PROVE  TraderInv
  OBVIOUS
<1>1. FilesTypeOK
  BY DEF TraderInit, FilesInit, FilesTypeOK, Age, Status, Quote, NoMove
<1>2. LoopTypeOK
  BY <1>1 DEF TraderInit, LoopTypeOK, Age
<1>3. BookTypeOK
  BY DEF TraderInit, BookTypeOK, Asset, Zero, NoBalance, Ordering
<1>4. CountsInStep /\ OrderNotQuarantined /\ CacheCovers
  BY DEF TraderInit, CountsInStep, OrderNotQuarantined, CacheCovers, Zero, NoBalance, Asset
<1> QED
  BY <1>2, <1>3, <1>4 DEF TraderInv

(* What an executed order changes.                                          *)
LEMMA ExecuteFacts ==
  ASSUME BookTypeOK, Ordering, Execute(order)
  PROVE  /\ funds' \in [Asset -> Nat]
         /\ accepted' \in [Sym -> Nat]
         /\ \A s \in Sym : accepted'[s] = IF s = order.symbol THEN accepted[s] + 1 ELSE accepted[s]
         /\ spent' /\ market' = market
<1> USE TraderAssumption, FilesAssumption
<1>1. order \in OrderType
  BY DEF BookTypeOK
<1>2. /\ order.symbol \in Sym /\ order.qty \in Nat
      /\ market[order.symbol] \in Nat /\ order.qty * market[order.symbol] \in Nat
  <2>1. order.symbol \in Sym /\ order.qty \in Nat
    BY <1>1 DEF OrderType
  <2>2. market[order.symbol] \in Price
    BY <2>1 DEF BookTypeOK
  <2>3. market[order.symbol] \in Nat
    BY <2>2
  <2> HIDE FilesAssumption, TraderAssumption
  <2> QED
    BY <2>1, <2>3
<1>3. Cost(order) \in Nat
  BY <1>2 DEF Cost
<1>4. /\ order.symbol \in Asset /\ Cash \in Asset
      /\ funds \in [Asset -> Nat]
  BY <1>2 DEF Asset, BookTypeOK
<1>5. funds' \in [Asset -> Nat]
  <2>1. CASE order.side = "BUY"
    <3>1. funds[Cash] - Cost(order) \in Nat
      BY <1>3, <1>4, <2>1 DEF Execute, Covered, Draws
    <3>2. funds' = [funds EXCEPT ![Cash] = @ - Cost(order), ![order.symbol] = @ + order.qty]
      BY <2>1 DEF Execute
    <3> QED
      BY <1>2, <1>4, <3>1, <3>2
  <2>2. CASE order.side # "BUY"
    <3>1. funds[order.symbol] - order.qty \in Nat
      BY <1>2, <1>4, <2>2 DEF Execute, Covered, Draws, Cost
    <3>2. funds' = [funds EXCEPT ![Cash] = @ + order.qty * market[order.symbol],
                                 ![order.symbol] = @ - order.qty]
      BY <2>2 DEF Execute
    <3> QED
      BY <1>2, <1>4, <3>1, <3>2
  <2> QED
    BY <2>1, <2>2
<1>6. accepted' = [accepted EXCEPT ![order.symbol] = @ + 1] /\ accepted \in [Sym -> Nat]
  BY DEF Execute, BookTypeOK
<1>7. spent' /\ market' = market
  BY DEF Execute
<1> QED
  BY <1>2, <1>5, <1>6, <1>7

(* Reading the balance keeps the cache behind the account.                  *)
LEMMA RefreshFacts ==
  ASSUME LoopTypeOK, BookTypeOK, CacheCovers, NEW b \in RefreshedBalance
  PROVE  /\ b[1] \in [Asset -> Nat] /\ b[2] \in Age
         /\ ~b[3] => \A a \in Asset : b[1][a] <= funds[a]
<1> USE FilesAssumption DEF LoopTypeOK, BookTypeOK, CacheCovers, RefreshedBalance, Age
<1>1. CASE b = <<funds, 0, FALSE>>
  BY <1>1
<1>2. CASE b = <<cache, cacheAge, spent>>
  BY <1>2
<1> QED
  BY <1>1, <1>2

(* An order that is made is within the balance it was checked with.         *)
LEMMA ProcessSignalStep ==
  ASSUME TraderInv, NEW g \in todo, ProcessSignal(g)
  PROVE  TraderInv'
<1> USE DEF TraderInv
<1>1. g \in Signal /\ traderPc = "next"
  BY DEF LoopTypeOK, ProcessSignal
<1>2. CASE g.symbol \in quarantined
  <2>1. UNCHANGED <<feederFiles, aresFiles, gateAge, traderPc, order, cache, cacheAge,
                    quarantined, spent, funds, market, accepted, sent, logged>> /\ todo' \subseteq todo
    BY <1>2 DEF ProcessSignal
  <2>2. LoopTypeOK'
    BY <2>1 DEF LoopTypeOK, FilesTypeOK, feederFiles, aresFiles
  <2>3. BookTypeOK'
    BY <2>1 DEF BookTypeOK, Ordering
  <2>4. CountsInStep'
    BY <2>1 DEF CountsInStep
  <2>5. OrderNotQuarantined' /\ CacheCovers'
    BY <1>1, <2>1 DEF OrderNotQuarantined, CacheCovers
  <2> QED
    BY <2>2, <2>3, <2>4, <2>5
<1>3. CASE g.symbol \notin quarantined
  <2>1. PICK b \in RefreshedBalance :
          /\ cache' = b[1] /\ cacheAge' = b[2] /\ spent' = b[3]
          /\ IF cache'[Draws(g)] >= Required(g)
             THEN /\ traderPc' = "send"
                  /\ order' = Adjusted(g, cache')
                  /\ UNCHANGED quarantined
             ELSE /\ quarantined' = quarantined \cup {g.symbol}
                  /\ UNCHANGED <<traderPc, order>>
    BY <1>3 DEF ProcessSignal
  <2>2. /\ UNCHANGED <<feederFiles, aresFiles, gateAge, funds, market, accepted, sent, logged>>
        /\ todo' \subseteq todo
    BY DEF ProcessSignal
  <2>3. /\ cache' \in [Asset -> Nat] /\ cacheAge' \in Age
        /\ ~spent' => \A a \in Asset : cache'[a] <= funds'[a]
    BY <2>1, <2>2, RefreshFacts
  <2>4. CASE cache'[Draws(g)] >= Required(g)
    <3>1. /\ traderPc' = "send" /\ UNCHANGED quarantined
          /\ order' = Adjusted(g, cache')
      BY <2>1, <2>4
    <3>2. /\ order' \in OrderType
          /\ order'.symbol = g.symbol
          /\ Within(order', cache')
      BY <1>1, <2>3, <3>1, AdjustedFacts
    <3>3. LoopTypeOK'
      BY <1>1, <2>2, <2>3, <3>1 DEF LoopTypeOK, FilesTypeOK, feederFiles, aresFiles
    <3>4. BookTypeOK'
      BY <2>2, <2>3, <3>2 DEF BookTypeOK
    <3>5. CountsInStep'
      BY <2>2, <3>1 DEF CountsInStep
    <3>6. OrderNotQuarantined'
      BY <1>3, <3>1, <3>2 DEF OrderNotQuarantined
    <3>7. CacheCovers'
      BY <2>3, <3>2 DEF CacheCovers
    <3> QED
      BY <3>3, <3>4, <3>5, <3>6, <3>7
  <2>5. CASE ~(cache'[Draws(g)] >= Required(g))
    <3>1. quarantined' = quarantined \cup {g.symbol} /\ UNCHANGED <<traderPc, order>>
      BY <2>1, <2>5
    <3>2. LoopTypeOK'
      BY <1>1, <2>2, <2>3, <3>1 DEF LoopTypeOK, FilesTypeOK, feederFiles, aresFiles, Signal
    <3>3. BookTypeOK'
      BY <2>2, <2>3, <3>1 DEF BookTypeOK, Ordering
    <3>4. CountsInStep'
      BY <2>2, <3>1 DEF CountsInStep
    <3>5. OrderNotQuarantined' /\ CacheCovers'
      BY <1>1, <2>3, <3>1 DEF OrderNotQuarantined, CacheCovers
    <3> QED
      BY <3>2, <3>3, <3>4, <3>5
  <2> QED
    BY <2>4, <2>5
<1> QED
  BY <1>2, <1>3

(* An order is executed at most once, whatever the answer says.             *)
LEMMA OrderAnsweredStep == TraderInv /\ OrderAnswered => TraderInv'
<1> SUFFICES ASSUME TraderInv, OrderAnswered
             PROVE  TraderInv'
  OBVIOUS
<1> USE DEF TraderInv
<1>1. /\ traderPc = "answer" /\ Ordering
      /\ UNCHANGED <<feederFiles, aresFiles, gateAge, todo, order, cache, cacheAge,
                     sent, logged>>
  BY DEF OrderAnswered, Ordering
<1>2. order.symbol \in Sym
  BY <1>1 DEF BookTypeOK, OrderType
<1>3. /\ traderPc' \in {"log", "next"}
      /\ quarantined' \in {quarantined, quarantined \cup {order.symbol}}
      /\ traderPc' = "log" => Execute(order)
      /\ Execute(order) \/ UNCHANGED exchange
  BY DEF OrderAnswered
<1>4. LoopTypeOK'
  BY <1>1, <1>2, <1>3 DEF LoopTypeOK, FilesTypeOK, feederFiles, aresFiles
<1>5. OrderNotQuarantined'
  BY <1>3 DEF OrderNotQuarantined
<1>6. CASE Execute(order)
  <2>1. BookTypeOK'
    BY <1>1, <1>3, <1>6, ExecuteFacts DEF BookTypeOK, Ordering
  <2>2. CountsInStep'
    BY <1>1, <1>2, <1>3, <1>6, ExecuteFacts DEF CountsInStep, BookTypeOK
  <2>3. CacheCovers'
    BY <1>3, <1>6, ExecuteFacts, <1>1 DEF CacheCovers
  <2> QED
    BY <1>4, <1>5, <2>1, <2>2, <2>3
<1>7. CASE UNCHANGED exchange /\ traderPc' = "next"
  <2>1. UNCHANGED <<funds, market, accepted, spent>>
    BY <1>7 DEF exchange
  <2>2. BookTypeOK'
    BY <1>1, <1>7, <2>1 DEF BookTypeOK, Ordering
  <2>3. CountsInStep' /\ CacheCovers'
    BY <1>1, <1>7, <2>1 DEF CountsInStep, CacheCovers
  <2> QED
    BY <1>4, <1>5, <2>2, <2>3
<1> QED
  BY <1>3, <1>6, <1>7

(* A trader that dies leaves the request to the exchange.                   *)
LEMMA TraderCrashStep == TraderInv /\ TraderCrash => TraderInv'
<1> SUFFICES ASSUME TraderInv, TraderCrash
             PROVE  TraderInv'
  OBVIOUS
<1> USE DEF TraderInv
<1>1. /\ traderPc' = "off" /\ todo' = {} /\ order' = NoOrder
      /\ gateAge' = Old /\ cache' = NoBalance /\ cacheAge' = Old /\ quarantined' = {}
      /\ UNCHANGED <<feederFiles, aresFiles, sent, logged>>
      /\ UNCHANGED exchange \/ (traderPc = "answer" /\ Execute(order))
  BY DEF TraderCrash
<1>2. LoopTypeOK' /\ OrderNotQuarantined'
  BY <1>1, FilesAssumption
     DEF LoopTypeOK, FilesTypeOK, feederFiles, aresFiles, OrderNotQuarantined, Age
<1>0. cache' \in [Asset -> Nat] /\ \A a \in Asset : cache'[a] = 0
  BY <1>1 DEF NoBalance
<1>3. CASE UNCHANGED exchange
  BY <1>0, <1>1, <1>2, <1>3 DEF exchange, BookTypeOK, CountsInStep, CacheCovers, Ordering
<1>4. CASE traderPc = "answer" /\ Execute(order)
  <2>1. order.symbol \in Sym /\ Ordering
    BY <1>4 DEF BookTypeOK, Ordering, OrderType
  <2>2. BookTypeOK'
    BY <1>0, <1>1, <1>4, <2>1, ExecuteFacts DEF BookTypeOK, Ordering
  <2>3. CountsInStep'
    BY <1>1, <1>4, <2>1, ExecuteFacts DEF CountsInStep, BookTypeOK
  <2>4. CacheCovers'
    BY <1>1, <1>4, <2>1, ExecuteFacts DEF CacheCovers
  <2> QED
    BY <1>2, <2>2, <2>3, <2>4
<1> QED
  BY <1>1, <1>3, <1>4

(* Every step of the trader, and of the environment of its own runs.        *)
LEMMA TraderInvStep == TraderInv /\ [TraderNext]_traderVars => TraderInv'
<1> USE TraderAssumption, FilesAssumption
<1> SUFFICES ASSUME TraderInv, [TraderNext]_traderVars
             PROVE  TraderInv'
  OBVIOUS
<1> USE DEF TraderInv
<1>2. CASE TraderStart \/ TraderCheck \/ TraderLoad \/ IterationEnds
  <2>1. /\ UNCHANGED <<feederFiles, aresFiles, order, cache, cacheAge, quarantined,
                       exchange, sent, logged>>
        /\ traderPc' \in {"load", "next", "check"} /\ gateAge' \in {0, gateAge, Old}
        /\ todo' \in {todo, signals, {}}
    BY <1>2 DEF TraderStart, TraderCheck, TraderLoad, IterationEnds
  <2>2. LoopTypeOK'
    BY <2>1 DEF LoopTypeOK, FilesTypeOK, feederFiles, aresFiles, Age
  <2>3. BookTypeOK'
    BY <2>1 DEF BookTypeOK, exchange, Ordering
  <2>4. CountsInStep' /\ OrderNotQuarantined' /\ CacheCovers'
    BY <2>1 DEF CountsInStep, OrderNotQuarantined, CacheCovers, exchange
  <2> QED
    BY <2>2, <2>3, <2>4
<1>3. ASSUME NEW g \in todo, ProcessSignal(g)
      PROVE  TraderInv'
  BY <1>3, ProcessSignalStep
<1>4. CASE SendOrder
  <2>1. /\ traderPc = "send" /\ traderPc' = "answer"
        /\ sent' = [sent EXCEPT ![order.symbol] = @ + 1]
        /\ UNCHANGED <<feederFiles, aresFiles, gateAge, todo, order, cache, cacheAge,
                       quarantined, funds, market, accepted, spent, logged>>
    BY <1>4 DEF SendOrder, exchange
  <2>2. LoopTypeOK'
    BY <2>1 DEF LoopTypeOK, FilesTypeOK, feederFiles, aresFiles
  <2>3. BookTypeOK'
    <3>1. sent \in [Sym -> Nat]
      BY DEF BookTypeOK
    <3>3. order \in OrderType
      BY <2>1 DEF BookTypeOK, Ordering
    <3>4. order.symbol \in Sym /\ sent[order.symbol] + 1 \in Nat
      BY <3>1, <3>3 DEF OrderType
    <3>2. sent' \in [Sym -> Nat]
      BY <2>1, <3>1, <3>4
    <3> QED
      BY <2>1, <3>2, <3>3 DEF BookTypeOK
  <2>4. CountsInStep'
    BY <2>1 DEF CountsInStep, BookTypeOK, Ordering, OrderType
  <2>5. OrderNotQuarantined' /\ CacheCovers'
    BY <2>1 DEF OrderNotQuarantined, CacheCovers
  <2> QED
    BY <2>2, <2>3, <2>4, <2>5
<1>5. CASE OrderAnswered
  BY <1>5, OrderAnsweredStep
<1>6. CASE LogOrder
  <2>1. /\ traderPc = "log" /\ traderPc' = "next"
        /\ logged' \in {logged, [logged EXCEPT ![order.symbol] = @ + 1]}
        /\ UNCHANGED <<feederFiles, aresFiles, gateAge, todo, order, cache, cacheAge,
                       quarantined, funds, market, accepted, spent, sent>>
    BY <1>6 DEF LogOrder, exchange
  <2>2. LoopTypeOK'
    BY <2>1 DEF LoopTypeOK, FilesTypeOK, feederFiles, aresFiles
  <2>3. BookTypeOK'
    BY <2>1 DEF BookTypeOK, Ordering
  <2>4. CountsInStep'
    BY <2>1 DEF CountsInStep, BookTypeOK, Ordering, OrderType
  <2>5. OrderNotQuarantined' /\ CacheCovers'
    BY <2>1 DEF OrderNotQuarantined, CacheCovers
  <2> QED
    BY <2>2, <2>3, <2>4, <2>5
<1>7. CASE TraderCrash
  BY <1>7, TraderCrashStep
<1>8. CASE TraderTick
  <2>1. /\ UNCHANGED <<traderPc, todo, order, cache, quarantined, exchange, sent, logged>>
        /\ FilesTick /\ gateAge' = Older(gateAge) /\ cacheAge' = Older(cacheAge)
    BY <1>8 DEF TraderTick
  <2>2. LoopTypeOK'
    BY <2>1 DEF LoopTypeOK, FilesTypeOK, FilesTick, Older, Age
  <2>3. BookTypeOK' /\ CountsInStep' /\ OrderNotQuarantined' /\ CacheCovers'
    BY <2>1 DEF BookTypeOK, CountsInStep, OrderNotQuarantined, CacheCovers, exchange, Ordering
  <2> QED
    BY <2>2, <2>3
<1>9. CASE AresWrites
  <2>1. /\ UNCHANGED <<feederFiles, traderLocal, exchange, sent, logged>>
        /\ signals' \subseteq Signal /\ aresStatus' \in Status
        /\ signalsAge' = 0 /\ aresAge' = 0
    BY <1>9 DEF AresWrites, SignalFiles, Status
  <2>2. LoopTypeOK'
    BY <2>1 DEF LoopTypeOK, FilesTypeOK, feederFiles, traderLocal, Age
  <2>3. BookTypeOK' /\ CountsInStep' /\ OrderNotQuarantined' /\ CacheCovers'
    BY <2>1 DEF BookTypeOK, CountsInStep, OrderNotQuarantined, CacheCovers, exchange,
                traderLocal, Ordering
  <2> QED
    BY <2>2, <2>3
<1>1. CASE PriceMoves
  <2>1. PICK s \in Sym, price \in Price : market' = [market EXCEPT ![s] = price]
    BY <1>1 DEF PriceMoves
  <2>2. UNCHANGED <<feederFiles, aresFiles, traderLocal, funds, accepted, spent, sent, logged>>
    BY <1>1 DEF PriceMoves
  <2>3. LoopTypeOK'
    BY <2>2 DEF LoopTypeOK, FilesTypeOK, feederFiles, aresFiles, traderLocal
  <2>4. market' \in [Sym -> Price]
    BY <2>1 DEF BookTypeOK
  <2>5. BookTypeOK' /\ CountsInStep' /\ OrderNotQuarantined' /\ CacheCovers'
    BY <2>2, <2>4 DEF BookTypeOK, CountsInStep, OrderNotQuarantined, CacheCovers, traderLocal, Ordering
  <2> QED
    BY <2>3, <2>5
<1>11. CASE AccountPays
  <2>1. PICK a \in Asset : \E amount \in Payouts[a] :
          amount <= funds[a] /\ funds' = [funds EXCEPT ![a] = @ - amount]
    BY <1>11 DEF AccountPays
  <2>2. PICK amount \in Payouts[a] :
          amount <= funds[a] /\ funds' = [funds EXCEPT ![a] = @ - amount]
    BY <2>1
  <2>3. UNCHANGED <<feederFiles, aresFiles, traderLocal, market, accepted, sent, logged>> /\ spent'
    BY <1>11 DEF AccountPays
  <2>4. funds' \in [Asset -> Nat]
    <3>1. amount \in Nat /\ funds[a] \in Nat
      BY <2>1 DEF Asset, BookTypeOK
    <3>2. funds[a] - amount \in Nat
      BY <2>2, <3>1
    <3> QED
      BY <2>2, <3>2 DEF BookTypeOK
  <2>5. LoopTypeOK'
    BY <2>3 DEF LoopTypeOK, FilesTypeOK, feederFiles, aresFiles, traderLocal
  <2>6. BookTypeOK' /\ CountsInStep' /\ OrderNotQuarantined' /\ CacheCovers'
    BY <2>3, <2>4 DEF BookTypeOK, CountsInStep, OrderNotQuarantined, CacheCovers, traderLocal, Ordering
  <2> QED
    BY <2>5, <2>6
<1>10. CASE UNCHANGED traderVars
  BY <1>10 DEF traderVars, feederFiles, aresFiles, traderLocal, exchange, LoopTypeOK,
     FilesTypeOK, BookTypeOK, CountsInStep, OrderNotQuarantined, CacheCovers, Ordering
<1> QED
  BY <1>1, <1>2, <1>3, <1>4, <1>5, <1>6, <1>7, <1>8, <1>9, <1>10, <1>11 DEF TraderNext, TraderSteps, ExchangeMoves

(* The invariant of the trader holds in every reachable state.              *)
THEOREM TraderInvariant == TraderSpec => []TraderInv
  BY TraderInvInit, TraderInvStep, PTL DEF TraderSpec

(* An order_executed event stands for an order that was sent and executed.  *)
THEOREM LoggedAreExecuted == TraderSpec => []LoggedOrdersExecuted
<1>1. TraderInv => LoggedOrdersExecuted
  BY DEF TraderInv, CountsInStep, LoggedOrdersExecuted
<1> QED
  BY <1>1, TraderInvariant, PTL

(* What a step of the trader does to a quarantined symbol.                  *)
LEMMA QuarantineStep ==
  ASSUME TraderInv, [TraderNext]_traderVars, NEW s \in quarantined, traderPc' # "off"
  PROVE  s \in quarantined' /\ sent'[s] = sent[s]
<1>1. CASE SendOrder
  BY <1>1 DEF SendOrder, TraderInv, OrderNotQuarantined, BookTypeOK, LoopTypeOK, Ordering
<1>2. CASE TraderNext /\ ~SendOrder
  BY <1>2 DEF TraderNext, TraderSteps, TraderStart, TraderCheck, TraderLoad, ProcessSignal,
     OrderAnswered, LogOrder, IterationEnds, TraderCrash, TraderTick, AresWrites, traderLocal,
     ExchangeMoves, PriceMoves, AccountPays
<1>3. CASE UNCHANGED traderVars
  BY <1>3 DEF traderVars, traderLocal
<1> QED
  BY <1>1, <1>2, <1>3

(* Until a restart a quarantined symbol stays quarantined and no order for  *)
(* it is sent.                                                              *)
THEOREM QuarantineHeld == TraderSpec => QuarantineHolds
<1>1. TraderInv /\ [TraderNext]_traderVars =>
        [\A s \in quarantined :
           traderPc' = "off" \/ (s \in quarantined' /\ sent'[s] = sent[s])]_traderVars
  BY QuarantineStep
<1> QED
  BY <1>1, TraderInvariant, PTL DEF TraderSpec, QuarantineHolds

(* An order the account does not cover has one of its two causes.           *)
LEMMA SentCovered == TraderInv /\ SendOrder => Covered(order) \/ spent \/ RoseTooFar(order)
<1> SUFFICES ASSUME TraderInv, SendOrder, ~spent, ~RoseTooFar(order)
             PROVE  Covered(order)
  OBVIOUS
<1> USE TraderAssumption, FilesAssumption
<1>1. order \in OrderType /\ Within(order, cache)
  BY DEF SendOrder, TraderInv, BookTypeOK, Ordering, CacheCovers
<1>2. /\ order.symbol \in Sym /\ order.symbol \in Asset /\ Cash \in Asset
      /\ order.qty \in Nat /\ order.price \in Nat
  <2>1. order.symbol \in Sym /\ order.qty \in 0 .. Size /\ order.price \in Price
    BY <1>1 DEF OrderType
  <2>2. order.qty \in Nat
    BY <2>1
  <2>3. order.price \in Nat
    BY <2>1
  <2> QED
    BY <2>1, <2>2, <2>3 DEF Asset
<1>3. \A a \in Asset : cache[a] <= funds[a] /\ cache[a] \in Nat /\ funds[a] \in Nat
  BY DEF TraderInv, BookTypeOK, CacheCovers
<1>4. market[order.symbol] \in Nat
  BY <1>2 DEF TraderInv, BookTypeOK
<1>5. CASE order.side = "BUY"
  <2> DEFINE p == market[order.symbol]
  <2>1. 19 * p <= 20 * order.price /\ 19 * p \in Nat /\ 20 * order.price \in Nat
    BY <1>2, <1>4, <1>5 DEF RoseTooFar
  <2>2. order.qty * (19 * p) <= order.qty * (20 * order.price)
    BY <1>2, <2>1, TimesMonotonic
  <2>3. order.qty * (20 * order.price) <= 19 * cache[Cash]
    BY <1>1, <1>5 DEF Within
  <2>4. order.qty * (19 * p) = 19 * (order.qty * p) /\ order.qty * p \in Nat
    BY <1>2, <1>4
  <2>5. order.qty * (20 * order.price) \in Nat
    BY <1>2, <2>1
  <2>6. order.qty * p <= funds[Cash]
    <3> HIDE DEF p
    <3>1. 19 * (order.qty * p) <= 19 * cache[Cash]
      BY <1>2, <1>3, <2>2, <2>3, <2>4, <2>5
    <3> QED
      BY <1>2, <1>3, <2>4, <3>1
  <2> QED
    BY <1>5, <2>6 DEF Covered, Draws, Cost
<1>6. CASE order.side # "BUY"
  BY <1>1, <1>2, <1>3, <1>6 DEF Within, Covered, Draws, Cost
<1> QED
  BY <1>5, <1>6

(* An order the account does not cover is sent only when the account paid   *)
(* for something after the balance was read, or the market rose too far.    *)
THEOREM UncoveredIsCaused == TraderSpec => UncoveredHasCause
  BY SentCovered, TraderInvariant, PTL DEF TraderSpec, UncoveredHasCause

(* The one flag of the model, apart from the rest for the provers' sake.    *)
SpentTypeOK == spent \in BOOLEAN

(* It is set, cleared, or left alone.                                       *)
LEMMA SpentTypeStep == SpentTypeOK /\ [TraderNext]_traderVars => SpentTypeOK'
<1> SUFFICES ASSUME spent \in BOOLEAN, [TraderNext]_traderVars
             PROVE  spent' \in BOOLEAN
  BY DEF SpentTypeOK
<1>1. ASSUME NEW b \in RefreshedBalance
      PROVE  b[3] \in {FALSE, spent}
  <2>1. CASE b = <<funds, 0, FALSE>>
    BY <2>1
  <2>2. CASE b = <<cache, cacheAge, spent>>
    BY <2>2
  <2> QED
    BY <2>1, <2>2 DEF RefreshedBalance
<1>2. spent' \in {TRUE, FALSE, spent}
  <2>1. ASSUME NEW g \in todo, ProcessSignal(g)
        PROVE  spent' \in {FALSE, spent}
    BY <1>1, <2>1 DEF ProcessSignal
  <2>2. CASE OrderAnswered \/ TraderCrash
    BY <2>2, Zenon DEF OrderAnswered, TraderCrash, Execute, exchange
  <2>3. CASE TraderStart \/ TraderCheck \/ TraderLoad \/ IterationEnds \/ SendOrder \/ LogOrder
    BY <2>3, Zenon DEF TraderStart, TraderCheck, TraderLoad, IterationEnds, SendOrder, LogOrder, exchange
  <2>4. CASE TraderTick \/ AresWrites \/ UNCHANGED traderVars
    BY <2>4, Zenon DEF TraderTick, AresWrites, traderVars, exchange
  <2>5. CASE ExchangeMoves
    BY <2>5, Zenon DEF ExchangeMoves, PriceMoves, AccountPays
  <2> QED
    BY <2>1, <2>2, <2>3, <2>4, <2>5, Zenon DEF TraderNext, TraderSteps
<1> QED
  BY <1>2, Zenon

(* Types: no account and no count goes negative.                            *)
THEOREM TraderTypeCorrect == TraderSpec => []TraderTypeOK
<1>1. TraderInit => SpentTypeOK
  BY Zenon DEF TraderInit, SpentTypeOK
<1>2. TraderInv /\ SpentTypeOK => TraderTypeOK
  BY Zenon DEF TraderInv, LoopTypeOK, BookTypeOK, OrderType, TraderTypeOK, SpentTypeOK
<1>3. TraderSpec => []SpentTypeOK
  BY <1>1, SpentTypeStep, PTL DEF TraderSpec
<1> QED
  BY <1>2, <1>3, TraderInvariant, PTL

-----------------------------------------------------------------------------
(* What the composition needs of the trader's own variables.                *)
GateInv == gateAge \in Age /\ gateLag \in Age /\ LoadedSignalsRecent

(* Signals being saved are younger than the status of the moment, and so    *)
(* young for whom it let through.                                           *)
PendingYoung ==
  aresPc = "save" /\ traderPc = "load" => lastSignal <= TraderThreshold + gateAge

(* A step of the pipeline is, to ARES, a step of its own or none.           *)
LEMMA PipelineStepOfAres == [PipelineNext]_pipelineVars => [AresNext]_aresVars
<1> USE DEF aresVars
<1>1. ASSUME TraderSteps \/ TraderCrash, UNCHANGED aresLocal
      PROVE  UNCHANGED aresVars
  BY <1>1 DEF TraderSteps, TraderCrash, TraderStart, TraderCheck, TraderLoad,
     ProcessSignal, SendOrder, OrderAnswered, LogOrder, IterationEnds
<1>2. AresMoves => AresNext
  BY DEF AresMoves, AresNext
<1>3. Tick => AresNext
  BY DEF Tick, AresNext
<1>4. OthersMove => UNCHANGED aresVars
  BY DEF OthersMove, ExchangeMoves, PriceMoves, AccountPays
<1> QED
  BY <1>1, <1>2, <1>3, <1>4 DEF PipelineNext, TraderMoves, pipelineVars

(* Time and the writes of ARES keep the bound; the check establishes it.    *)
LEMMA GateInvStep ==
  AresInv /\ AresInv' /\ GateInv /\ PendingYoung /\ [PipelineNext]_pipelineVars => GateInv'
<1> USE FilesAssumption
<1> SUFFICES ASSUME AresInv, AresInv', GateInv, PendingYoung, [PipelineNext]_pipelineVars
             PROVE  GateInv'
  OBVIOUS
<1> USE DEF GateInv, LoadedSignalsRecent, AresInv, AresTypeOK, FilesTypeOK, Age
<1>2. CASE TraderMoves
  <2>1. signalsAge' = signalsAge /\ signals' = signals
    BY <1>2, PipelineStepOfAres DEF TraderMoves, TraderSteps, TraderCrash, TraderStart,
       TraderCheck, TraderLoad, ProcessSignal, SendOrder, OrderAnswered, LogOrder,
       IterationEnds, aresFiles
  <2>2. CASE TraderCheck
    <3>1. gateLag' = aresLag /\ gateUnsaved' = aresUnsaved
      BY <1>2, <2>2 DEF TraderMoves, TraderCheck
    <3>2. ~aresUnsaved /\ signals # {} =>
            signalsAge <= aresAge + aresLag + AresThreshold /\ aresAge <= TraderThreshold
      BY <2>2 DEF TraderCheck, Healthy, GreenMeansRecentSignals
    <3> QED
      BY <2>1, <2>2, <3>1, <3>2 DEF TraderCheck
  <2>3. CASE TraderMoves /\ ~TraderCheck
    <3>1. gateAge' \in {gateAge, Old}
      BY <2>3 DEF TraderMoves, TraderSteps, TraderCrash, TraderStart, TraderLoad,
         ProcessSignal, SendOrder, OrderAnswered, LogOrder, IterationEnds
    <3>2. traderPc' # "load"
      BY <2>3 DEF TraderMoves, TraderSteps, TraderCrash, TraderStart, TraderLoad,
         ProcessSignal, SendOrder, OrderAnswered, LogOrder, IterationEnds
    <3>3. gateLag' = 0
      BY <2>3, <3>2 DEF TraderMoves
    <3>4. gateAge' \in Age /\ gateLag' \in Age
      BY <3>1, <3>3
    <3> QED
      BY <3>2, <3>4
  <2> QED
    BY <1>2, <2>2, <2>3
<1>3. CASE Tick
  BY <1>3 DEF Tick, TraderTick, AresTick, FilesTick, Older, gate
<1>4. CASE OthersMove
  BY <1>4 DEF OthersMove, ExchangeMoves, PriceMoves, AccountPays, aresFiles, traderLocal, gate
<1>5. CASE UNCHANGED pipelineVars
  BY <1>5 DEF pipelineVars, aresFiles, traderOwn, traderLocal, gate
<1>1. CASE AresMoves
  <2>1. UNCHANGED <<gateAge, traderPc, gateLag, gateUnsaved>>
    BY <1>1 DEF AresMoves, traderOwn, traderLocal, gate
  <2>2. signals' = {} \/ (signals' = signals /\ signalsAge' = signalsAge) \/ (aresPc = "save" /\ signalsAge' = lastSignal)
    BY <1>1 DEF AresMoves, AresSteps, AresStart, AresCheck, AresGenerate, UnlinkSignals,
       SaveSignals, JudgeHealth, StampHealth, UnlinkHealth, WriteHealth,
       AresStop, AresExit, AresCrash, AresEnds, FeederSaves, FeederHealthWritten,
       aresFiles
  <2>3. CASE aresPc = "save" /\ signalsAge' = lastSignal
    BY <2>1, <2>3 DEF PendingYoung
  <2> QED
    BY <2>1, <2>2, <2>3
<1> QED
  BY <1>1, <1>2, <1>3, <1>4, <1>5 DEF PipelineNext

(* ARES restarts that clock, the gate sees it below the age of the status.  *)
LEMMA PendingYoungStep ==
  AresInv /\ AresInv' /\ GateInv /\ PendingYoung /\ [PipelineNext]_pipelineVars => PendingYoung'
<1> USE FilesAssumption
<1> SUFFICES ASSUME AresInv, AresInv', GateInv, PendingYoung, [PipelineNext]_pipelineVars
             PROVE  PendingYoung'
  OBVIOUS
<1> USE DEF GateInv, PendingYoung, AresInv, AresTypeOK, FilesTypeOK, Age, Never
<1>1. CASE AresMoves
  <2>1. UNCHANGED <<gateAge, traderPc>>
    BY <1>1 DEF AresMoves, traderOwn, traderLocal
  <2>2. CASE AresGenerate
    BY <2>1, <2>2 DEF AresGenerate, aresFiles
  <2>3. CASE ~AresGenerate
    <3>1. aresPc' = "save" => aresPc = "save" /\ lastSignal' = lastSignal
      BY <1>1, <2>3 DEF AresMoves, AresSteps, AresStart, AresCheck, UnlinkSignals,
         SaveSignals, JudgeHealth, StampHealth, UnlinkHealth, WriteHealth, AresStop,
         AresExit, AresCrash, AresEnds, FeederSaves, FeederHealthWritten, aresLocal, aresMemory
    <3> QED
      BY <2>1, <3>1
  <2> QED
    BY <2>2, <2>3
<1>2. CASE TraderMoves
  <2>1. UNCHANGED <<aresPc, lastSignal, aresStatus, aresAge>>
    BY <1>2, PipelineStepOfAres DEF TraderMoves, TraderSteps, TraderCrash, TraderStart,
       TraderCheck, TraderLoad, ProcessSignal, SendOrder, OrderAnswered, LogOrder,
       IterationEnds, aresFiles, aresLocal, aresMemory
  <2>2. CASE TraderCheck
    BY <2>1, <2>2 DEF TraderCheck, Healthy, MemoryBehindFile
  <2>3. CASE ~TraderCheck
    <3>1. traderPc' # "load"
      BY <1>2, <2>3 DEF TraderMoves, TraderSteps, TraderCrash, TraderStart, TraderLoad,
         ProcessSignal, SendOrder, OrderAnswered, LogOrder, IterationEnds
    <3> QED
      BY <2>1, <3>1
  <2> QED
    BY <2>2, <2>3
<1>3. CASE Tick
  BY <1>3 DEF Tick, TraderTick, AresTick, FilesTick, Older
<1>4. CASE OthersMove
  BY <1>4 DEF OthersMove, ExchangeMoves, PriceMoves, AccountPays, aresFiles, aresLocal,
     aresMemory, traderLocal
<1>5. CASE UNCHANGED pipelineVars
  BY <1>5 DEF pipelineVars, aresFiles, aresLocal, aresMemory, traderOwn, traderLocal
<1> QED
  BY <1>1, <1>2, <1>3, <1>4, <1>5 DEF PipelineNext

(* The chain of the two gates: signals the trader loads were generated at   *)
(* most AresThreshold + TraderThreshold, and the delay of ARES' stamp,      *)
(* before its check of ARES' health.                                        *)
THEOREM SignalsRecent == PipelineSpec => []LoadedSignalsRecent
<1> DEFINE Inv == AresInv /\ GateInv /\ PendingYoung
<1>1. PipelineInit => Inv
  BY AresInvInit, FilesAssumption
     DEF PipelineInit, AresInit, TraderInit, GateInv, LoadedSignalsRecent, PendingYoung, Age
<1>2. Inv /\ [PipelineNext]_pipelineVars => Inv'
  BY PipelineStepOfAres, AresInvStep, GateInvStep, PendingYoungStep
<1>3. Inv => LoadedSignalsRecent
  BY DEF GateInv
<1> QED
  BY <1>1, <1>2, <1>3, PTL DEF PipelineSpec

-----------------------------------------------------------------------------
(* The two services side by side keep what each of them promises alone.  For *)
(* ARES the pipeline is one behaviour of its own specification.              *)
THEOREM PipelineRunsAres == PipelineSpec => AresSpec
<1>1. PipelineInit => AresInit
  BY DEF PipelineInit
<1> QED
  BY <1>1, PipelineStepOfAres, PTL DEF PipelineSpec, AresSpec

(* A GREEN status stands for recent signals with a trader beside ARES, too.  *)
THEOREM GreenIsRecentBeside == PipelineSpec => []GreenMeansRecentSignals /\ []AresTypeOK
  BY PipelineRunsAres, GreenIsRecent, AresTypesHold, PTL

(* For the trader it is not: its own specification writes the files of ARES  *)
(* in one step, the pipeline in several and in any order. A step of it is    *)
(* the trader's own, or leaves all but the files alone.                      *)
LEMMA PipelineStepOfTrader ==
  [PipelineNext]_pipelineVars => [TraderNext]_traderVars \/ UNCHANGED traderOwn
<1>1. AresMoves => UNCHANGED traderOwn
  BY DEF AresMoves
<1>2. TraderMoves \/ OthersMove \/ Tick => TraderNext
  BY DEF TraderMoves, OthersMove, Tick, TraderNext
<1>3. UNCHANGED pipelineVars => UNCHANGED traderOwn
  BY DEF pipelineVars
<1> QED
  BY <1>1, <1>2, <1>3 DEF PipelineNext

(* What ARES may do to the files is all the same to the trader's invariant.  *)
LEMMA TraderInvBeside ==
  TraderInv /\ FilesTypeOK' /\ UNCHANGED traderOwn => TraderInv'
<1> SUFFICES ASSUME TraderInv, FilesTypeOK', UNCHANGED traderOwn
             PROVE  TraderInv'
  OBVIOUS
<1> USE DEF TraderInv, traderOwn, traderLocal, exchange
<1>1. LoopTypeOK'
  BY DEF LoopTypeOK
<1>2. BookTypeOK' /\ CountsInStep'
  BY DEF BookTypeOK, CountsInStep, Ordering
<1>3. OrderNotQuarantined' /\ CacheCovers'
  BY DEF OrderNotQuarantined, CacheCovers
<1> QED
  BY <1>1, <1>2, <1>3

(* So the invariant of the trader holds in the pipeline.                    *)
LEMMA TraderInvInPipeline == PipelineSpec => [](TraderInv /\ SpentTypeOK)
<1>1. PipelineInit => AresInv /\ TraderInv /\ SpentTypeOK
  <2>1. TraderInit => SpentTypeOK
    BY Zenon DEF TraderInit, SpentTypeOK
  <2> QED
    BY <2>1, AresInvInit, TraderInvInit DEF PipelineInit
<1>2. AresInv /\ [PipelineNext]_pipelineVars => AresInv'
  BY PipelineStepOfAres, AresInvStep
<1>3. AresInv' => FilesTypeOK'
  BY DEF AresInv, AresTypeOK
<1>4. SpentTypeOK /\ UNCHANGED traderOwn => SpentTypeOK'
  BY Zenon DEF SpentTypeOK, traderOwn, exchange
<1>5. AresInv /\ TraderInv /\ SpentTypeOK /\ [PipelineNext]_pipelineVars
        => (AresInv /\ TraderInv /\ SpentTypeOK)'
  BY <1>2, <1>3, <1>4, PipelineStepOfTrader, TraderInvStep, TraderInvBeside, SpentTypeStep
<1> QED
  BY <1>1, <1>5, PTL DEF PipelineSpec

(* Beside ARES, too, a logged order was executed, and an executed one sent.  *)
THEOREM LoggedAreExecutedBeside == PipelineSpec => []LoggedOrdersExecuted /\ []TraderTypeOK
<1>1. TraderInv => LoggedOrdersExecuted
  BY DEF TraderInv, CountsInStep, LoggedOrdersExecuted
<1>2. TraderInv /\ SpentTypeOK => TraderTypeOK
  BY Zenon DEF TraderInv, LoopTypeOK, BookTypeOK, OrderType, TraderTypeOK, SpentTypeOK
<1> QED
  BY <1>1, <1>2, TraderInvInPipeline, PTL

(* Beside ARES, too, a quarantined symbol waits for a restart of the trader. *)
THEOREM QuarantineHeldBeside == PipelineSpec => QuarantineHolds
<1>1. TraderInv /\ [PipelineNext]_pipelineVars =>
        [\A s \in quarantined :
           traderPc' = "off" \/ (s \in quarantined' /\ sent'[s] = sent[s])]_traderVars
  BY PipelineStepOfTrader, QuarantineStep DEF traderOwn, traderLocal
<1> QED
  BY <1>1, TraderInvInPipeline, PTL DEF PipelineSpec, QuarantineHolds

(* Beside ARES, too, an order the account does not cover needs one of the    *)
(* two causes.                                                               *)
THEOREM UncoveredIsCausedBeside == PipelineSpec => UncoveredHasCause
  BY SentCovered, TraderInvInPipeline, PTL DEF PipelineSpec, UncoveredHasCause
=============================================================================
