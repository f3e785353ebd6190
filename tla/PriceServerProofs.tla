-------------------------- MODULE PriceServerProofs --------------------------
(***************************************************************************)
(* Proofs about PriceServer for every number of stocks, venues, rounds and *)
(* restarts and every width and spread of the prices: what a crash leaves  *)
(* behind is gone when init_snapshot returns, the NBBO is the best of its  *)
(* market after every round, and print_snapshot shows and counts what it   *)
(* says it does.                                                           *)
(***************************************************************************)
EXTENDS PriceServer, ModLemmas

Places == 0 .. NumVenue-1
Prices == 0 .. PriceMod-1

Data == [time : Nat, bid : Prices, bidOf : Places,
         ask : Prices, askOf : Places]

Typed ==
  /\ recs \in [Offsets -> Data]
  /\ locked \in [Offsets -> BOOLEAN]
  /\ heartbeat \in Nat
  /\ spc \in {"off", "dead", "lock", "seal", "clear", "beat", "read", "stop"}
  /\ initial \in BOOLEAN
  /\ stock \in Stocks
  /\ venue \in Places
  /\ midpoint \in Prices
  /\ pd \in Data
  /\ best \in Data
  /\ beats \in Nat
  /\ rpc \in {"idle", "print", "sleep", "done"}
  /\ roff \in Offsets
  /\ rtime \in [Offsets -> Nat]
  /\ rbegin \in Nat
  /\ calm \in BOOLEAN
  /\ rbeats \in Int

(* The server is in a round, changing the market of stock.                 *)
InRound == spc \in {"lock", "seal"}

Running == spc \notin {"off", "dead"}

(* The flag of init_snapshot agrees with where the server is.              *)
Phases ==
  /\ spc \in {"off", "beat", "read", "stop"} => ~initial
  /\ spc = "clear" => initial
  /\ calm => ~initial

(* The round in progress has written record i of its stock.                *)
Past(i) == IF venue = 0 THEN i # 0 ELSE i # 0 /\ i < venue

(* The records init_snapshot has written: those of the stocks before this  *)
(* one and the first ones of this one.                                     *)
Written(s, i) == s < stock \/ (s = stock /\ Past(i))

(* A record is locked when the server is writing it, or when an earlier    *)
(* server was killed writing it and init_snapshot has not come to it.      *)
LocksExplained ==
  spc # "dead" =>
    \A s \in Stocks, i \in Places :
      locked[Offset(s, i)] =>
        \/ spc = "seal" /\ s = stock /\ i = venue
        \/ initial /\ InRound /\ ~Written(s, i)

(* The time a round stamps on its markets.                                 *)
RoundTime == IF initial THEN 0 ELSE heartbeat

(* Record d is the best of the markets of stock s in places 1 .. n of the  *)
(* snapshot r.                                                             *)
BestOf(r, d, s, n) ==
  /\ d.bidOf \in 1 .. n /\ r[Offset(s, d.bidOf)].bid = d.bid
  /\ d.askOf \in 1 .. n /\ r[Offset(s, d.askOf)].ask = d.ask
  /\ \A v \in 1 .. n :
       /\ r[Offset(s, v)].bid <= d.bid
       /\ r[Offset(s, v)].ask >= d.ask
       /\ r[Offset(s, v)].time = d.time

(* The number of venues the round in progress has written.                 *)
PlacesPast == IF venue = 0 THEN NumVenue-1 ELSE venue-1

(* nbbo_pd is the best of the venues written so far.                       *)
RoundBest ==
  InRound =>
    /\ spc = "seal" /\ venue # 0 =>
         pd.time = RoundTime /\ pd.bidOf = venue /\ pd.askOf = venue
    /\ venue # 1 =>
         /\ best.time = RoundTime
         /\ BestOf(recs, best, stock, PlacesPast)

(* The market of stock s is complete: not that of the round in progress,   *)
(* nor one init_snapshot has still to write.                               *)
Complete(s) ==
  /\ Running
  /\ InRound => s # stock
  /\ initial /\ InRound => s < stock

(* The first record of stock s in the snapshot r is the NBBO of the others;*)
(* init_snapshot stamps all of them with 0.                                *)
NbboBest(r, init, s) ==
  /\ BestOf(r, r[Offset(s, 0)], s, NumVenue-1)
  /\ init => r[Offset(s, 0)].time = 0

MarketsBest ==
  \A s \in Stocks : Complete(s) => NbboBest(recs, initial, s)

(* Outside init_snapshot no record is from the future, and no NBBO newer   *)
(* than the markets it was taken from.                                     *)
TimesOrdered ==
  ~initial => \A s \in Stocks : \A i \in Places :
    /\ recs[Offset(s, i)].time <= heartbeat
    /\ recs[Offset(s, 0)].time <= recs[Offset(s, i)].time

(* Of a stock whose NBBO has been printed, no market is older than it, and *)
(* none will be.                                                           *)
PrintOrdered ==
  calm /\ rpc \in {"print", "sleep"} => \A s \in Stocks : \A v \in Venues :
    LET from == Offset(s, 0)
        at   == Offset(s, v)
    IN rpc = "sleep" \/ from < roff =>
         rtime[from] <= IF rpc = "sleep" \/ at < roff THEN rtime[at]
                        ELSE recs[at].time

IInv ==
  /\ Typed
  /\ Phases
  /\ LocksExplained
  /\ RoundBest
  /\ MarketsBest
  /\ TimesOrdered
  /\ PrintOrdered

(* How far midpoints can have moved from Start after n rounds.             *)
Most == MaxJump + (MaxSpread + 1) \div 2
Drift(n) == MaxJump + n * Most

(* No price reaches an end of its type, and no sum of two.                 *)
PricesFit ==
  /\ Drift(MaxBeats) + MaxSpread <= Start
  /\ 2 * (Start + Drift(MaxBeats) + MaxSpread) + 1 < PriceMod

(* The quotes of record d are around midpoint m, each on its own side.     *)
Around(d, m) ==
  /\ m - MaxSpread <= d.bid /\ d.bid <= m
  /\ m <= d.ask /\ d.ask <= m + MaxSpread

(* The number of heartbeats whose round was begun.                         *)
Rounds == IF spc = "read" THEN beats - 1 ELSE beats

(* m is at most as far from Start as these rounds allow.                   *)
Reached(m) == Start - Drift(Rounds) <= m /\ m <= Start + Drift(Rounds)

(* Nothing has wrapped: the prices are where the jumps and the spreads put *)
(* them.                                                                   *)
MidpointAround ==
  /\ beats <= MaxBeats
  /\ spc = "read" => beats > 0
  /\ Running => Reached(midpoint)
  /\ spc = "seal" /\ venue # 0 => Around(pd, midpoint)
  /\ InRound /\ venue # 1 => Around(best, midpoint)
  /\ Settled => Around(recs[Offset(stock, 0)], midpoint)
  /\ \A s \in Stocks : Complete(s) =>
       \E m \in Prices : Reached(m) /\ Around(recs[Offset(s, 0)], m)

-----------------------------------------------------------------------------
(* The records of the stocks follow each other without overlap and fill    *)
(* the snapshot; the NBBO comes first.                                     *)
LEMMA OffsetRange ==
  ASSUME NEW s \in Stocks, NEW i \in Places
  PROVE  Offset(s, i) \in Offsets
<1>1. /\ NumVenue \in Nat \ {0} /\ s \in Int /\ NumStocks \in Int
      /\ s < NumStocks
  BY PriceConstants DEF Stocks
<1>2. NumVenue * s + NumVenue <= NumVenue * NumStocks
  BY <1>1, MulStep
<1>3. NumVenue * 0 <= NumVenue * s
  BY <1>1, PriceConstants DEF Stocks
<1> QED
  BY <1>1, <1>2, <1>3 DEF Offset, Offsets, Places

LEMMA OffsetsDiffer ==
  ASSUME NEW s \in Stocks, NEW i \in Places, NEW t \in Stocks, NEW j \in Places,
         Offset(s, i) = Offset(t, j)
  PROVE  s = t /\ i = j
<1>1. /\ NumVenue \in Nat \ {0} /\ s \in Int /\ t \in Int
      /\ i \in Int /\ j \in Int
      /\ 0 <= i /\ i < NumVenue /\ 0 <= j /\ j < NumVenue
  BY PriceConstants DEF Stocks, Places
<1>2. NumVenue * s + i = NumVenue * t + j
  BY <1>1 DEF Offset
<1>3. s < t => NumVenue * s + NumVenue <= NumVenue * t
  BY <1>1, MulStep
<1>4. t < s => NumVenue * t + NumVenue <= NumVenue * s
  BY <1>1, MulStep
<1>5. NumVenue * s \in Int /\ NumVenue * t \in Int
  BY <1>1
<1>6. s = t
  BY <1>1, <1>2, <1>3, <1>4, <1>5
<1> QED
  BY <1>1, <1>2, <1>5, <1>6

LEMMA OffsetSplit ==
  ASSUME NEW o \in Offsets
  PROVE  \E s \in Stocks, i \in Places : o = Offset(s, i)
<1> DEFINE s == o \div NumVenue
           i == o % NumVenue
<1>1. NumVenue \in Nat \ {0} /\ NumStocks \in Nat \ {0} /\ o \in Int
  BY PriceConstants DEF Offsets
<1>2. 0 <= o /\ o < NumStocks * NumVenue
  BY <1>1 DEF Offsets
<1>3. s \in Int /\ i \in Places /\ o = NumVenue * s + i
  BY <1>1, DivMod DEF Places
<1> HIDE DEF s, i
<1>4. s < NumStocks
  <2>1. SUFFICES ASSUME NumStocks <= s PROVE FALSE
    BY <1>1, <1>3
  <2>2. NumVenue * NumStocks <= NumVenue * s
    BY <1>1, <1>3, <2>1, MulStep
  <2> QED
    BY <1>1, <1>2, <1>3, <2>2 DEF Places
<1>5. 0 <= s
  <2>1. SUFFICES ASSUME s < 0 PROVE FALSE
    BY <1>3
  <2>2. NumVenue * s + NumVenue <= NumVenue * 0
    BY <1>1, <1>3, <2>1, MulStep
  <2> QED
    BY <1>1, <1>2, <1>3, <2>2 DEF Places
<1>6. s \in Stocks
  BY <1>1, <1>3, <1>4, <1>5 DEF Stocks
<1>7. o = Offset(s, i)
  BY <1>1, <1>3 DEF Offset
<1> QED
  BY <1>3, <1>6, <1>7

(* The NBBO of a stock precedes its venues.                                *)
LEMMA NbboFirst ==
  ASSUME NEW s \in Stocks, NEW i \in Places
  PROVE  i # 0 => Offset(s, 0) < Offset(s, i)
<1>1. s * NumVenue \in Int
  BY PriceConstants DEF Stocks
<1> QED
  BY <1>1, PriceConstants DEF Offset, Places

(* What the largest and the smallest element of a set of numbers are.      *)
LEMMA MaxIs ==
  ASSUME NEW S \in SUBSET Int, NEW x \in S, \A y \in S : y <= x
  PROVE  Max(S) = x
<1>1. \A y \in S : x >= y
  BY DEF Max
<1>2. \A z \in S : (\A y \in S : z >= y) => z = x
  OBVIOUS
<1> QED
  BY <1>1, <1>2 DEF Max

LEMMA MinIs ==
  ASSUME NEW S \in SUBSET Int, NEW x \in S, \A y \in S : x <= y
  PROVE  Min(S) = x
<1>1. \A y \in S : x =< y
  OBVIOUS
<1>2. \A z \in S : (\A y \in S : z =< y) => z = x
  OBVIOUS
<1> QED
  BY <1>1, <1>2 DEF Min

(* A conversion to the type of a price yields one.                         *)
LEMMA PriceOf ==
  ASSUME NEW n \in Int
  PROVE  n % PriceMod \in Prices
BY PriceConstants, DivMod DEF Prices

LEMMA DataFields ==
  ASSUME NEW d \in Data
  PROVE  /\ d.time \in Nat /\ d.bid \in Prices /\ d.ask \in Prices
         /\ d.bidOf \in Places /\ d.askOf \in Places
BY DEF Data

LEMMA DatumData ==
  ASSUME NEW t \in Nat, NEW b \in Prices, NEW bv \in Places,
         NEW a \in Prices, NEW av \in Places
  PROVE  /\ Datum(t, b, bv, a, av) \in Data
         /\ Datum(t, b, bv, a, av).time = t
         /\ Datum(t, b, bv, a, av).bid = b
         /\ Datum(t, b, bv, a, av).bidOf = bv
         /\ Datum(t, b, bv, a, av).ask = a
         /\ Datum(t, b, bv, a, av).askOf = av
BY DEF Datum, Data

(* The snapshot starts at its first record.                                *)
LEMMA Constants ==
  /\ 0 \in Stocks /\ 0 \in Places /\ 1 \in Places /\ 0 \in Offsets
  /\ 0 \in Prices /\ Stocks \subseteq Nat /\ Places \subseteq Nat
  /\ Prices \subseteq Nat /\ NumVenue \in Nat /\ NumVenue >= 2
  /\ Offsets \subseteq Nat
<1>1. 0 \in Stocks /\ 0 \in Places
  BY PriceConstants DEF Stocks, Places
<1>2. Offset(0, 0) = 0
  BY PriceConstants DEF Offset
<1>3. 0 \in Offsets
  BY <1>1, <1>2, OffsetRange
<1>4. Offsets \subseteq Nat
  <2>1. \A o \in Offsets : o \in Int /\ 0 <= o
    BY DEF Offsets
  <2> QED
    BY <2>1
<1> QED
  BY <1>1, <1>3, <1>4, PriceConstants DEF Stocks, Places, Prices

-----------------------------------------------------------------------------
(* A market of the venue and the NBBO after it, field by field.            *)
LEMMA QuoteFields ==
  ASSUME Typed, NEW b \in 0 .. MaxSpread, NEW a \in 0 .. MaxSpread
  PROVE  /\ Quote(b, a) \in Data
         /\ Quote(b, a).time = RoundTime
         /\ Quote(b, a).bidOf = venue /\ Quote(b, a).askOf = venue
         /\ Quote(b, a).bid = (midpoint - b) % PriceMod
         /\ Quote(b, a).ask = (midpoint + a) % PriceMod
<1>1. midpoint - b \in Int /\ midpoint + a \in Int
  BY PriceConstants DEF Typed, Prices
<1>2. (midpoint - b) % PriceMod \in Prices /\ (midpoint + a) % PriceMod \in Prices
  BY <1>1, PriceOf
<1>3. RoundTime \in Nat /\ venue \in Places
  BY DEF Typed, RoundTime
<1> QED
  BY <1>2, <1>3, DatumData DEF Quote, RoundTime

LEMMA BestWithFields ==
  ASSUME best \in Data, venue \in Places, NEW q \in Data
  PROVE  /\ BestWith(q) \in Data
         /\ venue = 1 => BestWith(q) = q
         /\ venue # 1 =>
              /\ BestWith(q).time = best.time
              /\ BestWith(q).bid = IF q.bid > best.bid THEN q.bid ELSE best.bid
              /\ BestWith(q).bidOf = IF q.bid > best.bid THEN venue
                                     ELSE best.bidOf
              /\ BestWith(q).ask = IF q.ask < best.ask THEN q.ask ELSE best.ask
              /\ BestWith(q).askOf = IF q.ask < best.ask THEN venue
                                     ELSE best.askOf
BY Constants DEF BestWith, Data

(* The step to the market of another stock, or of the same one.            *)
LEMMA MarketTyped ==
  ASSUME NEW s \in Stocks, NEW m \in Int, NEW d \in -MaxJump .. MaxJump,
         NewMarket(s, m, d)
  PROVE  /\ stock' \in Stocks /\ midpoint' \in Prices /\ venue' \in Places
         /\ stock' = s /\ venue' = 1 /\ spc' = "lock"
         /\ midpoint' = (m + d) % PriceMod
<1>1. m + d \in Int
  BY PriceConstants
<1>2. (m + d) % PriceMod \in Prices
  BY <1>1, PriceOf
<1> QED
  BY <1>2, Constants DEF NewMarket

LEMMA NextStock ==
  ASSUME stock \in Stocks, stock + 1 < NumStocks
  PROVE  stock + 1 \in Stocks
BY PriceConstants DEF Stocks

LEMMA NextVenue ==
  ASSUME venue \in Places, venue # 0
  PROVE  /\ (venue + 1) % NumVenue \in Places
         /\ (venue + 1) % NumVenue = IF venue = NumVenue-1 THEN 0 ELSE venue + 1
<1>1. /\ NumVenue \in Nat \ {0} /\ venue \in Int /\ 0 < venue
      /\ venue < NumVenue
  BY PriceConstants DEF Places
<1>2. CASE venue = NumVenue-1
  <2>1. NumVenue * 1 + 0 = venue + 1
    BY <1>1, <1>2
  <2>2. (NumVenue * 1 + 0) % NumVenue = 0
    BY <1>1, ModUnique
  <2> QED
    BY <1>2, <2>1, <2>2, Constants
<1>3. CASE venue # NumVenue-1
  <2>1. NumVenue * 0 + (venue + 1) = venue + 1 /\ venue + 1 \in 0 .. NumVenue-1
    BY <1>1, <1>3
  <2>2. (NumVenue * 0 + (venue + 1)) % NumVenue = venue + 1
    BY <1>1, <2>1, ModUnique
  <2> QED
    BY <1>3, <2>1, <2>2 DEF Places
<1> QED
  BY <1>2, <1>3

LEMMA MidInt ==
  ASSUME Typed, NEW s \in Stocks
  PROVE  /\ Mid(s) \in Int
         /\ recs[Offset(s, 0)].bid \in Prices /\ recs[Offset(s, 0)].ask \in Prices
<1> DEFINE r == recs[Offset(s, 0)]
<1>1. Offset(s, 0) \in Offsets
  BY OffsetRange, Constants
<1>2. r \in Data
  BY <1>1 DEF Typed
<1>3. r.bid \in Prices /\ r.ask \in Prices
  BY <1>2, DataFields
<1> HIDE DEF r
<1>4. r.bid \in Int /\ r.ask \in Int
  BY <1>3, PriceConstants DEF Prices
<1>5. (r.bid + r.ask + 1) % PriceMod \in Int
  BY <1>4, PriceOf, PriceConstants DEF Prices
<1>6. Mid(s) = ((r.bid + r.ask + 1) % PriceMod) \div 2
  BY DEF Mid, r
<1>7. Mid(s) \in Int
  BY <1>5, <1>6
<1> QED
  BY <1>3, <1>7 DEF r

LEMMA NextOffset ==
  ASSUME roff \in Offsets
  PROVE  /\ roff + 1 \in Offsets => (roff + 1) % (NumStocks * NumVenue) = roff + 1
         /\ (roff + 1) % (NumStocks * NumVenue) \in Offsets
<1> DEFINE n == NumStocks * NumVenue
<1>1. n \in Int
  BY PriceConstants
<1>2. Offsets = 0 .. n-1
  BY DEF Offsets
<1> HIDE DEF n
<1>3. n \in Nat \ {0} /\ roff \in Nat
  BY <1>1, <1>2
<1>4. roff + 1 \in 0 .. n-1 => (n * 0 + (roff + 1)) % n = roff + 1
  BY <1>3, ModUnique
<1>5. (roff + 1) % n \in 0 .. n-1
  BY <1>3, DivMod
<1> QED
  BY <1>2, <1>3, <1>4, <1>5 DEF n

LEMMA TypedInit ==
  ASSUME Init
  PROVE  Typed
<1>1. Zero \in Data
  BY DatumData, Constants DEF Zero
<1>2. rtime \in [Offsets -> Nat] /\ recs \in [Offsets -> Data]
  BY <1>1 DEF Init
<1>3. locked \in [Offsets -> BOOLEAN]
  BY DEF Init
<1>4. initial \in BOOLEAN /\ calm \in BOOLEAN
  BY DEF Init
<1>5. pd \in Data /\ best \in Data
  BY <1>1 DEF Init
<1>6. stock \in Stocks /\ venue \in Places /\ midpoint \in Prices /\ roff \in Offsets
  BY Constants DEF Init
<1>7. /\ heartbeat \in Nat /\ beats \in Nat /\ rbegin \in Nat /\ rbeats \in Int
      /\ spc = "off" /\ rpc = "idle"
  BY DEF Init
<1> QED
  BY <1>2, <1>3, <1>4, <1>5, <1>6, <1>7 DEF Typed

(* What is stored and computed stays within its type.                      *)
LEMMA TypedStep ==
  ASSUME Typed, Next
  PROVE  Typed'
<1> USE Constants
<1>1. ASSUME NEW b \in 0 .. MaxSpread, NEW a \in 0 .. MaxSpread, SLockVenue(b, a)
      PROVE  Typed'
  BY <1>1, QuoteFields
  DEF SLockVenue, Typed, placeVars, readerVars, reportVars
<1>2. CASE SSealVenue
  <2>1. BestWith(pd) \in Data /\ (venue + 1) % NumVenue \in Places
    BY <1>2, BestWithFields, NextVenue DEF Typed, SSealVenue
  <2> QED
    BY <1>2, <2>1 DEF SSealVenue, Typed, readerVars, reportVars
<1>3. CASE SLockNbbo
  BY <1>3 DEF SLockNbbo, Typed, placeVars, marketVars, readerVars, reportVars
<1>4. CASE SSealNbbo
  <2>1. CASE initial /\ stock + 1 < NumStocks
    <3>1. PICK d \in -MaxJump .. MaxJump : NewMarket(stock + 1, Start, d)
      BY <1>4, <2>1 DEF SSealNbbo
    <3>2. stock + 1 \in Stocks /\ Start \in Int
      BY <2>1, NextStock, PriceConstants DEF Typed
    <3>3. /\ stock' \in Stocks /\ midpoint' \in Prices /\ venue' \in Places
          /\ spc' = "lock"
      BY <3>1, <3>2, MarketTyped
    <3> QED
      BY <1>4, <3>3 DEF SSealNbbo, Typed, marketVars, readerVars, reportVars
  <2>2. CASE ~(initial /\ stock + 1 < NumStocks)
    BY <1>4, <2>2
    DEF SSealNbbo, Typed, placeVars, marketVars, readerVars, reportVars
  <2> QED
    BY <2>1, <2>2
<1>5. ASSUME NEW d \in -MaxJump .. MaxJump, SStart(d)
      PROVE  Typed'
  <2>1. NewMarket(0, Start, d) /\ Start \in Int
    BY <1>5, PriceConstants DEF SStart
  <2>2. /\ stock' \in Stocks /\ midpoint' \in Prices /\ venue' \in Places
        /\ spc' = "lock"
    BY <2>1, MarketTyped
  <2> QED
    BY <1>5, <2>2 DEF SStart, Typed, shared, marketVars, reportVars
<1>6. CASE SClear
  BY <1>6 DEF SClear, Typed, placeVars, marketVars, readerVars, reportVars
<1>7. CASE SBeat
  BY <1>7 DEF SBeat, Typed, placeVars, marketVars, readerVars, reportVars
<1>8. ASSUME NEW s \in Stocks, NEW d \in -MaxJump .. MaxJump, SRead(s, d)
      PROVE  Typed'
  <2>1. NewMarket(s, Mid(s), d) /\ Mid(s) \in Int
    BY <1>8, MidInt DEF SRead
  <2>2. /\ stock' \in Stocks /\ midpoint' \in Prices /\ venue' \in Places
        /\ spc' = "lock"
    BY <2>1, MarketTyped
  <2> QED
    BY <1>8, <2>2 DEF SRead, Typed, shared, marketVars, readerVars, reportVars
<1>9. ASSUME NEW stop \in BOOLEAN, SStop(stop) PROVE Typed'
  BY <1>9 DEF SStop, Typed, shared, placeVars, marketVars, readerVars, reportVars
<1>10. CASE SCrash
  BY <1>10 DEF SCrash, Typed, shared, placeVars, marketVars, readerVars, reportVars
<1>11. CASE RBegin
  BY <1>11 DEF RBegin, Typed, shared, serverVars, placeVars, marketVars
<1>12. CASE RPrint
  <2>1. recs[roff].time \in Nat /\ (roff + 1) % (NumStocks * NumVenue) \in Offsets
    BY DataFields, NextOffset DEF Typed
  <2> QED
    BY <1>12, <2>1 DEF RPrint, Typed, shared, serverVars, placeVars, marketVars
<1>13. CASE REnd
  BY <1>13 DEF REnd, Typed, shared, serverVars, placeVars, marketVars
<1> QED
  BY <1>1, <1>2, <1>3, <1>4, <1>5, <1>6, <1>7, <1>8, <1>9, <1>10, <1>11,
     <1>12, <1>13
  DEF Next, Serve, Round, Restart, Reader

-----------------------------------------------------------------------------
(* Locking a record, sealing one and writing one affect no other.          *)
LEMMA LockOne ==
  ASSUME Typed, NEW i \in Places,
         locked' = [locked EXCEPT ![Offset(stock, i)] = TRUE],
         NEW t \in Stocks, NEW j \in Places
  PROVE  locked'[Offset(t, j)] <=> (t = stock /\ j = i) \/ locked[Offset(t, j)]
<1>1. Offset(t, j) \in Offsets /\ Offset(stock, i) \in Offsets
  BY OffsetRange DEF Typed
<1>2. Offset(t, j) = Offset(stock, i) <=> t = stock /\ j = i
  BY OffsetsDiffer DEF Typed
<1> QED
  BY <1>1, <1>2 DEF Typed

LEMMA UnlockOne ==
  ASSUME Typed, NEW i \in Places,
         locked' = [locked EXCEPT ![Offset(stock, i)] = FALSE],
         NEW t \in Stocks, NEW j \in Places
  PROVE  locked'[Offset(t, j)] <=> ~(t = stock /\ j = i) /\ locked[Offset(t, j)]
<1>1. Offset(t, j) \in Offsets /\ Offset(stock, i) \in Offsets
  BY OffsetRange DEF Typed
<1>2. Offset(t, j) = Offset(stock, i) <=> t = stock /\ j = i
  BY OffsetsDiffer DEF Typed
<1> QED
  BY <1>1, <1>2 DEF Typed

LEMMA WriteOne ==
  ASSUME Typed, NEW d, NEW i \in Places,
         recs' = [recs EXCEPT ![Offset(stock, i)] = d]
  PROVE  /\ recs'[Offset(stock, i)] = d
         /\ \A t \in Stocks, j \in Places : t # stock \/ j # i =>
              recs'[Offset(t, j)] = recs[Offset(t, j)]
<1>1. stock \in Stocks /\ Offset(stock, i) \in Offsets
  BY OffsetRange DEF Typed
<1>2. ASSUME NEW t \in Stocks, NEW j \in Places, t # stock \/ j # i
      PROVE  recs'[Offset(t, j)] = recs[Offset(t, j)]
  <2>1. Offset(t, j) \in Offsets /\ Offset(t, j) # Offset(stock, i)
    BY <1>1, <1>2, OffsetRange, OffsetsDiffer
  <2> QED
    BY <2>1 DEF Typed
<1> QED
  BY <1>1, <1>2 DEF Typed

LEMMA PhasesStep ==
  ASSUME Typed, Phases, Next
  PROVE  Phases'
<1>1. ASSUME NEW b \in 0 .. MaxSpread, NEW a \in 0 .. MaxSpread, SLockVenue(b, a)
      PROVE  Phases'
  BY <1>1 DEF SLockVenue, Phases, readerVars
<1>2. CASE SSealVenue
  BY <1>2 DEF SSealVenue, Phases, readerVars
<1>3. CASE SLockNbbo
  BY <1>3 DEF SLockNbbo, Phases, readerVars
<1>4. CASE SSealNbbo
  BY <1>4 DEF SSealNbbo, NewMarket, Phases, readerVars
<1>5. ASSUME NEW d \in -MaxJump .. MaxJump, SStart(d)
      PROVE  Phases'
  BY <1>5 DEF SStart, NewMarket, Phases
<1>6. CASE SClear
  BY <1>6 DEF SClear, Phases, readerVars
<1>7. CASE SBeat
  BY <1>7 DEF SBeat, Phases, readerVars
<1>8. ASSUME NEW s \in Stocks, NEW d \in -MaxJump .. MaxJump, SRead(s, d)
      PROVE  Phases'
  BY <1>8 DEF SRead, NewMarket, Phases, readerVars
<1>9. ASSUME NEW stop \in BOOLEAN, SStop(stop) PROVE Phases'
  BY <1>9 DEF SStop, Phases, readerVars
<1>10. CASE SCrash
  BY <1>10 DEF SCrash, Phases, readerVars
<1>11. CASE RBegin
  BY <1>11 DEF RBegin, Phases, serverVars
<1>12. CASE RPrint \/ REnd
  BY <1>12 DEF RPrint, REnd, Phases, serverVars
<1> QED
  BY <1>1, <1>2, <1>3, <1>4, <1>5, <1>6, <1>7, <1>8, <1>9, <1>10, <1>11, <1>12
  DEF Next, Serve, Round, Restart, Reader

(* A crash leaves one record locked at most, and init_snapshot comes to it *)
(* before it returns.                                                      *)
LEMMA LocksStep ==
  ASSUME Typed, Phases, LocksExplained, Next
  PROVE  LocksExplained'
<1> USE Constants
<1> SUFFICES ASSUME spc' # "dead", NEW t \in Stocks, NEW j \in Places,
                    locked'[Offset(t, j)]
             PROVE  \/ (spc = "seal" /\ t = stock /\ j = venue)'
                    \/ (initial /\ InRound /\ ~Written(t, j))'
  BY DEF LocksExplained
<1> DEFINE Explained == \/ spc = "seal" /\ t = stock /\ j = venue
                        \/ initial /\ InRound /\ ~Written(t, j)
<1>a. /\ spc # "dead" /\ locked[Offset(t, j)] => Explained
      /\ stock \in Stocks /\ venue \in Places
  BY DEF LocksExplained, Typed
<1>1. ASSUME NEW b \in 0 .. MaxSpread, NEW a \in 0 .. MaxSpread, SLockVenue(b, a)
      PROVE  Explained'
  <2>0. locked' = [locked EXCEPT ![Offset(stock, venue)] = TRUE]
    BY <1>1 DEF SLockVenue
  <2>1. (t = stock /\ j = venue) \/ locked[Offset(t, j)]
    BY <1>a, <2>0, LockOne
  <2> QED
    BY <1>1, <1>a, <2>1 DEF SLockVenue, placeVars, InRound, Written, Past
<1>2. CASE SSealVenue
  <2>1. locked[Offset(t, j)] /\ ~(t = stock /\ j = venue)
    BY <1>2, <1>a, UnlockOne DEF SSealVenue
  <2>2. initial /\ InRound /\ ~Written(t, j)
    BY <1>2, <1>a, <2>1 DEF SSealVenue
  <2>3. venue' = IF venue = NumVenue-1 THEN 0 ELSE venue + 1
    BY <1>2, <1>a, NextVenue DEF SSealVenue
  <2>4. j \in Int /\ venue \in Nat /\ j < NumVenue /\ NumVenue \in Int
    BY <1>a, PriceConstants DEF Places
  <2>5. (~Written(t, j))'
    <3>1. stock' = stock /\ ~(t < stock) /\ venue # 0
      BY <1>2, <2>2 DEF SSealVenue, Written
    <3>2. CASE t # stock
      BY <3>1, <3>2 DEF Written
    <3>3. CASE t = stock
      <4>1. ~Past(j) /\ j # venue
        BY <2>1, <2>2, <3>3 DEF Written
      <4>2. j = 0 \/ venue < j
        BY <2>4, <3>1, <4>1 DEF Past
      <4>3. ~Past(j)'
        BY <2>3, <2>4, <3>1, <4>2 DEF Past
      <4> QED
        BY <3>1, <4>3 DEF Written
    <3> QED
      BY <3>2, <3>3
  <2> QED
    BY <1>2, <2>2, <2>5 DEF SSealVenue, InRound
<1>3. CASE SLockNbbo
  <2>1. (t = stock /\ j = venue) \/ locked[Offset(t, j)]
    BY <1>3, <1>a, LockOne DEF SLockNbbo
  <2> QED
    BY <1>3, <1>a, <2>1 DEF SLockNbbo, placeVars, InRound, Written, Past
<1>4. CASE SSealNbbo
  <2>1. locked[Offset(t, j)] /\ ~(t = stock /\ j = venue)
    BY <1>4, <1>a, UnlockOne DEF SSealNbbo
  <2>2. initial /\ InRound /\ ~Written(t, j) /\ venue = 0
    BY <1>4, <1>a, <2>1 DEF SSealNbbo
  <2>3. stock < t
    BY <1>a, <2>1, <2>2 DEF Written, Past
  <2>4. stock + 1 < NumStocks
    BY <1>a, <2>3, PriceConstants DEF Stocks
  <2>5. stock' = stock + 1 /\ venue' = 1 /\ spc' = "lock"
    BY <1>4, <2>2, <2>4 DEF SSealNbbo, NewMarket
  <2>6. ~(j # 0 /\ j < 1)
    BY DEF Places
  <2>7. (~Written(t, j))'
    BY <1>a, <2>3, <2>5, <2>6 DEF Written, Past
  <2> QED
    BY <1>4, <2>2, <2>5, <2>7 DEF SSealNbbo, InRound
<1>5. ASSUME NEW d \in -MaxJump .. MaxJump, SStart(d)
      PROVE  Explained'
  <2>1. initial' /\ spc' = "lock" /\ stock' = 0 /\ venue' = 1
    BY <1>5 DEF SStart, NewMarket
  <2>2. ~(j # 0 /\ j < 1) /\ ~(t < 0)
    BY DEF Places
  <2>3. (~Written(t, j))'
    BY <2>1, <2>2 DEF Written, Past
  <2> QED
    BY <2>1, <2>3 DEF InRound
<1>6. CASE SClear
  BY <1>6, <1>a DEF SClear, InRound
<1>7. CASE SBeat
  BY <1>7, <1>a DEF SBeat, InRound
<1>8. ASSUME NEW s \in Stocks, NEW d \in -MaxJump .. MaxJump, SRead(s, d)
      PROVE  Explained'
  BY <1>8, <1>a DEF SRead, InRound, shared
<1>9. ASSUME NEW stop \in BOOLEAN, SStop(stop)
      PROVE  Explained'
  BY <1>9, <1>a DEF SStop, InRound, shared
<1>10. CASE SCrash
  BY <1>10 DEF SCrash
<1>11. CASE RBegin
  BY <1>11, <1>a DEF RBegin, shared, serverVars, placeVars, InRound, Written, Past
<1>12. CASE RPrint
  BY <1>12, <1>a DEF RPrint, shared, serverVars, placeVars, InRound, Written, Past
<1>13. CASE REnd
  BY <1>13, <1>a DEF REnd, shared, serverVars, placeVars, InRound, Written, Past
<1> QED
  BY <1>1, <1>2, <1>3, <1>4, <1>5, <1>6, <1>7, <1>8, <1>9, <1>10, <1>11,
     <1>12, <1>13
  DEF Next, Serve, Round, Restart, Reader

-----------------------------------------------------------------------------
(* The best of some records stays the best while these records stay.       *)
LEMMA BestOfKept ==
  ASSUME NEW r, NEW q, NEW d, NEW s, NEW n \in Nat, BestOf(r, d, s, n),
         \A v \in 1 .. n : q[Offset(s, v)] = r[Offset(s, v)]
  PROVE  BestOf(q, d, s, n)
BY DEF BestOf

(* One more market and the comparison with it.                             *)
LEMMA BestOfNext ==
  ASSUME Typed, RoundBest, SSealVenue
  PROVE  /\ BestOf(recs', best', stock, venue)
         /\ best'.time = RoundTime
<1> DEFINE b == best'
<1>1. /\ stock \in Stocks /\ venue \in Places /\ venue # 0 /\ best \in Data
      /\ pd \in Data /\ spc = "seal" /\ best' = BestWith(pd)
      /\ recs' = [recs EXCEPT ![Offset(stock, venue)] = pd]
  BY DEF Typed, SSealVenue
<1>2. /\ pd.time = RoundTime /\ pd.bidOf = venue /\ pd.askOf = venue
      /\ venue # 1 => best.time = RoundTime /\ BestOf(recs, best, stock, venue-1)
  BY <1>1 DEF RoundBest, InRound, PlacesPast
<1>3. venue \in Nat /\ venue \in 1 .. venue /\ 1 .. venue \subseteq Places
      /\ 1 .. venue-1 \subseteq 1 .. venue
      /\ \A v \in 1 .. venue : v = venue \/ v \in 1 .. venue-1
  BY <1>1, PriceConstants DEF Places
<1>4. /\ recs'[Offset(stock, venue)] = pd
      /\ \A v \in 1 .. venue-1 : recs'[Offset(stock, v)] = recs[Offset(stock, v)]
  <2>1. \A v \in 1 .. venue-1 : v # venue /\ v \in Places
    BY <1>3
  <2>2. /\ recs'[Offset(stock, venue)] = pd
        /\ \A t \in Stocks, j \in Places : t # stock \/ j # venue =>
             recs'[Offset(t, j)] = recs[Offset(t, j)]
    BY <1>1, WriteOne
  <2> QED
    BY <1>1, <2>1, <2>2
<1>5. /\ pd.bid \in Int /\ pd.ask \in Int /\ best.bid \in Int /\ best.ask \in Int
  BY <1>1, DataFields DEF Prices
<1>6. CASE venue = 1
  <2>1. b = pd
    BY <1>1, <1>6, BestWithFields
  <2>2. 1 .. venue = {venue}
    BY <1>6
  <2> QED
    BY <1>2, <1>4, <1>5, <2>1, <2>2 DEF BestOf
<1>7. CASE venue # 1
  <2>1. /\ b.time = best.time
        /\ b.bid = IF pd.bid > best.bid THEN pd.bid ELSE best.bid
        /\ b.bidOf = IF pd.bid > best.bid THEN venue ELSE best.bidOf
        /\ b.ask = IF pd.ask < best.ask THEN pd.ask ELSE best.ask
        /\ b.askOf = IF pd.ask < best.ask THEN venue ELSE best.askOf
    BY <1>1, <1>7, BestWithFields
  <2>2. BestOf(recs, best, stock, venue-1)
    BY <1>2, <1>7
  <2>3. BestOf(recs', best, stock, venue-1)
    <3>1. venue-1 \in Nat
      BY <1>1, <1>3
    <3> QED
      BY <1>4, <2>2, <3>1, BestOfKept
  <2>4. best.bidOf \in 1 .. venue-1 /\ best.askOf \in 1 .. venue-1
    BY <2>3 DEF BestOf
  <2>5. b.bidOf \in 1 .. venue /\ recs'[Offset(stock, b.bidOf)].bid = b.bid
    BY <1>3, <1>4, <2>1, <2>3, <2>4 DEF BestOf
  <2>6. b.askOf \in 1 .. venue /\ recs'[Offset(stock, b.askOf)].ask = b.ask
    BY <1>3, <1>4, <2>1, <2>3, <2>4 DEF BestOf
  <2>7. ASSUME NEW v \in 1 .. venue
        PROVE  /\ recs'[Offset(stock, v)].bid <= b.bid
               /\ recs'[Offset(stock, v)].ask >= b.ask
               /\ recs'[Offset(stock, v)].time = b.time
    <3>1. CASE v = venue
      BY <1>2, <1>4, <1>5, <1>7, <2>1, <3>1
    <3>2. CASE v # venue
      <4>1. v \in 1 .. venue-1 /\ v \in Places
        BY <1>3, <3>2
      <4>2. recs[Offset(stock, v)] \in Data
        BY <1>1, <4>1, OffsetRange DEF Typed
      <4>3. recs'[Offset(stock, v)].bid \in Int /\ recs'[Offset(stock, v)].ask \in Int
        BY <1>4, <4>1, <4>2, DataFields DEF Prices
      <4>4. /\ recs'[Offset(stock, v)].bid <= best.bid
            /\ recs'[Offset(stock, v)].ask >= best.ask
            /\ recs'[Offset(stock, v)].time = best.time
        BY <2>3, <4>1 DEF BestOf
      <4> QED
        BY <1>5, <2>1, <4>3, <4>4
    <3> QED
      BY <3>1, <3>2
  <2> QED
    BY <1>2, <1>7, <2>1, <2>5, <2>6, <2>7 DEF BestOf
<1> QED
  BY <1>6, <1>7

(* The NBBO collected in nbbo_pd follows the venues through a round.       *)
LEMMA RoundStep ==
  ASSUME Typed, RoundBest, Next
  PROVE  RoundBest'
<1> USE DEF RoundBest, InRound
<1>1. ASSUME NEW b \in 0 .. MaxSpread, NEW a \in 0 .. MaxSpread, SLockVenue(b, a)
      PROVE  RoundBest'
  <2>1. /\ pd' = Quote(b, a) /\ spc = "lock"
        /\ UNCHANGED <<venue, best, stock, recs, initial, heartbeat>>
    BY <1>1 DEF SLockVenue, placeVars
  <2>2. pd'.time = RoundTime' /\ pd'.bidOf = venue' /\ pd'.askOf = venue'
    BY <1>1, <2>1, QuoteFields DEF RoundTime
  <2> QED
    BY <2>1, <2>2 DEF RoundTime, PlacesPast
<1>2. CASE SSealVenue
  <2>1. venue \in Places /\ venue # 0 /\ NumVenue \in Int /\ Places \subseteq Nat
    BY <1>2, Constants DEF Typed, SSealVenue
  <2>2. venue' = IF venue = NumVenue-1 THEN 0 ELSE venue + 1
    BY <1>2, <2>1, NextVenue DEF SSealVenue
  <2>3. venue' # 1 /\ PlacesPast' = venue
    BY <2>1, <2>2 DEF PlacesPast
  <2>4. spc' = "lock" /\ stock' = stock /\ RoundTime' = RoundTime
    BY <1>2 DEF SSealVenue, RoundTime
  <2>5. BestOf(recs', best', stock', PlacesPast') /\ best'.time = RoundTime'
    BY <1>2, <2>3, <2>4, BestOfNext
  <2> QED
    BY <2>4, <2>5
<1>3. CASE SLockNbbo
  BY <1>3 DEF SLockNbbo, placeVars, marketVars, RoundTime, PlacesPast
<1>4. CASE SSealNbbo
  BY <1>4 DEF SSealNbbo, NewMarket
<1>5. ASSUME NEW d \in -MaxJump .. MaxJump, SStart(d)
      PROVE  RoundBest'
  BY <1>5 DEF SStart, NewMarket
<1>6. CASE SClear
  BY <1>6 DEF SClear
<1>7. CASE SBeat
  BY <1>7 DEF SBeat
<1>8. ASSUME NEW s \in Stocks, NEW d \in -MaxJump .. MaxJump, SRead(s, d)
      PROVE  RoundBest'
  BY <1>8 DEF SRead, NewMarket
<1>9. ASSUME NEW stop \in BOOLEAN, SStop(stop) PROVE RoundBest'
  BY <1>9 DEF SStop
<1>10. CASE SCrash
  BY <1>10 DEF SCrash
<1>11. CASE RBegin \/ RPrint \/ REnd
  <2>1. UNCHANGED <<recs, heartbeat, spc, initial, stock, venue, pd, best>>
    BY <1>11
    DEF RBegin, RPrint, REnd, shared, serverVars, placeVars, marketVars
  <2> QED
    BY <2>1 DEF RoundTime, PlacesPast
<1> QED
  BY <1>1, <1>2, <1>3, <1>4, <1>5, <1>6, <1>7, <1>8, <1>9, <1>10, <1>11
  DEF Next, Serve, Round, Restart, Reader

(* A step that writes at most the market of the round in progress keeps    *)
(* the markets of the other stocks.                                        *)
LEMMA OthersKept ==
  ASSUME Typed, MarketsBest, initial' = initial,
         NEW s \in Stocks, Complete(s),
         \A i \in Places : recs'[Offset(s, i)] = recs[Offset(s, i)]
  PROVE  NbboBest(recs', initial', s)
<1>1. /\ BestOf(recs, recs[Offset(s, 0)], s, NumVenue-1)
      /\ initial => recs[Offset(s, 0)].time = 0
  BY DEF MarketsBest, NbboBest
<1>2. NumVenue-1 \in Nat /\ 1 .. NumVenue-1 \subseteq Places
  BY PriceConstants DEF Places
<1>3. BestOf(recs', recs[Offset(s, 0)], s, NumVenue-1)
  BY <1>1, <1>2, BestOfKept
<1> QED
  BY <1>1, <1>3, Constants DEF NbboBest

LEMMA MarketsStep ==
  ASSUME Typed, RoundBest, MarketsBest, Next
  PROVE  MarketsBest'
<1> SUFFICES ASSUME NEW s \in Stocks, Complete(s)'
             PROVE  NbboBest(recs', initial', s)
  BY DEF MarketsBest
<1>0. stock \in Stocks /\ venue \in Places /\ s \in Nat /\ stock \in Nat
  BY Constants DEF Typed
<1>a. ASSUME recs' = recs, initial' = initial, Complete(s)
      PROVE  NbboBest(recs', initial', s)
  BY <1>a, OthersKept
<1>1. ASSUME NEW b \in 0 .. MaxSpread, NEW a \in 0 .. MaxSpread, SLockVenue(b, a)
      PROVE  NbboBest(recs', initial', s)
  BY <1>1, <1>a DEF SLockVenue, placeVars, Complete, Running, InRound
<1>2. CASE SSealVenue
  <2>1. /\ recs' = [recs EXCEPT ![Offset(stock, venue)] = pd]
        /\ initial' = initial
    BY <1>2 DEF SSealVenue
  <2>2. Complete(s) /\ s # stock
    BY <1>2 DEF SSealVenue, Complete, Running, InRound
  <2>3. \A i \in Places : recs'[Offset(s, i)] = recs[Offset(s, i)]
    BY <1>0, <2>1, <2>2, WriteOne, ZenonT(40)
  <2> QED
    BY <2>1, <2>2, <2>3, OthersKept
<1>3. CASE SLockNbbo
  BY <1>3, <1>a DEF SLockNbbo, placeVars, Complete, Running, InRound
<1>4. CASE SSealNbbo
  <2>1. /\ recs' = [recs EXCEPT ![Offset(stock, 0)] = best]
        /\ initial' = initial /\ spc = "seal" /\ venue = 0
    BY <1>4 DEF SSealNbbo
  <2>2. CASE s = stock
    <3>1. best.time = RoundTime /\ BestOf(recs, best, stock, NumVenue-1)
      BY <2>1 DEF RoundBest, InRound, PlacesPast
    <3>2. recs'[Offset(s, 0)] = best
      BY <1>0, <2>1, <2>2, Constants, WriteOne
    <3>3. NumVenue-1 \in Nat /\ \A i \in 1 .. NumVenue-1 : i \in Places /\ i # 0
      BY PriceConstants DEF Places
    <3>a. \A t \in Stocks, j \in Places : t # stock \/ j # 0 =>
            recs'[Offset(t, j)] = recs[Offset(t, j)]
      BY <2>1, Constants, WriteOne
    <3>4. \A i \in 1 .. NumVenue-1 : recs'[Offset(s, i)] = recs[Offset(s, i)]
      BY <3>3, <3>a
    <3>5. BestOf(recs', best, stock, NumVenue-1)
      BY <2>2, <3>1, <3>3, <3>4, BestOfKept
    <3> QED
      BY <2>1, <2>2, <3>1, <3>2, <3>5 DEF NbboBest, RoundTime
  <2>3. CASE s # stock
    <3>1. initial => s < stock
      <4>1. CASE initial /\ stock + 1 < NumStocks
        BY <1>0, <1>4, <2>1, <2>3, <4>1
        DEF SSealNbbo, NewMarket, Complete, InRound
      <4>2. CASE ~(stock + 1 < NumStocks)
        BY <1>0, <2>3, <4>2, PriceConstants DEF Stocks
      <4> QED
        BY <4>1, <4>2
    <3>2. Complete(s)
      BY <2>1, <2>3, <3>1 DEF Complete, Running, InRound
    <3>3. \A i \in Places : recs'[Offset(s, i)] = recs[Offset(s, i)]
      BY <1>0, <2>1, <2>3, Constants, WriteOne
    <3> QED
      BY <2>1, <3>2, <3>3, OthersKept
  <2> QED
    BY <2>2, <2>3
<1>5. ASSUME NEW d \in -MaxJump .. MaxJump, SStart(d)
      PROVE  NbboBest(recs', initial', s)
  BY <1>0, <1>5 DEF SStart, NewMarket, Complete, InRound
<1>6. CASE SClear
  <2>1. Complete(s) /\ recs' = recs /\ ~initial'
    BY <1>6 DEF SClear, Complete, Running, InRound
  <2> QED
    BY <2>1 DEF MarketsBest, NbboBest
<1>7. CASE SBeat
  BY <1>7, <1>a DEF SBeat, Complete, Running, InRound
<1>8. ASSUME NEW t \in Stocks, NEW d \in -MaxJump .. MaxJump, SRead(t, d)
      PROVE  NbboBest(recs', initial', s)
  BY <1>8, <1>a DEF SRead, shared, Complete, Running, InRound
<1>9. ASSUME NEW stop \in BOOLEAN, SStop(stop)
      PROVE  NbboBest(recs', initial', s)
  BY <1>9, <1>a DEF SStop, shared, Complete, Running, InRound
<1>10. CASE SCrash
  BY <1>10 DEF SCrash, Complete, Running
<1>11. CASE RBegin \/ RPrint \/ REnd
  <2>1. UNCHANGED <<recs, spc, initial, stock>>
    BY <1>11 DEF RBegin, RPrint, REnd, shared, serverVars, placeVars
  <2> QED
    BY <1>a, <2>1 DEF Complete, Running, InRound
<1> QED
  BY <1>1, <1>2, <1>3, <1>4, <1>5, <1>6, <1>7, <1>8, <1>9, <1>10, <1>11
  DEF Next, Serve, Round, Restart, Reader

-----------------------------------------------------------------------------
(* Outside init_snapshot the times of the records only grow.               *)
LEMMA TimesGrow ==
  ASSUME Typed, Phases, RoundBest, TimesOrdered, Next, ~initial,
         NEW s \in Stocks, NEW i \in Places
  PROVE  /\ recs[Offset(s, i)].time \in Nat
         /\ recs'[Offset(s, i)].time \in Nat
         /\ recs[Offset(s, i)].time <= recs'[Offset(s, i)].time
<1> DEFINE Grows == recs[Offset(s, i)].time <= recs'[Offset(s, i)].time
<1>a. /\ stock \in Stocks /\ venue \in Places /\ heartbeat \in Nat
      /\ recs[Offset(s, i)].time \in Nat /\ recs'[Offset(s, i)].time \in Nat
      /\ recs[Offset(s, i)].time <= heartbeat
  <2>1. Typed' /\ Offset(s, i) \in Offsets
    BY TypedStep, OffsetRange
  <2>2. recs[Offset(s, i)] \in Data /\ recs'[Offset(s, i)] \in Data
    BY <2>1 DEF Typed
  <2> QED
    BY <2>2, DataFields DEF Typed, TimesOrdered
<1>1. CASE SSealVenue
  <2>1. recs' = [recs EXCEPT ![Offset(stock, venue)] = pd] /\ pd.time = heartbeat
    BY <1>1 DEF SSealVenue, RoundBest, InRound, RoundTime
  <2>2. /\ recs'[Offset(stock, venue)] = pd
        /\ \A t \in Stocks, j \in Places : t # stock \/ j # venue =>
             recs'[Offset(t, j)] = recs[Offset(t, j)]
    BY <1>a, <2>1, Constants, WriteOne, ZenonT(40)
  <2>3. recs'[Offset(s, i)] = IF s = stock /\ i = venue THEN pd
                              ELSE recs[Offset(s, i)]
    BY <2>2
  <2> QED
    BY <1>a, <2>1, <2>3
<1>2. CASE SSealNbbo
  <2>1. /\ recs' = [recs EXCEPT ![Offset(stock, 0)] = best]
        /\ best.time = heartbeat
    BY <1>2 DEF SSealNbbo, RoundBest, InRound, RoundTime
  <2>2. /\ recs'[Offset(stock, 0)] = best
        /\ \A t \in Stocks, j \in Places : t # stock \/ j # 0 =>
             recs'[Offset(t, j)] = recs[Offset(t, j)]
    BY <1>a, <2>1, Constants, WriteOne
  <2>3. recs'[Offset(s, i)] = IF s = stock /\ i = 0 THEN best
                              ELSE recs[Offset(s, i)]
    BY <2>2
  <2> QED
    BY <1>a, <2>1, <2>3
<1>3. CASE ~SSealVenue /\ ~SSealNbbo
  <2>1. recs' = recs
    BY <1>3
    DEF Next, Serve, Round, Restart, Reader, SLockVenue, SLockNbbo, SStart,
        SClear, SBeat, SRead, SStop, SCrash, RBegin, RPrint, REnd, shared
  <2> QED
    BY <1>a, <2>1
<1> QED
  BY <1>a, <1>1, <1>2, <1>3

(* A round stamps the venues with the heartbeat before the NBBO, and       *)
(* init_snapshot all of them with 0.                                       *)
LEMMA TimesStep ==
  ASSUME Typed, Phases, RoundBest, MarketsBest, TimesOrdered, Next
  PROVE  TimesOrdered'
<1> SUFFICES ASSUME ~initial', NEW s \in Stocks, NEW i \in Places
             PROVE  /\ recs'[Offset(s, i)].time <= heartbeat'
                    /\ recs'[Offset(s, 0)].time <= recs'[Offset(s, i)].time
  BY DEF TimesOrdered
<1>a. /\ stock \in Stocks /\ venue \in Places /\ heartbeat \in Nat
      /\ recs[Offset(s, i)].time \in Nat /\ recs[Offset(s, 0)].time \in Nat
  <2>1. Offset(s, i) \in Offsets /\ Offset(s, 0) \in Offsets
    BY OffsetRange, Constants
  <2>2. recs[Offset(s, i)] \in Data /\ recs[Offset(s, 0)] \in Data
    BY <2>1 DEF Typed
  <2> QED
    BY <2>2, DataFields DEF Typed
<1>b. ~initial => /\ recs[Offset(s, i)].time <= heartbeat
                  /\ recs[Offset(s, 0)].time <= heartbeat
                  /\ recs[Offset(s, 0)].time <= recs[Offset(s, i)].time
  BY Constants DEF TimesOrdered
<1>1. CASE SSealVenue
  <2>1. /\ recs' = [recs EXCEPT ![Offset(stock, venue)] = pd]
        /\ venue # 0 /\ UNCHANGED <<heartbeat, initial>>
    BY <1>1 DEF SSealVenue
  <2>2. pd.time = heartbeat
    BY <1>1, <2>1 DEF SSealVenue, RoundBest, InRound, RoundTime
  <2>3. /\ recs'[Offset(stock, venue)] = pd
        /\ \A t \in Stocks, j \in Places : t # stock \/ j # venue =>
             recs'[Offset(t, j)] = recs[Offset(t, j)]
    BY <1>a, <2>1, Constants, WriteOne
  <2>4. recs'[Offset(s, i)] = IF s = stock /\ i = venue THEN pd
                              ELSE recs[Offset(s, i)]
    BY <2>3
  <2>5. recs'[Offset(s, 0)] = recs[Offset(s, 0)]
    BY <2>1, <2>3, Constants
  <2> QED
    BY <1>a, <1>b, <2>1, <2>2, <2>4, <2>5
<1>2. CASE SSealNbbo
  <2>1. /\ recs' = [recs EXCEPT ![Offset(stock, 0)] = best]
        /\ venue = 0 /\ UNCHANGED <<heartbeat, initial>>
    BY <1>2 DEF SSealNbbo
  <2>2. best.time = heartbeat /\ BestOf(recs, best, stock, NumVenue-1)
    BY <1>2, <2>1 DEF SSealNbbo, RoundBest, InRound, RoundTime, PlacesPast
  <2>3. /\ recs'[Offset(stock, 0)] = best
        /\ \A t \in Stocks, j \in Places : t # stock \/ j # 0 =>
             recs'[Offset(t, j)] = recs[Offset(t, j)]
    BY <2>1, Constants, WriteOne
  <2>4. CASE s # stock
    <3>1. /\ recs'[Offset(s, 0)] = recs[Offset(s, 0)]
          /\ recs'[Offset(s, i)] = recs[Offset(s, i)]
      BY <2>3, <2>4, Constants
    <3> QED
      BY <1>b, <2>1, <3>1
  <2>5. CASE s = stock
    <3>1. CASE i = 0
      BY <1>a, <2>1, <2>2, <2>3, <2>5, <3>1
    <3>2. CASE i # 0
      <4>1. i \in 1 .. NumVenue-1
        BY <3>2, PriceConstants DEF Places
      <4>2. recs'[Offset(s, i)] = recs[Offset(s, i)]
        BY <2>3, <3>2
      <4>3. recs[Offset(s, i)].time = heartbeat
        BY <2>2, <2>5, <4>1 DEF BestOf
      <4> QED
        BY <1>a, <2>1, <2>2, <2>3, <2>5, <4>2, <4>3
    <3> QED
      BY <3>1, <3>2
  <2> QED
    BY <2>4, <2>5
<1>3. CASE SClear
  <2>1. /\ recs' = recs /\ heartbeat' = 0 /\ initial /\ Complete(s)
    BY <1>3 DEF SClear, Phases, Complete, Running, InRound
  <2>2. NbboBest(recs, initial, s)
    BY <2>1 DEF MarketsBest
  <2>3. recs[Offset(s, 0)].time = 0
    BY <2>1, <2>2 DEF NbboBest
  <2>4. recs[Offset(s, i)].time = 0
    <3>1. CASE i = 0
      BY <2>3, <3>1
    <3>2. CASE i # 0
      <4>1. i \in 1 .. NumVenue-1
        BY <3>2, PriceConstants DEF Places
      <4> QED
        BY <2>2, <2>3, <4>1 DEF NbboBest, BestOf
    <3> QED
      BY <3>1, <3>2
  <2> QED
    BY <2>1, <2>3, <2>4
<1>4. CASE SBeat
  BY <1>4, <1>a, <1>b DEF SBeat
<1>5. CASE ~SSealVenue /\ ~SSealNbbo /\ ~SClear /\ ~SBeat
  <2>1. recs' = recs /\ heartbeat' = heartbeat /\ (initial' = initial \/ initial')
    BY <1>5
    DEF Next, Serve, Round, Restart, Reader, SLockVenue, SLockNbbo, SStart,
        SRead, SStop, SCrash, RBegin, RPrint, REnd, shared, serverVars
  <2> QED
    BY <1>b, <2>1
<1> QED
  BY <1>1, <1>2, <1>3, <1>4, <1>5

(* A step of the server does not spoil what has been printed.              *)
LEMMA PrintKept ==
  ASSUME Typed, Phases, RoundBest, TimesOrdered, PrintOrdered, Next,
         UNCHANGED reportVars, calm' => calm
  PROVE  PrintOrdered'
<1> SUFFICES ASSUME calm, rpc \in {"print", "sleep"},
                    NEW s \in Stocks, NEW v \in Places, v \in Venues,
                    rpc = "sleep" \/ Offset(s, 0) < roff
             PROVE  rtime[Offset(s, 0)] <=
                      IF rpc = "sleep" \/ Offset(s, v) < roff
                      THEN rtime[Offset(s, v)] ELSE recs'[Offset(s, v)].time
  BY DEF PrintOrdered, reportVars, Venues, Places
<1>1. rtime[Offset(s, 0)] <= IF rpc = "sleep" \/ Offset(s, v) < roff
                             THEN rtime[Offset(s, v)]
                             ELSE recs[Offset(s, v)].time
  BY DEF PrintOrdered
<1>2. /\ recs[Offset(s, v)].time \in Nat /\ recs'[Offset(s, v)].time \in Nat
      /\ recs[Offset(s, v)].time <= recs'[Offset(s, v)].time
  BY TimesGrow DEF Phases
<1>3. rtime[Offset(s, 0)] \in Nat
  BY OffsetRange, Constants DEF Typed
<1> QED
  BY <1>1, <1>2, <1>3

(* print_snapshot prints the NBBO of a stock before its venues.            *)
LEMMA PrintStep ==
  ASSUME Typed, Phases, RoundBest, TimesOrdered, PrintOrdered, Next
  PROVE  PrintOrdered'
<1>1. CASE RBegin
  <2>1. roff' = 0 /\ rpc' = "print"
    BY <1>1 DEF RBegin
  <2>2. \A s \in Stocks : ~(Offset(s, 0) < 0)
    <3>1. \A s \in Stocks : Offset(s, 0) \in Offsets
      BY OffsetRange, Constants
    <3>2. \A o \in Offsets : ~(o < 0)
      BY DEF Offsets
    <3> QED
      BY <3>1, <3>2
  <2> QED
    BY <2>1, <2>2 DEF PrintOrdered
<1>2. CASE RPrint
  <2>1. /\ rpc = "print" /\ roff \in Offsets /\ recs' = recs /\ calm' = calm
        /\ rtime' = [rtime EXCEPT ![roff] = recs[roff].time]
        /\ roff' = (roff + 1) % (NumStocks * NumVenue)
        /\ rpc' = IF roff + 1 \in Offsets THEN "print" ELSE "sleep"
    BY <1>2 DEF RPrint, Typed, shared
  <2>2. SUFFICES ASSUME calm, NEW s \in Stocks, NEW v \in Places, v \in Venues,
                        rpc' = "sleep" \/ Offset(s, 0) < roff'
                 PROVE  rtime'[Offset(s, 0)] <=
                          IF rpc' = "sleep" \/ Offset(s, v) < roff'
                          THEN rtime'[Offset(s, v)] ELSE recs[Offset(s, v)].time
    BY <2>1 DEF PrintOrdered, Venues, Places
  <2>3. PICK from \in Offsets : from = Offset(s, 0)
    BY OffsetRange, Constants
  <2>4. PICK at \in Offsets : at = Offset(s, v)
    BY OffsetRange
  <2>5. /\ from < at /\ Offsets \subseteq Nat
        /\ roff + 1 \in Offsets => roff' = roff + 1
    BY <2>1, <2>2, <2>3, <2>4, NbboFirst, NextOffset, Constants DEF Venues
  <2>6. \A o \in Offsets : roff + 1 \notin Offsets => o <= roff
    <3>1. NumStocks * NumVenue \in Int
      BY PriceConstants
    <3> QED
      BY <2>1, <3>1 DEF Offsets
  <2>7. /\ from <= roff
        /\ (rpc' = "sleep" \/ at < roff') <=> at <= roff
    <3>1. CASE roff + 1 \in Offsets
      <4>1. rpc' = "print" /\ roff' = roff + 1
        BY <2>1, <2>5, <3>1
      <4> QED
        BY <2>1, <2>2, <2>3, <2>4, <2>5, <4>1
    <3>2. CASE roff + 1 \notin Offsets
      BY <2>1, <2>6, <3>2
    <3> QED
      BY <3>1, <3>2
  <2>8. /\ recs[from].time \in Nat /\ recs[at].time \in Nat
        /\ rtime[from] \in Nat /\ rtime[at] \in Nat
        /\ recs[from].time <= recs[at].time
    <3>1. recs[from] \in Data /\ recs[at] \in Data
      BY DEF Typed
    <3>2. recs[from].time <= recs[at].time
      BY <2>2, <2>3, <2>4 DEF Phases, TimesOrdered
    <3> QED
      BY <3>1, <3>2, DataFields DEF Typed
  <2>9. from < roff =>
          rtime[from] <= IF at < roff THEN rtime[at] ELSE recs[at].time
    BY <2>1, <2>2, <2>3, <2>4 DEF PrintOrdered
  <2>10. /\ rtime'[from] = IF from = roff THEN recs[from].time ELSE rtime[from]
         /\ rtime'[at] = IF at = roff THEN recs[at].time ELSE rtime[at]
    BY <2>1 DEF Typed
  <2>11. rtime'[from] <= IF at <= roff THEN rtime'[at] ELSE recs[at].time
    BY <2>1, <2>5, <2>7, <2>8, <2>9, <2>10
  <2> QED
    BY <2>3, <2>4, <2>7, <2>11
<1>3. CASE REnd
  BY <1>3 DEF REnd, PrintOrdered
<1>4. CASE ~RBegin /\ ~RPrint /\ ~REnd
  <2>1. UNCHANGED reportVars /\ (calm' => calm)
    BY <1>4
    DEF Next, Serve, Round, Restart, Reader, SLockVenue, SSealVenue, SLockNbbo,
        SSealNbbo, SStart, SClear, SBeat, SRead, SStop, SCrash, readerVars
  <2> QED
    BY <2>1, PrintKept
<1> QED
  BY <1>1, <1>2, <1>3, <1>4

-----------------------------------------------------------------------------
LEMMA InitInv ==
  ASSUME Init
  PROVE  IInv
<1>1. Typed
  BY TypedInit
<1>2. /\ spc = "off" /\ ~initial /\ heartbeat = 0 /\ rpc = "idle"
      /\ recs = [o \in Offsets |-> Zero] /\ locked = [o \in Offsets |-> FALSE]
  BY DEF Init
<1>3. \A s \in Stocks, i \in Places :
        ~locked[Offset(s, i)] /\ recs[Offset(s, i)].time = 0
  BY <1>2, OffsetRange DEF Zero, Datum
<1>4. Phases /\ RoundBest /\ MarketsBest /\ PrintOrdered
  BY <1>2
  DEF Phases, RoundBest, InRound, MarketsBest, Complete, Running,
      PrintOrdered
<1>5. LocksExplained
  BY <1>3 DEF LocksExplained
<1>6. TimesOrdered
  <2>1. \A s \in Stocks : recs[Offset(s, 0)].time = 0
    BY <1>3, Constants
  <2> QED
    BY <1>2, <1>3, <2>1 DEF TimesOrdered
<1> QED
  BY <1>1, <1>4, <1>5, <1>6 DEF IInv

LEMMA StepInv ==
  ASSUME IInv, [Next]_vars
  PROVE  IInv'
<1>1. CASE Next
  BY <1>1, TypedStep, PhasesStep, LocksStep, RoundStep, MarketsStep,
     TimesStep, PrintStep
  DEF IInv
<1>2. CASE UNCHANGED vars
  <2>1. UNCHANGED <<recs, locked, heartbeat, spc, initial, stock, venue,
                    midpoint, pd, best, beats>>
    BY <1>2 DEF vars, shared, serverVars, placeVars, marketVars
  <2>2. UNCHANGED <<rpc, roff, rtime, rbegin, report, calm, rbeats>>
    BY <1>2 DEF vars, readerVars, reportVars
  <2>3. Typed' /\ Phases' /\ PrintOrdered'
    BY <2>1, <2>2 DEF IInv, Typed, Phases, PrintOrdered
  <2>4. LocksExplained' /\ TimesOrdered'
    BY <2>1 DEF IInv, LocksExplained, Written, Past, InRound, TimesOrdered
  <2>5. RoundBest' /\ MarketsBest'
    BY <2>1 DEF IInv, RoundBest, InRound, RoundTime, PlacesPast, MarketsBest,
                Complete, Running
  <2> QED
    BY <2>3, <2>4, <2>5 DEF IInv
<1> QED
  BY <1>1, <1>2

LEMMA Inductive == Spec => []IInv
BY InitInv, StepInv, PTL DEF Spec

(* No record stays locked once init_snapshot has returned, whatever was    *)
(* cut short by a kill before: the server does not wait for itself.        *)
THEOREM ServerHealedByRestart == Spec => []HealedByRestart
<1>1. IInv => HealedByRestart
  <2>1. SUFFICES ASSUME Typed, Phases, LocksExplained, Settled,
                        NEW o \in Offsets
                 PROVE  ~locked[o]
    BY DEF IInv, HealedByRestart
  <2>2. PICK s \in Stocks, i \in Places : o = Offset(s, i)
    BY OffsetSplit
  <2> QED
    BY <2>1, <2>2 DEF LocksExplained, Settled, InRound
<1> QED
  BY <1>1, Inductive, PTL

(* After every round, and after init_snapshot, the NBBO of every stock is  *)
(* the best bid and the best offer of its venues, at their time and with   *)
(* the venues that quote them.                                             *)
THEOREM ServerNbboIsBest == Spec => []NbboIsBest
<1>1. IInv => NbboIsBest
  <2> SUFFICES ASSUME Typed, MarketsBest, Settled, NEW s \in Stocks
               PROVE  LET nbbo == recs[Offset(s, 0)]
                          at(v) == recs[Offset(s, v)]
                      IN /\ nbbo.bid = Max({at(v).bid : v \in Venues})
                         /\ nbbo.ask = Min({at(v).ask : v \in Venues})
                         /\ nbbo.bidOf \in Venues /\ at(nbbo.bidOf).bid = nbbo.bid
                         /\ nbbo.askOf \in Venues /\ at(nbbo.askOf).ask = nbbo.ask
                         /\ \A v \in Venues : at(v).time = nbbo.time
    BY DEF IInv, NbboIsBest
  <2> DEFINE nbbo == recs[Offset(s, 0)]
             Bids == {recs[Offset(s, v)].bid : v \in Venues}
             Asks == {recs[Offset(s, v)].ask : v \in Venues}
  <2>1. BestOf(recs, nbbo, s, NumVenue-1)
    BY DEF MarketsBest, Settled, Complete, Running, InRound, NbboBest
  <2>2. \A v \in Venues : recs[Offset(s, v)].bid \in Int /\ recs[Offset(s, v)].ask \in Int
    <3>1. \A v \in Venues : v \in Places
      BY PriceConstants DEF Venues, Places
    <3>2. \A v \in Venues : recs[Offset(s, v)] \in Data
      BY <3>1, OffsetRange DEF Typed
    <3> QED
      BY <3>2, DataFields DEF Prices
  <2>3. Bids \in SUBSET Int /\ Asks \in SUBSET Int
    BY <2>2
  <2>4. /\ nbbo.bid \in Bids /\ \A b \in Bids : b <= nbbo.bid
        /\ nbbo.ask \in Asks /\ \A a \in Asks : nbbo.ask <= a
    BY <2>1, <2>2 DEF BestOf, Venues
  <2>5. nbbo.bid = Max(Bids) /\ nbbo.ask = Min(Asks)
    BY <2>3, <2>4, MaxIs, MinIs
  <2> QED
    BY <2>1, <2>5 DEF BestOf, Venues
<1> QED
  BY <1>1, Inductive, PTL

(* Unless a server is started meanwhile, print_snapshot never shows an     *)
(* NBBO that is newer than the market of a venue.                          *)
THEOREM PrintedNbboNeverAhead == Spec => []NbboNeverAhead
<1>1. IInv => NbboNeverAhead
  BY DEF IInv, PrintOrdered, NbboNeverAhead
<1> QED
  BY <1>1, Inductive, PTL

-----------------------------------------------------------------------------
(* How far a midpoint can have moved is a number, and grows by Most with   *)
(* every round.                                                            *)
LEMMA DriftGrows ==
  ASSUME NEW n \in Nat
  PROVE  /\ Drift(n) \in Nat /\ Most \in Nat
         /\ Drift(n + 1) = Drift(n) + Most
         /\ MaxJump <= Drift(n)
         /\ \A k \in Nat : n <= k => Drift(n) <= Drift(k)
<1>1. Most \in Nat
  BY PriceConstants DEF Most
<1>2. n * Most \in Nat /\ (n + 1) * Most = n * Most + Most
  BY <1>1
<1>3. ASSUME NEW k \in Nat, n <= k PROVE n * Most <= k * Most
  <2>1. PICK j \in Nat : k = n + j
    BY <1>3
  <2>2. j * Most \in Nat /\ (n + j) * Most = n * Most + j * Most
    BY <1>1
  <2> QED
    BY <1>2, <2>1, <2>2
<1>4. \A k \in Nat : k * Most \in Nat
  BY <1>1
<1>5. MaxJump \in Nat
  BY PriceConstants
<1> QED
  BY <1>1, <1>2, <1>3, <1>4, <1>5 DEF Drift

LEMMA RoundsBounded ==
  ASSUME Typed, MidpointAround
  PROVE  Rounds \in Nat /\ Rounds <= MaxBeats
BY PriceConstants DEF Typed, MidpointAround, Rounds

(* The room PricesFit leaves: a midpoint that is reached can be moved by   *)
(* a spread or a jump, and doubled, without a wrap.                        *)
LEMMA NoWrap ==
  ASSUME PricesFit, Typed, MidpointAround, NEW m \in Int, Reached(m)
  PROVE  /\ 0 <= m - MaxSpread /\ 2 * (m + MaxSpread) + 1 < PriceMod
         /\ \A k \in Int : m - MaxSpread <= k /\ k <= m + MaxSpread =>
              k % PriceMod = k
<1>1. /\ Drift(Rounds) \in Nat /\ Drift(MaxBeats) \in Nat
      /\ Drift(Rounds) <= Drift(MaxBeats)
  BY RoundsBounded, DriftGrows, PriceConstants
<1>2. 0 <= m - MaxSpread /\ 2 * (m + MaxSpread) + 1 < PriceMod
  BY <1>1, PriceConstants DEF PricesFit, Reached
<1>3. ASSUME NEW k \in Int, m - MaxSpread <= k, k <= m + MaxSpread
      PROVE  k % PriceMod = k
  <2>1. PriceMod \in Nat \ {0} /\ k \in 0 .. PriceMod-1 /\ PriceMod * 0 + k = k
    BY <1>2, <1>3, PriceConstants
  <2> QED
    BY <2>1, ModUnique
<1> QED
  BY <1>2, <1>3

LEMMA NoWrapReached ==
  ASSUME PricesFit, Typed, MidpointAround, NEW n \in Nat, n <= MaxBeats,
         NEW k \in Int, Start - Drift(n) <= k, k <= Start + Drift(n)
  PROVE  k % PriceMod = k
<1>1. Drift(n) \in Nat /\ Drift(n) <= Drift(MaxBeats) /\ Drift(MaxBeats) \in Nat
  BY DriftGrows, PriceConstants
<1>2. k \in 0 .. PriceMod-1
  BY <1>1, PriceConstants DEF PricesFit
<1>3. PriceMod \in Nat \ {0} /\ PriceMod * 0 + k = k
  BY PriceConstants
<1> QED
  BY <1>2, <1>3, ModUnique

(* The rounded middle of the NBBO is near the midpoint it was drawn        *)
(* around.                                                                 *)
LEMMA MidNear ==
  ASSUME PricesFit, Typed, MidpointAround, NEW s \in Stocks, NEW m \in Int,
         Reached(m), Around(recs[Offset(s, 0)], m)
  PROVE  /\ Mid(s) \in Int
         /\ m - (MaxSpread + 1) \div 2 <= Mid(s)
         /\ Mid(s) <= m + (MaxSpread + 1) \div 2
<1> DEFINE bid == recs[Offset(s, 0)].bid
           ask == recs[Offset(s, 0)].ask
<1>1. bid \in Int /\ ask \in Int /\ MaxSpread \in Nat /\ PriceMod \in Nat \ {0}
  BY MidInt, PriceConstants DEF Prices
<1>2. m - MaxSpread <= bid /\ bid <= m /\ m <= ask /\ ask <= m + MaxSpread
  BY DEF Around
<1>3. Mid(s) = ((bid + ask + 1) % PriceMod) \div 2
  BY DEF Mid
<1> HIDE DEF bid, ask
<1>4. 0 <= m - MaxSpread /\ 2 * (m + MaxSpread) + 1 < PriceMod
  BY NoWrap
<1>5. bid + ask + 1 \in 0 .. PriceMod-1 /\ PriceMod * 0 + (bid + ask + 1) = bid + ask + 1
  BY <1>1, <1>2, <1>4
<1>6. (bid + ask + 1) % PriceMod = bid + ask + 1
  BY <1>1, <1>5, ModUnique
<1>7. Mid(s) = (bid + ask + 1) \div 2
  BY <1>3, <1>6
<1> QED
  BY <1>1, <1>2, <1>7

(* The midpoint of a new market: as far as it moves, without a wrap.       *)
LEMMA MarketNear ==
  ASSUME PricesFit, Typed, MidpointAround,
         NEW s \in Stocks, NEW k \in Int, NEW d \in -MaxJump .. MaxJump,
         NewMarket(s, k, d), NEW n \in Nat, n <= MaxBeats,
         Start - Drift(n) <= k + d, k + d <= Start + Drift(n)
  PROVE  midpoint' = k + d
<1>1. k + d \in Int
  BY PriceConstants
<1> QED
  BY <1>1, NoWrapReached DEF NewMarket

LEMMA StartReached ==
  ASSUME NEW n \in Nat, NEW d \in -MaxJump .. MaxJump
  PROVE  Start - Drift(n) <= Start + d /\ Start + d <= Start + Drift(n)
<1>1. Drift(n) \in Nat /\ MaxJump <= Drift(n) /\ MaxJump \in Nat /\ Start \in Int
  BY DriftGrows, PriceConstants
<1> QED
  BY <1>1

(* What was reached stays reached after more rounds.                       *)
LEMMA ReachedStays ==
  ASSUME NEW n \in Nat, NEW k \in Nat, n <= k, NEW m \in Int,
         Start - Drift(n) <= m, m <= Start + Drift(n)
  PROVE  Start - Drift(k) <= m /\ m <= Start + Drift(k)
<1>1. Drift(n) \in Nat /\ \A j \in Nat : n <= j => Drift(n) <= Drift(j)
  BY DriftGrows
<1>2. Drift(k) \in Nat
  BY DriftGrows
<1>3. Start \in Int
  BY PriceConstants
<1>4. Drift(n) <= Drift(k)
  BY <1>1
<1> QED
  BY <1>1, <1>2, <1>3, <1>4

(* The step of a market of the venue.                                      *)
LEMMA QuoteAround ==
  ASSUME PricesFit, Typed, MidpointAround, Running,
         NEW b \in 0 .. MaxSpread, NEW a \in 0 .. MaxSpread
  PROVE  Around(Quote(b, a), midpoint)
<1>1. midpoint \in Int /\ MaxSpread \in Nat /\ Reached(midpoint)
  BY PriceConstants DEF Typed, Prices, MidpointAround
<1>2. /\ midpoint - b \in Int /\ midpoint + a \in Int
      /\ (midpoint - b) % PriceMod = midpoint - b
      /\ (midpoint + a) % PriceMod = midpoint + a
  BY <1>1, NoWrap
<1>3. Quote(b, a).bid = midpoint - b /\ Quote(b, a).ask = midpoint + a
  BY <1>2, QuoteFields
<1> QED
  BY <1>1, <1>3 DEF Around

LEMMA BestAround ==
  ASSUME Typed, MidpointAround, SSealVenue
  PROVE  Around(best', midpoint)
<1>1. /\ pd \in Data /\ best \in Data /\ venue \in Places /\ midpoint \in Int
      /\ best' = BestWith(pd) /\ Around(pd, midpoint)
      /\ venue # 1 => Around(best, midpoint)
  BY DEF Typed, SSealVenue, MidpointAround, InRound, Prices
<1>2. /\ pd.bid \in Int /\ pd.ask \in Int /\ best.bid \in Int /\ best.ask \in Int
  BY <1>1, DataFields DEF Prices
<1>3. CASE venue = 1
  BY <1>1, <1>3, BestWithFields
<1>4. CASE venue # 1
  <2>1. /\ best'.bid = IF pd.bid > best.bid THEN pd.bid ELSE best.bid
        /\ best'.ask = IF pd.ask < best.ask THEN pd.ask ELSE best.ask
    BY <1>1, <1>4, BestWithFields
  <2> QED
    BY <1>1, <1>2, <1>4, <2>1 DEF Around
<1> QED
  BY <1>3, <1>4

(* The markets complete after a step were so before it, except that whose  *)
(* NBBO has just been written.                                             *)
LEMMA AroundKept ==
  ASSUME Typed, MidpointAround, Rounds' \in Nat, Rounds <= Rounds',
         NEW s \in Stocks, Complete(s),
         recs'[Offset(s, 0)] = recs[Offset(s, 0)]
  PROVE  \E m \in Prices : Reached(m)' /\ Around(recs'[Offset(s, 0)], m)
<1>1. PICK m \in Prices : Reached(m) /\ Around(recs[Offset(s, 0)], m)
  BY DEF MidpointAround
<1>2. Rounds \in Nat /\ m \in Int
  BY RoundsBounded, PriceConstants DEF Prices
<1>3. Reached(m)'
  BY <1>1, <1>2, ReachedStays DEF Reached
<1> QED
  BY <1>1, <1>3

LEMMA AroundStep ==
  ASSUME PricesFit, Typed, Phases, MidpointAround, Next
  PROVE  MidpointAround'
<1> DEFINE Markets == \A s \in Stocks : Complete(s) =>
             \E m \in Prices : Reached(m) /\ Around(recs[Offset(s, 0)], m)
<1>0. /\ stock \in Stocks /\ venue \in Places /\ beats \in Nat
      /\ midpoint \in Prices /\ midpoint \in Int
      /\ beats <= MaxBeats /\ MaxBeats \in Nat
      /\ Rounds \in Nat /\ Rounds <= MaxBeats
      /\ Running => Reached(midpoint)
  BY RoundsBounded, PriceConstants DEF Typed, Prices, MidpointAround
<1>a. ASSUME recs' = recs, Rounds' \in Nat, Rounds <= Rounds',
             \A s \in Stocks : Complete(s)' => Complete(s)
      PROVE  Markets'
  BY <1>a, AroundKept
<1>b. ASSUME NEW m \in Int, Reached(m), Rounds' \in Nat, Rounds <= Rounds'
      PROVE  Reached(m)'
  BY <1>0, <1>b, ReachedStays DEF Reached
<1>1. ASSUME NEW b \in 0 .. MaxSpread, NEW a \in 0 .. MaxSpread, SLockVenue(b, a)
      PROVE  MidpointAround'
  <2>1. /\ pd' = Quote(b, a) /\ spc = "lock" /\ spc' = "seal"
        /\ UNCHANGED <<recs, initial, stock, venue, midpoint, best, beats>>
    BY <1>1 DEF SLockVenue, placeVars
  <2>2. Around(Quote(b, a), midpoint)
    BY <2>1, QuoteAround DEF Running
  <2>3. Rounds' = Rounds
    BY <2>1 DEF Rounds
  <2>4. Markets'
    BY <1>0, <1>a, <2>1, <2>3 DEF Complete, Running, InRound
  <2>5. Reached(midpoint)'
    BY <1>0, <2>1, <2>3 DEF Reached, Running
  <2>6. venue # 1 => Around(best, midpoint)
    BY <2>1 DEF MidpointAround, InRound
  <2> QED
    BY <1>0, <2>1, <2>2, <2>4, <2>5, <2>6
    DEF MidpointAround, Running, InRound, Settled
<1>2. CASE SSealVenue
  <2>1. /\ recs' = [recs EXCEPT ![Offset(stock, venue)] = pd]
        /\ spc = "seal" /\ spc' = "lock" /\ venue # 0
        /\ UNCHANGED <<initial, stock, midpoint, beats>>
    BY <1>2 DEF SSealVenue
  <2>2. Around(best', midpoint)
    BY <1>2, BestAround
  <2>3. Rounds' = Rounds
    BY <2>1 DEF Rounds
  <2>4. Markets'
    <3>1. \A s \in Stocks : recs'[Offset(s, 0)] = recs[Offset(s, 0)]
      <4>1. \A t \in Stocks, j \in Places : t # stock \/ j # venue =>
              recs'[Offset(t, j)] = recs[Offset(t, j)]
        BY <1>0, <2>1, WriteOne
      <4> QED
        BY <2>1, <4>1, Constants
    <3>2. \A s \in Stocks : Complete(s)' => Complete(s)
      BY <2>1 DEF Complete, Running, InRound
    <3>3. Rounds' \in Nat /\ Rounds <= Rounds'
      BY <1>0, <2>3
    <3> QED
      BY <3>1, <3>2, <3>3, AroundKept
  <2>5. Reached(midpoint)'
    BY <1>0, <2>1, <2>3 DEF Reached, Running
  <2> QED
    BY <1>0, <2>1, <2>2, <2>4, <2>5
    DEF MidpointAround, Running, InRound, Settled
<1>3. CASE SLockNbbo
  <2>1. /\ spc = "lock" /\ spc' = "seal" /\ venue = 0
        /\ UNCHANGED <<recs, initial, stock, venue, midpoint, best, beats>>
    BY <1>3 DEF SLockNbbo, placeVars, marketVars
  <2>2. Rounds' = Rounds
    BY <2>1 DEF Rounds
  <2>3. Markets'
    BY <1>0, <1>a, <2>1, <2>2 DEF Complete, Running, InRound
  <2>4. Reached(midpoint)'
    BY <1>0, <2>1, <2>2 DEF Reached, Running
  <2>5. Around(best, midpoint)
    BY <2>1 DEF MidpointAround, InRound
  <2> QED
    BY <1>0, <2>1, <2>3, <2>4, <2>5
    DEF MidpointAround, Running, InRound, Settled
<1>4. CASE SSealNbbo
  <2>1. /\ recs' = [recs EXCEPT ![Offset(stock, 0)] = best]
        /\ spc = "seal" /\ venue = 0 /\ spc' # "read"
        /\ UNCHANGED <<initial, beats>>
    BY <1>4 DEF SSealNbbo, NewMarket
  <2>2. Around(best, midpoint) /\ Reached(midpoint)
    BY <1>0, <2>1 DEF MidpointAround, InRound, Running
  <2>3. Rounds' = Rounds
    BY <2>1 DEF Rounds
  <2>4. /\ recs'[Offset(stock, 0)] = best
        /\ \A t \in Stocks, j \in Places : t # stock \/ j # 0 =>
             recs'[Offset(t, j)] = recs[Offset(t, j)]
    BY <2>1, Constants, WriteOne
  <2>5. ASSUME NEW s \in Stocks, s # stock => Complete(s)
        PROVE  \E m \in Prices : Reached(m)' /\ Around(recs'[Offset(s, 0)], m)
    <3>1. CASE s = stock
      BY <1>0, <2>2, <2>3, <2>4, <3>1 DEF Reached
    <3>2. CASE s # stock
      <4>1. recs'[Offset(s, 0)] = recs[Offset(s, 0)]
        BY <2>4, <3>2, Constants
      <4>2. Rounds' \in Nat /\ Rounds <= Rounds'
        BY <1>0, <2>3
      <4> QED
        BY <2>5, <3>2, <4>1, <4>2, AroundKept
    <3> QED
      BY <3>1, <3>2
  <2>6. CASE initial /\ stock + 1 < NumStocks
    <3>1. PICK d \in -MaxJump .. MaxJump : NewMarket(stock + 1, Start, d)
      BY <1>4, <2>6 DEF SSealNbbo
    <3>2. stock + 1 \in Stocks /\ Start \in Int /\ d \in Int /\ stock \in Int
      BY <1>0, <2>6, NextStock, PriceConstants DEF Stocks
    <3>3. Start - Drift(Rounds) <= Start + d /\ Start + d <= Start + Drift(Rounds)
      BY <1>0, StartReached
    <3>4. midpoint' = Start + d
      BY <1>0, <3>1, <3>2, <3>3, MarketNear
    <3>5. /\ spc' = "lock" /\ venue' = 1 /\ stock' = stock + 1
      BY <3>1 DEF NewMarket
    <3>6. Reached(midpoint)'
      BY <2>3, <3>3, <3>4 DEF Reached
    <3>7. \A s \in Stocks : Complete(s)' /\ s # stock => Complete(s)
      BY <2>1, <2>6, <3>2, <3>5, Constants DEF Complete, Running, InRound
    <3>8. Markets'
      BY <2>5, <3>7
    <3> QED
      BY <1>0, <2>1, <3>5, <3>6, <3>8 DEF MidpointAround, InRound, Settled
  <2>7. CASE ~(initial /\ stock + 1 < NumStocks)
    <3>1. /\ spc' = IF initial THEN "clear" ELSE "stop"
          /\ UNCHANGED <<stock, venue, midpoint>>
      BY <1>4, <2>7 DEF SSealNbbo, placeVars
    <3>2. \A s \in Stocks : s # stock => Complete(s)
      BY <1>0, <2>1, <2>7, PriceConstants
      DEF Complete, Running, InRound, Stocks
    <3>3. Markets'
      BY <2>5, <3>2
    <3>4. Reached(midpoint)'
      BY <2>2, <2>3, <3>1 DEF Reached
    <3>5. Around(recs'[Offset(stock', 0)], midpoint')
      BY <2>2, <2>4, <3>1
    <3> QED
      BY <1>0, <2>1, <3>1, <3>3, <3>4, <3>5 DEF MidpointAround, InRound
  <2> QED
    BY <2>6, <2>7
<1>5. ASSUME NEW d \in -MaxJump .. MaxJump, SStart(d)
      PROVE  MidpointAround'
  <2>1. /\ NewMarket(0, Start, d) /\ beats' = beats /\ initial'
        /\ spc' = "lock" /\ venue' = 1 /\ stock' = 0
        /\ Start \in Int /\ 0 \in Stocks
    BY <1>5, Constants, PriceConstants DEF SStart, NewMarket
  <2>2. Start - Drift(beats) <= Start + d /\ Start + d <= Start + Drift(beats)
    BY <1>0, StartReached
  <2>3. midpoint' = Start + d
    BY <1>0, <2>1, <2>2, MarketNear
  <2>4. Reached(midpoint)'
    BY <2>1, <2>2, <2>3 DEF Reached, Rounds
  <2>5. \A s \in Stocks : ~Complete(s)'
    <3>1. \A s \in Stocks : ~(s < 0)
      BY DEF Stocks
    <3> QED
      BY <2>1, <3>1 DEF Complete, InRound
  <2> QED
    BY <1>0, <2>1, <2>4, <2>5 DEF MidpointAround, InRound, Settled
<1>6. CASE SClear
  <2>1. /\ spc = "clear" /\ spc' = "beat"
        /\ UNCHANGED <<recs, stock, venue, midpoint, beats>>
    BY <1>6 DEF SClear, placeVars
  <2>2. Rounds' = Rounds /\ Reached(midpoint)
    BY <1>0, <2>1 DEF Rounds, Running
  <2>3. Markets'
    BY <1>0, <1>a, <2>1, <2>2 DEF Complete, Running, InRound
  <2>4. Reached(midpoint)' /\ Around(recs'[Offset(stock', 0)], midpoint')
    BY <2>1, <2>2 DEF Reached, MidpointAround, Settled
  <2> QED
    BY <1>0, <2>1, <2>3, <2>4 DEF MidpointAround, InRound
<1>7. CASE SBeat
  <2>1. /\ spc = "beat" /\ spc' = "read" /\ beats' = beats + 1
        /\ beats < MaxBeats
        /\ UNCHANGED <<recs, initial, stock, venue, midpoint>>
    BY <1>7 DEF SBeat, placeVars
  <2>2. Rounds' = Rounds /\ Reached(midpoint)
    BY <1>0, <2>1 DEF Rounds, Running
  <2>3. Markets'
    BY <1>0, <1>a, <2>1, <2>2 DEF Complete, Running, InRound
  <2>4. Reached(midpoint)' /\ Around(recs'[Offset(stock', 0)], midpoint')
    BY <2>1, <2>2 DEF Reached, MidpointAround, Settled
  <2> QED
    BY <1>0, <2>1, <2>3, <2>4 DEF MidpointAround, InRound
<1>8. ASSUME NEW s \in Stocks, NEW d \in -MaxJump .. MaxJump, SRead(s, d)
      PROVE  MidpointAround'
  <2>1. /\ spc = "read" /\ spc' = "lock" /\ venue' = 1 /\ stock' = s
        /\ UNCHANGED <<recs, initial, beats>>
        /\ NewMarket(s, Mid(s), d)
    BY <1>8 DEF SRead, NewMarket, shared
  <2>2. Complete(s)
    BY <2>1 DEF Complete, Running, InRound
  <2>3. PICK m \in Prices : Reached(m) /\ Around(recs[Offset(s, 0)], m)
    BY <2>2 DEF MidpointAround
  <2>4. m \in Int /\ Rounds' = Rounds + 1 /\ Rounds' = beats
    BY <1>0, <2>1, PriceConstants DEF Prices, Rounds
  <2>5. /\ Mid(s) \in Int
        /\ m - (MaxSpread + 1) \div 2 <= Mid(s)
        /\ Mid(s) <= m + (MaxSpread + 1) \div 2
    BY <2>3, <2>4, MidNear
  <2>6. /\ Drift(Rounds) \in Nat /\ Drift(Rounds + 1) = Drift(Rounds) + Most
        /\ Drift(beats) = Drift(Rounds) + Most
    BY <1>0, <2>4, DriftGrows
  <2>7. Start - Drift(beats) <= Mid(s) + d /\ Mid(s) + d <= Start + Drift(beats)
    BY <2>3, <2>4, <2>5, <2>6, PriceConstants DEF Reached, Most
  <2>8. midpoint' = Mid(s) + d
    BY <1>0, <2>1, <2>5, <2>7, MarketNear
  <2>9. Reached(midpoint)'
    BY <2>4, <2>7, <2>8 DEF Reached
  <2>10. Markets'
    BY <1>0, <1>a, <2>1, <2>4 DEF Complete, Running, InRound
  <2> QED
    BY <1>0, <2>1, <2>9, <2>10 DEF MidpointAround, InRound, Settled
<1>9. ASSUME NEW stop \in BOOLEAN, SStop(stop)
      PROVE  MidpointAround'
  <2>1. /\ spc = "stop" /\ spc' \in {"off", "beat"}
        /\ UNCHANGED <<recs, initial, stock, venue, midpoint, beats>>
    BY <1>9 DEF SStop, shared, placeVars
  <2>2. Rounds' = Rounds /\ Reached(midpoint)
    BY <1>0, <2>1 DEF Rounds, Running
  <2>3. Markets'
    BY <1>0, <1>a, <2>1, <2>2 DEF Complete, Running, InRound
  <2>4. Reached(midpoint)' /\ Around(recs'[Offset(stock', 0)], midpoint')
    BY <2>1, <2>2 DEF Reached, MidpointAround, Settled
  <2> QED
    BY <1>0, <2>1, <2>3, <2>4 DEF MidpointAround, InRound
<1>10. CASE SCrash
  BY <1>0, <1>10
  DEF SCrash, MidpointAround, Complete, Running, InRound, Settled
<1>11. CASE RBegin \/ RPrint \/ REnd
  <2>1. UNCHANGED <<recs, spc, initial, stock, venue, midpoint, pd, best, beats>>
    BY <1>11
    DEF RBegin, RPrint, REnd, shared, serverVars, placeVars, marketVars
  <2> QED
    BY <2>1
    DEF MidpointAround, Reached, Rounds, Complete, Running, InRound, Settled
<1> QED
  BY <1>1, <1>2, <1>3, <1>4, <1>5, <1>6, <1>7, <1>8, <1>9, <1>10, <1>11
  DEF Next, Serve, Round, Restart, Reader

LEMMA DriftInductive ==
  ASSUME PricesFit
  PROVE  Spec => [](IInv /\ MidpointAround)
<1>1. Init => IInv /\ MidpointAround
  <2> SUFFICES ASSUME Init PROVE IInv /\ MidpointAround
    OBVIOUS
  <2>1. spc = "off" /\ beats = 0 /\ MaxBeats \in Nat
    BY PriceConstants DEF Init
  <2> QED
    BY <2>1, InitInv
    DEF MidpointAround, Running, InRound, Settled, Complete
<1>2. IInv /\ MidpointAround /\ [Next]_vars => IInv' /\ MidpointAround'
  <2> SUFFICES ASSUME IInv, MidpointAround, [Next]_vars
               PROVE  IInv' /\ MidpointAround'
    OBVIOUS
  <2>1. CASE Next
    BY <2>1, StepInv, AroundStep DEF IInv
  <2>2. CASE UNCHANGED vars
    <3>1. UNCHANGED <<recs, spc, initial, stock, venue, midpoint, pd, best, beats>>
      BY <2>2 DEF vars, shared, serverVars, placeVars, marketVars
    <3>2. MidpointAround'
      BY <3>1
      DEF MidpointAround, Reached, Rounds, Complete, Running, InRound, Settled
    <3> QED
      BY <3>2, StepInv
  <2> QED
    BY <2>1, <2>2
<1> QED
  BY <1>1, <1>2, PTL DEF Spec

(* The midpoint of a stock moves by the jump and half the spread at most   *)
(* from one market of it to the next, as long as there were too few        *)
(* heartbeats for a price to get to an end of its type.                    *)
THEOREM ServerMidpointMovesSlowly ==
  ASSUME PricesFit
  PROVE  Spec => MidpointMovesSlowly
<1>1. ASSUME IInv, MidpointAround, Next
      PROVE  \A s \in Stocks :
               spc = "read" /\ spc' = "lock" /\ stock = s /\ stock' = s =>
                 LET step == midpoint' - midpoint
                     most == MaxJump + (MaxSpread + 1) \div 2
                 IN -most <= step /\ step <= most
  <2> SUFFICES ASSUME NEW s \in Stocks, spc = "read", spc' = "lock",
                      stock = s, stock' = s
               PROVE  -Most <= midpoint' - midpoint /\ midpoint' - midpoint <= Most
    BY DEF Most
  <2>1. PICK t \in Stocks, d \in -MaxJump .. MaxJump : SRead(t, d)
    BY <1>1
    DEF Next, Serve, Round, Restart, Reader, SLockVenue, SSealVenue, SLockNbbo,
        SSealNbbo, SStart, SClear, SBeat, SStop, SCrash, RBegin, RPrint, REnd,
        serverVars
  <2>2. NewMarket(s, Mid(s), d)
    BY <2>1 DEF SRead, NewMarket
  <2>3. /\ Reached(midpoint) /\ Around(recs[Offset(s, 0)], midpoint)
        /\ midpoint \in Int /\ beats \in Nat /\ beats > 0 /\ beats <= MaxBeats
    BY <1>1, PriceConstants
    DEF IInv, Typed, Prices, MidpointAround, Running, Settled
  <2>4. /\ Mid(s) \in Int
        /\ midpoint - (MaxSpread + 1) \div 2 <= Mid(s)
        /\ Mid(s) <= midpoint + (MaxSpread + 1) \div 2
    BY <1>1, <2>3, MidNear DEF IInv
  <2>5. Rounds \in Nat /\ beats = Rounds + 1
    BY <2>3 DEF Rounds
  <2>6. Drift(Rounds) \in Nat /\ Drift(beats) = Drift(Rounds) + Most
    BY <2>5, DriftGrows
  <2>7. /\ Start - Drift(beats) <= Mid(s) + d
        /\ Mid(s) + d <= Start + Drift(beats)
    BY <2>3, <2>4, <2>6, PriceConstants DEF Reached, Most
  <2>8. midpoint' = Mid(s) + d
    BY <1>1, <2>2, <2>3, <2>4, <2>7, MarketNear DEF IInv
  <2> QED
    BY <2>3, <2>4, <2>8, PriceConstants DEF Most
<1>2. IInv /\ MidpointAround /\ [Next]_vars =>
        [\A s \in Stocks :
           spc = "read" /\ spc' = "lock" /\ stock = s /\ stock' = s =>
             LET step == midpoint' - midpoint
                 most == MaxJump + (MaxSpread + 1) \div 2
             IN -most <= step /\ step <= most]_vars
  BY <1>1
<1> QED
  BY <1>2, DriftInductive, PTL DEF Spec, MidpointMovesSlowly

====
