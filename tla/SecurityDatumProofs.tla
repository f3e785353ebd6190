------------------------- MODULE SecurityDatumProofs -------------------------
(***************************************************************************)
(* Proofs about SecurityDatum for every number of stocks, exchanges,       *)
(* heartbeats and restarts, every width of a price, and every draw.        *)
(***************************************************************************)
EXTENDS SecurityDatum, ModLemmas, TLAPS

MarketSteps == {"dirty", "define", "clean"}
QuoteSteps  == {"markNbbo", "markPd", "write", "cleanPd", "nbboBid", "nbboAsk",
                "nbboClean"}
OtherSteps  == {"off", "dead", "beat", "trade", "stop"}

Datum == [front : Int, back : Int, bid : Int, ask : Int]

(* The types, without the range of a price, which the proofs do not need.  *)
Shape ==
  /\ recs \in [Stocks -> [Exchanges -> [Buffers -> Datum]]]
  /\ last \in [Stocks -> [Exchanges -> [bid : Int, ask : Int]]]
  /\ pc \in MarketSteps \cup QuoteSteps \cup OtherSteps
  /\ initial \in BOOLEAN
  /\ stock \in Stocks
  /\ ex \in Exchanges
  /\ mid \in Int
  /\ list \in [Exchanges -> Buffers \cup {Null}]
  /\ nbboPd \in Buffers \cup {Null}
  /\ pd \in Buffers \cup {Null}
  /\ quote \in [bid : Int, ask : Int]
  /\ nbboDirty \in BOOLEAN
  /\ starts \in Nat

(* The buffers of a record are written in turn, also after a crash, and a  *)
(* back guard is never ahead.                                              *)
InTurn(r) ==
  /\ \/ r.second.front = r.first.front
     \/ r.second.front = r.first.front + 2
  /\ \A b \in Buffers : r[b].back <= r[b].front

(* No crash can have left a dirty buffer that init_snapshot still has to   *)
(* reach.                                                                  *)
Calm == ~initial \/ starts <= 1

(* Buffer b has the prices that were marked clean last.                    *)
Holds(s, e, b) == IsClean(recs[s][e][b]) /\ Prices(recs[s][e][b]) = last[s][e]

(* Nobody writes the record: its newer buffer can be trusted.              *)
Settled(s, e) == Holds(s, e, Newer(recs[s][e]))

(* Buffer b is being written: it is the newer one by now, and dirty, and   *)
(* the other one can be trusted.                                           *)
HalfWritten(s, e, b) ==
  /\ b \in Buffers
  /\ Newer(recs[s][e]) = b
  /\ ~IsClean(recs[s][e][b])
  /\ Calm => Holds(s, e, Older(recs[s][e]))

(* The records of the stock that are between their two marks.              *)
Marked(e) ==
  \/ pc = "dirty" /\ e < ex
  \/ pc = "define"
  \/ pc = "clean" /\ (e = 0 \/ (ex # 0 /\ ex <= e))
  \/ pc \in {"write", "cleanPd"} /\ e = ex
  \/ pc \in QuoteSteps \ {"markNbbo"} /\ nbboDirty /\ e = 0

(* The buffer of such a record that is being written.                      *)
Target(e) ==
  IF pc \in MarketSteps THEN list[e] ELSE IF e = 0 THEN nbboPd ELSE pd

(* The records whose newer buffer init_snapshot has seen to.               *)
Seen(s) == s < stock \/ (s = stock /\ pc = "clean")

(* A quote is written to the older buffers.                                *)
QuoteAims ==
  pc \in QuoteSteps =>
    /\ ex # 0
    /\ pd \in Buffers
    /\ nbboPd \in Buffers
    /\ pc \in {"markNbbo", "markPd"} => pd = Older(recs[stock][ex])
    /\ pc = "markNbbo" \/ ~nbboDirty => nbboPd = Older(recs[stock][0])

Phases ==
  /\ initial => pc \in MarketSteps \cup {"dead"}
  /\ pc # "off" => starts > 0

Fine(s, e) ==
  IF s = stock /\ Marked(e) THEN HalfWritten(s, e, Target(e))
  ELSE Calm \/ Seen(s) => Settled(s, e)

Trusted == pc # "dead" => \A s \in Stocks, e \in Exchanges : Fine(s, e)

(* What a crash leaves: of every record one of the two buffers.            *)
Left ==
  pc = "dead" /\ Calm =>
    \A s \in Stocks, e \in Exchanges :
      Settled(s, e) \/ \E b \in Buffers : HalfWritten(s, e, b)

IInv ==
  /\ Shape
  /\ \A s \in Stocks, e \in Exchanges : InTurn(recs[s][e])
  /\ QuoteAims
  /\ Phases
  /\ Trusted
  /\ Left

-----------------------------------------------------------------------------
Records == [Stocks -> [Exchanges -> [Buffers -> Datum]]]
Lasts   == [Stocks -> [Exchanges -> [bid : Int, ask : Int]]]

(* Nothing happens to any record but that of exchange e0 of stock s0.      *)
OnlyAt(s0, e0) ==
  \A s \in Stocks, e \in Exchanges :
    s # s0 \/ e # e0 => recs'[s][e] = recs[s][e] /\ last'[s][e] = last[s][e]

(* Only guards change.                                                     *)
SamePrices ==
  \A s \in Stocks, e \in Exchanges, b \in Buffers :
    Prices(recs'[s][e][b]) = Prices(recs[s][e][b])

(* What CleanStable says of a step.                                        *)
StableStep ==
  \A s \in Stocks, e \in Exchanges, b \in Buffers :
    LET d == recs[s][e][b] IN
    Prices(recs'[s][e][b]) # Prices(d) /\ IsClean(d) =>
      e = 0 /\ b = Older(recs[s][0])

(* The two buffers of a record.                                            *)
LEMMA OlderNewer ==
  ASSUME NEW r \in [Buffers -> Datum]
  PROVE  /\ Older(r) \in Buffers /\ Newer(r) \in Buffers
         /\ Older(r) # Newer(r)
         /\ \A b \in Buffers : b = Older(r) \/ b = Newer(r)
BY DEF Older, Newer, Buffers

(* One buffer of one record becomes d.                                     *)
Put(R, s0, e0, b0, d) == [R EXCEPT ![s0][e0][b0] = d]

LEMMA PutOnly ==
  ASSUME NEW R \in Records, NEW s0 \in Stocks, NEW e0 \in Exchanges,
         NEW b0 \in Buffers, NEW d \in Datum, NEW Q, Q = Put(R, s0, e0, b0, d)
  PROVE  /\ Q \in Records
         /\ \A s \in Stocks, e \in Exchanges : s # s0 \/ e # e0 => Q[s][e] = R[s][e]
         /\ Q[s0][e0][b0] = d
         /\ \A b \in Buffers : b # b0 => Q[s0][e0][b] = R[s0][e0][b]
<1> DEFINE r == [R[s0][e0] EXCEPT ![b0] = d]
           p == [R[s0] EXCEPT ![e0] = r]
<1>1. R[s0] \in [Exchanges -> [Buffers -> Datum]] /\ R[s0][e0] \in [Buffers -> Datum]
  BY DEF Records
<1>2. r \in [Buffers -> Datum] /\ r[b0] = d /\ \A b \in Buffers : b # b0 => r[b] = R[s0][e0][b]
  BY <1>1
<1> HIDE DEF r
<1>3. p \in [Exchanges -> [Buffers -> Datum]] /\ p[e0] = r /\ \A e \in Exchanges : e # e0 => p[e] = R[s0][e]
  BY <1>1, <1>2
<1>4. Q = [R EXCEPT ![s0] = p]
  BY DEF r, Put
<1> HIDE DEF p
<1>5. Q \in Records /\ Q[s0] = p /\ \A s \in Stocks : s # s0 => Q[s] = R[s]
  BY <1>3, <1>4 DEF Records
<1> QED
  BY <1>2, <1>3, <1>5

(* mark_dirty on the older buffer makes it the newer one, and leaves the   *)
(* other one alone.                                                        *)
LEMMA MarkDirtyStep ==
  ASSUME NEW s0 \in Stocks, NEW e0 \in Exchanges, NEW b,
         recs \in Records, last' = last,
         InTurn(recs[s0][e0]), b = Older(recs[s0][e0]), MarkDirty(s0, e0, b)
  PROVE  /\ recs' \in Records
         /\ OnlyAt(s0, e0)
         /\ InTurn(recs'[s0][e0])
         /\ b \in Buffers /\ Newer(recs'[s0][e0]) = b
         /\ ~IsClean(recs'[s0][e0][b])
         /\ Older(recs'[s0][e0]) = Newer(recs[s0][e0])
         /\ recs'[s0][e0][Newer(recs[s0][e0])] = recs[s0][e0][Newer(recs[s0][e0])]
         /\ SamePrices
<1> DEFINE r == recs[s0][e0]
           t == recs'[s0][e0]
           d == [r[b] EXCEPT !.front = @ + 2]
<1>1. r \in [Buffers -> Datum]
  BY DEF Records
<1>2. b \in Buffers /\ Newer(r) \in Buffers /\ b # Newer(r)
  BY <1>1, OlderNewer
<1>3. /\ d \in Datum
      /\ d.front = r[b].front + 2 /\ d.back = r[b].back
      /\ d.bid = r[b].bid /\ d.ask = r[b].ask
  BY <1>1, <1>2 DEF Datum
<1>4. recs' = Put(recs, s0, e0, b, d)
  BY DEF MarkDirty, Put
<1> HIDE DEF d
<1>5. /\ recs' \in Records
      /\ \A s \in Stocks, e \in Exchanges : s # s0 \/ e # e0 => recs'[s][e] = recs[s][e]
      /\ t[b] = d
      /\ \A c \in Buffers : c # b => t[c] = r[c]
  BY <1>2, <1>3, <1>4, PutOnly
<1>6. t \in [Buffers -> Datum]
  BY <1>5 DEF Records
<1>7. /\ Newer(t) = b /\ Older(t) = Newer(r) /\ InTurn(t)
      /\ t[b].back < t[b].front
  <2>1. /\ t[b].front = r[b].front + 2 /\ t[b].back = r[b].back
        /\ \A c \in Buffers : c # b => t[c].front = r[c].front /\ t[c].back = r[c].back
    BY <1>3, <1>5
  <2>2. \A c \in Buffers : r[c].front \in Int /\ r[c].back \in Int
    BY <1>1 DEF Datum
  <2> HIDE DEF r, t
  <2>3. InTurn(r) /\ b = Older(r)
    BY DEF r
  <2> QED
    BY <2>1, <2>2, <2>3, SMTT(30) DEF Older, Newer, Buffers, InTurn
<1>8. t[Newer(r)] = r[Newer(r)]
  BY <1>2, <1>5
<1>9. SamePrices
  <2>1. \A c \in Buffers : Prices(t[c]) = Prices(r[c])
    BY <1>3, <1>5 DEF Prices
  <2> QED
    BY <1>5, <2>1 DEF SamePrices
<1> QED
  BY <1>2, <1>5, <1>6, <1>7, <1>8, <1>9 DEF IsClean, Datum, OnlyAt

(* mark_clean on the newer buffer settles the record.                      *)
LEMMA MarkCleanStep ==
  ASSUME NEW s0 \in Stocks, NEW e0 \in Exchanges, NEW b \in Buffers,
         recs \in Records, last \in Lasts,
         InTurn(recs[s0][e0]), b = Newer(recs[s0][e0]), MarkClean(s0, e0, b)
  PROVE  /\ recs' \in Records /\ last' \in Lasts
         /\ OnlyAt(s0, e0)
         /\ InTurn(recs'[s0][e0])
         /\ Older(recs'[s0][e0]) = Older(recs[s0][e0])
         /\ Settled(s0, e0)'
         /\ SamePrices
<1> DEFINE r == recs[s0][e0]
           t == recs'[s0][e0]
           d == [r[b] EXCEPT !.back = r[b].front]
<1>1. r \in [Buffers -> Datum]
  BY DEF Records
<1>2. /\ d \in Datum
      /\ d.front = r[b].front /\ d.back = r[b].front
      /\ Prices(d) = Prices(r[b]) /\ Prices(d) \in [bid : Int, ask : Int]
  BY <1>1 DEF Datum, Prices
<1>3. recs' = Put(recs, s0, e0, b, d)
  BY DEF MarkClean, Put
<1> HIDE DEF d
<1>4. /\ recs' \in Records
      /\ \A s \in Stocks, e \in Exchanges : s # s0 \/ e # e0 => recs'[s][e] = recs[s][e]
      /\ t[b] = d
      /\ \A c \in Buffers : c # b => t[c] = r[c]
  BY <1>2, <1>3, PutOnly
<1>5. t \in [Buffers -> Datum]
  BY <1>4 DEF Records
<1>6. /\ Newer(t) = b /\ Older(t) = Older(r) /\ InTurn(t)
  <2>1. \A c \in Buffers : t[c].front = r[c].front
    BY <1>2, <1>4
  <2>2. \A c \in Buffers : t[c].back <= t[c].front
    BY <1>1, <1>2, <1>4, <1>5, <2>1 DEF InTurn, Datum
  <2> QED
    BY <1>1, <1>5, <2>1, <2>2 DEF Older, Newer, Buffers, InTurn
<1>7. last' = [last EXCEPT ![s0][e0] = Prices(r[b])]
  BY DEF MarkClean
<1>8. /\ last' \in Lasts /\ last'[s0][e0] = Prices(r[b])
      /\ \A s \in Stocks, e \in Exchanges : s # s0 \/ e # e0 => last'[s][e] = last[s][e]
  <2> DEFINE q == Prices(r[b])
  <2>1. q \in [bid : Int, ask : Int]
    BY <1>2
  <2> HIDE DEF q
  <2> QED
    BY <1>7, <2>1 DEF Lasts, q
<1>9. SamePrices
  <2>1. \A c \in Buffers : Prices(t[c]) = Prices(r[c])
    BY <1>2, <1>4
  <2> QED
    BY <1>4, <2>1 DEF SamePrices
<1> QED
  BY <1>2, <1>4, <1>6, <1>8, <1>9 DEF IsClean, OnlyAt, Settled, Holds

(* New prices in one buffer change no guard.                               *)
PricesAt(s0, e0, b) ==
  /\ recs' \in Records
  /\ \A s \in Stocks, e \in Exchanges : s # s0 \/ e # e0 => recs'[s][e] = recs[s][e]
  /\ \A c \in Buffers : c # b => recs'[s0][e0][c] = recs[s0][e0][c]
  /\ recs'[s0][e0][b].front = recs[s0][e0][b].front
  /\ recs'[s0][e0][b].back = recs[s0][e0][b].back

LEMMA OnePrice ==
  ASSUME NEW s0 \in Stocks, NEW e0 \in Exchanges, NEW b \in Buffers, NEW x \in Int,
         recs \in Records,
         \/ recs' = [recs EXCEPT ![s0][e0][b].bid = x]
         \/ recs' = [recs EXCEPT ![s0][e0][b].ask = x]
  PROVE  PricesAt(s0, e0, b)
<1>1. recs[s0][e0][b] \in Datum
  BY DEF Records
<1>2. PICK d \in Datum :
        /\ recs' = Put(recs, s0, e0, b, d)
        /\ d.front = recs[s0][e0][b].front /\ d.back = recs[s0][e0][b].back
  <2> DEFINE p == [recs[s0][e0][b] EXCEPT !.bid = x]
             q == [recs[s0][e0][b] EXCEPT !.ask = x]
  <2>1. /\ p \in Datum /\ q \in Datum
        /\ p.front = recs[s0][e0][b].front /\ p.back = recs[s0][e0][b].back
        /\ q.front = recs[s0][e0][b].front /\ q.back = recs[s0][e0][b].back
    BY <1>1 DEF Datum
  <2>2. recs' = Put(recs, s0, e0, b, p) \/ recs' = Put(recs, s0, e0, b, q)
    BY DEF Put
  <2> HIDE DEF p, q
  <2> QED
    BY <2>1, <2>2
<1> QED
  BY <1>2, PutOnly DEF PricesAt

LEMMA PutTwice ==
  ASSUME NEW s0 \in Stocks, NEW e0 \in Exchanges, NEW b \in Buffers,
         recs \in Records, NEW Q, NEW p \in Datum, NEW q \in Datum,
         Q = Put(recs, s0, e0, b, p), recs' = Put(Q, s0, e0, b, q),
         q.front = recs[s0][e0][b].front, q.back = recs[s0][e0][b].back
  PROVE  PricesAt(s0, e0, b)
<1>1. /\ Q \in Records
      /\ \A s \in Stocks, e \in Exchanges : s # s0 \/ e # e0 => Q[s][e] = recs[s][e]
      /\ \A c \in Buffers : c # b => Q[s0][e0][c] = recs[s0][e0][c]
  BY PutOnly
<1>2. /\ recs' \in Records
      /\ \A s \in Stocks, e \in Exchanges : s # s0 \/ e # e0 => recs'[s][e] = Q[s][e]
      /\ recs'[s0][e0][b] = q
      /\ \A c \in Buffers : c # b => recs'[s0][e0][c] = Q[s0][e0][c]
  BY <1>1, PutOnly
<1> QED
  BY <1>1, <1>2 DEF PricesAt

LEMMA BothPrices ==
  ASSUME NEW s0 \in Stocks, NEW e0 \in Exchanges, NEW b \in Buffers,
         NEW x \in Int, NEW y \in Int, recs \in Records,
         recs' = [recs EXCEPT ![s0][e0][b].bid = x, ![s0][e0][b].ask = y]
  PROVE  PricesAt(s0, e0, b)
<1> DEFINE p == [recs[s0][e0][b] EXCEPT !.bid = x]
           Q == Put(recs, s0, e0, b, p)
           q == [Q[s0][e0][b] EXCEPT !.ask = y]
<1>1. recs[s0][e0][b] \in Datum
  BY DEF Records
<1>2. p \in Datum /\ p.front = recs[s0][e0][b].front /\ p.back = recs[s0][e0][b].back
  BY <1>1 DEF Datum
<1>3. recs' = Put(Q, s0, e0, b, q)
  BY DEF Put
<1> HIDE DEF p
<1>4. Q[s0][e0][b] = p
  BY <1>2, PutOnly
<1> HIDE DEF Q
<1>5. q \in Datum /\ q.front = p.front /\ q.back = p.back
  BY <1>2, <1>4 DEF Datum
<1> HIDE DEF q
<1> QED
  BY <1>2, <1>3, <1>5, PutTwice DEF Q

LEMMA PriceStep ==
  ASSUME NEW s0 \in Stocks, NEW e0 \in Exchanges, NEW b \in Buffers,
         recs \in Records, last' = last, InTurn(recs[s0][e0]), PricesAt(s0, e0, b)
  PROVE  /\ recs' \in Records
         /\ OnlyAt(s0, e0)
         /\ InTurn(recs'[s0][e0])
         /\ Older(recs'[s0][e0]) = Older(recs[s0][e0])
         /\ Newer(recs'[s0][e0]) = Newer(recs[s0][e0])
         /\ IsClean(recs'[s0][e0][b]) <=> IsClean(recs[s0][e0][b])
         /\ \A c \in Buffers : c # b => recs'[s0][e0][c] = recs[s0][e0][c]
<1> DEFINE r == recs[s0][e0]
           t == recs'[s0][e0]
<1>1. \A c \in Buffers : t[c].front = r[c].front /\ t[c].back = r[c].back
  BY DEF PricesAt
<1>2. Older(t) = Older(r) /\ Newer(t) = Newer(r) /\ InTurn(t)
  BY <1>1 DEF Older, Newer, Buffers, InTurn
<1> QED
  BY <1>1, <1>2 DEF IsClean, OnlyAt, PricesAt

(* The next exchange of a loop, and the reduction of a price.              *)
LEMMA NextEx ==
  ASSUME NEW n \in Exchanges
  PROVE  /\ (n + 1) % NumEx = IF n + 1 = NumEx THEN 0 ELSE n + 1
         /\ (n + 1) % NumEx \in Exchanges
         /\ n + 1 # NumEx => n + 1 \in Exchanges
<1>1. NumEx \in Nat \ {0} /\ NumEx > 1 /\ n \in 0 .. NumEx-1
  BY SecurityConstants DEF Exchanges
<1>2. CASE n + 1 = NumEx
  <2>1. (NumEx * 1 + 0) % NumEx = 0
    BY <1>1, ModUnique
  <2> QED
    BY <1>1, <1>2, <2>1 DEF Exchanges
<1>3. CASE n + 1 # NumEx
  <2>1. n + 1 \in 0 .. NumEx-1
    BY <1>1, <1>3
  <2>2. (NumEx * 0 + (n + 1)) % NumEx = n + 1
    BY <1>1, <2>1, ModUnique
  <2> QED
    BY <1>1, <1>3, <2>1, <2>2 DEF Exchanges
<1> QED
  BY <1>2, <1>3

LEMMA Reduced ==
  ASSUME NEW x \in Int
  PROVE  x % PriceMod \in Int
BY SecurityConstants, DivMod

-----------------------------------------------------------------------------
(* A record nobody touches stays as it is.                                 *)
LEMMA SettledKept ==
  ASSUME NEW s, NEW e, recs'[s][e] = recs[s][e], last'[s][e] = last[s][e]
  PROVE  Settled(s, e) <=> Settled(s, e)'
BY DEF Settled, Holds

(* The same said of a record that is between its marks, or not, before and *)
(* after a step.                                                           *)
LEMMA FineKept ==
  ASSUME NEW s, NEW e, recs'[s][e] = recs[s][e], last'[s][e] = last[s][e],
         Calm' => Calm, Fine(s, e),
         (s = stock /\ Marked(e)) <=> (s = stock' /\ Marked(e)'),
         s = stock /\ Marked(e) => Target(e)' = Target(e),
         ~(s = stock /\ Marked(e)) => (Calm' \/ Seen(s)' => Calm \/ Seen(s))
  PROVE  Fine(s, e)'
<1>1. CASE s = stock /\ Marked(e)
  <2>1. HalfWritten(s, e, Target(e))
    BY <1>1 DEF Fine
  <2>2. HalfWritten(s, e, Target(e))'
    BY <1>1, <2>1 DEF HalfWritten, Holds
  <2> QED
    BY <1>1, <2>2 DEF Fine
<1>2. CASE ~(s = stock /\ Marked(e))
  BY <1>2, SettledKept DEF Fine
<1> QED
  BY <1>1, <1>2

(* InTurn of every record, when it is known of the one that is written.    *)
LEMMA TurnsKept ==
  ASSUME NEW s0, NEW e0, OnlyAt(s0, e0), InTurn(recs'[s0][e0]),
         \A s \in Stocks, e \in Exchanges : InTurn(recs[s][e])
  PROVE  \A s \in Stocks, e \in Exchanges : InTurn(recs'[s][e])
<1> SUFFICES ASSUME NEW s \in Stocks, NEW e \in Exchanges
             PROVE  InTurn(recs'[s][e])
  OBVIOUS
<1>1. CASE s = s0 /\ e = e0
  BY <1>1
<1>2. CASE s # s0 \/ e # e0
  BY <1>2 DEF OnlyAt
<1> QED
  BY <1>1, <1>2

(* A step that only changes guards is stable.                              *)
LEMMA SameStable ==
  ASSUME SamePrices
  PROVE  StableStep
BY DEF SamePrices, StableStep

(* The three things that are done to a record, when nobody writes it and   *)
(* when it is between its marks.                                           *)
LEMMA MarkDirtyHalf ==
  ASSUME NEW s0 \in Stocks, NEW e0 \in Exchanges, NEW b,
         recs \in Records, last' = last,
         InTurn(recs[s0][e0]), b = Older(recs[s0][e0]), MarkDirty(s0, e0, b),
         Calm' => Calm, Calm => Settled(s0, e0)
  PROVE  HalfWritten(s0, e0, b)'
BY MarkDirtyStep DEF HalfWritten, Settled, Holds

LEMMA PriceHalf ==
  ASSUME NEW s0 \in Stocks, NEW e0 \in Exchanges, NEW b \in Buffers,
         recs \in Records, last' = last, InTurn(recs[s0][e0]), PricesAt(s0, e0, b),
         Calm' => Calm, HalfWritten(s0, e0, b)
  PROVE  HalfWritten(s0, e0, b)' /\ StableStep
<1>1. recs[s0][e0] \in [Buffers -> Datum]
  BY DEF Records
<1>2. Older(recs[s0][e0]) \in Buffers /\ Older(recs[s0][e0]) # b
  BY <1>1, OlderNewer DEF HalfWritten
<1>3. HalfWritten(s0, e0, b)'
  BY <1>2, PriceStep DEF HalfWritten, Holds
<1>4. StableStep
  BY DEF StableStep, PricesAt, HalfWritten
<1> QED
  BY <1>3, <1>4

LEMMA PriceOlder ==
  ASSUME NEW s0 \in Stocks, NEW b, 0 \in Exchanges,
         recs \in Records, last' = last, InTurn(recs[s0][0]), PricesAt(s0, 0, b),
         b = Older(recs[s0][0])
  PROVE  /\ Settled(s0, 0) => Settled(s0, 0)'
         /\ StableStep
<1>1. recs[s0][0] \in [Buffers -> Datum]
  BY DEF Records
<1>2. Newer(recs[s0][0]) \in Buffers /\ Newer(recs[s0][0]) # b /\ b \in Buffers
  BY <1>1, OlderNewer
<1>3. Settled(s0, 0) => Settled(s0, 0)'
  BY <1>2, PriceStep DEF Settled, Holds
<1>4. StableStep
  <2> SUFFICES ASSUME NEW s \in Stocks, NEW e \in Exchanges, NEW c \in Buffers,
                      Prices(recs'[s][e][c]) # Prices(recs[s][e][c])
               PROVE  e = 0 /\ c = Older(recs[s][0])
    BY DEF StableStep
  <2>1. s = s0 /\ e = 0
    BY DEF PricesAt
  <2> QED
    BY <2>1 DEF PricesAt
<1> QED
  BY <1>3, <1>4

(* The blank records are settled: no market was marked clean yet.          *)
LEMMA InitInv ==
  ASSUME Init
  PROVE  IInv
<1>1. Blank \in Datum /\ NoPrices \in [bid : Int, ask : Int]
  BY DEF Blank, Datum, NoPrices
<1>2. 0 \in Stocks /\ 0 \in Exchanges /\ 0 \in Nat /\ 0 \in Int
  BY SecurityConstants DEF Stocks, Exchanges
<1>3. Shape
  BY <1>1, <1>2 DEF Init, Shape, OtherSteps
<1>4. \A s \in Stocks, e \in Exchanges, b \in Buffers :
         recs[s][e][b] = Blank /\ last[s][e] = NoPrices
  BY DEF Init
<1>5. \A s \in Stocks, e \in Exchanges : InTurn(recs[s][e])
  BY <1>4 DEF InTurn, Buffers, Blank
<1>6. QuoteAims /\ Phases /\ Left
  BY DEF Init, QuoteAims, Phases, Left, QuoteSteps
<1>7. \A s \in Stocks, e \in Exchanges : Settled(s, e)
  BY <1>4 DEF Settled, Holds, IsClean, Prices, Blank, NoPrices, Newer, Buffers
<1>8. \A e \in Exchanges : ~Marked(e)
  BY DEF Init, Marked, QuoteSteps
<1>9. Trusted
  BY <1>7, <1>8 DEF Trusted, Fine
<1> QED
  BY <1>3, <1>5, <1>6, <1>9 DEF IInv

(* No record is between its marks when nobody writes.                      *)
LEMMA Idle ==
  ASSUME pc \in {"off", "beat", "trade", "stop", "markNbbo"}
  PROVE  \A e \in Exchanges : ~Marked(e)
BY DEF Marked, QuoteSteps

LEMMA AllSettled ==
  ASSUME IInv, pc \in {"off", "beat", "trade", "stop", "markNbbo"}
  PROVE  /\ Calm
         /\ \A s \in Stocks, e \in Exchanges : Settled(s, e)
<1>1. Calm
  BY DEF IInv, Phases, Calm, MarketSteps
<1>2. \A s \in Stocks, e \in Exchanges : Fine(s, e) /\ ~Marked(e)
  BY Idle DEF IInv, Trusted
<1> QED
  BY <1>1, <1>2 DEF Fine

(* Steps that touch no record.                                             *)
LEMMA QuietStep ==
  ASSUME IInv, pc \in {"off", "beat", "trade", "stop", "markNbbo"},
         recs' = recs, last' = last, pc' # "dead",
         \A e \in Exchanges : ~Marked(e)'
  PROVE  /\ \A s \in Stocks, e \in Exchanges : InTurn(recs'[s][e])
         /\ Trusted' /\ Left'
         /\ StableStep
<1>1. \A s \in Stocks, e \in Exchanges : Settled(s, e)'
  BY AllSettled, SettledKept
<1>2. Trusted'
  BY <1>1 DEF Trusted, Fine
<1>3. Left'
  BY DEF Left
<1>4. SamePrices
  BY DEF SamePrices
<1> QED
  BY <1>2, <1>3, <1>4, SameStable DEF IInv

(* The steps of main that write nothing.                                   *)
LEMMA NoTradeInv ==
  ASSUME IInv, NoTrade
  PROVE  IInv' /\ StableStep
<1>1. Shape'
  BY DEF IInv, NoTrade, Shape, OtherSteps, marketVars, tradeVars
<1>2. QuoteAims' /\ Phases'
  BY DEF IInv, NoTrade, QuoteAims, Phases, QuoteSteps, MarketSteps
<1>3. \A e \in Exchanges : ~Marked(e)'
  BY DEF NoTrade, Marked, QuoteSteps
<1>4. pc = "trade" /\ pc' # "dead" /\ recs' = recs /\ last' = last
  BY DEF NoTrade
<1> QED
  BY <1>1, <1>2, <1>3, <1>4, QuietStep DEF IInv

LEMMA BeatInv ==
  ASSUME IInv, Beat
  PROVE  IInv' /\ StableStep
<1>1. Shape'
  BY DEF IInv, Beat, Shape, OtherSteps, marketVars, tradeVars
<1>2. QuoteAims' /\ Phases'
  BY DEF IInv, Beat, QuoteAims, Phases, QuoteSteps, MarketSteps
<1>3. \A e \in Exchanges : ~Marked(e)'
  BY DEF Beat, Marked, QuoteSteps
<1>4. pc = "beat" /\ pc' # "dead" /\ recs' = recs /\ last' = last
  BY DEF Beat
<1> QED
  BY <1>1, <1>2, <1>3, <1>4, QuietStep DEF IInv

LEMMA StopInv ==
  ASSUME IInv, NEW stop \in BOOLEAN, Stop(stop)
  PROVE  IInv' /\ StableStep
<1>1. Shape'
  BY DEF IInv, Stop, Shape, OtherSteps, marketVars, tradeVars
<1>2. QuoteAims' /\ Phases'
  BY DEF IInv, Stop, QuoteAims, Phases, QuoteSteps, MarketSteps
<1>3. \A e \in Exchanges : ~Marked(e)'
  BY DEF Stop, Marked, QuoteSteps
<1>4. pc = "stop" /\ pc' # "dead" /\ recs' = recs /\ last' = last
  BY DEF Stop
<1> QED
  BY <1>1, <1>2, <1>3, <1>4, QuietStep DEF IInv

(* A restart is trusted with nothing; a first start finds all settled.     *)
LEMMA BeginInv ==
  ASSUME IInv, Begin
  PROVE  IInv' /\ StableStep
<1>1. 0 \in Stocks /\ 0 \in Exchanges /\ StartMid \in Int
  BY SecurityConstants DEF Stocks, Exchanges
<1>2. Shape'
  BY <1>1 DEF IInv, Begin, NewMarket, Shape, MarketSteps, tradeVars
<1>3. QuoteAims' /\ Phases'
  BY DEF IInv, Shape, Begin, NewMarket, QuoteAims, Phases, QuoteSteps, MarketSteps
<1>4. \A e \in Exchanges : ~Marked(e)'
  BY DEF Begin, NewMarket, Marked, QuoteSteps, Exchanges
<1>5. \A s \in Stocks : ~Seen(s)'
  BY DEF Begin, NewMarket, Seen, Stocks
<1>6. Calm' => pc = "off"
  BY DEF IInv, Shape, Begin, Calm, Phases
<1>7. \A s \in Stocks, e \in Exchanges : Settled(s, e) <=> Settled(s, e)'
  BY SettledKept DEF Begin
<1>8. Trusted'
  BY <1>4, <1>5, <1>6, <1>7, AllSettled DEF Trusted, Fine
<1>9. Left'
  BY DEF Begin, NewMarket, Left
<1>10. SamePrices
  BY DEF Begin, SamePrices
<1> QED
  BY <1>2, <1>3, <1>8, <1>9, <1>10, SameStable DEF IInv, Begin

(* A crash keeps what was marked, and what was being written.              *)
LEMMA CrashInv ==
  ASSUME IInv, Crash
  PROVE  IInv' /\ StableStep
<1>1. Shape'
  BY DEF IInv, Crash, Shape, OtherSteps, marketVars, tradeVars
<1>2. QuoteAims' /\ Phases'
  BY DEF IInv, Shape, Crash, QuoteAims, Phases, QuoteSteps, MarketSteps
<1>3. Trusted'
  BY DEF Crash, Trusted
<1>4. Left'
  <2> SUFFICES ASSUME Calm', NEW s \in Stocks, NEW e \in Exchanges
               PROVE  Settled(s, e)' \/ \E b \in Buffers : HalfWritten(s, e, b)'
    BY DEF Left
  <2>1. Calm /\ Fine(s, e)
    BY DEF Crash, Calm, IInv, Trusted
  <2>2. CASE Settled(s, e)
    BY <2>2, SettledKept DEF Crash
  <2>3. CASE HalfWritten(s, e, Target(e))
    <3>1. PICK b \in Buffers : HalfWritten(s, e, b)
      BY <2>3 DEF HalfWritten
    <3>2. HalfWritten(s, e, b)'
      BY <2>1, <3>1 DEF Crash, HalfWritten, Holds
    <3> QED
      BY <3>2
  <2> QED
    BY <2>1, <2>2, <2>3 DEF Fine
<1>5. SamePrices
  BY DEF Crash, SamePrices
<1> QED
  BY <1>1, <1>2, <1>3, <1>4, <1>5, SameStable DEF IInv, Crash

LEMMA StutterInv ==
  ASSUME IInv, UNCHANGED vars
  PROVE  IInv' /\ StableStep
<1>1. SamePrices
  BY DEF vars, SamePrices
<1>2. IInv'
  BY DEF vars, marketVars, tradeVars, IInv, Shape, QuoteAims, Phases, Trusted, Left, Fine,
         Marked, Target, Seen, Calm, Settled, HalfWritten, Holds
<1> QED
  BY <1>1, <1>2, SameStable

(* A quote is made of numbers, whatever was drawn.                         *)
LEMMA IntOf ==
  ASSUME NEW x \in Int
  PROVE  AsInt(x) \in Int
BY SecurityConstants, Reduced DEF AsInt

(* A quote is taken on, or a new market begun, when all is settled.        *)
LEMMA TradeInv ==
  ASSUME IInv, NEW s0 \in Stocks, NEW e0 \in Exchanges \ {0},
         NEW draw \in Draws, NEW spread \in Spreads, Trade(s0, e0, draw, spread)
  PROVE  IInv' /\ StableStep
<1> DEFINE venue == recs[s0][e0]
           nbbo  == recs[s0][0]
           old   == venue[Older(venue)]
           q     == [bid |-> AsInt(old.bid + draw - 3), ask |-> AsInt(old.bid + spread)]
<1>1. venue \in [Buffers -> Datum] /\ nbbo \in [Buffers -> Datum]
  <2>1. recs \in [Stocks -> [Exchanges -> [Buffers -> Datum]]]
    BY DEF IInv, Shape
  <2>2. 0 \in Exchanges /\ e0 \in Exchanges
    BY SecurityConstants DEF Exchanges
  <2>3. recs[s0] \in [Exchanges -> [Buffers -> Datum]]
    BY <2>1
  <2> QED
    BY <2>2, <2>3
<1>2. Older(venue) \in Buffers /\ Older(nbbo) \in Buffers
  BY <1>1, OlderNewer
<1>3. q \in [bid : Int, ask : Int]
  <2>1. old.bid \in Int /\ draw \in Int /\ spread \in Int
    BY <1>1, <1>2, SecurityConstants DEF Datum
  <2> QED
    BY <2>1, IntOf
<1>4. MidOf(q) \in Int
  <2>1. AsInt(q.bid + q.ask) \in Int
    BY <1>3, IntOf
  <2>2. (IF AsInt(q.bid + q.ask) < 0 THEN -((-AsInt(q.bid + q.ask)) \div 2)
         ELSE AsInt(q.bid + q.ask) \div 2) \in Int
    BY <2>1
  <2> QED
    BY <2>2, SecurityConstants, Reduced DEF MidOf
<1>5. /\ pc = "trade" /\ recs' = recs /\ last' = last /\ initial' = initial
      /\ starts' = starts /\ heartbeats' = heartbeats /\ list' = list
      /\ \/ NewMarket(s0, MidOf(q)) /\ UNCHANGED tradeVars
         \/ /\ stock' = s0 /\ ex' = e0 /\ nbboPd' = Older(nbbo) /\ pd' = Older(venue)
            /\ quote' = q /\ nbboDirty' = FALSE /\ pc' = "markNbbo" /\ mid' = mid
  BY DEF Trade
<1> HIDE DEF q
<1>6. Shape'
  <2>1. ex' \in Exchanges /\ stock' \in Stocks
    BY <1>5, SecurityConstants DEF NewMarket, Exchanges
  <2>2. CASE NewMarket(s0, MidOf(q)) /\ UNCHANGED tradeVars
    BY <1>4, <1>5, <2>1, <2>2 DEF IInv, Shape, NewMarket, tradeVars, MarketSteps
  <2>3. CASE pc' = "markNbbo"
    BY <1>2, <1>3, <1>5, <2>1, <2>3 DEF IInv, Shape, NewMarket, QuoteSteps
  <2> QED
    BY <1>5, <2>2, <2>3
<1>7. QuoteAims'
  BY <1>2, <1>5 DEF QuoteAims, NewMarket, QuoteSteps
<1>8. Phases'
  BY <1>5 DEF IInv, Phases, NewMarket, MarketSteps
<1>9. \A e \in Exchanges : ~Marked(e)'
  BY <1>5 DEF NewMarket, Marked, QuoteSteps, Exchanges
<1>10. pc' # "dead"
  BY <1>5 DEF NewMarket
<1> QED
  BY <1>5, <1>6, <1>7, <1>8, <1>9, <1>10, QuietStep DEF IInv

-----------------------------------------------------------------------------
(* The three loops of a market.  Marking the older buffer dirty makes it   *)
(* the newer one, and the settled one stays as the older.                  *)
LEMMA DirtyInv ==
  ASSUME IInv, Dirty
  PROVE  IInv' /\ StableStep
<1> PICK b : b = Older(recs[stock][ex])
  OBVIOUS
<1>1. stock \in Stocks /\ ex \in Exchanges /\ recs \in Records /\ InTurn(recs[stock][ex])
  BY DEF IInv, Shape, Records
<1>2. /\ pc = "dirty" /\ MarkDirty(stock, ex, b)
      /\ list' = [list EXCEPT ![ex] = b]
      /\ ex' = (ex + 1) % NumEx
      /\ pc' = (IF ex + 1 = NumEx THEN "define" ELSE "dirty")
      /\ UNCHANGED <<initial, stock, mid, nbboPd, pd, quote, nbboDirty, starts, last>>
  BY DEF Dirty, tradeVars
<1>3. /\ recs' \in Records /\ OnlyAt(stock, ex) /\ InTurn(recs'[stock][ex])
      /\ b \in Buffers /\ Newer(recs'[stock][ex]) = b /\ ~IsClean(recs'[stock][ex][b])
      /\ Older(recs'[stock][ex]) = Newer(recs[stock][ex])
      /\ recs'[stock][ex][Newer(recs[stock][ex])] = recs[stock][ex][Newer(recs[stock][ex])]
      /\ SamePrices
  BY <1>1, <1>2, MarkDirtyStep
<1>4. /\ ex' \in Exchanges
      /\ ex' = IF ex + 1 = NumEx THEN 0 ELSE ex + 1
  BY <1>1, <1>2, NextEx
<1>5. list' \in [Exchanges -> Buffers \cup {Null}] /\ list'[ex] = b
      /\ \A e \in Exchanges : e # ex => list'[e] = list[e]
  BY <1>1, <1>2, <1>3 DEF IInv, Shape
<1>6. Shape'
  BY <1>2, <1>3, <1>4, <1>5 DEF IInv, Shape, MarketSteps, Records
<1>7. QuoteAims' /\ Phases' /\ Left'
  BY <1>2 DEF IInv, QuoteAims, Phases, QuoteSteps, MarketSteps, Left
<1>8. \A s \in Stocks, e \in Exchanges : InTurn(recs'[s][e])
  BY <1>3, TurnsKept DEF IInv
<1>9. \A s \in Stocks, e \in Exchanges : Fine(s, e)'
  <2> SUFFICES ASSUME NEW s \in Stocks, NEW e \in Exchanges
               PROVE  Fine(s, e)'
    OBVIOUS
  <2>1. Fine(s, e) /\ (Calm' <=> Calm)
    BY <1>2 DEF IInv, Trusted, Calm
  <2>2. CASE s = stock /\ e = ex
    <3>1. ~Marked(e) /\ Marked(e)' /\ Target(e)' = b
      BY <1>1, <1>2, <1>4, <1>5, <2>2 DEF Marked, Target, MarketSteps, QuoteSteps, Exchanges
    <3>2. HalfWritten(s, e, b)'
      BY <1>1, <1>2, <2>1, <2>2, <3>1, MarkDirtyHalf DEF Fine
    <3> QED
      BY <1>2, <2>2, <3>1, <3>2 DEF Fine
  <2>3. CASE s # stock \/ e # ex
    <3>1. recs'[s][e] = recs[s][e] /\ last'[s][e] = last[s][e]
      BY <1>3, <2>3 DEF OnlyAt
    <3>2. (s = stock /\ Marked(e)) <=> (s = stock' /\ Marked(e)')
      BY <1>1, <1>2, <1>4, <2>3 DEF Marked, QuoteSteps, Exchanges
    <3>3. s = stock /\ Marked(e) => Target(e)' = Target(e)
      BY <1>2, <1>5, <2>3 DEF Target, MarketSteps
    <3>4. Seen(s)' => Seen(s)
      BY <1>2 DEF Seen
    <3> QED
      BY <2>1, <3>1, <3>2, <3>3, <3>4, FineKept
  <2> QED
    BY <2>2, <2>3
<1> QED
  BY <1>3, <1>6, <1>7, <1>8, <1>9, SameStable DEF IInv, Trusted

LEMMA DefineInv ==
  ASSUME IInv, Define
  PROVE  IInv' /\ StableStep
<1> PICK s0 \in Stocks, e0 \in Exchanges : s0 = stock /\ e0 = ex
  BY DEF IInv, Shape
<1> PICK b : b = list[ex]
  OBVIOUS
<1>1. /\ pc = "define"
      /\ recs' = [recs EXCEPT ![s0][e0][b].bid = Around(ex).bid,
                              ![s0][e0][b].ask = Around(ex).ask]
      /\ IF ex + 1 = NumEx THEN ex' = 1 /\ pc' = "clean"
                           ELSE ex' = ex + 1 /\ pc' = "define"
      /\ UNCHANGED <<initial, stock, mid, list, nbboPd, pd, quote, nbboDirty, starts, last>>
  BY DEF Define, tradeVars
<1>2. Around(ex).bid \in Int /\ Around(ex).ask \in Int
  <2>1. PICK half \in Int :
          Around(ex) = [bid |-> (mid - half - Shift) % PriceMod,
                        ask |-> (mid + half - Shift) % PriceMod]
    BY DEF Around, IInv, Shape, Exchanges
  <2>2. mid - half - Shift \in Int /\ mid + half - Shift \in Int
    BY SecurityConstants DEF IInv, Shape
  <2> QED
    BY <2>1, <2>2, Reduced
<1>3. recs \in Records /\ InTurn(recs[s0][e0]) /\ HalfWritten(s0, e0, b) /\ Calm' = Calm
  BY <1>1 DEF IInv, Shape, Records, Trusted, Fine, Marked, Target, MarketSteps, Calm
<1>4. b \in Buffers
  BY <1>3 DEF HalfWritten
<1>5. PricesAt(s0, e0, b)
  <2> DEFINE x == Around(ex).bid
             y == Around(ex).ask
  <2>1. x \in Int /\ y \in Int
    BY <1>2
  <2>2. recs' = [recs EXCEPT ![s0][e0][b].bid = x, ![s0][e0][b].ask = y]
    BY <1>1
  <2> HIDE DEF x, y
  <2> QED
    BY <1>3, <1>4, <2>1, <2>2, BothPrices
<1>6. recs' \in Records /\ OnlyAt(s0, e0) /\ InTurn(recs'[s0][e0])
  BY <1>1, <1>3, <1>4, <1>5, PriceStep
<1>7. HalfWritten(s0, e0, b)' /\ StableStep
  BY <1>1, <1>3, <1>4, <1>5, PriceHalf
<1>8. ex' \in Exchanges
  BY <1>1, NextEx, SecurityConstants DEF Exchanges
<1>9. Shape'
  BY <1>1, <1>6, <1>8 DEF IInv, Shape, MarketSteps, Records
<1>10. QuoteAims' /\ Phases' /\ Left'
  BY <1>1 DEF IInv, QuoteAims, Phases, QuoteSteps, MarketSteps, Left
<1>11. \A s \in Stocks, e \in Exchanges : InTurn(recs'[s][e])
  BY <1>6, TurnsKept DEF IInv
<1>12. \A e \in Exchanges : Marked(e) /\ Marked(e)' /\ Target(e) = list[e] /\ Target(e)' = list[e]
  BY <1>1 DEF Marked, Target, MarketSteps, Exchanges
<1>13. \A s \in Stocks, e \in Exchanges : Fine(s, e)'
  <2> SUFFICES ASSUME NEW s \in Stocks, NEW e \in Exchanges
               PROVE  Fine(s, e)'
    OBVIOUS
  <2>1. CASE s = s0 /\ e = e0
    BY <1>1, <1>7, <1>12, <2>1 DEF Fine
  <2>2. CASE s # s0 \/ e # e0
    <3>1. recs'[s][e] = recs[s][e] /\ last'[s][e] = last[s][e] /\ Fine(s, e)
      BY <1>1, <1>6, <2>2 DEF OnlyAt, IInv, Trusted
    <3>2. s # stock => (Seen(s)' => Seen(s))
      BY <1>1 DEF Seen
    <3> QED
      BY <1>1, <1>3, <1>12, <3>1, <3>2, FineKept
  <2> QED
    BY <2>1, <2>2
<1> QED
  BY <1>7, <1>9, <1>10, <1>11, <1>13 DEF IInv, Trusted

(* The market is finished with the NBBO: all of the stock is settled, and  *)
(* with the last stock everything is.                                      *)
LEMMA CleanInv ==
  ASSUME IInv, Clean
  PROVE  IInv' /\ StableStep
<1> PICK s0 \in Stocks, e0 \in Exchanges : s0 = stock /\ e0 = ex
  BY DEF IInv, Shape
<1> PICK b : b = list[ex]
  OBVIOUS
<1>1. /\ pc = "clean" /\ MarkClean(s0, e0, b)
      /\ UNCHANGED <<nbboPd, pd, quote, nbboDirty, starts>>
      /\ ex # 0 => ex' = (ex + 1) % NumEx /\ UNCHANGED <<pc, initial, stock, mid, list>>
      /\ ex = 0 => list' = [e \in Exchanges |-> Null]
      /\ ex = 0 /\ initial /\ stock + 1 < NumStocks =>
           NewMarket(stock + 1, StartMid) /\ UNCHANGED initial
      /\ ex = 0 /\ ~(initial /\ stock + 1 < NumStocks) =>
           /\ pc' = IF initial THEN "beat" ELSE "stop"
           /\ initial' = FALSE
           /\ UNCHANGED <<stock, ex, mid>>
  BY DEF Clean, tradeVars
<1>2. recs \in Records /\ last \in Lasts /\ InTurn(recs[s0][e0]) /\ HalfWritten(s0, e0, b)
  <2>1. Marked(ex) /\ Target(ex) = list[ex]
    BY <1>1 DEF Marked, Target, MarketSteps, Exchanges
  <2>2. Fine(s0, e0)
    BY <1>1 DEF IInv, Trusted
  <2> QED
    BY <2>1, <2>2 DEF IInv, Shape, Records, Lasts, Fine
<1>3. b \in Buffers /\ b = Newer(recs[s0][e0])
  BY <1>2 DEF HalfWritten
<1>4. /\ recs' \in Records /\ last' \in Lasts /\ OnlyAt(s0, e0) /\ InTurn(recs'[s0][e0])
      /\ Settled(s0, e0)' /\ SamePrices
  BY <1>1, <1>2, <1>3, MarkCleanStep
<1>5. \A s \in Stocks, e \in Exchanges : InTurn(recs'[s][e])
  BY <1>4, TurnsKept DEF IInv
<1>6. \A s \in Stocks, e \in Exchanges : Fine(s, e)
  BY <1>1 DEF IInv, Trusted
<1>7. CASE ex # 0
  <2>1. ex' \in Exchanges /\ ex' = (IF ex + 1 = NumEx THEN 0 ELSE ex + 1)
    BY <1>1, <1>7, NextEx
  <2>2. Shape'
    BY <1>1, <1>4, <1>7, <2>1 DEF IInv, Shape, Records, Lasts
  <2>3. QuoteAims' /\ Phases' /\ Left'
    BY <1>1, <1>7 DEF IInv, QuoteAims, Phases, QuoteSteps, MarketSteps, Left
  <2>4. \A s \in Stocks, e \in Exchanges : Fine(s, e)'
    <3> SUFFICES ASSUME NEW s \in Stocks, NEW e \in Exchanges
                 PROVE  Fine(s, e)'
      OBVIOUS
    <3>1. CASE s = s0 /\ e = e0
      <4>1. ~Marked(e)'
        BY <1>1, <1>7, <2>1, <3>1 DEF Marked, QuoteSteps, Exchanges
      <4> QED
        BY <1>4, <3>1, <4>1 DEF Fine
    <3>2. CASE s # s0 \/ e # e0
      <4>1. recs'[s][e] = recs[s][e] /\ last'[s][e] = last[s][e] /\ Fine(s, e)
        BY <1>4, <1>6, <3>2 DEF OnlyAt
      <4>2. (s = stock /\ Marked(e)) <=> (s = stock' /\ Marked(e)')
        BY <1>1, <1>7, <2>1, <3>2 DEF Marked, QuoteSteps, Exchanges
      <4>3. Target(e)' = Target(e) /\ (Seen(s)' <=> Seen(s)) /\ (Calm' <=> Calm)
        BY <1>1, <1>7 DEF Target, MarketSteps, Seen, Calm
      <4> QED
        BY <4>1, <4>2, <4>3, FineKept
    <3> QED
      BY <3>1, <3>2
  <2> QED
    BY <1>4, <1>5, <2>2, <2>3, <2>4, SameStable DEF IInv, Trusted
<1>8. CASE ex = 0
  <2>1. \A s \in Stocks, e \in Exchanges : Calm \/ s <= stock => Settled(s, e)'
    <3> SUFFICES ASSUME NEW s \in Stocks, NEW e \in Exchanges, Calm \/ s <= stock
                 PROVE  Settled(s, e)'
      OBVIOUS
    <3>1. CASE s = s0 /\ e = e0
      BY <1>4, <3>1
    <3>2. CASE s # s0 \/ e # e0
      <4>1. ~(s = stock /\ Marked(e))
        BY <1>1, <1>8, <3>2 DEF Marked, QuoteSteps, Exchanges
      <4>2. Calm \/ Seen(s)
        BY <1>1, SecurityConstants DEF Seen, Stocks, IInv, Shape
      <4> QED
        BY <1>4, <1>6, <3>2, <4>1, <4>2, SettledKept DEF Fine, OnlyAt
    <3> QED
      BY <3>1, <3>2
  <2>2. list' \in [Exchanges -> Buffers \cup {Null}] /\ 0 \in Exchanges
    BY <1>1, <1>8
  <2>3. CASE initial /\ stock + 1 < NumStocks
    <3>1. /\ stock' = stock + 1 /\ mid' = StartMid /\ ex' = 0 /\ pc' = "dirty"
          /\ initial' = initial
      BY <1>1, <1>8, <2>3 DEF NewMarket
    <3>2. stock + 1 \in Stocks /\ StartMid \in Int
      BY <2>3, SecurityConstants DEF IInv, Shape, Stocks
    <3>3. Shape'
      BY <1>1, <1>4, <2>2, <3>1, <3>2 DEF IInv, Shape, Records, Lasts, MarketSteps
    <3>4. QuoteAims' /\ Phases' /\ Left'
      BY <1>1, <3>1 DEF IInv, QuoteAims, Phases, QuoteSteps, MarketSteps, Left
    <3>5. \A e \in Exchanges : ~Marked(e)'
      BY <3>1 DEF Marked, QuoteSteps, Exchanges
    <3>6. \A s \in Stocks : Calm' \/ Seen(s)' => Calm \/ s <= stock
      BY <1>1, <3>1 DEF Seen, Calm, Stocks, IInv, Shape
    <3> QED
      BY <1>4, <1>5, <2>1, <3>3, <3>4, <3>5, <3>6, SameStable DEF IInv, Trusted, Fine
  <2>4. CASE ~(initial /\ stock + 1 < NumStocks)
    <3>1. /\ pc' \in {"beat", "stop"} /\ initial' = FALSE
          /\ stock' = stock /\ ex' = ex /\ mid' = mid
      BY <1>1, <1>8, <2>4
    <3>2. Shape'
      BY <1>1, <1>4, <2>2, <3>1 DEF IInv, Shape, Records, Lasts, OtherSteps
    <3>3. QuoteAims' /\ Phases' /\ Left'
      BY <1>1, <3>1 DEF IInv, QuoteAims, Phases, QuoteSteps, MarketSteps, Left
    <3>4. \A e \in Exchanges : ~Marked(e)'
      BY <3>1 DEF Marked, QuoteSteps
    <3>5. \A s \in Stocks : Calm \/ s <= stock
      BY <2>4, SecurityConstants DEF Calm, Stocks, IInv, Shape
    <3> QED
      BY <1>4, <1>5, <2>1, <3>2, <3>3, <3>4, <3>5, SameStable DEF IInv, Trusted, Fine
  <2> QED
    BY <2>3, <2>4
<1> QED
  BY <1>7, <1>8

-----------------------------------------------------------------------------
(* In a quote the server has left init_snapshot, and what it does not      *)
(* write is settled.                                                       *)
LEMMA QuoteState ==
  ASSUME IInv, pc \in QuoteSteps
  PROVE  /\ stock \in Stocks /\ ex \in Exchanges /\ ex # 0 /\ 0 \in Exchanges
         /\ pd \in Buffers /\ nbboPd \in Buffers
         /\ recs \in Records /\ last \in Lasts
         /\ initial = FALSE /\ Calm
         /\ InTurn(recs[stock][ex]) /\ InTurn(recs[stock][0])
         /\ \A s \in Stocks, e \in Exchanges : Fine(s, e)
         /\ Target(0) = nbboPd /\ Target(ex) = pd
<1>1. stock \in Stocks /\ ex \in Exchanges /\ 0 \in Exchanges
  BY SecurityConstants DEF IInv, Shape, Exchanges
<1>2. initial = FALSE
  BY DEF IInv, Shape, Phases, QuoteSteps, MarketSteps
<1> QED
  BY <1>1, <1>2
  DEF IInv, Shape, Records, Lasts, Calm, QuoteAims, Trusted, Target, QuoteSteps, MarketSteps

(* A step of a quote that writes one record of its stock.                  *)
LEMMA QuoteStep ==
  ASSUME IInv, pc \in QuoteSteps, NEW s0 \in Stocks, NEW e0 \in Exchanges, s0 = stock,
         pc' # "dead", stock' = stock, initial' = initial, starts' = starts,
         pc' # "clean", recs' \in Records,
         OnlyAt(s0, e0), InTurn(recs'[s0][e0]), Fine(s0, e0)',
         \A e \in Exchanges : e # e0 => /\ Marked(e) <=> Marked(e)'
                                        /\ Marked(e) => Target(e)' = Target(e)
  PROVE  /\ \A s \in Stocks, e \in Exchanges : InTurn(recs'[s][e])
         /\ Trusted' /\ Left' /\ Phases'
<1>1. \A s \in Stocks, e \in Exchanges : InTurn(recs'[s][e])
  BY TurnsKept DEF IInv
<1>2. Calm' <=> Calm
  BY DEF Calm
<1>3. \A s \in Stocks, e \in Exchanges : Fine(s, e)'
  <2> SUFFICES ASSUME NEW s \in Stocks, NEW e \in Exchanges
               PROVE  Fine(s, e)'
    OBVIOUS
  <2>1. CASE s = s0 /\ e = e0
    BY <2>1
  <2>2. CASE s # s0
    <3>1. recs'[s][e] = recs[s][e] /\ last'[s][e] = last[s][e]
      BY <2>2 DEF OnlyAt
    <3>2. Fine(s, e) /\ Calm
      BY QuoteState
    <3> QED
      BY <1>2, <2>2, <3>1, <3>2, FineKept
  <2>3. CASE s = s0 /\ e # e0
    <3>1. recs'[s][e] = recs[s][e] /\ last'[s][e] = last[s][e]
      BY <2>3 DEF OnlyAt
    <3>2. Fine(s, e) /\ Calm
      BY QuoteState
    <3> QED
      BY <1>2, <2>3, <3>1, <3>2, FineKept
  <2> QED
    BY <2>1, <2>2, <2>3
<1>4. Trusted' /\ Left'
  BY <1>3 DEF Trusted, Left
<1>5. Phases'
  BY QuoteState DEF Phases, IInv, QuoteSteps
<1> QED
  BY <1>1, <1>4, <1>5

(* The steps of a quote.                                                   *)
LEMMA MarkNbboInv ==
  ASSUME IInv, MarkNbbo
  PROVE  IInv' /\ StableStep
<1> PICK s0 \in Stocks, b \in Buffers : s0 = stock /\ b = nbboPd
  BY QuoteState DEF MarkNbbo, QuoteSteps
<1>1. /\ pc = "markNbbo" /\ pc' = "markPd"
      /\ nbboDirty' \in BOOLEAN
      /\ IF nbboDirty' THEN MarkDirty(s0, 0, b) ELSE recs' = recs
      /\ UNCHANGED <<initial, stock, ex, mid, list, nbboPd, pd, quote, starts, last>>
  BY DEF MarkNbbo, marketVars
<1>2. pc \in QuoteSteps
  BY <1>1 DEF QuoteSteps
<1>3. /\ 0 \in Exchanges /\ recs \in Records /\ InTurn(recs[s0][0])
      /\ b = Older(recs[s0][0]) /\ pd = Older(recs[stock][ex]) /\ ex # 0 /\ ex \in Exchanges
      /\ Settled(s0, 0)
  BY <1>1, <1>2, QuoteState, AllSettled DEF IInv, QuoteAims
<1>4. CASE nbboDirty'
  <2>1. /\ recs' \in Records /\ OnlyAt(s0, 0) /\ InTurn(recs'[s0][0]) /\ SamePrices
    BY <1>1, <1>3, <1>4, MarkDirtyStep
  <2>2. HalfWritten(s0, 0, b)'
    BY <1>1, <1>3, <1>4, MarkDirtyHalf DEF Calm
  <2>3. Fine(s0, 0)'
    BY <1>1, <1>4, <2>2 DEF Fine, Marked, Target, QuoteSteps, MarketSteps
  <2>4. \A e \in Exchanges : e # 0 => ~Marked(e) /\ ~Marked(e)'
    BY <1>1 DEF Marked
  <2>5. Shape'
    BY <1>1, <2>1 DEF IInv, Shape, Records, QuoteSteps
  <2>6. QuoteAims'
    <3>1. recs'[stock][ex] = recs[stock][ex]
      BY <1>3, <2>1 DEF OnlyAt
    <3> QED
      BY <1>1, <1>2, <1>3, <1>4, <3>1 DEF IInv, QuoteAims
  <2> QED
    BY <1>1, <1>2, <1>3, <2>1, <2>3, <2>4, <2>5, <2>6, QuoteStep, SameStable DEF IInv
<1>5. CASE ~nbboDirty'
  <2>1. recs' = recs
    BY <1>1, <1>5
  <2>2. Shape'
    BY <1>1, <2>1 DEF IInv, Shape, QuoteSteps
  <2>3. QuoteAims' /\ Phases'
    BY <1>1, <1>2, <1>3, <2>1 DEF IInv, QuoteAims, Phases, MarketSteps, QuoteSteps
  <2>4. \A e \in Exchanges : ~Marked(e)'
    BY <1>1, <1>5 DEF Marked
  <2> QED
    BY <1>1, <2>1, <2>2, <2>3, <2>4, QuietStep DEF IInv
<1> QED
  BY <1>4, <1>5

LEMMA MarkPdInv ==
  ASSUME IInv, MarkPd
  PROVE  IInv' /\ StableStep
<1> PICK s0 \in Stocks, e0 \in Exchanges, b \in Buffers : s0 = stock /\ e0 = ex /\ b = pd
  BY QuoteState DEF MarkPd, QuoteSteps
<1>1. /\ pc = "markPd" /\ pc' = "write" /\ MarkDirty(s0, e0, b)
      /\ UNCHANGED <<initial, stock, ex, mid, list, nbboPd, pd, quote, nbboDirty, starts, last>>
  BY DEF MarkPd, marketVars, tradeVars
<1>2. pc \in QuoteSteps
  BY <1>1 DEF QuoteSteps
<1>3. /\ e0 # 0 /\ recs \in Records /\ InTurn(recs[s0][e0]) /\ b = Older(recs[s0][e0])
      /\ Fine(s0, e0) /\ Calm /\ 0 \in Exchanges
  BY <1>1, <1>2, QuoteState DEF IInv, QuoteAims
<1>4. Settled(s0, e0)
  BY <1>1, <1>3 DEF Fine, Marked
<1>5. recs' \in Records /\ OnlyAt(s0, e0) /\ InTurn(recs'[s0][e0]) /\ SamePrices
  BY <1>1, <1>3, MarkDirtyStep
<1>6. HalfWritten(s0, e0, b)'
  BY <1>1, <1>3, <1>4, MarkDirtyHalf
<1>7. Fine(s0, e0)'
  BY <1>1, <1>3, <1>6 DEF Fine, Marked, Target, MarketSteps
<1>8. \A e \in Exchanges : e # e0 => /\ Marked(e) <=> Marked(e)'
                                     /\ Marked(e) => Target(e)' = Target(e)
  BY <1>1 DEF Marked, Target, QuoteSteps, MarketSteps
<1>9. Shape'
  BY <1>1, <1>5 DEF IInv, Shape, Records, QuoteSteps
<1>10. QuoteAims'
  <2>1. recs'[stock][0] = recs[stock][0]
    BY <1>3, <1>5 DEF OnlyAt
  <2> QED
    BY <1>1, <1>2, <2>1 DEF IInv, QuoteAims
<1> QED
  BY <1>1, <1>2, <1>5, <1>7, <1>8, <1>9, <1>10, QuoteStep, SameStable DEF IInv

LEMMA WriteInv ==
  ASSUME IInv, Write
  PROVE  IInv' /\ StableStep
<1> PICK s0 \in Stocks, e0 \in Exchanges, b \in Buffers : s0 = stock /\ e0 = ex /\ b = pd
  BY QuoteState DEF Write, QuoteSteps
<1> DEFINE x == quote.bid % PriceMod
           y == quote.ask % PriceMod
<1>1. /\ pc = "write" /\ pc' = "cleanPd"
      /\ recs' = [recs EXCEPT ![s0][e0][b].bid = x, ![s0][e0][b].ask = y]
      /\ UNCHANGED <<initial, stock, ex, mid, list, nbboPd, pd, quote, nbboDirty, starts, last>>
  BY DEF Write, marketVars, tradeVars
<1>2. pc \in QuoteSteps
  BY <1>1 DEF QuoteSteps
<1>3. x \in Int /\ y \in Int
  BY Reduced DEF IInv, Shape
<1> HIDE DEF x, y
<1>4. /\ e0 # 0 /\ recs \in Records /\ InTurn(recs[s0][e0])
      /\ Fine(s0, e0) /\ Calm /\ 0 \in Exchanges
  BY <1>1, <1>2, QuoteState
<1>5. HalfWritten(s0, e0, b)
  BY <1>1, <1>4 DEF Fine, Marked, Target, MarketSteps
<1>6. PricesAt(s0, e0, b)
  BY <1>1, <1>3, <1>4, BothPrices
<1>7. recs' \in Records /\ OnlyAt(s0, e0) /\ InTurn(recs'[s0][e0])
  BY <1>1, <1>4, <1>6, PriceStep
<1>8. HalfWritten(s0, e0, b)' /\ StableStep
  BY <1>1, <1>4, <1>5, <1>6, PriceHalf
<1>9. Fine(s0, e0)'
  BY <1>1, <1>4, <1>8 DEF Fine, Marked, Target, MarketSteps
<1>10. \A e \in Exchanges : e # e0 => /\ Marked(e) <=> Marked(e)'
                                      /\ Marked(e) => Target(e)' = Target(e)
  BY <1>1 DEF Marked, Target, QuoteSteps, MarketSteps
<1>11. Shape'
  BY <1>1, <1>7 DEF IInv, Shape, Records, QuoteSteps
<1>12. QuoteAims'
  <2>1. recs'[stock][0] = recs[stock][0]
    BY <1>4, <1>7 DEF OnlyAt
  <2> QED
    BY <1>1, <1>2, <2>1 DEF IInv, QuoteAims
<1> QED
  BY <1>1, <1>2, <1>7, <1>8, <1>9, <1>10, <1>11, <1>12, QuoteStep DEF IInv

LEMMA CleanPdInv ==
  ASSUME IInv, CleanPd
  PROVE  IInv' /\ StableStep
<1> PICK s0 \in Stocks, e0 \in Exchanges, b \in Buffers : s0 = stock /\ e0 = ex /\ b = pd
  BY QuoteState DEF CleanPd, QuoteSteps
<1>1. /\ pc = "cleanPd" /\ pc' = "nbboBid" /\ MarkClean(s0, e0, b)
      /\ UNCHANGED <<initial, stock, ex, mid, list, nbboPd, pd, quote, nbboDirty, starts>>
  BY DEF CleanPd, marketVars, tradeVars
<1>2. pc \in QuoteSteps
  BY <1>1 DEF QuoteSteps
<1>3. /\ e0 # 0 /\ recs \in Records /\ last \in Lasts /\ InTurn(recs[s0][e0])
      /\ Fine(s0, e0) /\ 0 \in Exchanges
  BY <1>1, <1>2, QuoteState
<1>4. b = Newer(recs[s0][e0])
  BY <1>1, <1>3 DEF Fine, Marked, Target, MarketSteps, HalfWritten
<1>5. /\ recs' \in Records /\ last' \in Lasts /\ OnlyAt(s0, e0) /\ InTurn(recs'[s0][e0])
      /\ Settled(s0, e0)' /\ SamePrices
  BY <1>1, <1>3, <1>4, MarkCleanStep
<1>6. Fine(s0, e0)'
  BY <1>1, <1>3, <1>5 DEF Fine, Marked
<1>7. \A e \in Exchanges : e # e0 => /\ Marked(e) <=> Marked(e)'
                                     /\ Marked(e) => Target(e)' = Target(e)
  BY <1>1 DEF Marked, Target, QuoteSteps, MarketSteps
<1>8. Shape'
  BY <1>1, <1>5 DEF IInv, Shape, Records, Lasts, QuoteSteps
<1>9. QuoteAims'
  <2>1. recs'[stock][0] = recs[stock][0]
    BY <1>3, <1>5 DEF OnlyAt
  <2> QED
    BY <1>1, <1>2, <2>1 DEF IInv, QuoteAims
<1> QED
  BY <1>1, <1>2, <1>5, <1>6, <1>7, <1>8, <1>9, QuoteStep, SameStable DEF IInv

(* A price of the NBBO is written, or it is found good enough.  The buffer *)
(* is the newer one when it was marked, and the older one when not.        *)
LEMMA NbboPriceInv ==
  ASSUME IInv, NEW s0 \in Stocks, NEW b \in Buffers, s0 = stock, b = nbboPd,
         pc \in {"nbboBid", "nbboAsk"}, pc' \in {"nbboAsk", "nbboClean"},
         recs' = recs \/ PricesAt(s0, 0, b),
         UNCHANGED <<initial, stock, ex, mid, list, nbboPd, pd, quote, nbboDirty, starts, last>>
  PROVE  IInv' /\ StableStep
<1>1. pc \in QuoteSteps
  BY DEF QuoteSteps
<1>2. /\ recs \in Records /\ last \in Lasts /\ InTurn(recs[s0][0])
      /\ Fine(s0, 0) /\ Calm /\ Calm' /\ 0 \in Exchanges /\ ex # 0 /\ ex \in Exchanges
  BY <1>1, QuoteState DEF Calm
<1>3. /\ nbboDirty => HalfWritten(s0, 0, b)
      /\ ~nbboDirty => Settled(s0, 0) /\ b = Older(recs[s0][0])
  BY <1>1, <1>2 DEF Fine, Marked, Target, QuoteSteps, MarketSteps, IInv, QuoteAims
<1>4. recs' = recs => SamePrices
  BY DEF SamePrices
<1>5. /\ recs' \in Records /\ OnlyAt(s0, 0) /\ InTurn(recs'[s0][0])
      /\ Older(recs'[s0][0]) = Older(recs[s0][0])
  BY <1>2, PriceStep DEF OnlyAt
<1>6. /\ nbboDirty => HalfWritten(s0, 0, b)'
      /\ ~nbboDirty => Settled(s0, 0)'
      /\ StableStep
  <2>1. CASE recs' = recs
    BY <1>2, <1>3, <1>4, <2>1, SameStable DEF HalfWritten, Settled, Holds
  <2>2. CASE PricesAt(s0, 0, b) /\ nbboDirty
    BY <1>2, <1>3, <2>2, PriceHalf
  <2>3. CASE PricesAt(s0, 0, b) /\ ~nbboDirty
    BY <1>2, <1>3, <2>3, PriceOlder
  <2> QED
    BY <2>1, <2>2, <2>3
<1>7. Fine(s0, 0)'
  BY <1>6 DEF Fine, Marked, Target, QuoteSteps, MarketSteps
<1>8. \A e \in Exchanges : e # 0 => ~Marked(e) /\ ~Marked(e)'
  BY DEF Marked
<1>9. Shape'
  BY <1>5 DEF IInv, Shape, Records, QuoteSteps
<1>10. QuoteAims'
  BY <1>1, <1>5 DEF IInv, QuoteAims
<1> QED
  BY <1>1, <1>2, <1>5, <1>6, <1>7, <1>8, <1>9, <1>10, QuoteStep DEF IInv

(* The two tests that lead to such a write, and the last mark.             *)
LEMMA NbboBidInv ==
  ASSUME IInv, NbboBid
  PROVE  IInv' /\ StableStep
<1> PICK s0 \in Stocks, b \in Buffers : s0 = stock /\ b = nbboPd
  BY QuoteState DEF NbboBid, QuoteSteps
<1> PICK x : x = quote.bid % PriceMod
  OBVIOUS
<1>1. /\ pc = "nbboBid" /\ pc' = "nbboAsk"
      /\ recs' = recs \/ recs' = [recs EXCEPT ![s0][0][b].bid = x]
      /\ UNCHANGED <<initial, stock, ex, mid, list, nbboPd, pd, quote, nbboDirty, starts, last>>
  BY DEF NbboBid, marketVars, tradeVars
<1>2. recs \in Records /\ 0 \in Exchanges
  BY <1>1, QuoteState DEF QuoteSteps
<1>3. x \in Int
  BY Reduced DEF IInv, Shape
<1>4. recs' = recs \/ PricesAt(s0, 0, b)
  BY <1>1, <1>2, <1>3, OnePrice
<1> QED
  BY <1>1, <1>4, NbboPriceInv

LEMMA NbboAskInv ==
  ASSUME IInv, NbboAsk
  PROVE  IInv' /\ StableStep
<1> PICK s0 \in Stocks, b \in Buffers : s0 = stock /\ b = nbboPd
  BY QuoteState DEF NbboAsk, QuoteSteps
<1> PICK x : x = quote.ask % PriceMod
  OBVIOUS
<1>1. /\ pc = "nbboAsk" /\ pc' = "nbboClean"
      /\ recs' = recs \/ recs' = [recs EXCEPT ![s0][0][b].ask = x]
      /\ UNCHANGED <<initial, stock, ex, mid, list, nbboPd, pd, quote, nbboDirty, starts, last>>
  BY DEF NbboAsk, marketVars, tradeVars
<1>2. recs \in Records /\ 0 \in Exchanges
  BY <1>1, QuoteState DEF QuoteSteps
<1>3. x \in Int
  BY Reduced DEF IInv, Shape
<1>4. recs' = recs \/ PricesAt(s0, 0, b)
  BY <1>1, <1>2, <1>3, OnePrice
<1> QED
  BY <1>1, <1>4, NbboPriceInv

LEMMA NbboCleanInv ==
  ASSUME IInv, NbboClean
  PROVE  IInv' /\ StableStep
<1> PICK s0 \in Stocks, b \in Buffers : s0 = stock /\ b = nbboPd
  BY QuoteState DEF NbboClean, QuoteSteps
<1>1. /\ pc = "nbboClean" /\ pc' = "stop"
      /\ IF nbboDirty THEN MarkClean(s0, 0, b) ELSE recs' = recs /\ last' = last
      /\ UNCHANGED <<initial, stock, ex, mid, list, nbboPd, pd, quote, nbboDirty, starts>>
  BY DEF NbboClean, marketVars, tradeVars
<1>2. pc \in QuoteSteps
  BY <1>1 DEF QuoteSteps
<1>3. /\ recs \in Records /\ last \in Lasts /\ InTurn(recs[s0][0])
      /\ Fine(s0, 0) /\ Calm /\ 0 \in Exchanges
  BY <1>2, QuoteState
<1>4. /\ nbboDirty => b = Newer(recs[s0][0])
      /\ ~nbboDirty => Settled(s0, 0)
  BY <1>1, <1>3 DEF Fine, Marked, Target, QuoteSteps, MarketSteps, HalfWritten
<1>5. /\ recs' \in Records /\ last' \in Lasts /\ OnlyAt(s0, 0) /\ InTurn(recs'[s0][0])
      /\ Settled(s0, 0)' /\ SamePrices
  <2>1. CASE nbboDirty
    BY <1>1, <1>3, <1>4, <2>1, MarkCleanStep
  <2>2. CASE ~nbboDirty
    BY <1>1, <1>3, <1>4, <2>2, SettledKept DEF OnlyAt, SamePrices
  <2> QED
    BY <2>1, <2>2
<1>6. \A e \in Exchanges : ~Marked(e)' /\ (e # 0 => ~Marked(e))
  BY <1>1 DEF Marked, QuoteSteps
<1>7. Fine(s0, 0)'
  BY <1>3, <1>5, <1>6 DEF Fine
<1>8. Shape'
  BY <1>1, <1>5 DEF IInv, Shape, Records, Lasts, OtherSteps
<1>9. QuoteAims'
  BY <1>1 DEF QuoteAims, QuoteSteps
<1> QED
  BY <1>1, <1>2, <1>3, <1>5, <1>6, <1>7, <1>8, <1>9, QuoteStep, SameStable DEF IInv

-----------------------------------------------------------------------------
(* Every step.                                                             *)
LEMMA StepInv ==
  ASSUME IInv, [Next]_vars
  PROVE  IInv' /\ StableStep
<1>1. CASE Market
  BY <1>1, DirtyInv, DefineInv, CleanInv DEF Market
<1>2. CASE Quote
  BY <1>2, MarkNbboInv, MarkPdInv, WriteInv, CleanPdInv, NbboBidInv, NbboAskInv, NbboCleanInv
  DEF Quote
<1>3. CASE Begin \/ Beat \/ NoTrade \/ Crash
  BY <1>3, BeginInv, BeatInv, NoTradeInv, CrashInv
<1>4. CASE \E s \in Stocks, e \in Exchanges \ {0}, d \in Draws, p \in Spreads :
             Trade(s, e, d, p)
  BY <1>4, TradeInv
<1>5. CASE \E stop \in BOOLEAN : Stop(stop)
  BY <1>5, StopInv
<1>6. CASE UNCHANGED vars
  BY <1>6, StutterInv
<1> QED
  BY <1>1, <1>2, <1>3, <1>4, <1>5, <1>6 DEF Next

(* Of every record the server is between the two marks of at most the      *)
(* newer buffer, and what it is not between the marks of is settled: the   *)
(* inductive invariant of the server, of its crashes and of its restarts.  *)
THEOREM Invariance == Spec => []IInv
<1>1. Init => IInv
  BY InitInv
<1>2. IInv /\ [Next]_vars => IInv'
  BY StepInv
<1> QED
  BY <1>1, <1>2, PTL DEF Spec

(* Readers always find the last complete market of a stock in one of its   *)
(* two buffers, also when the server was killed in the middle of a write.  *)
THEOREM MarketKept == Spec => []LastMarketKept
<1>1. IInv => LastMarketKept
  <2> SUFFICES ASSUME IInv, Calm, NEW s \in Stocks, NEW e \in Exchanges
               PROVE  LET r == recs[s][e]
                          b == IF IsClean(r[Newer(r)]) THEN Newer(r) ELSE Older(r)
                      IN IsClean(r[b]) /\ Prices(r[b]) = last[s][e]
    BY DEF LastMarketKept, Calm, IInv, Shape
  <2>1. Settled(s, e) \/ \E b \in Buffers : HalfWritten(s, e, b)
    <3>1. CASE pc = "dead"
      BY <3>1 DEF IInv, Left
    <3>2. CASE pc # "dead"
      BY <3>2 DEF IInv, Trusted, Fine, HalfWritten
    <3> QED
      BY <3>1, <3>2
  <2> QED
    BY <2>1 DEF Settled, HalfWritten, Holds
<1> QED
  BY <1>1, Invariance, PTL

(* Prices change only in a dirty buffer, but for the older one of the      *)
(* NBBO, whatever the server draws and wherever it was killed.             *)
THEOREM Stable == Spec => CleanStable
<1>1. IInv /\ [Next]_vars => [StableStep]_vars
  BY StepInv
<1>2. Spec => [][StableStep]_vars
  BY <1>1, Invariance, PTL DEF Spec
<1> QED
  BY <1>2 DEF CleanStable, StableStep

-----------------------------------------------------------------------------
(* The prices.  A heartbeat moves them by a few ticks, so that they stay   *)
(* in between two bounds that part with the heartbeats.  A market that was *)
(* begun from a blank buffer is below zero, and so its bids are at the     *)
(* upper end of their type.                                                *)
Fall == NumEx + Shift + 3
Lowest(n)  == StartMid - Shift - NumEx - Fall * n
Highest(n) == StartMid + Shift * n

(* The draws are those of the code, and the heartbeats are too few for the *)
(* prices to reach either end of their type, nor two of them that of int.  *)
WalkFits ==
  /\ 9 <= Shift
  /\ Spreads \subseteq 1 .. Shift
  /\ Shift < Lowest(MaxBeats)
  /\ 4 * Highest(MaxBeats) + 1 < PriceMod

Near(bid, n) == Lowest(n) <= bid /\ bid <= Highest(n)
Under(bid)   == PriceMod - NumEx - Shift <= bid /\ bid <= PriceMod - 4

(* What a buffer may hold after n heartbeats.                              *)
Sound(d, n) ==
  /\ d.bid \in Price /\ d.ask \in Price /\ d.front \in Nat /\ d.back \in Nat
  /\ (d.bid = 0 /\ d.ask = 0) \/ Near(d.bid, n) \/ Under(d.bid)

AllSound(R, n) ==
  \A s \in Stocks, e \in Exchanges, b \in Buffers : Sound(R[s][e][b], n)

Quoted(d) == d.bid # 0 \/ d.ask # 0

(* The number of heartbeats whose trade is over or under way.              *)
Traded == IF pc = "trade" THEN heartbeats - 1 ELSE heartbeats

(* The midpoint of a market about to be defined, near the prices or below  *)
(* all that is left of them by the shift.                                  *)
MidSound(m, n) ==
  \/ Lowest(n) + NumEx + Shift <= m /\ m <= Highest(n)
  \/ 1 <= m /\ m <= Shift - 3

HalfPrice == 0 .. PriceMod \div 2

WalkTyped ==
  /\ heartbeats \in 0 .. MaxBeats
  /\ pc = "trade" => heartbeats > 0
  /\ starts \in 0 .. MaxStarts
  /\ mid \in Price
  /\ quote.bid \in HalfPrice /\ quote.ask \in HalfPrice
  /\ last \in [Stocks -> [Exchanges -> Quotes]]

QuoteSound ==
  pc \in QuoteSteps =>
    /\ Near(quote.bid, heartbeats)
    /\ Quoted(recs[stock][0][nbboPd])
    /\ pc \in {"markNbbo", "markPd"} => Quoted(recs[stock][ex][pd])

WInv ==
  /\ WalkTyped
  /\ AllSound(recs, Traded)
  /\ pc \in {"dirty", "define"} => MidSound(mid, heartbeats)
  /\ QuoteSound

-----------------------------------------------------------------------------
(* What the bounds are worth as long as the heartbeats last.               *)
LEMMA WalkRange ==
  ASSUME WalkFits, NEW n \in 0 .. MaxBeats
  PROVE  /\ Lowest(n) \in Int /\ Highest(n) \in Int
         /\ Shift < Lowest(n) /\ Lowest(n) <= StartMid - Shift - NumEx
         /\ StartMid <= Highest(n) /\ 4 * Highest(n) + 1 < PriceMod
         /\ 2 * Highest(n) + 1 < PriceMod
<1> DEFINE fn == Fall * n
           fm == Fall * MaxBeats
           sn == Shift * n
           sm == Shift * MaxBeats
<1>1. /\ Fall \in Nat \ {0} /\ Shift \in Nat \ {0}
      /\ n \in Nat /\ MaxBeats \in Nat /\ n <= MaxBeats
      /\ StartMid \in Nat /\ PriceMod \in Int /\ NumEx \in Int
  BY SecurityConstants DEF WalkFits, Fall
<1>2. fn \in Nat /\ fm \in Nat /\ sn \in Nat /\ sm \in Nat
  BY <1>1
<1>3. fn <= fm /\ sn <= sm
  <2>1. CASE n = MaxBeats
    BY <1>2, <2>1
  <2>2. CASE n < MaxBeats
    <3>1. fn + Fall <= fm /\ sn + Shift <= sm
      BY <1>1, <2>2, MulStep
    <3> QED
      BY <1>1, <1>2, <3>1
  <2> QED
    BY <1>1, <2>1, <2>2
<1>4. Shift < StartMid - Shift - NumEx - fm /\ 4 * (StartMid + sm) + 1 < PriceMod
  BY DEF WalkFits, Lowest, Highest
<1>5. Lowest(n) = StartMid - Shift - NumEx - fn /\ Highest(n) = StartMid + sn
  BY DEF Lowest, Highest
<1> HIDE DEF fn, fm, sn, sm
<1> QED
  BY <1>1, <1>2, <1>3, <1>4, <1>5

(* A heartbeat parts the bounds.                                           *)
LEMMA WalkStep ==
  ASSUME WalkFits, NEW n \in Nat
  PROVE  /\ Lowest(n + 1) = Lowest(n) - Fall
         /\ Highest(n + 1) = Highest(n) + Shift
<1>1. Fall \in Nat /\ Shift \in Nat /\ NumEx \in Nat /\ StartMid \in Nat
  BY SecurityConstants DEF Fall
<1>2. Fall * (n + 1) = Fall * n + Fall /\ Shift * (n + 1) = Shift * n + Shift
  BY <1>1
<1>3. Fall * n \in Int /\ Shift * n \in Int
  BY <1>1
<1> QED
  BY <1>1, <1>2, <1>3 DEF Lowest, Highest

(* The constants of a walk, ready to cite.                                 *)
LEMMA WalkConstants ==
  ASSUME WalkFits
  PROVE  /\ NumEx \in Nat /\ NumEx >= 2
         /\ Shift \in Nat /\ 9 <= Shift
         /\ StartMid \in Nat /\ 2 * Shift + NumEx < StartMid
         /\ PriceMod \in Nat /\ 2 * StartMid + 1 < PriceMod
         /\ \A d \in Draws : d \in 0 .. 6
         /\ \A p \in Spreads : p \in 1 .. Shift
         /\ MaxBeats \in Nat
         /\ 0 \in Stocks /\ 0 \in Exchanges
<1>1. 0 \in 0 .. MaxBeats
  BY SecurityConstants
<1>2. Lowest(0) \in Int /\ Shift < Lowest(0) /\ Lowest(0) <= StartMid - Shift - NumEx
      /\ Highest(0) \in Int /\ StartMid <= Highest(0) /\ 2 * Highest(0) + 1 < PriceMod
  BY <1>1, WalkRange
<1>3. /\ NumEx \in Nat /\ NumEx >= 2 /\ Shift \in Nat /\ 9 <= Shift
      /\ StartMid \in Nat /\ PriceMod \in Nat /\ MaxBeats \in Nat
      /\ \A d \in Draws : d \in 0 .. 6
      /\ \A p \in Spreads : p \in 1 .. Shift
      /\ 0 \in Stocks /\ 0 \in Exchanges
  BY SecurityConstants DEF WalkFits, Stocks, Exchanges
<1> QED
  BY <1>2, <1>3

(* Remainders of numbers that are in range, or just below it.              *)
LEMMA Unreduced ==
  ASSUME NEW x \in Price
  PROVE  x % PriceMod = x
<1>1. PriceMod \in Nat \ {0} /\ x \in 0 .. PriceMod-1
  BY SecurityConstants DEF Price
<1>2. (PriceMod * 0 + x) % PriceMod = x
  BY <1>1, ModUnique
<1> QED
  BY <1>1, <1>2

(* An integer just below zero wraps once.                                  *)
LEMMA BelowZero ==
  ASSUME NEW x \in Int, x < 0, -PriceMod <= x
  PROVE  x % PriceMod = x + PriceMod
<1>1. PriceMod \in Nat \ {0} /\ x + PriceMod \in 0 .. PriceMod-1 /\ -1 \in Int
  BY SecurityConstants
<1> DEFINE r == x + PriceMod
<1>2. (PriceMod * (-1) + r) % PriceMod = r
  BY <1>1, ModUnique
<1>3. PriceMod * (-1) + r = x
  BY <1>1
<1> QED
  BY <1>2, <1>3

(* A reduced number is a price.                                            *)
LEMMA ReducedPrice ==
  ASSUME NEW x \in Int
  PROVE  x % PriceMod \in Price
BY SecurityConstants, DivMod DEF Price

(* The lower half of the prices is the same as an int, the upper half is   *)
(* negative.                                                               *)
LEMMA AsIntLow ==
  ASSUME WalkFits, NEW x \in Nat, 2 * x + 1 < PriceMod
  PROVE  AsInt(x) = x /\ x % PriceMod = x /\ x \in Price /\ x \in HalfPrice
<1>1. PriceMod \in Nat
  BY WalkConstants
<1>2. x < PriceMod \div 2 /\ x \in Price /\ x \in HalfPrice
  BY <1>1 DEF Price, HalfPrice
<1>3. x % PriceMod = x
  BY <1>2, Unreduced
<1> QED
  BY <1>2, <1>3 DEF AsInt

(* The upper half of the prices is negative as an int.                     *)
LEMMA AsIntHigh ==
  ASSUME WalkFits, NEW x \in Price, PriceMod <= 2 * x
  PROVE  AsInt(x) < 0
<1>1. PriceMod \in Nat /\ x \in Int /\ x < PriceMod
  BY WalkConstants DEF Price
<1>2. ~(x < PriceMod \div 2)
  BY <1>1
<1>3. x % PriceMod = x
  BY Unreduced
<1> QED
  BY <1>1, <1>2, <1>3 DEF AsInt

(* What is just below zero is negative as an int.                          *)
LEMMA AsIntBelow ==
  ASSUME WalkFits, NEW x \in -3 .. -1
  PROVE  AsInt(x) < 0
<1>1. PriceMod \in Nat /\ 18 < PriceMod
  BY WalkConstants
<1>2. x % PriceMod = x + PriceMod
  BY <1>1, BelowZero
<1>3. ~(x + PriceMod < PriceMod \div 2)
  BY <1>1
<1> QED
  BY <1>1, <1>2, <1>3 DEF AsInt

-----------------------------------------------------------------------------
(* What is sound stays so when the bounds part.                            *)
LEMMA SoundGrows ==
  ASSUME WalkFits, NEW n \in 0 .. MaxBeats, n < MaxBeats, NEW d, Sound(d, n)
  PROVE  Sound(d, n + 1)
<1>1. /\ Lowest(n + 1) = Lowest(n) - Fall /\ Highest(n + 1) = Highest(n) + Shift
      /\ Lowest(n) \in Int /\ Highest(n) \in Int
      /\ Fall \in Nat /\ Shift \in Nat
  BY WalkStep, WalkRange, WalkConstants DEF Fall
<1>2. d.bid \in Int
  BY SecurityConstants DEF Sound, Price
<1>3. Near(d.bid, n) => Near(d.bid, n + 1)
  BY <1>1, <1>2 DEF Near
<1> QED
  BY <1>3 DEF Sound

(* The bid of a buffer that is not blank is higher than any spread.        *)
LEMMA QuotedHigh ==
  ASSUME WalkFits, NEW n \in 0 .. MaxBeats, NEW d, Sound(d, n), Quoted(d)
  PROVE  d.bid \in Nat /\ Shift < d.bid
<1>1. d.bid \in Nat
  BY SecurityConstants DEF Sound, Price
<1>2. CASE Near(d.bid, n)
  BY <1>1, <1>2, WalkRange, WalkConstants DEF Near
<1>3. CASE Under(d.bid)
  BY <1>1, <1>3, WalkConstants DEF Under
<1> QED
  BY <1>1, <1>2, <1>3 DEF Sound, Quoted

(* A quote drawn near the prices is near them after the heartbeat, and so  *)
(* is its midpoint.                                                        *)
LEMMA DrawnNear ==
  ASSUME WalkFits, NEW n \in 0 .. MaxBeats, n < MaxBeats, NEW x \in Nat, Near(x, n),
         NEW draw \in Draws, NEW spread \in Spreads
  PROVE  /\ AsInt(x + draw - 3) \in HalfPrice /\ AsInt(x + spread) \in HalfPrice
         /\ Near(AsInt(x + draw - 3), n + 1)
         /\ AsInt(x + draw - 3) = x + draw - 3 /\ AsInt(x + spread) = x + spread
         /\ 2 * ((x + draw - 3) + (x + spread)) + 1 < PriceMod
         /\ \A m \in Int : x + draw - 3 <= m /\ m <= x + spread =>
              m \in Price /\ MidSound(m, n + 1)
<1>1. /\ Lowest(n + 1) = Lowest(n) - Fall /\ Highest(n + 1) = Highest(n) + Shift
      /\ Lowest(n) \in Int /\ Highest(n) \in Int
      /\ Shift < Lowest(n)
  BY WalkStep, WalkRange
<1>2. /\ 2 * Highest(n + 1) + 1 < PriceMod /\ 4 * Highest(n + 1) + 1 < PriceMod
      /\ n + 1 \in 0 .. MaxBeats
  BY WalkRange, WalkConstants
<1>3. /\ NumEx \in Nat /\ NumEx >= 2 /\ Shift \in Nat /\ 9 <= Shift /\ PriceMod \in Nat
      /\ draw \in 0 .. 6 /\ spread \in 1 .. Shift
  BY WalkConstants
<1>4. Lowest(n) <= x /\ x <= Highest(n)
  BY DEF Near
<1>5. /\ x + draw - 3 \in Nat /\ x + spread \in Nat
      /\ 2 * (x + draw - 3) + 1 < PriceMod /\ 2 * (x + spread) + 1 < PriceMod
  BY <1>1, <1>2, <1>3, <1>4
<1>6. /\ AsInt(x + draw - 3) = x + draw - 3 /\ x + draw - 3 \in HalfPrice
      /\ AsInt(x + spread) = x + spread /\ x + spread \in HalfPrice
  BY <1>5, AsIntLow
<1>7. Near(x + draw - 3, n + 1)
  BY <1>1, <1>3, <1>4 DEF Near, Fall
<1>8. ASSUME NEW m \in Int, x + draw - 3 <= m, m <= x + spread
      PROVE  m \in Price /\ MidSound(m, n + 1)
  <2>1. m \in Price
    BY <1>3, <1>5, <1>8 DEF Price
  <2>2. Lowest(n + 1) + NumEx + Shift <= m /\ m <= Highest(n + 1)
    BY <1>1, <1>3, <1>4, <1>8 DEF Fall
  <2> QED
    BY <2>1, <2>2 DEF MidSound
<1>9. 2 * ((x + draw - 3) + (x + spread)) + 1 < PriceMod
  BY <1>1, <1>2, <1>3, <1>4
<1> QED
  BY <1>6, <1>7, <1>8, <1>9

(* A quote drawn from a blank buffer: its bid and ask are a few ticks.     *)
LEMMA DrawnBlank ==
  ASSUME WalkFits, NEW draw \in Draws, NEW spread \in Spreads, AsInt(0 + draw - 3) > 0
  PROVE  /\ AsInt(0 + draw - 3) \in 1 .. 3 /\ AsInt(0 + spread) = spread
         /\ spread \in 1 .. Shift /\ spread % PriceMod = spread
<1>1. draw \in 0 .. 6 /\ spread \in 1 .. Shift /\ Shift \in Nat
      /\ PriceMod \in Nat /\ 2 * Shift + 18 < PriceMod
  BY WalkConstants
<1>2. AsInt(spread) = spread /\ spread % PriceMod = spread
  BY <1>1, AsIntLow
<1>3. CASE draw < 3
  <2>1. draw - 3 \in -3 .. -1 /\ 0 + draw - 3 = draw - 3
    BY <1>1, <1>3
  <2>2. AsInt(draw - 3) < 0
    BY <2>1, AsIntBelow
  <2>3. AsInt(draw - 3) \in Int
    BY <2>1, IntOf
  <2> QED
    BY <2>1, <2>2, <2>3
<1>4. CASE draw >= 3
  <2>1. draw - 3 \in 0 .. 3 /\ 0 + draw - 3 = draw - 3
    BY <1>1, <1>4
  <2>2. AsInt(draw - 3) = draw - 3
    BY <1>1, <2>1, AsIntLow
  <2> QED
    BY <1>1, <1>2, <2>1, <2>2
<1> QED
  BY <1>1, <1>3, <1>4

(* No quote is drawn from a market below zero.                             *)
LEMMA DrawnUnder ==
  ASSUME WalkFits, NEW x \in Price, Under(x), NEW draw \in Draws
  PROVE  AsInt(x + draw - 3) < 0
<1>1. /\ draw \in 0 .. 6 /\ PriceMod \in Nat /\ NumEx \in Nat /\ Shift \in Nat /\ x \in Int
      /\ 4 * Shift + 2 * NumEx < PriceMod /\ 9 <= Shift
  BY WalkConstants DEF Price
<1>2. x + draw - 3 \in Price /\ PriceMod <= 2 * (x + draw - 3)
  BY <1>1 DEF Under, Price
<1> QED
  BY <1>2, AsIntHigh

(* The midpoint of a quote whose sum is in range is the mean of the two.   *)
LEMMA MidOfLow ==
  ASSUME WalkFits, NEW q, q.bid \in Nat, q.ask \in Nat,
         2 * (q.bid + q.ask) + 1 < PriceMod
  PROVE  MidOf(q) = (q.bid + q.ask) \div 2
<1> DEFINE sum == q.bid + q.ask
<1>1. sum \in Nat /\ PriceMod \in Nat
  BY WalkConstants
<1>2. AsInt(sum) = sum
  BY <1>1, AsIntLow
<1>3. sum \div 2 \in Price
  BY <1>1 DEF Price
<1>4. (sum \div 2) % PriceMod = sum \div 2
  BY <1>3, Unreduced
<1> QED
  BY <1>1, <1>2, <1>4 DEF MidOf

(* A trade finds both buffers quoted, or a whole market is defined.        *)
LEMMA TradeWalk ==
  ASSUME WalkFits, IInv, WInv, NEW s0 \in Stocks, NEW e0 \in Exchanges \ {0},
         NEW draw \in Draws, NEW spread \in Spreads, Trade(s0, e0, draw, spread)
  PROVE  WInv'
<1> DEFINE venue == recs[s0][e0]
           nbbo  == recs[s0][0]
           old   == venue[Older(venue)]
           best  == nbbo[Older(nbbo)]
           n     == heartbeats - 1
           qb    == AsInt(old.bid + draw - 3)
           qa    == AsInt(old.bid + spread)
           q     == [bid |-> qb, ask |-> qa]
           m     == MidOf(q)
<1>1. venue \in [Buffers -> Datum] /\ nbbo \in [Buffers -> Datum] /\ 0 \in Exchanges
  <2>1. recs \in [Stocks -> [Exchanges -> [Buffers -> Datum]]]
    BY DEF IInv, Shape
  <2>2. 0 \in Exchanges /\ e0 \in Exchanges
    BY SecurityConstants DEF Exchanges
  <2>3. recs[s0] \in [Exchanges -> [Buffers -> Datum]]
    BY <2>1
  <2> QED
    BY <2>2, <2>3
<1>2. Older(venue) \in Buffers /\ Older(nbbo) \in Buffers
  BY <1>1, OlderNewer
<1>3. /\ pc = "trade" /\ recs' = recs /\ last' = last /\ heartbeats' = heartbeats
      /\ starts' = starts /\ qb > 0
      /\ \/ /\ Crosses(q, best) /\ qb % PriceMod < qa % PriceMod
            /\ stock' = s0 /\ mid' = m /\ ex' = 0 /\ pc' = "dirty" /\ quote' = quote
         \/ /\ ~Crosses(q, best)
            /\ stock' = s0 /\ ex' = e0 /\ nbboPd' = Older(nbbo) /\ pd' = Older(venue)
            /\ quote' = q /\ pc' = "markNbbo" /\ mid' = mid
  BY DEF Trade, NewMarket, tradeVars
<1>4. /\ n \in 0 .. MaxBeats /\ n < MaxBeats /\ heartbeats = n + 1 /\ heartbeats \in Nat
  BY <1>3, WalkConstants DEF WInv, WalkTyped
<1>5. Sound(old, n) /\ Sound(best, n)
  BY <1>1, <1>2, <1>3 DEF WInv, AllSound, Traded
<1>6. AllSound(recs', Traded')
  <2>1. Traded' = n + 1
    BY <1>3, <1>4 DEF Traded
  <2>2. AllSound(recs, n)
    BY <1>3 DEF WInv, Traded
  <2>3. AllSound(recs, n + 1)
    BY <1>4, <2>2, SoundGrows DEF AllSound
  <2> QED
    BY <1>3, <2>1, <2>3
<1>7. /\ old.bid \in Nat /\ old.bid \in Price /\ best.bid \in Nat /\ best.ask \in Nat
      /\ PriceMod \in Nat /\ Shift \in Nat /\ 9 <= Shift /\ 2 * Shift < PriceMod
  BY <1>5, WalkConstants DEF Sound, Price
<1>8. ~Quoted(best) => best.ask = 0 /\ best.bid = 0
  BY DEF Quoted
<1>9. Quoted(best) => Shift < best.bid
  BY <1>4, <1>5, QuotedHigh
<1>10. q.bid = qb /\ q.ask = qa
  OBVIOUS
<1> HIDE DEF n, q
<1>11. CASE Near(old.bid, n)
  <2> PICK x \in Nat : x = old.bid
    BY <1>7
  <2>1. /\ qb \in HalfPrice /\ qa \in HalfPrice /\ Near(qb, n + 1)
        /\ qb = x + draw - 3 /\ qa = x + spread
        /\ 2 * (qb + qa) + 1 < PriceMod
        /\ \A k \in Int : x + draw - 3 <= k /\ k <= x + spread =>
             k \in Price /\ MidSound(k, n + 1)
    BY <1>4, <1>11, DrawnNear
  <2>2. qb \in Price /\ qa \in Price /\ qb \in Int /\ qa \in Int
    <3>1. PriceMod \in Nat /\ PriceMod > 18
      BY WalkConstants
    <3> QED
      BY <2>1, <3>1 DEF HalfPrice, Price
  <2>3. qb % PriceMod = qb /\ qa % PriceMod = qa
    BY <2>2, Unreduced
  <2> HIDE DEF qb, qa
  <2>4. CASE Crosses(q, best) /\ mid' = m /\ pc' = "dirty" /\ quote' = quote /\ qb < qa
    <3>1. m \in Int /\ qb <= m /\ m <= qa
      <4>1. qb \in Nat /\ qa \in Nat
        BY <1>7, <2>2 DEF Price
      <4>2. m = (qb + qa) \div 2
        BY <1>10, <2>1, <4>1, MidOfLow
      <4> HIDE DEF m
      <4> QED
        BY <2>2, <2>4, <4>2
    <3>2. m \in Price /\ MidSound(m, n + 1)
      BY <2>1, <3>1
    <3> QED
      BY <1>3, <1>4, <1>6, <2>4, <3>2 DEF WInv, WalkTyped, QuoteSound, QuoteSteps
  <2>5. CASE /\ ~Crosses(q, best) /\ stock' = s0 /\ ex' = e0 /\ nbboPd' = Older(nbbo)
             /\ pd' = Older(venue) /\ quote' = q /\ pc' = "markNbbo" /\ mid' = mid
    <3>1. Quoted(best)
      <4>1. ~(qb > best.ask)
        BY <1>10, <2>3, <2>5 DEF Crosses
      <4> QED
        BY <1>3, <1>8, <2>2, <4>1
    <3>2. Quoted(old)
      <4>1. Lowest(n) \in Int /\ Shift < Lowest(n)
        BY <1>4, WalkRange
      <4> QED
        BY <1>7, <1>11, <4>1 DEF Near, Quoted
    <3>3. QuoteSound'
      BY <1>3, <1>4, <1>10, <2>1, <2>5, <3>1, <3>2 DEF QuoteSound
    <3>4. WalkTyped'
      BY <1>3, <1>10, <2>1, <2>5 DEF WInv, WalkTyped
    <3> QED
      BY <1>6, <2>5, <3>3, <3>4 DEF WInv
  <2> QED
    BY <1>3, <2>3, <2>4, <2>5
<1>12. CASE old.bid = 0
  <2>1. /\ qb \in 1 .. 3 /\ qa = spread
        /\ spread \in 1 .. Shift /\ spread % PriceMod = spread
    BY <1>3, <1>12, DrawnBlank
  <2>2. qb \in Price
    BY <1>7, <2>1 DEF Price
  <2>3. qb % PriceMod = qb /\ qa % PriceMod = qa
    BY <2>1, <2>2, Unreduced
  <2> HIDE DEF qb, qa
  <2>4. Crosses(q, best)
    <3>1. CASE Quoted(best)
      BY <1>7, <1>9, <1>10, <2>1, <2>3, <3>1 DEF Crosses
    <3>2. CASE ~Quoted(best)
      BY <1>8, <1>10, <2>1, <2>3, <3>2 DEF Crosses
    <3> QED
      BY <3>1, <3>2
  <2>5. mid' = m /\ pc' = "dirty" /\ quote' = quote
    BY <1>3, <2>4
  <2>6. m \in Int /\ 1 <= m /\ m <= Shift - 3
    <3>1. /\ qb \in Nat /\ qa \in Nat /\ 1 <= qb /\ qb <= 3 /\ 1 <= qa /\ qa <= Shift
          /\ 2 * (qb + qa) + 1 < PriceMod
      BY <1>7, <2>1, WalkConstants
    <3>2. m = (qb + qa) \div 2
      BY <1>10, <3>1, MidOfLow
    <3> HIDE DEF m
    <3> QED
      BY <1>7, <3>1, <3>2
  <2>7. m \in Price /\ MidSound(m, n + 1)
    BY <1>7, <2>6 DEF Price, MidSound
  <2> QED
    BY <1>3, <1>4, <1>6, <2>5, <2>7 DEF WInv, WalkTyped, QuoteSound, QuoteSteps
<1>13. CASE Under(old.bid)
  <2>1. qb < 0
    BY <1>7, <1>13, DrawnUnder
  <2>2. qb \in Int
    BY <1>7, WalkConstants, IntOf
  <2> QED
    BY <1>3, <2>1, <2>2
<1> QED
  BY <1>5, <1>11, <1>12, <1>13 DEF Sound

-----------------------------------------------------------------------------
(* A market around its midpoint, less the shift.                           *)
LEMMA AroundSound ==
  ASSUME WalkFits, NEW n \in 0 .. MaxBeats, mid \in Price, MidSound(mid, n),
         NEW e \in Exchanges
  PROVE  /\ Around(e).bid \in Price /\ Around(e).ask \in Price
         /\ Near(Around(e).bid, n) \/ Under(Around(e).bid)
<1>1. /\ NumEx \in Nat /\ NumEx >= 2 /\ Shift \in Nat /\ 9 <= Shift /\ PriceMod \in Nat
      /\ 4 * Shift + 2 * NumEx < PriceMod
      /\ Lowest(n) \in Int /\ Highest(n) \in Int /\ Shift < Lowest(n)
      /\ 2 * Highest(n) + 1 < PriceMod
      /\ mid \in Int
  BY WalkConstants, WalkRange DEF Price
<1>2. PICK half \in 1 .. NumEx-1 :
        /\ Around(e).bid = (mid - half - Shift) % PriceMod
        /\ Around(e).ask = (mid + half - Shift) % PriceMod
  <2>1. (IF e = 0 THEN 1 ELSE e) \in 1 .. NumEx-1
    BY <1>1 DEF Exchanges
  <2> QED
    BY <2>1 DEF Around
<1> PICK x \in Int, y \in Int : x = mid - half - Shift /\ y = mid + half - Shift
  BY <1>1
<1>3. Around(e).bid = x % PriceMod /\ Around(e).ask = y % PriceMod
  BY <1>2
<1>4. Around(e).bid \in Price /\ Around(e).ask \in Price
  BY <1>3, ReducedPrice
<1>5. CASE Lowest(n) + NumEx + Shift <= mid /\ mid <= Highest(n)
  <2>1. Lowest(n) <= x /\ x <= Highest(n)
    BY <1>1, <1>5
  <2>2. x \in Price
    BY <1>1, <2>1 DEF Price
  <2>3. x % PriceMod = x
    BY <2>2, Unreduced
  <2> QED
    BY <1>3, <1>4, <2>1, <2>3 DEF Near
<1>6. CASE 1 <= mid /\ mid <= Shift - 3
  <2>1. 0 - NumEx - Shift <= x /\ x <= -4
    BY <1>1, <1>6
  <2>2. x < 0 /\ -PriceMod <= x
    BY <1>1, <2>1
  <2>3. x % PriceMod = x + PriceMod
    BY <2>2, BelowZero
  <2>4. Under(x + PriceMod)
    BY <1>1, <2>1 DEF Under
  <2> QED
    BY <1>3, <1>4, <2>3, <2>4
<1> QED
  BY <1>4, <1>5, <1>6 DEF MidSound

(* No buffer but b of exchange e0 of stock s0 differs.                     *)
OthersSame(R, Q, s0, e0, b) ==
  \A s \in Stocks, e \in Exchanges, c \in Buffers :
    s # s0 \/ e # e0 \/ c # b => Q[s][e][c] = R[s][e][c]

(* One buffer of one record is replaced by a sound one.                    *)
LEMMA SoundPut ==
  ASSUME NEW R \in Records, NEW n, AllSound(R, n), NEW s0 \in Stocks,
         NEW e0 \in Exchanges, NEW b \in Buffers, NEW d \in Datum, Sound(d, n),
         NEW Q, Q = Put(R, s0, e0, b, d)
  PROVE  /\ Q \in Records /\ AllSound(Q, n)
         /\ Q[s0][e0][b] = d
         /\ OthersSame(R, Q, s0, e0, b)
<1>1. /\ Q \in Records
      /\ \A s \in Stocks, e \in Exchanges : s # s0 \/ e # e0 => Q[s][e] = R[s][e]
      /\ Q[s0][e0][b] = d
      /\ \A c \in Buffers : c # b => Q[s0][e0][c] = R[s0][e0][c]
  BY PutOnly
<1>2. OthersSame(R, Q, s0, e0, b)
  BY <1>1 DEF OthersSame
<1>3. AllSound(Q, n)
  BY <1>1, <1>2 DEF AllSound, OthersSame
<1> QED
  BY <1>1, <1>2, <1>3

(* A new bid, a new ask.                                                   *)
LEMMA BidPut ==
  ASSUME NEW R \in Records, NEW n, AllSound(R, n), NEW s0 \in Stocks,
         NEW e0 \in Exchanges, NEW b \in Buffers,
         NEW x \in Price, Near(x, n) \/ Under(x),
         NEW Q, Q = Put(R, s0, e0, b, [R[s0][e0][b] EXCEPT !.bid = x])
  PROVE  /\ Q \in Records /\ AllSound(Q, n)
         /\ Q[s0][e0][b].bid = x
         /\ OthersSame(R, Q, s0, e0, b)
<1> DEFINE d == [R[s0][e0][b] EXCEPT !.bid = x]
<1>1. R[s0][e0][b] \in Datum /\ x \in Int
  BY SecurityConstants DEF Records, Price
<1>2. Sound(R[s0][e0][b], n)
  BY DEF AllSound
<1>3. d \in Datum /\ d.bid = x /\ Sound(d, n)
  BY <1>1, <1>2 DEF Datum, Sound
<1>4. Q = Put(R, s0, e0, b, d)
  OBVIOUS
<1> HIDE DEF d
<1>5. /\ Q \in Records /\ AllSound(Q, n) /\ Q[s0][e0][b] = d
      /\ OthersSame(R, Q, s0, e0, b)
  BY <1>3, <1>4, SoundPut
<1> QED
  BY <1>3, <1>5

(* A new ask in a buffer that was quoted.                                  *)
LEMMA AskPut ==
  ASSUME NEW R \in Records, NEW n, AllSound(R, n), NEW s0 \in Stocks,
         NEW e0 \in Exchanges, NEW b \in Buffers, NEW y \in Price,
         Near(R[s0][e0][b].bid, n) \/ Under(R[s0][e0][b].bid),
         NEW Q, Q = Put(R, s0, e0, b, [R[s0][e0][b] EXCEPT !.ask = y])
  PROVE  /\ Q \in Records /\ AllSound(Q, n)
         /\ Q[s0][e0][b].bid = R[s0][e0][b].bid
         /\ OthersSame(R, Q, s0, e0, b)
<1> DEFINE d == [R[s0][e0][b] EXCEPT !.ask = y]
<1>1. R[s0][e0][b] \in Datum /\ y \in Int
  BY SecurityConstants DEF Records, Price
<1>2. Sound(R[s0][e0][b], n)
  BY DEF AllSound
<1>3. d \in Datum /\ d.bid = R[s0][e0][b].bid /\ Sound(d, n)
  BY <1>1, <1>2 DEF Datum, Sound
<1>4. Q = Put(R, s0, e0, b, d)
  OBVIOUS
<1> HIDE DEF d
<1>5. /\ Q \in Records /\ AllSound(Q, n) /\ Q[s0][e0][b] = d
      /\ OthersSame(R, Q, s0, e0, b)
  BY <1>3, <1>4, SoundPut
<1>6. Q[s0][e0][b].bid = R[s0][e0][b].bid
  <2>1. Q[s0][e0][b].bid = d.bid
    BY <1>5
  <2> QED
    BY <1>3, <2>1
<1> QED
  BY <1>5, <1>6

(* Both, one after the other.                                              *)
LEMMA SoundPutTwice ==
  ASSUME NEW n, recs \in Records, AllSound(recs, n), NEW s0 \in Stocks,
         NEW e0 \in Exchanges, NEW b \in Buffers, NEW Q, NEW p \in Datum, NEW q \in Datum,
         Sound(p, n), Sound(q, n),
         Q = Put(recs, s0, e0, b, p), recs' = Put(Q, s0, e0, b, q)
  PROVE  /\ AllSound(recs', n)
         /\ OthersSame(recs, recs', s0, e0, b)
<1>1. /\ Q \in Records /\ AllSound(Q, n)
      /\ OthersSame(recs, Q, s0, e0, b)
  BY SoundPut
<1>2. /\ AllSound(recs', n)
      /\ OthersSame(Q, recs', s0, e0, b)
  BY <1>1, SoundPut
<1> QED
  BY <1>1, <1>2 DEF OthersSame

(* New prices, as an EXCEPT of both fields.                                *)
LEMMA PricesPut ==
  ASSUME NEW n, recs \in Records, AllSound(recs, n), NEW s0 \in Stocks,
         NEW e0 \in Exchanges, NEW b \in Buffers, NEW x \in Price, NEW y \in Price,
         Near(x, n) \/ Under(x),
         recs' = [recs EXCEPT ![s0][e0][b].bid = x, ![s0][e0][b].ask = y]
  PROVE  /\ AllSound(recs', n)
         /\ OthersSame(recs, recs', s0, e0, b)
<1> DEFINE r == recs[s0][e0][b]
           p == [r EXCEPT !.bid = x]
           Q == Put(recs, s0, e0, b, p)
           q == [Q[s0][e0][b] EXCEPT !.ask = y]
<1>1. r \in Datum /\ Sound(r, n) /\ x \in Int /\ y \in Int
  BY SecurityConstants DEF Records, AllSound, Price
<1>2. p \in Datum /\ p.bid = x /\ Sound(p, n)
  BY <1>1 DEF Datum, Sound
<1>3. recs' = Put(Q, s0, e0, b, q)
  BY DEF Put
<1> HIDE DEF p, r
<1>4. Q[s0][e0][b] = p
  BY <1>2, PutOnly
<1> HIDE DEF Q
<1>5. q \in Datum /\ Sound(q, n)
  BY <1>1, <1>2, <1>4 DEF Datum, Sound
<1> HIDE DEF q
<1> QED
  BY <1>2, <1>3, <1>5, SoundPutTwice DEF Q

(* The marks leave the prices as they are.                                 *)
SameQuoted ==
  \A s \in Stocks, e \in Exchanges, b \in Buffers :
    Quoted(recs'[s][e][b]) <=> Quoted(recs[s][e][b])

(* mark_dirty changes no price.                                            *)
LEMMA DirtySound ==
  ASSUME NEW n, recs \in Records, AllSound(recs, n), NEW s0 \in Stocks,
         NEW e0 \in Exchanges, NEW b \in Buffers, MarkDirty(s0, e0, b)
  PROVE  AllSound(recs', n) /\ SameQuoted
<1> DEFINE r == recs[s0][e0][b]
           d == [r EXCEPT !.front = @ + 2]
<1>1. r \in Datum
  BY DEF Records
<1>2. Sound(r, n)
  BY DEF AllSound
<1>3. d \in Datum /\ d.bid = r.bid /\ d.ask = r.ask /\ Sound(d, n)
  BY <1>1, <1>2 DEF Datum, Sound
<1>4. recs' = Put(recs, s0, e0, b, d)
  BY DEF MarkDirty, Put
<1> HIDE DEF d
<1>5. /\ AllSound(recs', n) /\ recs'[s0][e0][b] = d
      /\ OthersSame(recs, recs', s0, e0, b)
  BY <1>3, <1>4, SoundPut
<1> QED
  BY <1>3, <1>5 DEF SameQuoted, Quoted, OthersSame

(* mark_clean, and the prices it remembers.                                *)
LEMMA CleanSound ==
  ASSUME NEW n, recs \in Records, AllSound(recs, n), NEW s0 \in Stocks,
         NEW e0 \in Exchanges, NEW b \in Buffers, MarkClean(s0, e0, b),
         last \in [Stocks -> [Exchanges -> Quotes]]
  PROVE  /\ AllSound(recs', n) /\ SameQuoted
         /\ last' \in [Stocks -> [Exchanges -> Quotes]]
<1> DEFINE r == recs[s0][e0][b]
           d == [r EXCEPT !.back = r.front]
           q == Prices(r)
<1>1. r \in Datum
  BY DEF Records
<1>2. Sound(r, n)
  BY DEF AllSound
<1>3. d \in Datum /\ d.bid = r.bid /\ d.ask = r.ask /\ Sound(d, n) /\ q \in Quotes
  BY <1>1, <1>2 DEF Datum, Sound, Prices, Quotes
<1>4. recs' = Put(recs, s0, e0, b, d) /\ last' = [last EXCEPT ![s0][e0] = q]
  BY DEF MarkClean, Put
<1> HIDE DEF d, q
<1>5. /\ AllSound(recs', n) /\ recs'[s0][e0][b] = d
      /\ OthersSame(recs, recs', s0, e0, b)
  BY <1>3, <1>4, SoundPut
<1>6. SameQuoted
  BY <1>3, <1>5 DEF SameQuoted, Quoted, OthersSame
<1>7. last' \in [Stocks -> [Exchanges -> Quotes]]
  BY <1>3, <1>4
<1> QED
  BY <1>5, <1>6, <1>7

-----------------------------------------------------------------------------
(* The steps that leave the records alone.                                 *)
LEMMA KeptSound ==
  ASSUME WalkFits, WInv, recs' = recs, Traded' \in {Traded, heartbeats}
  PROVE  AllSound(recs', Traded')
<1>1. CASE Traded' = Traded
  <2>1. AllSound(recs, Traded)
    BY DEF WInv
  <2> QED
    BY <1>1, <2>1
<1>2. CASE Traded' # Traded
  <2> PICK n \in 0 .. MaxBeats : n = Traded /\ n < MaxBeats /\ heartbeats = n + 1
    <3>1. pc = "trade" /\ Traded = heartbeats - 1
      BY <1>2 DEF Traded
    <3> QED
      BY <3>1, WalkConstants DEF WInv, WalkTyped
  <2>1. AllSound(recs, n)
    BY DEF WInv
  <2>2. AllSound(recs, n + 1)
    BY <2>1, SoundGrows DEF AllSound
  <2>3. Traded' = n + 1
    BY <1>2
  <2> QED
    BY <2>2, <2>3
<1> QED
  BY <1>1, <1>2

(* The midpoint of init_snapshot is near the prices at any time.           *)
LEMMA StartSound ==
  ASSUME WalkFits, NEW n \in 0 .. MaxBeats
  PROVE  StartMid \in Price /\ MidSound(StartMid, n)
BY WalkRange, WalkConstants, SecurityConstants DEF Price, MidSound

(* The segment is blank at first.                                          *)
LEMMA InitWalk ==
  ASSUME WalkFits, Init
  PROVE  WInv
<1>1. \A s \in Stocks, e \in Exchanges, b \in Buffers : recs[s][e][b] = Blank
  BY DEF Init
<1>2. 0 \in Price /\ 0 \in HalfPrice /\ PriceMod \in Nat
  BY WalkConstants DEF Price, HalfPrice
<1>3. AllSound(recs, Traded)
  BY <1>1, <1>2 DEF AllSound, Sound, Blank
<1>4. last \in [Stocks -> [Exchanges -> Quotes]]
  <2>1. NoPrices \in Quotes
    BY <1>2 DEF NoPrices, Quotes
  <2> QED
    BY <2>1 DEF Init
<1>5. WalkTyped
  BY <1>2, <1>4, SecurityConstants DEF Init, WalkTyped, NoPrices
<1>6. QuoteSound
  BY DEF Init, QuoteSound, QuoteSteps
<1> QED
  BY <1>3, <1>5, <1>6 DEF WInv, Init

(* The steps of main: a heartbeat lets the prices move once more.          *)
LEMMA MainWalk ==
  ASSUME WalkFits, WInv, NoTrade \/ Beat \/ Crash \/ \E stop \in BOOLEAN : Stop(stop)
  PROVE  WInv'
<1>1. /\ recs' = recs /\ last' = last /\ mid' = mid /\ quote' = quote
      /\ starts' = starts
  BY DEF NoTrade, Beat, Crash, Stop, marketVars, tradeVars
<1>2. \/ heartbeats' = heartbeats /\ pc' \in {"stop", "dead", "off", "beat"}
      \/ /\ heartbeats' = heartbeats + 1 /\ pc' = "trade" /\ pc = "beat"
         /\ heartbeats < MaxBeats
  BY DEF NoTrade, Beat, Crash, Stop
<1>3. heartbeats \in 0 .. MaxBeats /\ MaxBeats \in Nat
  BY WalkConstants DEF WInv, WalkTyped
<1>4. Traded' \in {Traded, heartbeats}
  BY <1>2, <1>3 DEF Traded
<1>5. AllSound(recs', Traded')
  BY <1>1, <1>4, KeptSound
<1>6. WalkTyped'
  BY <1>1, <1>2, <1>3 DEF WInv, WalkTyped
<1>7. QuoteSound'
  BY <1>2 DEF QuoteSound, QuoteSteps
<1> QED
  BY <1>2, <1>5, <1>6, <1>7 DEF WInv

(* A server is started.                                                    *)
LEMMA BeginWalk ==
  ASSUME WalkFits, WInv, Begin
  PROVE  WInv'
<1>1. /\ recs' = recs /\ last' = last /\ quote' = quote /\ heartbeats' = heartbeats
      /\ pc # "trade" /\ pc' = "dirty" /\ mid' = StartMid
      /\ starts' = starts + 1 /\ starts < MaxStarts
  BY DEF Begin, NewMarket, tradeVars
<1>2. AllSound(recs', Traded')
  BY <1>1, KeptSound DEF Traded
<1>3. heartbeats \in 0 .. MaxBeats /\ StartMid \in Price /\ MidSound(StartMid, heartbeats)
  BY StartSound DEF WInv, WalkTyped
<1>4. WalkTyped'
  BY <1>1, <1>3, SecurityConstants DEF WInv, WalkTyped
<1>5. QuoteSound'
  BY <1>1 DEF QuoteSound, QuoteSteps
<1> QED
  BY <1>1, <1>2, <1>3, <1>4, <1>5 DEF WInv

(* The steps of a market.                                                  *)
LEMMA DirtyWalk ==
  ASSUME WalkFits, IInv, WInv, Dirty
  PROVE  WInv'
<1> PICK b : b = Older(recs[stock][ex])
  OBVIOUS
<1>1. /\ pc = "dirty" /\ MarkDirty(stock, ex, b) /\ pc' \in {"define", "dirty"}
      /\ UNCHANGED <<heartbeats, mid, quote, starts, last>>
  BY DEF Dirty, tradeVars
<1>2. stock \in Stocks /\ ex \in Exchanges /\ recs \in Records /\ b \in Buffers
  BY OlderNewer DEF IInv, Shape, Records
<1>3. Traded = heartbeats /\ Traded' = heartbeats
  BY <1>1 DEF Traded
<1>4. AllSound(recs, heartbeats)
  BY <1>3 DEF WInv
<1>5. AllSound(recs', heartbeats)
  BY <1>1, <1>2, <1>4, DirtySound
<1>6. WalkTyped' /\ QuoteSound' /\ MidSound(mid, heartbeats)
  BY <1>1 DEF WInv, WalkTyped, QuoteSound, QuoteSteps
<1> QED
  BY <1>1, <1>3, <1>5, <1>6 DEF WInv

(* define_market and mark_all_clean have a buffer of each exchange.        *)
LEMMA TargetBuffer ==
  ASSUME IInv, pc \in {"define", "clean"}
  PROVE  /\ stock \in Stocks /\ ex \in Exchanges /\ recs \in Records
         /\ list[ex] \in Buffers
<1>1. stock \in Stocks /\ ex \in Exchanges /\ recs \in Records
  BY DEF IInv, Shape, Records
<1>2. Fine(stock, ex)
  BY <1>1 DEF IInv, Trusted
<1>3. Marked(ex) /\ Target(ex) = list[ex]
  BY <1>1 DEF Marked, Target, MarketSteps, Exchanges
<1> QED
  BY <1>1, <1>2, <1>3 DEF Fine, HalfWritten

(* Prices around the midpoint.                                             *)
LEMMA DefineWalk ==
  ASSUME WalkFits, IInv, WInv, Define
  PROVE  WInv'
<1> PICK b : b = list[ex]
  OBVIOUS
<1>1. /\ pc = "define" /\ pc' \in {"define", "clean"}
      /\ recs' = [recs EXCEPT ![stock][ex][b].bid = Around(ex).bid,
                              ![stock][ex][b].ask = Around(ex).ask]
      /\ UNCHANGED <<heartbeats, mid, quote, starts, last>>
  BY DEF Define, tradeVars
<1>2. stock \in Stocks /\ ex \in Exchanges /\ recs \in Records /\ b \in Buffers
  BY <1>1, TargetBuffer
<1>3. Traded = heartbeats /\ Traded' = heartbeats
  BY <1>1 DEF Traded
<1>4. /\ AllSound(recs, heartbeats) /\ heartbeats \in 0 .. MaxBeats
      /\ mid \in Price /\ MidSound(mid, heartbeats)
  BY <1>1, <1>3 DEF WInv, WalkTyped
<1>5. AllSound(recs', heartbeats)
  <2> PICK s0 \in Stocks, e0 \in Exchanges, n \in 0 .. MaxBeats :
        s0 = stock /\ e0 = ex /\ n = heartbeats
    BY <1>2, <1>4
  <2> PICK x \in Price, y \in Price :
        /\ x = Around(ex).bid /\ y = Around(ex).ask
        /\ Near(x, n) \/ Under(x)
    BY <1>4, AroundSound
  <2>1. recs' = [recs EXCEPT ![s0][e0][b].bid = x, ![s0][e0][b].ask = y]
    BY <1>1
  <2> QED
    BY <1>2, <1>4, <2>1, PricesPut
<1>6. WalkTyped' /\ QuoteSound'
  BY <1>1 DEF WInv, WalkTyped, QuoteSound, QuoteSteps
<1> QED
  BY <1>1, <1>3, <1>4, <1>5, <1>6 DEF WInv

(* A buffer is marked clean, and init_snapshot goes on to the next stock.  *)
LEMMA CleanWalk ==
  ASSUME WalkFits, IInv, WInv, Clean
  PROVE  WInv'
<1> PICK b : b = list[ex]
  OBVIOUS
<1>1. /\ pc = "clean" /\ MarkClean(stock, ex, b)
      /\ UNCHANGED <<heartbeats, quote, starts>>
      /\ \/ pc' \in {"clean", "beat", "stop"} /\ mid' = mid
         \/ pc' = "dirty" /\ mid' = StartMid
  BY DEF Clean, NewMarket, tradeVars
<1>2. stock \in Stocks /\ ex \in Exchanges /\ recs \in Records /\ b \in Buffers
  BY <1>1, TargetBuffer
<1>3. Traded = heartbeats /\ Traded' = heartbeats
  BY <1>1 DEF Traded
<1>4. /\ AllSound(recs, heartbeats) /\ heartbeats \in 0 .. MaxBeats
      /\ last \in [Stocks -> [Exchanges -> Quotes]]
  BY <1>1, <1>3 DEF WInv, WalkTyped
<1>5. AllSound(recs', heartbeats) /\ last' \in [Stocks -> [Exchanges -> Quotes]]
  BY <1>1, <1>2, <1>4, CleanSound
<1>6. StartMid \in Price /\ MidSound(StartMid, heartbeats)
  BY <1>4, StartSound
<1>7. WalkTyped' /\ QuoteSound'
  BY <1>1, <1>5, <1>6 DEF WInv, WalkTyped, QuoteSound, QuoteSteps
<1> QED
  BY <1>1, <1>3, <1>5, <1>6, <1>7 DEF WInv

-----------------------------------------------------------------------------
(* What the steps of a quote start from, in constants.                     *)
LEMMA QuoteWalk ==
  ASSUME WalkFits, IInv, WInv, pc \in QuoteSteps
  PROVE  \E s0 \in Stocks, e0 \in Exchanges \ {0}, b \in Buffers, c \in Buffers,
            n \in 0 .. MaxBeats :
           /\ s0 = stock /\ e0 = ex /\ b = pd /\ c = nbboPd /\ n = heartbeats
           /\ recs \in Records /\ AllSound(recs, n) /\ Traded = n
           /\ 0 \in Exchanges
           /\ quote.bid \in Nat /\ Near(quote.bid, n)
           /\ quote.bid \in Price /\ quote.bid # 0
           /\ quote.bid % PriceMod = quote.bid
           /\ quote.ask % PriceMod \in Price
           /\ Quoted(recs[s0][0][c])
<1>1. /\ stock \in Stocks /\ ex \in Exchanges \ {0} /\ pd \in Buffers /\ nbboPd \in Buffers
      /\ recs \in Records /\ 0 \in Exchanges
  BY QuoteState
<1>2. Traded = heartbeats
  BY DEF Traded, QuoteSteps
<1>3. /\ heartbeats \in 0 .. MaxBeats /\ AllSound(recs, heartbeats)
      /\ quote.bid \in HalfPrice /\ quote.ask \in HalfPrice
      /\ Near(quote.bid, heartbeats) /\ Quoted(recs[stock][0][nbboPd])
  BY <1>2 DEF WInv, WalkTyped, QuoteSound
<1> PICK n \in 0 .. MaxBeats, x \in Int : n = heartbeats /\ x = quote.bid
  BY <1>3, WalkConstants DEF HalfPrice
<1>4. x \in Nat /\ x # 0 /\ 2 * x + 1 < PriceMod
  BY <1>3, WalkRange, WalkConstants DEF Near
<1>5. x \in Price /\ x % PriceMod = x
  BY <1>4, AsIntLow
<1>6. quote.ask \in Int
  BY <1>3, WalkConstants DEF HalfPrice
<1>7. quote.ask % PriceMod \in Price
  BY <1>6, ReducedPrice
<1> QED
  BY <1>1, <1>2, <1>3, <1>4, <1>5, <1>7

(* A step of a quote but the first and the last.                           *)
LEMMA QuoteGoesOn ==
  ASSUME WInv, pc \in QuoteSteps, pc' \in QuoteSteps, AllSound(recs', heartbeats),
         UNCHANGED <<heartbeats, mid, quote, starts, stock, ex, nbboPd, pd>>,
         last' \in [Stocks -> [Exchanges -> Quotes]],
         Quoted(recs'[stock][0][nbboPd]),
         pc' = "markPd" => Quoted(recs'[stock][ex][pd]), pc' # "markNbbo"
  PROVE  WInv'
<1>1. Traded' = heartbeats
  BY DEF Traded, QuoteSteps
<1>2. WalkTyped' /\ QuoteSound'
  BY DEF WInv, WalkTyped, QuoteSound, QuoteSteps
<1>3. pc' \notin {"dirty", "define"}
  BY DEF QuoteSteps
<1> QED
  BY <1>1, <1>2, <1>3 DEF WInv

(* The steps of a quote.                                                   *)
LEMMA MarkNbboWalk ==
  ASSUME WalkFits, IInv, WInv, MarkNbbo
  PROVE  WInv'
<1>1. /\ pc = "markNbbo" /\ pc' = "markPd"
      /\ MarkDirty(stock, 0, nbboPd) \/ recs' = recs
      /\ UNCHANGED <<heartbeats, mid, quote, starts, stock, ex, nbboPd, pd, last>>
  BY DEF MarkNbbo, marketVars
<1>2. pc \in QuoteSteps /\ pc' \in QuoteSteps
  BY <1>1 DEF QuoteSteps
<1> PICK s0 \in Stocks, e0 \in Exchanges \ {0}, b \in Buffers, c \in Buffers,
         n \in 0 .. MaxBeats :
       /\ s0 = stock /\ e0 = ex /\ b = pd /\ c = nbboPd /\ n = heartbeats
       /\ recs \in Records /\ AllSound(recs, n) /\ 0 \in Exchanges
       /\ Quoted(recs[s0][0][c])
  BY <1>2, QuoteWalk
<1>3. AllSound(recs', n) /\ SameQuoted
  <2>1. CASE MarkDirty(s0, 0, c)
    BY <2>1, DirtySound
  <2>2. CASE recs' = recs
    BY <2>2 DEF SameQuoted
  <2> QED
    BY <1>1, <2>1, <2>2
<1>4. Quoted(recs[stock][ex][pd]) /\ last \in [Stocks -> [Exchanges -> Quotes]]
  BY <1>1, <1>2 DEF WInv, WalkTyped, QuoteSound
<1>5. Quoted(recs'[s0][0][c]) /\ Quoted(recs'[s0][e0][b])
  BY <1>3, <1>4 DEF SameQuoted
<1> QED
  BY <1>1, <1>2, <1>3, <1>4, <1>5, QuoteGoesOn

(* The buffer of the venue is marked.                                      *)
LEMMA MarkPdWalk ==
  ASSUME WalkFits, IInv, WInv, MarkPd
  PROVE  WInv'
<1>1. /\ pc = "markPd" /\ pc' = "write" /\ MarkDirty(stock, ex, pd)
      /\ UNCHANGED <<heartbeats, mid, quote, starts, stock, ex, nbboPd, pd, last>>
  BY DEF MarkPd, marketVars, tradeVars
<1>2. pc \in QuoteSteps /\ pc' \in QuoteSteps
  BY <1>1 DEF QuoteSteps
<1> PICK s0 \in Stocks, e0 \in Exchanges \ {0}, b \in Buffers, c \in Buffers,
         n \in 0 .. MaxBeats :
       /\ s0 = stock /\ e0 = ex /\ b = pd /\ c = nbboPd /\ n = heartbeats
       /\ recs \in Records /\ AllSound(recs, n) /\ 0 \in Exchanges
       /\ Quoted(recs[s0][0][c])
  BY <1>2, QuoteWalk
<1>3. MarkDirty(s0, e0, b)
  BY <1>1
<1>4. AllSound(recs', n) /\ SameQuoted
  BY <1>3, DirtySound
<1>5. Quoted(recs'[s0][0][c]) /\ last \in [Stocks -> [Exchanges -> Quotes]]
  BY <1>4 DEF SameQuoted, WInv, WalkTyped
<1> QED
  BY <1>1, <1>2, <1>4, <1>5, QuoteGoesOn

(* The quote is written to it: its bid is near the prices.                 *)
LEMMA WriteWalk ==
  ASSUME WalkFits, IInv, WInv, Write
  PROVE  WInv'
<1>1. pc = "write"
  BY DEF Write
<1>2. pc \in QuoteSteps
  BY <1>1 DEF QuoteSteps
<1> PICK s0 \in Stocks, e0 \in Exchanges \ {0}, b \in Buffers, c \in Buffers,
         n \in 0 .. MaxBeats :
       /\ s0 = stock /\ e0 = ex /\ b = pd /\ c = nbboPd /\ n = heartbeats
       /\ recs \in Records /\ AllSound(recs, n) /\ 0 \in Exchanges
       /\ Near(quote.bid, n) /\ quote.bid \in Price
       /\ quote.bid % PriceMod = quote.bid /\ quote.ask % PriceMod \in Price
       /\ Quoted(recs[s0][0][c])
  BY <1>2, QuoteWalk
<1> PICK x \in Price, y \in Price :
       x = quote.bid % PriceMod /\ y = quote.ask % PriceMod /\ Near(x, n)
  OBVIOUS
<1>3. /\ pc' = "cleanPd"
      /\ recs' = [recs EXCEPT ![s0][e0][b].bid = x, ![s0][e0][b].ask = y]
      /\ UNCHANGED <<heartbeats, mid, quote, starts, stock, ex, nbboPd, pd, last>>
  BY DEF Write, marketVars, tradeVars
<1>4. AllSound(recs', n) /\ OthersSame(recs, recs', s0, e0, b)
  BY <1>3, PricesPut, ZenonT(40)
<1>5. Quoted(recs'[s0][0][c]) /\ last \in [Stocks -> [Exchanges -> Quotes]]
  BY <1>4 DEF OthersSame, WInv, WalkTyped
<1>6. pc' \in QuoteSteps /\ pc' # "markPd" /\ pc' # "markNbbo"
  BY <1>3 DEF QuoteSteps
<1>7. UNCHANGED <<heartbeats, mid, quote, starts, stock, ex, nbboPd, pd>> /\ last' = last
  BY <1>3
<1> HIDE <1>3
<1> QED
  BY <1>2, <1>4, <1>5, <1>6, <1>7, QuoteGoesOn

(* It is marked clean again.                                               *)
LEMMA CleanPdWalk ==
  ASSUME WalkFits, IInv, WInv, CleanPd
  PROVE  WInv'
<1>1. /\ pc = "cleanPd" /\ pc' = "nbboBid" /\ MarkClean(stock, ex, pd)
      /\ UNCHANGED <<heartbeats, mid, quote, starts, stock, ex, nbboPd, pd>>
  BY DEF CleanPd, marketVars, tradeVars
<1>2. pc \in QuoteSteps /\ pc' \in QuoteSteps
  BY <1>1 DEF QuoteSteps
<1> PICK s0 \in Stocks, e0 \in Exchanges \ {0}, b \in Buffers, c \in Buffers,
         n \in 0 .. MaxBeats :
       /\ s0 = stock /\ e0 = ex /\ b = pd /\ c = nbboPd /\ n = heartbeats
       /\ recs \in Records /\ AllSound(recs, n) /\ 0 \in Exchanges
       /\ Quoted(recs[s0][0][c])
  BY <1>2, QuoteWalk
<1>3. MarkClean(s0, e0, b) /\ last \in [Stocks -> [Exchanges -> Quotes]]
  BY <1>1 DEF WInv, WalkTyped
<1>4. /\ AllSound(recs', n) /\ SameQuoted
      /\ last' \in [Stocks -> [Exchanges -> Quotes]]
  BY <1>3, CleanSound
<1>5. Quoted(recs'[s0][0][c])
  BY <1>4 DEF SameQuoted
<1> QED
  BY <1>1, <1>2, <1>4, <1>5, QuoteGoesOn

(* The NBBO stays quoted: a bid that replaces its bid is not zero, and its *)
(* bid is not zero when its ask is replaced.                               *)
LEMMA NbboBidWalk ==
  ASSUME WalkFits, IInv, WInv, NbboBid
  PROVE  WInv'
<1>1. /\ pc = "nbboBid" /\ pc' = "nbboAsk"
      /\ UNCHANGED <<heartbeats, mid, quote, starts, stock, ex, nbboPd, pd, last>>
  BY DEF NbboBid, marketVars, tradeVars
<1>2. pc \in QuoteSteps /\ pc' \in QuoteSteps
  BY <1>1 DEF QuoteSteps
<1> PICK s0 \in Stocks, e0 \in Exchanges \ {0}, b \in Buffers, c \in Buffers,
         n \in 0 .. MaxBeats :
       /\ s0 = stock /\ e0 = ex /\ b = pd /\ c = nbboPd /\ n = heartbeats
       /\ recs \in Records /\ AllSound(recs, n) /\ 0 \in Exchanges
       /\ Near(quote.bid, n) /\ quote.bid \in Price /\ quote.bid # 0
       /\ quote.bid % PriceMod = quote.bid
       /\ Quoted(recs[s0][0][c])
  BY <1>2, QuoteWalk
<1> PICK x \in Price : x = quote.bid % PriceMod /\ x # 0 /\ Near(x, n)
  OBVIOUS
<1>3. \/ recs' = recs
      \/ recs' = Put(recs, s0, 0, c, [recs[s0][0][c] EXCEPT !.bid = x])
  BY DEF NbboBid, Put
<1>4. AllSound(recs', n) /\ Quoted(recs'[s0][0][c])
  <2>1. CASE recs' = recs
    BY <2>1
  <2>2. CASE recs' = Put(recs, s0, 0, c, [recs[s0][0][c] EXCEPT !.bid = x])
    <3>1. AllSound(recs', n) /\ recs'[s0][0][c].bid = x
      BY <2>2, BidPut
    <3> QED
      BY <3>1 DEF Quoted
  <2> QED
    BY <1>3, <2>1, <2>2
<1>5. last \in [Stocks -> [Exchanges -> Quotes]]
  BY DEF WInv, WalkTyped
<1>6. Quoted(recs'[stock][0][nbboPd]) /\ AllSound(recs', heartbeats)
  BY <1>4
<1> HIDE <1>3
<1> QED
  BY <1>1, <1>2, <1>5, <1>6, QuoteGoesOn

(* The ask is replaced beside a bid that is not zero.                      *)
LEMMA NbboAskWalk ==
  ASSUME WalkFits, IInv, WInv, NbboAsk
  PROVE  WInv'
<1>1. /\ pc = "nbboAsk" /\ pc' = "nbboClean"
      /\ UNCHANGED <<heartbeats, mid, quote, starts, stock, ex, nbboPd, pd, last>>
  BY DEF NbboAsk, marketVars, tradeVars
<1>2. pc \in QuoteSteps /\ pc' \in QuoteSteps
  BY <1>1 DEF QuoteSteps
<1> PICK s0 \in Stocks, e0 \in Exchanges \ {0}, b \in Buffers, c \in Buffers,
         n \in 0 .. MaxBeats :
       /\ s0 = stock /\ e0 = ex /\ b = pd /\ c = nbboPd /\ n = heartbeats
       /\ recs \in Records /\ AllSound(recs, n) /\ 0 \in Exchanges
       /\ quote.ask % PriceMod \in Price
       /\ Quoted(recs[s0][0][c])
  BY <1>2, QuoteWalk
<1> PICK y \in Price : y = quote.ask % PriceMod
  OBVIOUS
<1>3. \/ recs' = recs
      \/ recs' = Put(recs, s0, 0, c, [recs[s0][0][c] EXCEPT !.ask = y])
  BY DEF NbboAsk, Put
<1>4. /\ Near(recs[s0][0][c].bid, n) \/ Under(recs[s0][0][c].bid)
      /\ recs[s0][0][c].bid # 0
  <2>1. Sound(recs[s0][0][c], n)
    BY DEF AllSound
  <2>2. recs[s0][0][c].bid \in Nat /\ Shift < recs[s0][0][c].bid
    BY <2>1, QuotedHigh
  <2> QED
    BY <2>1, <2>2, WalkConstants DEF Sound
<1>5. AllSound(recs', n) /\ Quoted(recs'[s0][0][c])
  <2>1. CASE recs' = recs
    BY <2>1
  <2>2. CASE recs' = Put(recs, s0, 0, c, [recs[s0][0][c] EXCEPT !.ask = y])
    <3>1. AllSound(recs', n) /\ recs'[s0][0][c].bid = recs[s0][0][c].bid
      BY <1>4, <2>2, AskPut
    <3> QED
      BY <1>4, <3>1 DEF Quoted
  <2> QED
    BY <1>3, <2>1, <2>2
<1>6. last \in [Stocks -> [Exchanges -> Quotes]]
  BY DEF WInv, WalkTyped
<1>7. Quoted(recs'[stock][0][nbboPd]) /\ AllSound(recs', heartbeats)
  BY <1>5
<1> HIDE <1>3
<1> QED
  BY <1>1, <1>2, <1>6, <1>7, QuoteGoesOn

(* The NBBO is marked clean if it was marked.                              *)
LEMMA NbboCleanWalk ==
  ASSUME WalkFits, IInv, WInv, NbboClean
  PROVE  WInv'
<1>1. /\ pc = "nbboClean" /\ pc' = "stop"
      /\ MarkClean(stock, 0, nbboPd) \/ (recs' = recs /\ last' = last)
      /\ UNCHANGED <<heartbeats, mid, quote, starts>>
  BY DEF NbboClean, marketVars, tradeVars
<1>2. pc \in QuoteSteps
  BY <1>1 DEF QuoteSteps
<1> PICK s0 \in Stocks, c \in Buffers, n \in 0 .. MaxBeats :
       /\ s0 = stock /\ c = nbboPd /\ n = heartbeats
       /\ recs \in Records /\ AllSound(recs, n) /\ 0 \in Exchanges
  BY <1>2, QuoteWalk
<1>3. last \in [Stocks -> [Exchanges -> Quotes]]
  BY DEF WInv, WalkTyped
<1>4. AllSound(recs', n) /\ last' \in [Stocks -> [Exchanges -> Quotes]]
  <2>1. CASE MarkClean(s0, 0, c)
    BY <1>3, <2>1, CleanSound
  <2>2. CASE recs' = recs /\ last' = last
    BY <1>3, <2>2
  <2> QED
    BY <1>1, <2>1, <2>2
<1>5. Traded' = heartbeats
  BY <1>1 DEF Traded
<1>6. WalkTyped' /\ QuoteSound'
  BY <1>1, <1>4 DEF WInv, WalkTyped, QuoteSound, QuoteSteps
<1> QED
  BY <1>1, <1>4, <1>5, <1>6 DEF WInv

-----------------------------------------------------------------------------
(* Every step.                                                             *)
LEMMA StepWalk ==
  ASSUME WalkFits, IInv, WInv, [Next]_vars
  PROVE  WInv'
<1>1. CASE Market
  BY <1>1, DirtyWalk, DefineWalk, CleanWalk DEF Market
<1>2. CASE Quote
  BY <1>2, MarkNbboWalk, MarkPdWalk, WriteWalk, CleanPdWalk, NbboBidWalk, NbboAskWalk,
     NbboCleanWalk
  DEF Quote
<1>3. CASE Begin
  BY <1>3, BeginWalk
<1>4. CASE NoTrade \/ Beat \/ Crash \/ \E stop \in BOOLEAN : Stop(stop)
  BY <1>4, MainWalk
<1>5. CASE \E s \in Stocks, e \in Exchanges \ {0}, d \in Draws, p \in Spreads :
             Trade(s, e, d, p)
  BY <1>5, TradeWalk
<1>6. CASE UNCHANGED vars
  <2>1. UNCHANGED <<recs, last, heartbeats, pc, mid, quote, starts, stock, ex, nbboPd, pd>>
    BY <1>6 DEF vars, marketVars, tradeVars
  <2>2. Traded' = Traded
    BY <2>1 DEF Traded
  <2> QED
    BY <2>1, <2>2 DEF WInv, WalkTyped, QuoteSound
<1> QED
  BY <1>1, <1>2, <1>3, <1>4, <1>5, <1>6 DEF Next

(* As long as the heartbeats are too few for the prices to reach an end of *)
(* their type, every buffer is blank, near the first midpoint or just      *)
(* below zero.                                                             *)
THEOREM PricesWalk ==
  ASSUME WalkFits
  PROVE  Spec => []WInv
<1>1. Init => WInv
  BY InitWalk
<1>2. IInv /\ WInv /\ [Next]_vars => WInv'
  BY StepWalk
<1> QED
  BY <1>1, <1>2, Invariance, PTL DEF Spec

(* The variables, the prices within the width of their type.               *)
THEOREM TypeCorrect ==
  ASSUME WalkFits
  PROVE  Spec => []TypeOK
<1>1. IInv /\ WInv => TypeOK
  <2> SUFFICES ASSUME IInv, WInv PROVE TypeOK
    OBVIOUS
  <2>1. \A s \in Stocks, e \in Exchanges, b \in Buffers :
          /\ Prices(recs[s][e][b]) \in Quotes
          /\ recs[s][e][b].front \in Nat /\ recs[s][e][b].back \in Nat
    BY DEF WInv, AllSound, Sound, Prices, Quotes
  <2>2. pc \in MarketSteps \cup QuoteSteps \cup OtherSteps
    BY DEF IInv, Shape
  <2>3. /\ initial \in BOOLEAN /\ stock \in Stocks /\ ex \in Exchanges
        /\ list \in [Exchanges -> Buffers \cup {Null}]
        /\ nbboPd \in Buffers \cup {Null} /\ pd \in Buffers \cup {Null}
        /\ nbboDirty \in BOOLEAN
    BY DEF IInv, Shape
  <2>4. /\ heartbeats \in 0 .. MaxBeats /\ starts \in 0 .. MaxStarts /\ mid \in Price
        /\ quote.bid \in 0 .. PriceMod \div 2 /\ quote.ask \in 0 .. PriceMod \div 2
        /\ last \in [Stocks -> [Exchanges -> Quotes]]
    BY DEF WInv, WalkTyped, HalfPrice
  <2> QED
    BY <2>1, <2>2, <2>3, <2>4 DEF TypeOK, MarketSteps, QuoteSteps, OtherSteps
<1> QED
  BY <1>1, Invariance, PricesWalk, PTL

(* No quote is built on a blank buffer, nor compared with one: a bid drawn *)
(* from nothing crosses every NBBO that was ever quoted, and a market   *)
(* below zero yields no bid at all.                                        *)
THEOREM BlankNotQuoted ==
  ASSUME WalkFits
  PROVE  Spec => []BlankNeverQuoted
<1>1. WInv => BlankNeverQuoted
  BY DEF WInv, QuoteSound, QuoteSteps, BlankNeverQuoted, Quoted, Prices, NoPrices
<1> QED
  BY <1>1, PricesWalk, PTL

=============================================================================
