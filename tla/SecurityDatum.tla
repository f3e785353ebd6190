---------------------------- MODULE SecurityDatum ----------------------------
(***************************************************************************)
(* The price server of shared_memory_price_server_cpp11/.  Its snapshot    *)
(* holds a security_datum per stock and exchange, exchange 0 being the     *)
(* national best bid and offer (NBBO).  A security_datum is two buffers,   *)
(* first and second; the server always writes the one whose front guard is *)
(* behind, and marks it dirty (front guard + 2) before and clean (back     *)
(* guard = front guard) after, so that the other one can be read.          *)
(*                                                                         *)
(* The server may be killed between any two steps and started again on the *)
(* segment it left.  The stores of one buffer between its two marks are    *)
(* one step, except those of the NBBO, which need not be between marks.    *)
(* A processor keeps the order of its stores and nobody else writes, so    *)
(* that their delay cannot be told from a slower server.  Sizes are left   *)
(* out: they are written and never looked at.                              *)
(***************************************************************************)
EXTENDS Integers

CONSTANTS
  NumStocks,  (* number of tickers                                         *)
  NumEx,      (* NUM_STOCK_EXCHANGE, the NBBO included                     *)
  PriceMod,   (* 2^w for the w bits of a price, 2^32                       *)
  StartMid,   (* midpoint of the first market, 1000000                     *)
  Shift,      (* how far a market is below its midpoint, 10                *)
  Draws,      (* the values of random() % 7, 0 .. 6; tick_size is 3 less   *)
  Spreads,    (* the values of bo_spread, 5 .. 9                           *)
  MaxBeats,   (* bound: number of heartbeats of all servers together       *)
  MaxStarts   (* bound: number of times a server is started                *)

ASSUME SecurityConstants ==
  /\ NumStocks \in Nat \ {0}
  /\ NumEx \in Nat \ {0, 1}
  /\ PriceMod \in Nat \ {0}
  /\ StartMid \in 0 .. PriceMod-1
  /\ Shift \in Nat
  /\ Draws \subseteq 0 .. 6
  /\ Spreads \subseteq Int
  /\ MaxBeats \in Nat
  /\ MaxStarts \in Nat

VARIABLES
  recs,       (* the snapshot: recs[stock][exchange][buffer]               *)
  heartbeats, (* *heartbeats                                               *)
  pc,         (* next step of the server                                   *)
  initial,    (* it is in init_snapshot                                    *)
  stock,      (* stock_offset, the stock whose prices it changes           *)
  ex,         (* ex_off                                                    *)
  mid,        (* mid of define_market                                      *)
  list,       (* dirty_list: the buffer of each exchange being written     *)
  nbboPd,     (* the buffer of the NBBO that nbbo_pd points to             *)
  pd,         (* the buffer of the exchange that pd points to              *)
  quote,      (* new_bid and new_ask                                       *)
  nbboDirty,  (* nbbo_dirty                                                *)
  starts,     (* history: how often a server was started                   *)
  last        (* history: the prices at the last mark_clean of each record *)

marketVars == <<stock, ex, mid, list>>
tradeVars  == <<nbboPd, pd, quote, nbboDirty>>
vars == <<recs, heartbeats, pc, initial, marketVars, tradeVars, starts, last>>

Stocks    == 0 .. NumStocks-1
Exchanges == 0 .. NumEx-1
Buffers   == {"first", "second"}
Null      == "nullptr"

(* A buffer of a segment just created by shmget.                           *)
Blank == [front |-> 0, back |-> 0, bid |-> 0, ask |-> 0]

NoPrices == [bid |-> 0, ask |-> 0]

(* No server has run yet.                                                  *)
Init ==
  /\ recs = [s \in Stocks |-> [e \in Exchanges |-> [b \in Buffers |-> Blank]]]
  /\ heartbeats = 0
  /\ pc = "off"
  /\ initial = FALSE
  /\ stock = 0
  /\ ex = 0
  /\ mid = 0
  /\ list = [e \in Exchanges |-> Null]
  /\ nbboPd = Null
  /\ pd = Null
  /\ quote = NoPrices
  /\ nbboDirty = FALSE
  /\ starts = 0
  /\ last = [s \in Stocks |-> [e \in Exchanges |-> NoPrices]]

-----------------------------------------------------------------------------
(* price_datum and security_datum                                          *)

(* get_older with its test reversed.                                       *)
OlderReversed(r) == IF r.first.front > r.second.front THEN "first" ELSE "second"

Older(r) == IF r.first.front < r.second.front THEN "first" ELSE "second"

Newer(r) == IF Older(r) = "first" THEN "second" ELSE "first"

IsClean(d) == d.back = d.front

Prices(d) == [bid |-> d.bid, ask |-> d.ask]

MarkDirty(s, e, b) == recs' = [recs EXCEPT ![s][e][b].front = @ + 2]

MarkClean(s, e, b) ==
  /\ recs' = [recs EXCEPT ![s][e][b].back = recs[s][e][b].front]
  /\ last' = [last EXCEPT ![s][e] = Prices(recs[s][e][b])]

-----------------------------------------------------------------------------
(* A whole market: mark_all_dirty, define_market, mark_all_clean           *)

NewMarket(s, m) ==
  /\ stock' = s
  /\ mid' = m
  /\ ex' = 0
  /\ pc' = "dirty"

(* The loop over the exchanges goes on to ex_off <= NUM_STOCK_EXCHANGE.    *)
DirtyPastEnd ==
  LET b == Older(recs[stock][ex]) IN
  /\ pc = "dirty"
  /\ MarkDirty(stock, ex, b)
  /\ list' = [list EXCEPT ![ex] = b]
  /\ ex' = (ex + 1) % (NumEx + 1)
  /\ pc' = IF ex = NumEx THEN "define" ELSE "dirty"
  /\ UNCHANGED <<heartbeats, initial, stock, mid, tradeVars, starts, last>>

Dirty ==
  LET b == Older(recs[stock][ex]) IN
  /\ pc = "dirty"
  /\ MarkDirty(stock, ex, b)
  /\ list' = [list EXCEPT ![ex] = b]
  /\ ex' = (ex + 1) % NumEx
  /\ pc' = IF ex + 1 = NumEx THEN "define" ELSE "dirty"
  /\ UNCHANGED <<heartbeats, initial, stock, mid, tradeVars, starts, last>>

(* The NBBO is as narrow as the first venue.                               *)
Around(e) ==
  LET half == IF e = 0 THEN 1 ELSE e
  IN [bid |-> (mid - half - Shift) % PriceMod,
      ask |-> (mid + half - Shift) % PriceMod]

Define ==
  LET q == Around(ex) IN
  /\ pc = "define"
  /\ recs' = [recs EXCEPT ![stock][ex][list[ex]].bid = q.bid,
                          ![stock][ex][list[ex]].ask = q.ask]
  /\ IF ex + 1 = NumEx THEN ex' = 1 /\ pc' = "clean"
                       ELSE ex' = ex + 1 /\ pc' = "define"
  /\ UNCHANGED <<heartbeats, initial, stock, mid, list, tradeVars, starts, last>>

(* The NBBO is marked last, and the list is emptied.  init_snapshot goes   *)
(* on with the next ticker.                                                *)
Clean ==
  /\ pc = "clean"
  /\ MarkClean(stock, ex, list[ex])
  /\ IF ex # 0
       THEN /\ ex' = (ex + 1) % NumEx
            /\ UNCHANGED <<pc, initial, stock, mid, list>>
       ELSE /\ list' = [e \in Exchanges |-> Null]
            /\ IF initial /\ stock + 1 < NumStocks
                 THEN NewMarket(stock + 1, StartMid) /\ UNCHANGED initial
                 ELSE /\ pc' = IF initial THEN "beat" ELSE "stop"
                      /\ initial' = FALSE
                      /\ UNCHANGED <<stock, ex, mid>>
  /\ UNCHANGED <<heartbeats, tradeVars, starts>>

-----------------------------------------------------------------------------
(* random_sleep_random_update_security                                     *)

(* Conversion of an unsigned price to int.                                 *)
AsInt(x) ==
  LET u == x % PriceMod IN IF u < PriceMod \div 2 THEN u ELSE u - PriceMod

(* The test of the offer without that of the bid.                          *)
CrossesBid(q, nbbo) == q.ask % PriceMod < nbbo.bid

(* The new quote of a venue is outside the NBBO.                           *)
Crosses(q, nbbo) ==
  q.bid % PriceMod > nbbo.ask \/ q.ask % PriceMod < nbbo.bid

(* (new_bid + new_ask) / 2 as define_market takes it: the sum is an int    *)
(* and wraps as one, half of it is cut off towards zero, and is converted  *)
(* to unsigned.                                                            *)
MidOf(q) ==
  LET sum == AsInt(q.bid + q.ask)
  IN (IF sum < 0 THEN -((-sum) \div 2) ELSE sum \div 2) % PriceMod

(* A stock, a venue and a new quote are drawn from the older buffers.      *)
Trade(s, e, draw, spread) ==
  LET venue == recs[s][e]
      nbbo  == recs[s][0]
      old   == venue[Older(venue)]
      q     == [bid |-> AsInt(old.bid + draw - 3), ask |-> AsInt(old.bid + spread)]
      crossed == Crosses(q, nbbo[Older(nbbo)])
      ordered == q.bid % PriceMod < q.ask % PriceMod
  IN
  /\ pc = "trade"
  /\ q.bid > 0
  /\ \/ /\ crossed /\ ordered
        /\ NewMarket(s, MidOf(q))
        /\ UNCHANGED tradeVars
     \/ /\ ~crossed
        /\ stock' = s
        /\ ex' = e
        /\ nbboPd' = Older(nbbo)
        /\ pd' = Older(venue)
        /\ quote' = q
        /\ nbboDirty' = FALSE
        /\ pc' = "markNbbo"
        /\ UNCHANGED mid
  /\ UNCHANGED <<recs, heartbeats, initial, list, starts, last>>

(* There is no trade, or the quote drawn leads to nothing.                 *)
NoTrade ==
  /\ pc = "trade"
  /\ pc' = "stop"
  /\ UNCHANGED <<recs, heartbeats, initial, marketVars, tradeVars, starts, last>>

(* The NBBO is marked if the prices that are about to be replaced are      *)
(* better than it.                                                         *)
MarkNbbo ==
  LET old  == recs[stock][ex][pd]
      nbbo == recs[stock][0][nbboPd]
      mark == old.bid > nbbo.bid \/ old.ask < nbbo.ask
  IN
  /\ pc = "markNbbo"
  /\ nbboDirty' = mark
  /\ IF mark THEN MarkDirty(stock, 0, nbboPd) ELSE UNCHANGED recs
  /\ pc' = "markPd"
  /\ UNCHANGED <<heartbeats, initial, marketVars, nbboPd, pd, quote, starts, last>>

(* The buffer of the venue is not marked.                                  *)
MarkPdForgotten ==
  /\ pc = "markPd"
  /\ pc' = "write"
  /\ UNCHANGED <<recs, heartbeats, initial, marketVars, tradeVars, starts, last>>

MarkPd ==
  /\ pc = "markPd"
  /\ MarkDirty(stock, ex, pd)
  /\ pc' = "write"
  /\ UNCHANGED <<heartbeats, initial, marketVars, tradeVars, starts, last>>

Write ==
  /\ pc = "write"
  /\ recs' = [recs EXCEPT ![stock][ex][pd].bid = quote.bid % PriceMod,
                          ![stock][ex][pd].ask = quote.ask % PriceMod]
  /\ pc' = "cleanPd"
  /\ UNCHANGED <<heartbeats, initial, marketVars, tradeVars, starts, last>>

CleanPd ==
  /\ pc = "cleanPd"
  /\ MarkClean(stock, ex, pd)
  /\ pc' = "nbboBid"
  /\ UNCHANGED <<heartbeats, initial, marketVars, tradeVars, starts>>

(* The NBBO is brought up to date, marked or not.                          *)
NbboBid ==
  /\ pc = "nbboBid"
  /\ IF recs[stock][ex][pd].bid > recs[stock][0][nbboPd].bid
       THEN recs' = [recs EXCEPT ![stock][0][nbboPd].bid = quote.bid % PriceMod]
       ELSE UNCHANGED recs
  /\ pc' = "nbboAsk"
  /\ UNCHANGED <<heartbeats, initial, marketVars, tradeVars, starts, last>>

NbboAsk ==
  /\ pc = "nbboAsk"
  /\ IF recs[stock][ex][pd].ask < recs[stock][0][nbboPd].ask
       THEN recs' = [recs EXCEPT ![stock][0][nbboPd].ask = quote.ask % PriceMod]
       ELSE UNCHANGED recs
  /\ pc' = "nbboClean"
  /\ UNCHANGED <<heartbeats, initial, marketVars, tradeVars, starts, last>>

NbboClean ==
  /\ pc = "nbboClean"
  /\ IF nbboDirty THEN MarkClean(stock, 0, nbboPd) ELSE UNCHANGED <<recs, last>>
  /\ pc' = "stop"
  /\ UNCHANGED <<heartbeats, initial, marketVars, tradeVars, starts>>

-----------------------------------------------------------------------------
(* main of the server                                                      *)

(* A server is started, on a new segment or on the one it finds, and calls *)
(* init_snapshot.                                                          *)
Begin ==
  /\ pc \in {"off", "dead"}
  /\ starts < MaxStarts
  /\ starts' = starts + 1
  /\ initial' = TRUE
  /\ list' = [e \in Exchanges |-> Null]
  /\ NewMarket(0, StartMid)
  /\ UNCHANGED <<recs, heartbeats, tradeVars, last>>

Beat ==
  /\ pc = "beat"
  /\ heartbeats < MaxBeats
  /\ heartbeats' = heartbeats + 1
  /\ pc' = "trade"
  /\ UNCHANGED <<recs, initial, marketVars, tradeVars, starts, last>>

(* The flag stop_now is looked at, which a signal sets.                    *)
Stop(stop) ==
  /\ pc = "stop"
  /\ pc' = IF stop THEN "off" ELSE "beat"
  /\ UNCHANGED <<recs, heartbeats, initial, marketVars, tradeVars, starts, last>>

(* The server is killed.                                                   *)
Crash ==
  /\ pc \notin {"off", "dead"}
  /\ starts < MaxStarts
  /\ pc' = "dead"
  /\ UNCHANGED <<recs, heartbeats, initial, marketVars, tradeVars, starts, last>>

-----------------------------------------------------------------------------
Market == Dirty \/ Define \/ Clean

Quote == MarkNbbo \/ MarkPd \/ Write \/ CleanPd \/ NbboBid \/ NbboAsk \/ NbboClean

Next ==
  \/ Market \/ Quote
  \/ Begin \/ Beat \/ NoTrade
  \/ \E s \in Stocks, e \in Exchanges \ {0}, d \in Draws, p \in Spreads :
       Trade(s, e, d, p)
  \/ \E stop \in BOOLEAN : Stop(stop)
  \/ Crash

Spec == Init /\ [][Next]_vars

-----------------------------------------------------------------------------
Price == 0 .. PriceMod-1
Quotes == [bid : Price, ask : Price]

TypeOK ==
  /\ \A s \in Stocks, e \in Exchanges, b \in Buffers :
       /\ Prices(recs[s][e][b]) \in Quotes
       /\ recs[s][e][b].front \in Nat /\ recs[s][e][b].back \in Nat
  /\ heartbeats \in 0 .. MaxBeats
  /\ pc \in {"off", "dead", "dirty", "define", "clean", "beat", "trade", "stop",
             "markNbbo", "markPd", "write", "cleanPd", "nbboBid", "nbboAsk",
             "nbboClean"}
  /\ initial \in BOOLEAN
  /\ stock \in Stocks
  /\ ex \in Exchanges
  /\ mid \in Price
  /\ list \in [Exchanges -> Buffers \cup {Null}]
  /\ nbboPd \in Buffers \cup {Null}
  /\ pd \in Buffers \cup {Null}
  /\ quote.bid \in 0 .. PriceMod \div 2 /\ quote.ask \in 0 .. PriceMod \div 2
  /\ nbboDirty \in BOOLEAN
  /\ starts \in 0 .. MaxStarts
  /\ last \in [Stocks -> [Exchanges -> Quotes]]

(* The point of the two buffers: whenever a reader looks, and wherever a   *)
(* server was killed, the newer buffer is clean or else the older one is,  *)
(* and it holds the prices that were marked clean last.  Only a server     *)
(* that was started again may spoil that, and only until it has returned   *)
(* from init_snapshot: it dirties the clean buffer beside a buffer that a  *)
(* crash left dirty.                                                       *)
LastMarketKept ==
  (initial /\ starts > 1) \/
  \A s \in Stocks, e \in Exchanges :
    LET r == recs[s][e]
        b == IF IsClean(r[Newer(r)]) THEN Newer(r) ELSE Older(r)
    IN IsClean(r[b]) /\ Prices(r[b]) = last[s][e]

(* A reader that finds a buffer clean before and after it copies it has    *)
(* prices of one market: they change only while the buffer is dirty.  The  *)
(* code keeps this for the venues, and for the newer buffer of the NBBO;   *)
(* the older buffer of the NBBO it changes without a mark, when the new    *)
(* quote beats it and the replaced one did not.                            *)
CleanStable ==
  [][\A s \in Stocks, e \in Exchanges, b \in Buffers :
       LET d == recs[s][e][b] IN
       Prices(recs'[s][e][b]) # Prices(d) /\ IsClean(d) =>
         e = 0 /\ b = Older(recs[s][0])]_vars

(* init_snapshot fills one buffer of each record and the first quotes are  *)
(* drawn from the other one.  No quote is built on a blank buffer, nor     *)
(* compared with one: the stock gets a whole new market then.              *)
BlankNeverQuoted ==
  pc \in {"markNbbo", "markPd"} =>
    /\ Prices(recs[stock][ex][pd]) # NoPrices
    /\ Prices(recs[stock][0][nbboPd]) # NoPrices

=============================================================================
