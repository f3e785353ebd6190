----------------------------- MODULE PriceServer -----------------------------
(***************************************************************************)
(* The price server of smps/ and one run after the other of the program    *)
(* print_snapshot beside it.  They share the snapshot, an array of         *)
(* NumVenue records per stock, of which the first is the national best bid *)
(* and offer (NBBO) and the others are the markets of the venues, and the  *)
(* heartbeat counter.                                                      *)
(*                                                                         *)
(* Every record is an IOGuard.  What module IOGuard shows of one is used   *)
(* here: a write takes effect at once, when the back guard is stored, and  *)
(* a reader waits while the guards differ (its num_try notwithstanding).   *)
(* The server is the only writer and reads only what it has written, so    *)
(* that the delay of its stores, which keep their order, cannot be told    *)
(* from the server being slower.                                           *)
(***************************************************************************)
EXTENDS Integers, FiniteSetsExt

CONSTANTS
  NumStocks,  (* number of tickers                                         *)
  NumVenue,   (* NUM_STOCK_EXCHANGE, the NBBO included                     *)
  PriceMod,   (* 2^w for the w bits of a price, 2^32                       *)
  Start,      (* midpoint of the first market, 1000000                     *)
  MaxJump,    (* a midpoint moves by at most this, 5                       *)
  MaxSpread,  (* a quote is at most this far from the midpoint, 9          *)
  MaxBeats,   (* bound: number of heartbeats of all servers together       *)
  MaxStarts   (* bound: number of times a server is started                *)

ASSUME PriceConstants ==
  /\ NumStocks \in Nat \ {0}
  /\ NumVenue \in Nat \ {0, 1}
  /\ PriceMod \in Nat \ {0}
  /\ Start \in 0 .. PriceMod-1
  /\ MaxJump \in Nat
  /\ MaxSpread \in Nat
  /\ MaxBeats \in Nat
  /\ MaxStarts \in Nat

VARIABLES
  recs,       (* the snapshot: a price_datum per offset                    *)
  locked,     (* the guards of these records differ                        *)
  heartbeat,  (* *heartbeats                                               *)
  spc,        (* next step of the server                                   *)
  initial,    (* the server is in init_snapshot                            *)
  stock,      (* the stock whose market it is changing                     *)
  venue,      (* i, the record of the stock it writes next, 0 for the NBBO *)
  midpoint,   (* midpoint                                                  *)
  pd,         (* pd, the market of the venue                               *)
  best,       (* nbbo_pd, the NBBO of the venues written so far            *)
  starts,     (* history: how often a server was started                   *)
  beats,      (* history: number of heartbeats of all servers              *)
  rpc,        (* next step of print_snapshot                               *)
  roff,       (* off, the record it prints next                            *)
  rtime,      (* the time of each record it printed                        *)
  rbegin,     (* begin_heartbeats                                          *)
  report,     (* the number of heartbeats it reported, 0 for a server that *)
              (* might be dead                                             *)
  calm,       (* history: no server was in init_snapshot since it started  *)
  rbeats      (* history: beats when it started, and the number of them    *)
              (* since then once it has ended                              *)

shared     == <<recs, locked, heartbeat>>
placeVars  == <<stock, venue, midpoint>>
marketVars == <<pd, best>>
serverVars == <<spc, initial, placeVars, marketVars, starts, beats>>
reportVars == <<rpc, roff, rtime, rbegin, report, rbeats>>
readerVars == <<reportVars, calm>>
vars == <<shared, serverVars, readerVars>>

Stocks  == 0 .. NumStocks-1
Offsets == 0 .. NumStocks * NumVenue - 1

(* pnt_nbbo + i of stock s.                                                *)
Offset(s, i) == s * NumVenue + i

(* A price_datum.  Of the sizes only the venue they come from is kept.     *)
Datum(t, b, bv, a, av) ==
  [time |-> t, bid |-> b, bidOf |-> bv, ask |-> a, askOf |-> av]

(* A segment just created by shmget.                                       *)
Zero == Datum(0, 0, 0, 0, 0)

(* No server and no print_snapshot have run yet.                           *)
Init ==
  /\ recs = [o \in Offsets |-> Zero]
  /\ locked = [o \in Offsets |-> FALSE]
  /\ heartbeat = 0
  /\ spc = "off"
  /\ initial = FALSE
  /\ stock = 0
  /\ venue = 1
  /\ midpoint = 0
  /\ pd = Zero
  /\ best = Zero
  /\ starts = 0
  /\ beats = 0
  /\ rpc = "idle"
  /\ roff = 0
  /\ rtime = [o \in Offsets |-> 0]
  /\ rbegin = 0
  /\ report = 0
  /\ calm = TRUE
  /\ rbeats = 0

-----------------------------------------------------------------------------
(* calc_new_market_with_random_price_change                                *)

(* It is called for stock s with midpoint m, and moves that by d first.    *)
NewMarket(s, m, d) ==
  /\ stock' = s
  /\ midpoint' = (m + d) % PriceMod
  /\ venue' = 1
  /\ spc' = "lock"

(* A market of the venue: b below and a above the midpoint.                *)
Quote(b, a) ==
  Datum(IF initial THEN 0 ELSE heartbeat,
        (midpoint - b) % PriceMod, venue, (midpoint + a) % PriceMod, venue)

(* nbbo_pd that is never compared with the venues after the first.         *)
BestFirstOnly(q) == IF venue = 1 THEN q ELSE best

(* nbbo_pd after the market q of the venue.                                *)
BestWith(q) ==
  IF venue = 1 THEN q
  ELSE [best EXCEPT !.bid   = IF q.bid > best.bid THEN q.bid ELSE @,
                    !.bidOf = IF q.bid > best.bid THEN venue ELSE @,
                    !.ask   = IF q.ask < best.ask THEN q.ask ELSE @,
                    !.askOf = IF q.ask < best.ask THEN venue ELSE @]

(* The market of the venue is drawn, and copy_to_rhs increments the front  *)
(* guard of its record.                                                    *)
SLockVenue(b, a) ==
  /\ spc = "lock"
  /\ venue # 0
  /\ pd' = Quote(b, a)
  /\ locked' = [locked EXCEPT ![Offset(stock, venue)] = TRUE]
  /\ spc' = "seal"
  /\ UNCHANGED <<recs, heartbeat, initial, placeVars, best, starts, beats,
                 readerVars>>

(* copy_to_rhs is done with the venue, and nbbo_pd is brought up to date.  *)
SSealVenue ==
  /\ spc = "seal"
  /\ venue # 0
  /\ recs' = [recs EXCEPT ![Offset(stock, venue)] = pd]
  /\ locked' = [locked EXCEPT ![Offset(stock, venue)] = FALSE]
  /\ best' = BestWith(pd)
  /\ venue' = (venue + 1) % NumVenue
  /\ spc' = "lock"
  /\ UNCHANGED <<heartbeat, initial, stock, midpoint, pd, starts, beats,
                 readerVars>>

(* copy_to_rhs of the NBBO, after all the venues.                          *)
SLockNbbo ==
  /\ spc = "lock"
  /\ venue = 0
  /\ locked' = [locked EXCEPT ![Offset(stock, 0)] = TRUE]
  /\ spc' = "seal"
  /\ UNCHANGED <<recs, heartbeat, initial, placeVars, marketVars, starts, beats,
                 readerVars>>

(* The NBBO of init_snapshot, without the stocks after the first.          *)
SSealNbboOneStock ==
  /\ spc = "seal"
  /\ venue = 0
  /\ recs' = [recs EXCEPT ![Offset(stock, 0)] = best]
  /\ locked' = [locked EXCEPT ![Offset(stock, 0)] = FALSE]
  /\ spc' = IF initial THEN "clear" ELSE "stop"
  /\ UNCHANGED <<heartbeat, initial, placeVars, marketVars, starts, beats,
                 readerVars>>

(* It is done; init_snapshot calls it for the next stock.                  *)
SSealNbbo ==
  /\ spc = "seal"
  /\ venue = 0
  /\ recs' = [recs EXCEPT ![Offset(stock, 0)] = best]
  /\ locked' = [locked EXCEPT ![Offset(stock, 0)] = FALSE]
  /\ IF initial /\ stock + 1 < NumStocks
       THEN \E d \in -MaxJump .. MaxJump : NewMarket(stock + 1, Start, d)
       ELSE /\ spc' = IF initial THEN "clear" ELSE "stop"
            /\ UNCHANGED placeVars
  /\ UNCHANGED <<heartbeat, initial, marketVars, starts, beats, readerVars>>

-----------------------------------------------------------------------------
(* main of the server                                                      *)

(* A server is started, on a new segment or on the one it finds.           *)
SStart(d) ==
  /\ spc \in {"off", "dead"}
  /\ starts < MaxStarts
  /\ starts' = starts + 1
  /\ initial' = TRUE
  /\ calm' = FALSE
  /\ NewMarket(0, Start, d)
  /\ UNCHANGED <<shared, marketVars, beats, reportVars>>

(* init_snapshot has returned, *heartbeats = 0.                            *)
SClear ==
  /\ spc = "clear"
  /\ initial' = FALSE
  /\ heartbeat' = 0
  /\ spc' = "beat"
  /\ UNCHANGED <<recs, locked, placeVars, marketVars, starts, beats, readerVars>>

(* ++*heartbeats.                                                          *)
SBeat ==
  /\ spc = "beat"
  /\ beats < MaxBeats
  /\ heartbeat' = heartbeat + 1
  /\ beats' = beats + 1
  /\ spc' = "read"
  /\ UNCHANGED <<recs, locked, initial, placeVars, marketVars, starts,
                 readerVars>>

(* The midpoint without the parentheses of the sum.                        *)
MidOfHalf(s) ==
  (recs[Offset(s, 0)].bid + (recs[Offset(s, 0)].ask + 1) \div 2) % PriceMod

(* mid = (pd.bid + pd.ask + 1) / 2 of the NBBO of a stock.                 *)
Mid(s) ==
  ((recs[Offset(s, 0)].bid + recs[Offset(s, 0)].ask + 1) % PriceMod) \div 2

(* The NBBO of stock s is read, which waits while its guards differ.       *)
SRead(s, d) ==
  /\ spc = "read"
  /\ ~locked[Offset(s, 0)]
  /\ NewMarket(s, Mid(s), d)
  /\ UNCHANGED <<shared, initial, marketVars, starts, beats, readerVars>>

(* The flag stop_now is looked at, which a signal sets.                    *)
SStop(stop) ==
  /\ spc = "stop"
  /\ spc' = IF stop THEN "off" ELSE "beat"
  /\ UNCHANGED <<shared, initial, placeVars, marketVars, starts, beats,
                 readerVars>>

(* The server is killed; what it has stored stays in the segments.         *)
SCrash ==
  /\ spc \notin {"off", "dead"}
  /\ starts < MaxStarts
  /\ spc' = "dead"
  /\ UNCHANGED <<shared, initial, placeVars, marketVars, starts, beats,
                 readerVars>>

-----------------------------------------------------------------------------
(* main of print_snapshot                                                  *)

(* It is started and loads *heartbeats.                                    *)
RBegin ==
  /\ rpc \in {"idle", "done"}
  /\ rbegin' = heartbeat
  /\ roff' = 0
  /\ rtime' = [o \in Offsets |-> 0]
  /\ calm' = ~initial
  /\ rbeats' = beats
  /\ rpc' = "print"
  /\ UNCHANGED <<shared, serverVars, report>>

(* print_snapshot from the last record to the first.                       *)
RPrintBackwards ==
  LET last == NumStocks * NumVenue - 1 IN
  /\ rpc = "print"
  /\ ~locked[last - roff]
  /\ rtime' = [rtime EXCEPT ![last - roff] = recs[last - roff].time]
  /\ roff' = (roff + 1) % (last + 1)
  /\ rpc' = IF roff < last THEN "print" ELSE "sleep"
  /\ UNCHANGED <<shared, serverVars, rbegin, report, calm, rbeats>>

(* print_snapshot obtains a record, which waits while its guards differ.   *)
RPrint ==
  /\ rpc = "print"
  /\ ~locked[roff]
  /\ rtime' = [rtime EXCEPT ![roff] = recs[roff].time]
  /\ roff' = (roff + 1) % (NumStocks * NumVenue)
  /\ rpc' = IF roff + 1 \in Offsets THEN "print" ELSE "sleep"
  /\ UNCHANGED <<shared, serverVars, rbegin, report, calm, rbeats>>

(* *heartbeats is loaded again and the difference reported; the program    *)
(* ends.                                                                   *)
REnd ==
  /\ rpc = "sleep"
  /\ report' = heartbeat - rbegin
  /\ rbeats' = beats - rbeats
  /\ rpc' = "done"
  /\ UNCHANGED <<shared, serverVars, roff, rtime, rbegin, calm>>

-----------------------------------------------------------------------------
Round ==
  \/ \E b, a \in 0 .. MaxSpread : SLockVenue(b, a)
  \/ SSealVenue \/ SLockNbbo \/ SSealNbbo

Restart == \E d \in -MaxJump .. MaxJump : SStart(d)

Serve ==
  \/ Round \/ SClear \/ SBeat
  \/ \E s \in Stocks, d \in -MaxJump .. MaxJump : SRead(s, d)
  \/ \E stop \in BOOLEAN : SStop(stop)

Reader == RPrint \/ REnd

Next == Serve \/ Restart \/ SCrash \/ RBegin \/ Reader

Spec == Init /\ [][Next]_vars

(* A running server and a running print_snapshot go on, and a server that  *)
(* was killed is started again.                                            *)
Fairness ==
  /\ WF_vars(Serve) /\ WF_vars(spc = "dead" /\ Restart) /\ WF_vars(Reader)

FairSpec == Spec /\ Fairness

-----------------------------------------------------------------------------
(* The server is between two rounds.                                       *)
Settled == spc \in {"clear", "beat", "read", "stop"}

Venues == 1 .. NumVenue-1

(* Between two rounds the NBBO of every stock is the best bid and the best *)
(* offer of its venues, at the time of their markets and with the sizes of *)
(* the venues that quote them; no crash of an earlier server shows.        *)
NbboIsBest ==
  Settled => \A s \in Stocks :
    LET nbbo == recs[Offset(s, 0)]
        at(v) == recs[Offset(s, v)]
    IN /\ nbbo.bid = Max({at(v).bid : v \in Venues})
       /\ nbbo.ask = Min({at(v).ask : v \in Venues})
       /\ nbbo.bidOf \in Venues /\ at(nbbo.bidOf).bid = nbbo.bid
       /\ nbbo.askOf \in Venues /\ at(nbbo.askOf).ask = nbbo.ask
       /\ \A v \in Venues : at(v).time = nbbo.time

(* No record stays locked once init_snapshot has returned, whatever an     *)
(* earlier server was doing when it was killed, so that the server never   *)
(* waits for itself when it reads an NBBO.                                 *)
HealedByRestart == Settled => \A o \in Offsets : ~locked[o]

(* The price a market is built around moves slowly, by the jump and half   *)
(* the spread at most: every quote of a market is on its own side of the   *)
(* midpoint.                                                               *)
MidpointMovesSlowly ==
  [][\A s \in Stocks : spc = "read" /\ spc' = "lock" /\ stock = s /\ stock' = s =>
       LET step == midpoint' - midpoint
           most == MaxJump + (MaxSpread + 1) \div 2
       IN -most <= step /\ step <= most]_vars

(* Unless a server is started meanwhile, print_snapshot never shows an     *)
(* NBBO that is newer than the market of a venue: the server writes it     *)
(* last and print_snapshot reads it first.                                 *)
NbboNeverAhead ==
  rpc = "sleep" /\ calm =>
    \A s \in Stocks : \A v \in Venues :
      rtime[Offset(s, 0)] <= rtime[Offset(s, v)]

(* What print_snapshot reports as the "number of heartbeats during print"  *)
(* is that, and it says "price server might be dead!" only when there was   *)
(* none.  The code does not keep this: a server that is started meanwhile  *)
(* clears the counter under it.                                            *)
ReportsHeartbeats == rpc = "done" => report = rbeats

(* print_snapshot ends, also when the server is killed in the middle of a  *)
(* record and started again.                                               *)
PrintEnds == rpc = "print" ~> rpc = "done"

=============================================================================
