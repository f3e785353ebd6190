---------------------------- MODULE MCPriceServer ----------------------------
(***************************************************************************)
(* PriceServer as TLC runs it.  Its control does not depend on the prices, *)
(* so that two families of behaviours are enough.  In one all prices are   *)
(* the same, and servers and readers are free.  In the other the prices of *)
(* the first stock take all jumps and quotes, for a server that is alone   *)
(* and is not killed; it ends after MaxRounds rounds.  A reader is in the  *)
(* first family only, where nothing that runs is ever held back: fairness  *)
(* keeps its sense.                                                        *)
(***************************************************************************)
EXTENDS PriceServer

CONSTANT MaxRounds   (* bound: heartbeats of a server that is alone        *)

SamePrice(d) == d.bid = d.ask /\ d.bid \in {0, Start}
SamePrices(os) == \A o \in os : SamePrice(recs[o])

(* No price has moved or spread.                                           *)
Flat ==
  /\ SamePrices(Offsets)
  /\ SamePrice(pd) /\ SamePrice(best)
  /\ midpoint \in {0, Start}

(* One server, which moves the prices of the first stock only.             *)
Alone ==
  /\ rpc = "idle"
  /\ starts = 1 /\ spc # "dead"
  /\ beats <= MaxRounds
  /\ SamePrices(Offsets \ {Offset(0, i) : i \in 0 .. NumVenue-1})
  /\ stock # 0 => midpoint = Start /\ (spc = "seal" => SamePrice(pd))

(* The server that was alone has stopped, or reached its bound.            *)
Ended ==
  /\ ~Flat
  /\ spc = "off" \/ (spc = "beat" /\ beats = MaxRounds)
  /\ UNCHANGED vars

MCNext ==
  \/ Next /\ (Flat' \/ Alone')
  \/ Ended

MCSpec == Init /\ [][MCNext]_vars /\ Fairness

=============================================================================
