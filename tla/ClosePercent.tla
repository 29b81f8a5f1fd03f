---------------------------- MODULE ClosePercent ----------------------------
(***************************************************************************)
(* mClosePercent: the time a round has spent in ESTABLISH, in percent of    *)
(* the last round.  Both votes of updateOurPositions, on the disputed       *)
(* transactions and on the close time, ask for more as it grows.            *)
(***************************************************************************)
EXTENDS LedgerTiming

CONSTANT Percents   \* the values of mClosePercent that are looked at

ASSUME PercentsAssumption == Percents \subseteq Nat

VARIABLE percent    \* mClosePercent

\* stateEstablish.
PercentGrows(p) ==
  /\ p > percent
  /\ percent' = p
=============================================================================
