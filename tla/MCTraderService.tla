-------------------------- MODULE MCTraderService --------------------------
(* TraderService for TLC: cash for one lot and little more at the lowest    *)
(* price, one lot of each symbol; the next price is within the margin, the  *)
(* highest is beyond it.                                                    *)
EXTENDS TraderService

MCDeposit == [a \in Asset |-> IF a = Cash THEN 20 * Size + Size \div 2 ELSE Size]
MCPayouts == [a \in Asset |-> IF a = Cash THEN {20 * Size} ELSE {}]
=============================================================================
