------------------------------ MODULE WireDates ------------------------------
(***************************************************************************)
(* Dates on their way through bcap_common.c.  On Linux a DATE is a time_t, *)
(* a number of seconds; a packet carries days since 1899, as a double.     *)
(*                                                                         *)
(* A double is counted in the steps that it has between two days, so that  *)
(* the quotient is rounded to the nearest step on its way out.  It is cut  *)
(* off to whole seconds on its way in.  Doubles below the epoch are finer, *)
(* and so are the products in between: their rounding is left out.         *)
(***************************************************************************)
EXTENDS Integers

CONSTANTS
    Day,            \* _SEC_ONEDAY, 86400
    Epoch,          \* _TIME_DIFFERENCE, 25569 days
    Steps           \* values that a double has between two days, a power of two

(* A step of a double, 2^-37 days at the dates of this century, is less than two
   seconds. *)
ASSUME DateAssumption == {Day, Epoch, Steps} \subseteq Nat \ {0} /\ Day < 2 * Steps

VntDate2Bytary(t) == IF t > 0 THEN Epoch * Steps + (2 * t * Steps + Day) \div (2 * Day) ELSE 0
Bytary2VntDate(d) == IF d > 0 THEN ((d - Epoch * Steps) * Day) \div Steps ELSE 0
=============================================================================
