------------------------------ MODULE BeatMath ------------------------------
(***************************************************************************)
(* Rounding and quantum alignment (src/crates/tactus/src/math.rs), on      *)
(* integers without bounds: the code's intermediate products are of 128    *)
(* bits.                                                                   *)
(***************************************************************************)
EXTENDS Integers

(* To nearest, ties away from zero. *)
RoundDiv(num, den) ==
    IF num >= 0 THEN (num + den \div 2) \div den
    ELSE -((-num + den \div 2) \div den)

Phase(b, q) == IF q <= 0 THEN 0 ELSE b % q

(* The least value from x on that has the phase of t. *)
AlignUp(x, t, q) == IF q <= 0 THEN x ELSE x + ((Phase(t, q) - Phase(x, q)) % q)

(* The nearest such value; of two, the lower. *)
AlignNear(x, t, q) == IF q <= 0 THEN x ELSE AlignUp(x - q \div 2, t, q)
=============================================================================
