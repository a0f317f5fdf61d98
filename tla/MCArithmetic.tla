----------------------------- MODULE MCArithmetic -----------------------------
(* An instance of Arithmetic for TLC.                                        *)
EXTENDS NativeArithmetic

\* 64 bits are scaled to 5, and the other widths in order.
Scaled == (8 :> 2) @@ (16 :> 3) @@ (32 :> 4) @@ (64 :> 5)

\* The first two codepoints are encoded in themselves; the last needs two units
\* in UTF-16.
Utf8Scaled  == (0 :> 0) @@ (1 :> 1) @@ (2 :> 6) @@ (3 :> 7)
Utf16Scaled == (0 :> 0) @@ (1 :> 1) @@ (2 :> 2) @@ (3 :> 7)

\* 1.0 has no bits set among its lowest, as in the formats of IEEE 754.
SomeOutcomes ==
  {[f32 |-> 0, f64 |-> 0, int |-> 1, holds |-> FALSE],
   [f32 |-> 4, f64 |-> 10, int |-> 31, holds |-> TRUE]}

ASSUME ArithmeticAssumption
=============================================================================
