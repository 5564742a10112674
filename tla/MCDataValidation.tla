--------------------------- MODULE MCDataValidation ---------------------------
(* Instances of DataValidation for TLC. *)
EXTENDS DataValidation, TLC

Made(price, open, high, low) ==
  [ price |-> price, open |-> open, high |-> high, low |-> low ]

\* Three candles that are consistent, and one for every way not to be: a price
\* that is none, one above its high or below its low, an open above or below.
Mixed ==
  { Made(1, None, None, None), Made(2, 1, 3, 1), Made(2, None, 2, None),
    Made(0, None, None, None), Made(1, 0, None, None),
    Made(3, 2, 2, 1), Made(1, 2, 3, 2), Made(2, 3, 2, 1), Made(2, 1, 3, 2) }

\* On the grid and off it, the last one in the future.
Times == {2, 3, 4, 6, 7}

Symmetry == Permutations(Series)
=============================================================================
