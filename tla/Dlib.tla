-------------------------------- MODULE Dlib --------------------------------
(***************************************************************************)
(* The decoded-select multiplexers of swrvr_dlib.v (dp_mux3ds, dp_mux4ds,  *)
(* dp_mux5ds).  Every one of them has one active-low select per input and  *)
(* carries the assertion "0in one_cold"; selects that are not one-cold     *)
(* take the case's default arm, an x on every bit of the output.  A select *)
(* vector is written here as the set of the inputs it selects.  The        *)
(* mux3ds of swrvr_clib.v, which the bypass uses, is the same              *)
(* with active-high selects and the assertion "0in one_hot".               *)
(***************************************************************************)

\* The assertion of the library: exactly one input is selected.
OneCold(sel) == \E s \in sel : sel = {s}

\* The values the output may take: the selected input, or any value at all
\* when the selects are not one-cold (x, undefined).
DpMux(sel, in, any) == IF OneCold(sel) THEN {in[s] : s \in sel} ELSE any

\* dp_mux2es has one plain select and is always defined.
DpMux2(sel, in0, in1) == IF sel THEN in1 ELSE in0
=============================================================================
