-------------------------------- MODULE MCDither --------------------------------
(* Few pixels, at the levels where the shares, the threshold and the clipping
   change: ink on paper, gray beside ink, gray beside paper, small errors. *)
EXTENDS Dither

BothModes == {"y4", "y1"}
InkAndGrays == {{0, 255}, {3, 127}, {100, 240}, {15, 30}}
===============================================================================
