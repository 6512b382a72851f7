------------------------------ MODULE MCPanelColor ------------------------------
(* Panels of whole groups of six columns, and of some more; rows for every
   third of the filter, and an odd line. *)
EXTENDS PanelColor

SmallPanels == {<<6, 8>>, <<8, 6>>, <<10, 7>>, <<12, 8>>, <<16, 6>>, <<24, 4>>}
(* Pictures to tell apart rows, columns and channels; picture 0 has the largest
   values. *)
SomeSample(p, c, row, col) ==
  IF p = 0 THEN 255
  ELSE (p * (37 * row + 11 * col)
          + (CASE c = "R" -> 0 [] c = "G" -> 83 [] c = "B" -> 166)) % 256
SomePictures == 0..12
OnePicture == {1}
AllFormats == {RGBA_8888, RGB_565}
Only565 == {RGB_565}
===============================================================================
