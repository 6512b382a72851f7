--------------------------------- MODULE Dither ---------------------------------
(***************************************************************************)
(* Error diffusion: what the compositor thread does to a gray frame before *)
(* it goes to the panel.  "y4" leaves sixteen levels                       *)
(* (gray256_to_gray16_dither), "y1", for A2, black and white               *)
(* (gray256_to_gray2_dither).  The error of a pixel goes to the next one   *)
(* (v0) and to three of the next line, through two lines of accumulators   *)
(* that swap roles after every line.                                       *)
(*                                                                         *)
(* One step is one pixel.  The lines have one place more than is           *)
(* allocated, to see what is added there.  A frame is any sequence of      *)
(* gray levels.                                                            *)
(***************************************************************************)
EXTENDS Integers

CONSTANTS
  panel_w, panel_h,  \* ebc_buf_info
  word,              \* pixels in a word of the panel: 8
  Modes,             \* subset of {"y4", "y1"}
  Palettes           \* sets of gray levels, one for each kind of frame

(* A width of whole words: for another one the rows of the RGA buffer are
   shorter than those of the panel. *)
ASSUME DitherConstants ==
  /\ panel_w \in Nat \ {0}
  /\ word \in Nat \ {0} /\ panel_w % word = 0
  /\ panel_h \in Nat \ {0}
  /\ Modes \subseteq {"y4", "y1"}
  /\ \A p \in Palettes : p \subseteq 0..255

VARIABLES
  mode,
  palette,        \* the levels of this frame
  h, i,           \* line and pixel
  res0, res1,     \* accumulators of this line and of the next
  v0,             \* error handed to the next pixel
  source, g_temp, shown  \* history: the last pixel, with errors, as shown

vars == <<mode, palette, h, i, res0, res1, v0, source, g_temp, shown>>

Line == 0..panel_w

Zeroes == [j \in Line |-> 0]

Init ==
  /\ mode \in Modes /\ palette \in Palettes
  /\ h = 0 /\ i = 0
  /\ res0 = Zeroes /\ res1 = Zeroes
  /\ v0 = 0
  /\ source = 0 /\ g_temp = 0 /\ shown = 0
-------------------------------------------------------------------------------
(* Pixels of a line: for A2 the rectangle ends one pixel early, and takes an
   even number. *)
w == IF mode = "y4" THEN panel_w ELSE (panel_w - 1) - ((panel_w - 1) % 2)

CLIP(x) == IF x > 255 THEN 255 ELSE x

threshold == 128

(* g_temp & 0xf0 *)
Level16(g) == 16 * (g \div 16)

(* Variant: white is 255 when the error is taken. *)
Level2_Full(g) == IF g >= threshold THEN 255 ELSE 0

Level2(g) == IF g >= threshold THEN 240 ELSE 0

Shown(g) == IF mode = "y4" THEN Level16(g) ELSE Level2(g)

(* Variant: the shift is one short. *)
Share_Double(e, k) == (e * k) \div 8

(* (e * k) >> 4, which rounds down. *)
Share(e, k) == (e * k) \div 16

(* Variant: the pixel below gets seven sixteenths too. *)
Spread_Seven(e) ==
  [j \in Line |->
     res1[j] + (IF j = i - 1 THEN Share(e, 3) ELSE 0)
             + (IF j = i THEN Share(e, 7) ELSE 0)
             + (IF j = i + 1 /\ (mode = "y1" \/ i < w - 1)
                  THEN Share(e, 1) ELSE 0)]

(* The next line.  There is no pixel left of the first one, and for "y4"
   nothing is added right of the last one. *)
Spread(e) ==
  [j \in Line |->
     res1[j] + (IF j = i - 1 THEN Share(e, 3) ELSE 0)
             + (IF j = i THEN Share(e, 5) ELSE 0)
             + (IF j = i + 1 /\ (mode = "y1" \/ i < w - 1)
                  THEN Share(e, 1) ELSE 0)]

(* Variant: the error taken is left in its line. *)
Cleared_Not == res0

(* res0[i] = 0 *)
Cleared == [res0 EXCEPT ![i] = 0]

(* One pixel of Luma8bit_to_4bit_row_16 or of Luma8bit_to_4bit_row_2. *)
Pixel ==
  /\ h < panel_h /\ i < w
  /\ source' \in palette
  /\ g_temp' = CLIP(source' + res0[i] + v0)
  /\ shown' = Shown(g_temp')
  /\ LET e == g_temp' - shown'
     IN  /\ v0' = Share(e, 7)
         /\ res1' = Spread(e)
  /\ res0' = Cleared
  /\ i' = i + 1
  /\ UNCHANGED <<mode, palette, h>>

(* The next line, with the accumulators swapped; v0 starts from 0. *)
NextLine ==
  /\ h < panel_h /\ i = w
  /\ h' = h + 1 /\ i' = 0
  /\ res0' = res1 /\ res1' = res0
  /\ v0' = 0
  /\ UNCHANGED <<mode, palette, source, g_temp, shown>>

Next == Pixel \/ NextLine

Spec == Init /\ [][Next]_vars
-------------------------------------------------------------------------------
(* The lines are read and written where they are allocated, and a level fits
   the four bits it is packed into. *)
TypeOK ==
  /\ mode \in {"y4", "y1"}
  /\ palette \subseteq 0..255
  /\ h \in 0..panel_h /\ i \in 0..w
  /\ res0 \in [Line -> Int] /\ res1 \in [Line -> Int]
  /\ res0[panel_w] = 0 /\ res1[panel_w] = 0
  /\ v0 \in Int /\ g_temp \in Int
  /\ source \in 0..255
  /\ shown \in {16 * n : n \in 0..15}

(* With sixteen levels a pixel is shown with the level it has or with the next
   one: the errors of four neighbours together are less than a level. *)
WithinOneLevel ==
  mode = "y4" => shown \in {16 * (source \div 16), 16 * (source \div 16) + 16}

(* In A2 the errors of the neighbours together do not turn a black pixel, or a
   white one: text keeps its shape. *)
InkStaysInk ==
  mode = "y1" => /\ source <= 3 => shown = 0
                 /\ source >= 240 => shown = 240

(* Inside of a line all of the error of a pixel that is not clipped goes to
   its neighbours, but for what the four shares lose when they are rounded. *)
ErrorIsShared ==
  [][i' = i + 1 /\ i \in 1..(w - 2) /\ g_temp' < 255 =>
       (g_temp' - shown') - v0'
         - (res1'[i - 1] - res1[i - 1]) - (res1'[i] - res1[i])
         - (res1'[i + 1] - res1[i + 1]) \in 0..3]_vars
===============================================================================
