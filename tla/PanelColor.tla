------------------------------- MODULE PanelColor -------------------------------
(***************************************************************************)
(* The conversion of a frame for a colour panel of type 2.  The panel is a *)
(* gray one behind a colour filter: each place shows one of the three      *)
(* channels, and has four bits; two places share a byte, the left one in   *)
(* the low bits.  Rgb888_to_color_eink2 takes the mean of two by two       *)
(* pixels, Rgb565_to_color_eink2 one pixel, for two by two places.         *)
(*                                                                         *)
(* One step is one iteration of the loop over rows.  Addresses are offsets *)
(* in the driver's buffer.  The specification's parts have names of their  *)
(* own, so that this module and Dither can be extended together.           *)
(***************************************************************************)
EXTENDS Integers, FiniteSets

CONSTANTS
  Sizes,      \* the panels: <<width, height>>
  Formats,    \* the formats of the frame
  Pictures,   \* names of pictures
  Sample(_, _, _, _)  \* of a picture, a channel at a row and a column: a byte

RGBA_8888 == "RGBA_8888"
RGB_565 == "RGB_565"

Channels == {"R", "G", "B"}

(* Two places share a byte: a line has an even number of them. *)
ASSUME ColorConstants ==
  /\ \A s \in Sizes : /\ s[1] \in Nat \ {0} /\ s[1] % 2 = 0
                      /\ s[2] \in Nat \ {0}
  /\ Formats \subseteq {RGBA_8888, RGB_565}
  /\ \A s \in Sizes, p \in Pictures, c \in Channels :
       \A row \in 0..(s[2] - 1), col \in 0..(s[1] - 1) :
         Sample(p, c, row, col) \in 0..255

VARIABLES
  width, height,  \* ebc_buf_info, and the size of the frame
  format,         \* of the frame
  picture,        \* which picture it is
  rows,           \* rows of pixels (RGB 565) or of blocks converted
  dst,            \* the buffer: a byte is <<low four bits, high four bits>>
  beyond          \* history: bytes were written that are not in the buffer

colorVars == <<width, height, format, picture, rows, dst, beyond>>

(* What the buffer held before. *)
Old == <<-1, -1>>

Buffer == 0..((width * height) \div 2 - 1)

ColorInit ==
  /\ \E s \in Sizes : width = s[1] /\ height = s[2]
  /\ format \in Formats
  /\ picture \in Pictures
  /\ rows = 0
  /\ dst = [a \in Buffer |-> Old]
  /\ beyond = FALSE

(* What the frame holds. *)
Channel(c, row, col) == Sample(picture, c, row, col)

(* A pixel as it lies in memory. *)
Word888(row, col) == Channel("R", row, col) + 256 * Channel("G", row, col)
                       + 65536 * Channel("B", row, col)
Word565(row, col) == 2048 * (Channel("R", row, col) \div 8)
                       + 32 * (Channel("G", row, col) \div 4)
                       + Channel("B", row, col) \div 8
-------------------------------------------------------------------------------
(***************************************************************************)
(* Rgb888_to_color_eink2.                                                  *)
(***************************************************************************)
(* Variant: the low bits are not masked. *)
HighNibbles_All(w) == w

(* w & 0x00F0F0F0 *)
HighNibbles(w) ==
  16 * ((w \div 16) % 16) + 4096 * ((w \div 4096) % 16)
    + 1048576 * ((w \div 1048576) % 16)

(* RGB888_AVG_RGB: the channels are added and divided in one word. *)
Average(row, k) ==
  LET s == (HighNibbles(Word888(row, 2 * k))
             + HighNibbles(Word888(row, 2 * k + 1))
             + HighNibbles(Word888(row + 1, 2 * k))
             + HighNibbles(Word888(row + 1, 2 * k + 1))) \div 4
  IN  [R |-> (s \div 16) % 16,
       G |-> (s \div 4096) % 16,
       B |-> (s \div 1048576) % 16]

RB == <<"R", "B">>
GR == <<"G", "R">>
BG == <<"B", "G">>

(* For a row of blocks, its upper and lower line, and a block in it, the
   channels of the two places. *)
Filter888 ==
  << << <<RB, GR, BG>>, <<GR, BG, RB>> >>,
     << <<BG, RB, GR>>, <<RB, GR, BG>> >>,
     << <<GR, BG, RB>>, <<BG, RB, GR>> >> >>

(* The blocks of a row, by threes. *)
Blocks888 == 0..(3 * (width \div 6) - 1)

(* Writes of one row: address and byte. *)
Writes888 ==
  UNION {{LET rgb == Average(2 * rows, k)
              channels == Filter888[(rows % 3) + 1][line][(k % 3) + 1]
          IN  [at |-> rows * width + (line - 1) * (width \div 2) + k,
               byte |-> <<rgb[channels[1]], rgb[channels[2]]>>] :
            line \in {1, 2}} : k \in Blocks888}
-------------------------------------------------------------------------------
(***************************************************************************)
(* Rgb565_to_color_eink2.                                                  *)
(***************************************************************************)
Pixel565(row, col) ==
  [R |-> (Word565(row, col) \div 4096) % 16,
   G |-> (Word565(row, col) \div 128) % 16,
   B |-> (Word565(row, col) \div 2) % 16]

Filter565 ==
  << << <<RB, GR, BG>>, <<GR, BG, RB>> >>,
     << << <<"B", "R">>, RB, <<"G", "B">> >>, <<RB, GR, BG>> >>,
     << <<GR, BG, RB>>, <<BG, RB, GR>> >> >>

(* fb_width / 3 groups and the one or two pixels after the last of them. *)
Columns565 == IF width \div 3 = 0 THEN {} ELSE 0..(width - 1)

(* As ConvertToColorEink2 calls it, fb_width and vir_width are the width of the
   panel, and fb_height its height. *)
Writes565 ==
  UNION {{LET rgb == Pixel565(rows, k)
              channels == Filter565[(rows % 3) + 1][line][(k % 3) + 1]
          IN  [at |-> rows * width + (line - 1) * width + k,
               byte |-> <<rgb[channels[1]], rgb[channels[2]]>>] :
            line \in {1, 2}} : k \in Columns565}
-------------------------------------------------------------------------------
Write(writes) ==
  /\ dst' = [a \in Buffer |-> IF \E w \in writes : w.at = a
                              THEN (CHOOSE w \in writes : w.at = a).byte
                              ELSE dst[a]]
  /\ beyond' = (beyond \/ \E w \in writes : w.at \notin Buffer)
  /\ rows' = rows + 1
  /\ UNCHANGED <<width, height, format, picture>>

Row888 == format = RGBA_8888 /\ rows < height \div 2 /\ Write(Writes888)

Row565 == format = RGB_565 /\ rows < height /\ Write(Writes565)

Done == /\ rows = IF format = RGBA_8888 THEN height \div 2 ELSE height
        /\ UNCHANGED colorVars

ColorNext == Row888 \/ Row565 \/ Done

ColorSpec == ColorInit /\ [][ColorNext]_colorVars
-------------------------------------------------------------------------------
(***************************************************************************)
(* The panel: a place is a column and a line.                              *)
(***************************************************************************)
(* The channel behind the filter: it repeats after three places, and each line
   is the one above moved by one. *)
Filter(px, py) == <<"R", "B", "G">>[((px - py) % 3) + 1]

Place(px, py) == dst[(py * width + px) \div 2][(px % 2) + 1]

(* The upper four bits of a channel. *)
Nibble(c, row, col) == Channel(c, row, col) \div 16

(* The mean of the two by two pixels at a place. *)
Mean(c, px, py) ==
  LET row == 2 * (py \div 2)
      col == 2 * (px \div 2)
  IN  (Nibble(c, row, col) + Nibble(c, row, col + 1)
        + Nibble(c, row + 1, col) + Nibble(c, row + 1, col + 1)) \div 4

(* The columns and lines the conversion covers: whole groups of six, and pairs
   of lines. *)
Covered(px, py) == px < 6 * (width \div 6) /\ py < 2 * rows

(* After each row every place covered so far shows the mean of its channel in
   the pixels under it, and nothing else was touched, in the buffer or
   beyond. *)
PanelShowsFrame ==
  format = RGBA_8888 =>
    /\ ~beyond
    /\ \A px \in 0..(width - 1) : \A py \in 0..(2 * (height \div 2) - 1) :
         Place(px, py) = IF Covered(px, py) THEN Mean(Filter(px, py), px, py)
                         ELSE -1

(***************************************************************************)
(* What the comments in Rgb565_to_color_eink2 say.                         *)
(***************************************************************************)
(* The comments at the two lines of a row: "G1:B1", "B2:R2", "R3:G3" at the
   upper line of the second row of three; the byte has the second one low. *)
Commented565 ==
  << << <<RB, GR, BG>>, <<GR, BG, RB>> >>,
     << <<BG, RB, GR>>, <<RB, GR, BG>> >>,
     << <<GR, BG, RB>>, <<BG, RB, GR>> >> >>

(* Each byte written is the one the comment at its line gives. *)
WritesAsCommented ==
  [][Row565 =>
       \A w \in Writes565 : \E line \in {1, 2}, k \in Columns565 :
         LET rgb == Pixel565(rows, k)
             channels == Commented565[(rows % 3) + 1][line][(k % 3) + 1]
         IN  /\ w.at = (rows + line - 1) * width + k
             /\ w.byte = <<rgb[channels[1]], rgb[channels[2]]>>]_colorVars
===============================================================================
