--------------------------- MODULE ConversionProofs ---------------------------
(***************************************************************************)
(* Theorems about what the compositor thread makes of a frame, for every   *)
(* size of panel and every frame.  Error diffusion (Dither): what a pixel  *)
(* has received from its neighbours stays below a level of gray ("y4") and *)
(* below the threshold ("y1"), however long errors are handed on.  The     *)
(* colour filter (PanelColor): each place shows the mean of its channel.   *)
(***************************************************************************)
EXTENDS Dither, PanelColor, TLAPS

(* What a pixel may have received from the line above: everything; what the
   pixels above it and left of that gave; what the latter gave. *)
FromThree == IF mode = "y4" THEN 0..6 ELSE -63..69
FromTwo == IF mode = "y4" THEN 0..4 ELSE -42..46
FromOne == IF mode = "y4" THEN 0..0 ELSE -7..7

Ahead == IF mode = "y4" THEN 0..6 ELSE -49..55

(* What is left to use in this line. *)
ThisLineBound ==
  \A j \in 0..(w - 1) :
    /\ j < i => res0[j] = 0
    /\ j >= i => res0[j] \in FromThree

(* What the next line has got so far. *)
NextLineBound ==
  \A j \in 0..(w - 1) :
    /\ j < i - 1 => res1[j] \in FromThree
    /\ j = i - 1 => res1[j] \in FromTwo
    /\ j = i => res1[j] \in FromOne
    /\ j > i => res1[j] = 0

IInv == /\ TypeOK
        /\ ThisLineBound /\ NextLineBound /\ v0 \in Ahead
        /\ WithinOneLevel /\ InkStaysInk

(* A line has room for its pixels, and for one more where "y1" adds one. *)
LEMMA WidthBound ==
  ASSUME mode \in {"y4", "y1"}
  PROVE  /\ w \in Nat /\ w <= panel_w
         /\ mode = "y4" => w = panel_w
         /\ mode = "y1" => w < panel_w
<1>1. panel_w \in Nat /\ panel_w >= 1
  BY DitherConstants
<1>2. (panel_w - 1) % 2 \in 0..1 /\ (panel_w - 1) % 2 <= panel_w - 1
  BY <1>1, SMT
<1> QED
  BY <1>1, <1>2 DEF w

(* A share is rounded down. *)
LEMMA ShareRounds ==
  ASSUME NEW e \in Int
  PROVE  /\ Share(e, 7) \in Int /\ 16 * Share(e, 7) <= 7 * e
         /\ 7 * e < 16 * Share(e, 7) + 16
         /\ Share(e, 5) \in Int /\ 16 * Share(e, 5) <= 5 * e
         /\ 5 * e < 16 * Share(e, 5) + 16
         /\ Share(e, 3) \in Int /\ 16 * Share(e, 3) <= 3 * e
         /\ 3 * e < 16 * Share(e, 3) + 16
         /\ Share(e, 1) \in Int /\ 16 * Share(e, 1) <= e
         /\ e < 16 * Share(e, 1) + 16
<1>1. /\ Share(e, 7) \in Int /\ 16 * Share(e, 7) <= 7 * e
      /\ 7 * e < 16 * Share(e, 7) + 16
  BY DEF Share
<1>2. /\ Share(e, 5) \in Int /\ 16 * Share(e, 5) <= 5 * e
      /\ 5 * e < 16 * Share(e, 5) + 16
  BY DEF Share
<1>3. /\ Share(e, 3) \in Int /\ 16 * Share(e, 3) <= 3 * e
      /\ 3 * e < 16 * Share(e, 3) + 16
  BY DEF Share
<1>4. /\ Share(e, 1) \in Int /\ 16 * Share(e, 1) <= e
      /\ e < 16 * Share(e, 1) + 16
  BY DEF Share
<1> QED
  BY <1>1, <1>2, <1>3, <1>4

(* The errors of "y4" are those of sixteen levels; those of "y1" reach from
   the lowest value shown black to the highest, or to white. *)
LEMMA SharesBound ==
  ASSUME NEW e \in Int
  PROVE  /\ e \in 0..15 =>
              /\ Share(e, 7) \in 0..6 /\ Share(e, 5) \in 0..4
              /\ Share(e, 3) \in 0..2 /\ Share(e, 1) = 0
         /\ e \in -112..127 =>
              /\ Share(e, 7) \in -49..55 /\ Share(e, 5) \in -35..39
              /\ Share(e, 3) \in -21..23 /\ Share(e, 1) \in -7..7
<1>1. /\ e \in 0..15 => Share(e, 7) \in 0..6
      /\ e \in -112..127 => Share(e, 7) \in -49..55
  <2>1. /\ Share(e, 7) \in Int /\ 16 * Share(e, 7) <= 7 * e
        /\ 7 * e < 16 * Share(e, 7) + 16
    BY ShareRounds
  <2> QED
    BY <2>1
<1>2. /\ e \in 0..15 => Share(e, 5) \in 0..4
      /\ e \in -112..127 => Share(e, 5) \in -35..39
  <2>1. /\ Share(e, 5) \in Int /\ 16 * Share(e, 5) <= 5 * e
        /\ 5 * e < 16 * Share(e, 5) + 16
    BY ShareRounds
  <2> QED
    BY <2>1
<1>3. /\ e \in 0..15 => Share(e, 3) \in 0..2
      /\ e \in -112..127 => Share(e, 3) \in -21..23
  <2>1. /\ Share(e, 3) \in Int /\ 16 * Share(e, 3) <= 3 * e
        /\ 3 * e < 16 * Share(e, 3) + 16
    BY ShareRounds
  <2> QED
    BY <2>1
<1>4. /\ e \in 0..15 => Share(e, 1) = 0
      /\ e \in -112..127 => Share(e, 1) \in -7..7
  <2>1. /\ Share(e, 1) \in Int /\ 16 * Share(e, 1) <= e
        /\ e < 16 * Share(e, 1) + 16
    BY ShareRounds
  <2> QED
    BY <2>1
<1> QED
  BY <1>1, <1>2, <1>3, <1>4

(* A pixel of level s that has level g with the errors it received. *)
Fits(s, g) ==
  /\ g \in Int
  /\ Shown(g) \in {16 * n : n \in 0..15}
  /\ mode = "y4" =>
       /\ g - Shown(g) \in 0..15
       /\ Shown(g) \in {16 * (s \div 16), 16 * (s \div 16) + 16}
  /\ mode = "y1" =>
       /\ g - Shown(g) \in -112..127
       /\ s <= 3 => Shown(g) = 0
       /\ s >= 240 => Shown(g) = 240

LEMMA PixelBound ==
  ASSUME mode \in {"y4", "y1"},
         NEW s \in 0..255, NEW r \in FromThree, NEW a \in Ahead
  PROVE  Fits(s, CLIP(s + r + a))
<1> DEFINE g == CLIP(s + r + a)
<1>1. CASE mode = "y4"
  <2>1. r \in 0..6 /\ a \in 0..6
    BY <1>1 DEF FromThree, Ahead
  <2>2. g \in 0..255 /\ s + r + a - g \in 0..12 /\ (g < s => g = 255)
        /\ g <= s + 12 /\ (g = s + r + a \/ g = 255)
    BY <2>1 DEF CLIP
  <2>3. Shown(g) = 16 * (g \div 16)
    BY <1>1 DEF Shown, Level16
  <2> HIDE DEF g
  <2>4. /\ g \div 16 \in 0..15 /\ s \div 16 \in 0..15
        /\ 16 * (g \div 16) <= g /\ g < 16 * (g \div 16) + 16
        /\ 16 * (s \div 16) <= s /\ s < 16 * (s \div 16) + 16
    BY <2>2
  <2>5. g >= s
    BY <2>1, <2>2
  <2>6. g \div 16 = s \div 16 \/ g \div 16 = s \div 16 + 1
    BY <2>2, <2>4, <2>5
  <2>7. Shown(g) \in {16 * (s \div 16), 16 * (s \div 16) + 16}
    BY <2>3, <2>4, <2>6
  <2>8. g - Shown(g) \in 0..15
    BY <2>2, <2>3, <2>4
  <2> QED
    BY <1>1, <2>2, <2>3, <2>4, <2>7, <2>8 DEF g, Fits
<1>2. CASE mode = "y1"
  <2>1. r \in -63..69 /\ a \in -49..55
    BY <1>2 DEF FromThree, Ahead
  <2>2. /\ g \in -112..255
        /\ s <= 3 => g < 128
        /\ s >= 240 => g >= 128
    BY <2>1 DEF CLIP
  <2>3. Shown(g) = IF g >= 128 THEN 240 ELSE 0
    BY <1>2 DEF Shown, Level2, threshold
  <2> HIDE DEF g
  <2>4. Shown(g) = 16 * 15 \/ Shown(g) = 16 * 0
    BY <2>3
  <2> QED
    BY <1>2, <2>2, <2>3, <2>4 DEF g, Fits
<1> QED
  BY <1>1, <1>2

LEMMA InitInvariant == Init => IInv
<1> SUFFICES ASSUME Init PROVE IInv
  OBVIOUS
<1> USE DEF Init
<1>1. w \in Nat /\ w <= panel_w
  BY WidthBound, DitherConstants
<1>2. TypeOK
  <2>1. 0 \in {16 * n : n \in 0..15}
    <3>1. 0 = 16 * 0
      OBVIOUS
    <3> QED
      BY <3>1
  <2>2. Zeroes \in [Line -> Int] /\ Zeroes[panel_w] = 0
    BY DitherConstants DEF Zeroes, Line
  <2> QED
    BY <1>1, <2>1, <2>2, DitherConstants DEF TypeOK
<1>3. ThisLineBound /\ NextLineBound
  <2>1. \A j \in 0..(w - 1) : res0[j] = 0 /\ res1[j] = 0
    BY <1>1, DitherConstants DEF Zeroes, Line
  <2> QED
    BY <1>1, <2>1 DEF ThisLineBound, NextLineBound, FromThree, FromTwo, FromOne
<1>4. v0 \in Ahead /\ WithinOneLevel /\ InkStaysInk
  BY DEF Ahead, WithinOneLevel, InkStaysInk
<1> QED
  BY <1>2, <1>3, <1>4 DEF IInv

(* One pixel. *)
LEMMA PixelStep == IInv /\ Pixel => IInv'
<1> SUFFICES ASSUME IInv, Pixel PROVE IInv'
  OBVIOUS
<1> DEFINE e == g_temp' - shown'
<1>1. /\ mode \in {"y4", "y1"} /\ mode' = mode /\ h' = h
      /\ h \in 0..panel_h /\ h < panel_h
      /\ palette' = palette /\ palette \subseteq 0..255
      /\ i \in 0..w /\ i < w /\ i' = i + 1 /\ source' \in 0..255
  BY DEF IInv, TypeOK, Pixel
<1>2. /\ w \in Nat /\ w <= panel_w /\ w' = w
      /\ mode = "y4" => w = panel_w
      /\ mode = "y1" => w < panel_w
  BY <1>1, WidthBound DEF w
<1>3. i \in 0..(w - 1) /\ i \in Line /\ panel_w \in Nat /\ panel_w \in Line
      /\ panel_w # i
  BY <1>1, <1>2, DitherConstants DEF Line
<1>4. res0[i] \in FromThree
  BY <1>1, <1>3 DEF IInv, ThisLineBound
<1>5. /\ g_temp' = CLIP(source' + res0[i] + v0) /\ shown' = Shown(g_temp')
      /\ v0' = Share(e, 7) /\ res1' = Spread(e) /\ res0' = Cleared
  BY DEF Pixel
<1>6. /\ g_temp' \in Int /\ shown' \in {16 * n : n \in 0..15}
      /\ e \in Int
      /\ mode = "y4" => e \in 0..15
      /\ mode = "y1" => e \in -112..127
      /\ WithinOneLevel' /\ InkStaysInk'
  <2>1. v0 \in Ahead
    BY DEF IInv
  <2>2. /\ g_temp' \in Int /\ shown' \in {16 * n : n \in 0..15}
        /\ mode = "y4" => e \in 0..15
        /\ mode = "y1" => e \in -112..127
        /\ mode = "y4" =>
             shown' \in {16 * (source' \div 16), 16 * (source' \div 16) + 16}
        /\ mode = "y1" => /\ source' <= 3 => shown' = 0
                          /\ source' >= 240 => shown' = 240
    <3> DEFINE s == source'
               r == res0[i]
               a == v0
    <3>1. s \in 0..255 /\ r \in FromThree /\ a \in Ahead
      BY <1>1, <1>4, <2>1
    <3>2. g_temp' = CLIP(s + r + a) /\ shown' = Shown(g_temp')
      BY <1>5
    <3> HIDE DEF s, r, a
    <3>3. Fits(s, g_temp')
      BY <1>1, <3>1, <3>2, PixelBound
    <3> QED
      BY <3>2, <3>3 DEF s, Fits
  <2>3. e \in Int
    BY <1>1, <2>2
  <2> QED
    BY <1>1, <2>2, <2>3 DEF WithinOneLevel, InkStaysInk
<1> HIDE DEF e
<1>7. /\ mode = "y4" => /\ Share(e, 7) \in 0..6 /\ Share(e, 5) \in 0..4
                        /\ Share(e, 3) \in 0..2 /\ Share(e, 1) = 0
      /\ mode = "y1" => /\ Share(e, 7) \in -49..55 /\ Share(e, 5) \in -35..39
                        /\ Share(e, 3) \in -21..23 /\ Share(e, 1) \in -7..7
  BY <1>6, SharesBound
<1>8. res0 \in [Line -> Int] /\ res1 \in [Line -> Int]
      /\ res0[panel_w] = 0 /\ res1[panel_w] = 0
  BY DEF IInv, TypeOK
<1>9. /\ res0' \in [Line -> Int] /\ res0'[i] = 0
      /\ \A j \in Line : j # i => res0'[j] = res0[j]
  BY <1>3, <1>5, <1>8 DEF Cleared
<1>10. \A j \in Line :
         res1'[j] = res1[j] + (IF j = i - 1 THEN Share(e, 3) ELSE 0)
                      + (IF j = i THEN Share(e, 5) ELSE 0)
                      + (IF j = i + 1 /\ (mode = "y1" \/ i < w - 1)
                           THEN Share(e, 1) ELSE 0)
  BY <1>5 DEF Spread
<1>11. /\ Share(e, 1) \in Int /\ Share(e, 3) \in Int /\ Share(e, 5) \in Int
  BY <1>1, <1>7
<1>12. res1' \in [Line -> Int]
  <2>1. \A j \in Line : res1[j] + (IF j = i - 1 THEN Share(e, 3) ELSE 0)
                      + (IF j = i THEN Share(e, 5) ELSE 0)
                      + (IF j = i + 1 /\ (mode = "y1" \/ i < w - 1)
                           THEN Share(e, 1) ELSE 0) \in Int
    BY <1>8, <1>11
  <2> QED
    BY <1>5, <2>1 DEF Spread
<1>13. res0'[panel_w] = 0 /\ res1'[panel_w] = 0
  <2>1. panel_w # i - 1 /\ ~(panel_w = i + 1 /\ (mode = "y1" \/ i < w - 1))
    BY <1>1, <1>2, <1>3
  <2> QED
    BY <1>3, <1>8, <1>9, <1>10, <2>1
<1>14. TypeOK'
  BY <1>1, <1>2, <1>6, <1>7, <1>5, <1>9, <1>12, <1>13 DEF TypeOK
<1>15. ThisLineBound'
  <2> SUFFICES ASSUME NEW j \in 0..(w - 1)
               PROVE  /\ j < i + 1 => res0'[j] = 0
                      /\ j >= i + 1 => res0'[j] \in FromThree
    BY <1>1, <1>2 DEF ThisLineBound, FromThree
  <2>1. j \in Line
    BY <1>2, <1>3 DEF Line
  <2> QED
    BY <1>1, <1>9, <2>1 DEF IInv, ThisLineBound
<1>16. NextLineBound'
  <2> SUFFICES ASSUME NEW j \in 0..(w - 1)
               PROVE  /\ j < i => res1'[j] \in FromThree
                      /\ j = i => res1'[j] \in FromTwo
                      /\ j = i + 1 => res1'[j] \in FromOne
                      /\ j > i + 1 => res1'[j] = 0
    BY <1>1, <1>2 DEF NextLineBound, FromThree, FromTwo, FromOne
  <2>1. j \in Line /\ res1[j] \in Int
    BY <1>2, <1>3, <1>8 DEF Line
  <2>2. /\ j < i - 1 => res1[j] \in FromThree
        /\ j = i - 1 => res1[j] \in FromTwo
        /\ j = i => res1[j] \in FromOne
        /\ j > i => res1[j] = 0
    BY DEF IInv, NextLineBound
  <2>3. CASE j < i - 1
    BY <1>1, <1>10, <2>1, <2>2, <2>3
  <2>4. CASE j = i - 1
    BY <1>1, <1>7, <1>10, <2>1, <2>2, <2>4 DEF FromThree, FromTwo
  <2>5. CASE j = i
    BY <1>1, <1>7, <1>10, <2>1, <2>2, <2>5 DEF FromTwo, FromOne
  <2>6. CASE j = i + 1
    BY <1>1, <1>7, <1>10, <2>1, <2>2, <2>6 DEF FromOne
  <2>7. CASE j > i + 1
    BY <1>1, <1>10, <2>1, <2>2, <2>7
  <2> QED
    BY <1>1, <2>3, <2>4, <2>5, <2>6, <2>7
<1>17. (v0 \in Ahead)'
  BY <1>1, <1>5, <1>7 DEF Ahead
<1> QED
  BY <1>6, <1>14, <1>15, <1>16, <1>17 DEF IInv

(* The swap of the lines. *)
LEMMA NextLineStep == IInv /\ NextLine => IInv'
<1> SUFFICES ASSUME IInv, NextLine PROVE IInv'
  OBVIOUS
<1>1. /\ mode \in {"y4", "y1"} /\ mode' = mode
      /\ h \in 0..panel_h /\ h < panel_h /\ h' = h + 1 /\ panel_h \in Nat
      /\ i = w /\ i' = 0
      /\ res0' = res1 /\ res1' = res0 /\ v0' = 0
      /\ UNCHANGED <<palette, source, g_temp, shown>>
  BY DitherConstants DEF IInv, TypeOK, NextLine
<1>2. w \in Nat /\ w' = w
  BY <1>1, WidthBound DEF w
<1>3. TypeOK'
  BY <1>1, <1>2 DEF IInv, TypeOK
<1>4. ThisLineBound'
  <2> SUFFICES ASSUME NEW j \in 0..(w - 1)
               PROVE  res1[j] \in FromThree
    BY <1>1, <1>2 DEF ThisLineBound, FromThree
  <2>1. res1[j] \in FromThree \/ res1[j] \in FromTwo
    BY <1>1, <1>2 DEF IInv, NextLineBound
  <2> QED
    BY <2>1 DEF FromThree, FromTwo
<1>5. NextLineBound'
  <2> SUFFICES ASSUME NEW j \in 0..(w - 1)
               PROVE  res0[j] = 0
    BY <1>1, <1>2 DEF NextLineBound, FromOne
  <2> QED
    BY <1>1, <1>2 DEF IInv, ThisLineBound
<1>6. (v0 \in Ahead)' /\ WithinOneLevel' /\ InkStaysInk'
  BY <1>1 DEF IInv, Ahead, WithinOneLevel, InkStaysInk
<1> QED
  BY <1>3, <1>4, <1>5, <1>6 DEF IInv

(* The bounds on what the neighbours give hold throughout. *)
THEOREM Invariance == Spec => []IInv
<1>1. IInv /\ UNCHANGED vars => IInv'
  BY DEF IInv, vars, TypeOK, w, ThisLineBound, NextLineBound, FromThree,
         FromTwo, FromOne, Ahead, WithinOneLevel, InkStaysInk
<1>2. IInv /\ [Next]_vars => IInv'
  BY <1>1, PixelStep, NextLineStep DEF Next
<1> QED
  BY <1>2, InitInvariant, PTL DEF Spec

(* Types, and that nothing is added beyond the lines as allocated. *)
THEOREM TypeInvariant == Spec => []TypeOK
<1>1. IInv => TypeOK
  BY DEF IInv
<1> QED
  BY <1>1, Invariance, PTL

(* With sixteen levels no pixel is off by more than one. *)
THEOREM LevelsKept == Spec => []WithinOneLevel
<1>1. IInv => WithinOneLevel
  BY DEF IInv
<1> QED
  BY <1>1, Invariance, PTL

(* In A2 black stays black and white stays white. *)
THEOREM InkKept == Spec => []InkStaysInk
<1>1. IInv => InkStaysInk
  BY DEF IInv
<1> QED
  BY <1>1, Invariance, PTL

(* The four shares of an error make up all of it but for the rounding. *)
LEMMA SharesAddUp ==
  ASSUME NEW e \in Int
  PROVE  /\ Share(e, 7) \in Int /\ Share(e, 5) \in Int
         /\ Share(e, 3) \in Int /\ Share(e, 1) \in Int
         /\ e - Share(e, 7) - Share(e, 3) - Share(e, 5) - Share(e, 1) \in 0..3
<1>1. \A a, b, c, d \in Int :
        /\ 16 * a <= 7 * e /\ 7 * e < 16 * a + 16
        /\ 16 * b <= 3 * e /\ 3 * e < 16 * b + 16
        /\ 16 * c <= 5 * e /\ 5 * e < 16 * c + 16
        /\ 16 * d <= e /\ e < 16 * d + 16
        => e - a - b - c - d \in 0..3
  OBVIOUS
<1> QED
  BY <1>1, ShareRounds

(* Inside of a line the neighbours get all of the error. *)
THEOREM ErrorsPassedOn == Spec => ErrorIsShared
<1>1. ASSUME IInv, [Next]_vars, i' = i + 1, i \in 1..(w - 2)
      PROVE  (g_temp' - shown') - v0'
               - (res1'[i - 1] - res1[i - 1]) - (res1'[i] - res1[i])
               - (res1'[i + 1] - res1[i + 1]) \in 0..3
  <2> DEFINE e == g_temp' - shown'
  <2>1. w \in Nat /\ w <= panel_w /\ panel_w \in Nat /\ i \in Int
    BY <1>1, WidthBound, DitherConstants DEF IInv, TypeOK
  <2>2. Pixel
    BY <1>1, <2>1 DEF Next, NextLine, vars
  <2>3. v0' = Share(e, 7) /\ res1' = Spread(e)
    BY <2>2 DEF Pixel
  <2>4. e \in Int
    <3>1. TypeOK'
      BY <1>1, <2>2, PixelStep DEF IInv
    <3>2. g_temp' \in Int /\ shown' \in Int
      BY <3>1 DEF TypeOK
    <3> QED
      BY <3>2
  <2> HIDE DEF e
  <2>5. /\ i - 1 \in Line /\ i \in Line /\ i + 1 \in Line /\ i < w - 1
        /\ i - 1 # i /\ i + 1 # i /\ i - 1 # i + 1
    BY <1>1, <2>1 DEF Line
  <2>6. res1[i - 1] \in Int /\ res1[i] \in Int /\ res1[i + 1] \in Int
    BY <1>1, <2>5 DEF IInv, TypeOK
  <2>7. /\ Share(e, 7) \in Int /\ Share(e, 5) \in Int
        /\ Share(e, 3) \in Int /\ Share(e, 1) \in Int
        /\ e - Share(e, 7) - Share(e, 3) - Share(e, 5) - Share(e, 1) \in 0..3
    BY <2>4, SharesAddUp
  <2>8. /\ res1'[i - 1] = res1[i - 1] + Share(e, 3)
        /\ res1'[i] = res1[i] + Share(e, 5)
        /\ res1'[i + 1] = res1[i + 1] + Share(e, 1)
    BY <2>1, <2>3, <2>5, <2>6, <2>7 DEF Spread
  <2>9. (g_temp' - shown') = e
    BY DEF e
  <2> QED
    BY <2>3, <2>4, <2>6, <2>7, <2>8, <2>9
<1>2. IInv /\ [Next]_vars =>
        [i' = i + 1 /\ i \in 1..(w - 2) /\ g_temp' < 255 =>
           (g_temp' - shown') - v0'
             - (res1'[i - 1] - res1[i - 1]) - (res1'[i] - res1[i])
             - (res1'[i + 1] - res1[i + 1]) \in 0..3]_vars
  BY <1>1
<1> QED
  BY <1>2, Invariance, PTL DEF Spec, ErrorIsShared
-------------------------------------------------------------------------------
(***************************************************************************)
(* The words of a frame: the channels lie apart, and stay apart when four  *)
(* words are added.                                                        *)
(***************************************************************************)
(* Abbreviations that the solver keeps as they are. *)
Byte == 0..255
UpTo60 == 0..60
Upper(v) == v \div 16
Fourth(v) == v \div 4
Bytes(r, g, b) == r + 256 * g + 65536 * b
Nibbles(r, g, b) == 16 * r + 4096 * g + 1048576 * b
Quarter(r, g, b) == Nibbles(r, g, b) \div 4
RedOf(s) == (s \div 16) % 16
GreenOf(s) == (s \div 4096) % 16
BlueOf(s) == (s \div 1048576) % 16

LEMMA NibblesOfWord ==
  ASSUME NEW r \in Byte, NEW g \in Byte, NEW b \in Byte
  PROVE  HighNibbles(Bytes(r, g, b)) = Nibbles(Upper(r), Upper(g), Upper(b))
<1> USE DEF Byte
<1> DEFINE word888 == r + 256 * g + 65536 * b
<1>1. (word888 \div 16) % 16 = r \div 16
  <2>1. word888 \div 16 = r \div 16 + 16 * (g + 256 * b)
    OBVIOUS
  <2> QED
    BY <2>1
<1>2. (word888 \div 4096) % 16 = g \div 16
  <2>1. word888 \div 4096 = g \div 16 + 16 * b
    OBVIOUS
  <2> QED
    BY <2>1
<1>3. (word888 \div 1048576) % 16 = b \div 16
  <2>1. word888 \div 1048576 = b \div 16
    OBVIOUS
  <2> QED
    BY <2>1
<1> HIDE DEF word888
<1>4. HighNibbles(word888) = Nibbles(r \div 16, g \div 16, b \div 16)
  BY <1>1, <1>2, <1>3 DEF HighNibbles, Nibbles
<1> QED
  BY <1>4 DEF word888, Bytes, Upper

(* Four nibbles are at most 60: what is divided by four does not reach into
   the channel above. *)
LEMMA ChannelsOfSum ==
  ASSUME NEW r \in UpTo60, NEW g \in UpTo60, NEW b \in UpTo60
  PROVE  /\ RedOf(Quarter(r, g, b)) = Fourth(r)
         /\ GreenOf(Quarter(r, g, b)) = Fourth(g)
         /\ BlueOf(Quarter(r, g, b)) = Fourth(b)
<1> USE DEF UpTo60
<1> DEFINE s == Quarter(r, g, b)
<1>1. s = 4 * r + 1024 * g + 262144 * b
  BY DEF Quarter, Nibbles
<1> HIDE DEF s
<1>2. (s \div 16) % 16 = r \div 4
  <2>1. s \div 16 = r \div 4 + 16 * (4 * g + 1024 * b)
    BY <1>1
  <2> QED
    BY <2>1
<1>3. (s \div 4096) % 16 = g \div 4
  <2>1. s \div 4096 = g \div 4 + 16 * (4 * b)
    BY <1>1
  <2> QED
    BY <2>1
<1>4. (s \div 1048576) % 16 = b \div 4
  <2>1. s \div 1048576 = b \div 4
    BY <1>1
  <2> QED
    BY <2>1
<1> QED
  BY <1>2, <1>3, <1>4 DEF s, RedOf, GreenOf, BlueOf, Fourth

(* A panel of the model. *)
OnPanel ==
  /\ width \in Nat \ {0} /\ width % 2 = 0 /\ height \in Nat \ {0}
  /\ \A c \in Channels, row \in 0..(height - 1), col \in 0..(width - 1) :
       Channel(c, row, col) \in 0..255

LEMMA NibbleIsSmall ==
  ASSUME OnPanel, NEW c \in Channels,
         NEW row \in 0..(height - 1), NEW col \in 0..(width - 1)
  PROVE  Nibble(c, row, col) \in 0..15
<1>1. Channel(c, row, col) \in 0..255
  BY DEF OnPanel
<1> QED
  BY <1>1 DEF Nibble

LEMMA NibblesOfPixel ==
  ASSUME OnPanel, NEW row \in 0..(height - 1), NEW col \in 0..(width - 1)
  PROVE  HighNibbles(Word888(row, col))
           = Nibbles(Nibble("R", row, col), Nibble("G", row, col),
                     Nibble("B", row, col))
<1> DEFINE r == Channel("R", row, col)
           g == Channel("G", row, col)
           b == Channel("B", row, col)
<1>1. r \in Byte /\ g \in Byte /\ b \in Byte
  BY DEF OnPanel, Channels, Byte
<1>2. Word888(row, col) = Bytes(r, g, b)
  BY DEF Word888, Bytes
<1>3. /\ Nibble("R", row, col) = Upper(r) /\ Nibble("G", row, col) = Upper(g)
      /\ Nibble("B", row, col) = Upper(b)
  BY DEF Nibble, Upper
<1> HIDE DEF r, g, b
<1>4. HighNibbles(Bytes(r, g, b)) = Nibbles(Upper(r), Upper(g), Upper(b))
  BY <1>1, NibblesOfWord
<1> QED
  BY <1>2, <1>3, <1>4

(* Four of them, as RGB888_AVG_RGB takes them. *)
Four(c, row, col) ==
  Nibble(c, row, col) + Nibble(c, row, col + 1)
    + Nibble(c, row + 1, col) + Nibble(c, row + 1, col + 1)

LEMMA FourIsSmall ==
  ASSUME OnPanel, NEW c \in Channels,
         NEW row \in 0..(height - 2), NEW col \in 0..(width - 2)
  PROVE  Four(c, row, col) \in 0..60
<1>1. /\ row \in 0..(height - 1) /\ row + 1 \in 0..(height - 1)
      /\ col \in 0..(width - 1) /\ col + 1 \in 0..(width - 1)
  BY DEF OnPanel
<1>2. /\ Nibble(c, row, col) \in 0..15 /\ Nibble(c, row, col + 1) \in 0..15
      /\ Nibble(c, row + 1, col) \in 0..15 /\ Nibble(c, row + 1, col + 1) \in 0..15
  BY <1>1, NibbleIsSmall
<1> QED
  BY <1>2 DEF Four

(* The word that RGB888_AVG_RGB adds up has the mean of each channel. *)
LEMMA AverageIsMean ==
  ASSUME OnPanel, NEW row \in 0..(height - 2), NEW k \in Nat,
         2 * k \in 0..(width - 2), NEW c \in Channels
  PROVE  Average(row, k)[c] = Four(c, row, 2 * k) \div 4
<1> DEFINE r == Four("R", row, 2 * k)
           g == Four("G", row, 2 * k)
           b == Four("B", row, 2 * k)
           sum == HighNibbles(Word888(row, 2 * k))
                    + HighNibbles(Word888(row, 2 * k + 1))
                    + HighNibbles(Word888(row + 1, 2 * k))
                    + HighNibbles(Word888(row + 1, 2 * k + 1))
           s == sum \div 4
<1>1. r \in UpTo60 /\ g \in UpTo60 /\ b \in UpTo60
  BY FourIsSmall DEF Channels, UpTo60
<1>2. /\ row \in 0..(height - 1) /\ row + 1 \in 0..(height - 1)
      /\ 2 * k \in 0..(width - 1) /\ 2 * k + 1 \in 0..(width - 1)
  BY DEF OnPanel
<1>3. sum = Nibbles(r, g, b)
  <2>1. ASSUME NEW ro \in {row, row + 1}, NEW co \in {2 * k, 2 * k + 1}
        PROVE  /\ HighNibbles(Word888(ro, co))
                    = Nibbles(Nibble("R", ro, co), Nibble("G", ro, co),
                              Nibble("B", ro, co))
               /\ Nibble("R", ro, co) \in Int /\ Nibble("G", ro, co) \in Int
               /\ Nibble("B", ro, co) \in Int
    <3>1. ro \in 0..(height - 1) /\ co \in 0..(width - 1)
      BY <1>2
    <3>2. /\ Nibble("R", ro, co) \in 0..15 /\ Nibble("G", ro, co) \in 0..15
          /\ Nibble("B", ro, co) \in 0..15
      BY <3>1, NibbleIsSmall DEF Channels
    <3> QED
      BY <3>1, <3>2, NibblesOfPixel
  <2> QED
    BY <2>1 DEF Four, Nibbles
<1>4. Average(row, k) = [R |-> RedOf(s), G |-> GreenOf(s), B |-> BlueOf(s)]
  BY DEF Average, RedOf, GreenOf, BlueOf
<1> HIDE DEF r, g, b, sum
<1>5. s = Quarter(r, g, b)
  BY <1>3 DEF Quarter
<1> HIDE DEF s
<1>6. RedOf(s) = Fourth(r) /\ GreenOf(s) = Fourth(g) /\ BlueOf(s) = Fourth(b)
  BY <1>1, <1>5, ChannelsOfSum
<1>7. /\ Average(row, k)["R"] = Fourth(r) /\ Average(row, k)["G"] = Fourth(g)
      /\ Average(row, k)["B"] = Fourth(b)
  BY <1>4, <1>6
<1> QED
  BY <1>7 DEF Channels, Fourth, r, g, b
-------------------------------------------------------------------------------
(***************************************************************************)
(* Where a byte goes, and what the filter has there.                       *)
(***************************************************************************)
LEMMA LaterLine ==
  ASSUME NEW m \in Nat, NEW p \in Nat, NEW q \in Nat, p < q
  PROVE  p * m + m <= q * m
<1>1. PICK d \in Nat : q = p + 1 + d
  <2>1. q - p - 1 \in Nat /\ q = p + 1 + (q - p - 1)
    OBVIOUS
  <2> QED
    BY <2>1
<1>2. q * m = p * m + m + d * m
  BY <1>1
<1>3. d * m \in Nat /\ p * m \in Nat
  OBVIOUS
<1> QED
  BY <1>2, <1>3

(* Lines of m bytes do not overlap. *)
LEMMA OneAddress ==
  ASSUME NEW m \in Nat, NEW p \in Nat, NEW q \in Nat,
         NEW j \in 0..(m - 1), NEW k \in 0..(m - 1),
         p * m + j = q * m + k
  PROVE  p = q /\ j = k
<1>1. p * m \in Nat /\ q * m \in Nat
  OBVIOUS
<1>2. ~(p < q)
  <2>1. p < q => p * m + m <= q * m
    BY LaterLine
  <2> QED
    BY <1>1, <2>1
<1>3. ~(q < p)
  <2>1. q < p => q * m + m <= p * m
    BY LaterLine
  <2> QED
    BY <1>1, <2>1
<1>4. p = q
  BY <1>2, <1>3
<1> QED
  BY <1>1, <1>4

(* The filter repeats after six columns and three pairs of lines. *)
LEMMA FilterOfBlock ==
  ASSUME NEW r \in Nat, NEW k \in Nat, NEW l \in {1, 2}, NEW n \in {1, 2}
  PROVE  /\ Filter888[(r % 3) + 1][l][(k % 3) + 1][n]
               = Filter(2 * k + (n - 1), 2 * r + (l - 1))
         /\ Filter(2 * k + (n - 1), 2 * r + (l - 1)) \in Channels
<1> DEFINE rm == r % 3
           km == k % 3
           px == 2 * k + (n - 1)
           py == 2 * r + (l - 1)
<1>1. rm \in {0, 1, 2} /\ km \in {0, 1, 2}
  OBVIOUS
<1>2. (px - py) % 3 = (2 * km + n - 2 * rm - l) % 3
  <2>1. r = 3 * (r \div 3) + rm /\ k = 3 * (k \div 3) + km
    OBVIOUS
  <2>2. px - py = 3 * (2 * (k \div 3) - 2 * (r \div 3)) + (2 * km + n - 2 * rm - l)
    BY <2>1
  <2> QED
    BY <1>1, <2>2
<1> HIDE DEF px, py, rm, km
<1>3. Filter(px, py) = <<"R", "B", "G">>[((2 * km + n - 2 * rm - l) % 3) + 1]
  BY <1>2 DEF Filter
<1>4. /\ Filter888[rm + 1][l][km + 1][n] = Filter(px, py)
      /\ Filter(px, py) \in Channels
  <2>1. CASE rm = 0
    <3>1. CASE km = 0
      BY <1>3, <2>1, <3>1 DEF Filter888, RB, GR, BG, Channels
    <3>2. CASE km = 1
      BY <1>3, <2>1, <3>2 DEF Filter888, RB, GR, BG, Channels
    <3>3. CASE km = 2
      BY <1>3, <2>1, <3>3 DEF Filter888, RB, GR, BG, Channels
    <3> QED
      BY <1>1, <3>1, <3>2, <3>3
  <2>2. CASE rm = 1
    <3>1. CASE km = 0
      BY <1>3, <2>2, <3>1 DEF Filter888, RB, GR, BG, Channels
    <3>2. CASE km = 1
      BY <1>3, <2>2, <3>2 DEF Filter888, RB, GR, BG, Channels
    <3>3. CASE km = 2
      BY <1>3, <2>2, <3>3 DEF Filter888, RB, GR, BG, Channels
    <3> QED
      BY <1>1, <3>1, <3>2, <3>3
  <2>3. CASE rm = 2
    <3>1. CASE km = 0
      BY <1>3, <2>3, <3>1 DEF Filter888, RB, GR, BG, Channels
    <3>2. CASE km = 1
      BY <1>3, <2>3, <3>2 DEF Filter888, RB, GR, BG, Channels
    <3>3. CASE km = 2
      BY <1>3, <2>3, <3>3 DEF Filter888, RB, GR, BG, Channels
    <3> QED
      BY <1>1, <3>1, <3>2, <3>3
  <2> QED
    BY <1>1, <2>1, <2>2, <2>3
<1> QED
  BY <1>4 DEF rm, km, px, py
-------------------------------------------------------------------------------
(***************************************************************************)
(* A row of blocks.                                                        *)
(***************************************************************************)

(* The bytes of a line. *)
HalfWidth == width \div 2

LEMMA WidthIsEven ==
  ASSUME OnPanel
  PROVE  /\ HalfWidth \in Nat \ {0} /\ width = 2 * HalfWidth
         /\ 3 * (width \div 6) <= HalfWidth /\ width \div 6 \in Nat
BY DEF OnPanel, HalfWidth

(* A place is in the buffer, in the byte of its line and pair of columns. *)
LEMMA PlaceIsInBuffer ==
  ASSUME OnPanel, NEW px \in 0..(width - 1),
         NEW py \in 0..(2 * (height \div 2) - 1)
  PROVE  /\ px \div 2 \in 0..(HalfWidth - 1) /\ px % 2 \in {0, 1}
         /\ px = 2 * (px \div 2) + (px % 2)
         /\ (py * width + px) \div 2 = py * HalfWidth + px \div 2
         /\ py * HalfWidth + px \div 2 \in Buffer
<1> DEFINE m == HalfWidth
           k == px \div 2
<1>1. m \in Nat /\ width = 2 * m /\ height \in Nat
  BY WidthIsEven DEF OnPanel
<1>2. k \in 0..(m - 1) /\ px % 2 \in {0, 1} /\ px = 2 * k + (px % 2)
  BY <1>1
<1>3. py \in Nat /\ py < height
  BY <1>1
<1> HIDE DEF m, k
<1>4. py * m \in Nat /\ height * m \in Nat
  BY <1>1, <1>3
<1>5. py * width = 2 * (py * m) /\ width * height = 2 * (height * m)
  BY <1>1, <1>3
<1>6. (py * width + px) \div 2 = py * m + k
  BY <1>2, <1>4, <1>5
<1>7. py * m + m <= height * m
  BY <1>1, <1>3, LaterLine
<1>8. py * m + k \in Buffer
  <2>1. (width * height) \div 2 = height * m
    BY <1>4, <1>5
  <2> QED
    BY <1>1, <1>2, <1>4, <1>7, <2>1 DEF Buffer
<1> QED
  BY <1>2, <1>6, <1>8 DEF m, k

(* What Rgb888_to_color_eink2 writes for a line of a row and a block in it. *)
BlockAt(l, k) == (2 * rows + (l - 1)) * HalfWidth + k
BlockByte(l, k) ==
  <<Average(2 * rows, k)[Filter888[(rows % 3) + 1][l][(k % 3) + 1][1]],
    Average(2 * rows, k)[Filter888[(rows % 3) + 1][l][(k % 3) + 1][2]]>>
BlockWrite(l, k) == [at |-> BlockAt(l, k), byte |-> BlockByte(l, k)]

LEMMA WritesAreBlocks ==
  ASSUME OnPanel, rows \in Nat
  PROVE  /\ \A l \in {1, 2}, k \in Blocks888 : BlockWrite(l, k) \in Writes888
         /\ \A u \in Writes888 : \E l \in {1, 2}, k \in Blocks888 : u = BlockWrite(l, k)
<1> DEFINE W(l, k) == [at |-> rows * width + (l - 1) * (width \div 2) + k,
                       byte |-> BlockByte(l, k)]
<1>1. Writes888 = UNION {{W(l, k) : l \in {1, 2}} : k \in Blocks888}
  BY DEF Writes888, BlockByte
<1>2. ASSUME NEW l \in {1, 2}, NEW k \in Blocks888 PROVE W(l, k) = BlockWrite(l, k)
  <2>1. rows * width = 2 * (rows * HalfWidth)
    <3>1. width = 2 * HalfWidth /\ HalfWidth \in Nat
      BY WidthIsEven
    <3> QED
      BY <3>1
  <2>2. (2 * rows + (l - 1)) * HalfWidth = 2 * (rows * HalfWidth) + (l - 1) * HalfWidth
    <3>1. HalfWidth \in Nat
      BY WidthIsEven
    <3> QED
      BY <3>1
  <2> QED
    BY <2>1, <2>2 DEF BlockWrite, BlockAt, HalfWidth
<1> HIDE DEF W
<1> QED
  BY <1>1, <1>2

LEMMA BlocksAreInLine ==
  ASSUME OnPanel, NEW k \in Blocks888
  PROVE  k \in Nat /\ k < HalfWidth /\ 2 * k \in 0..(width - 2)
BY WidthIsEven DEF Blocks888

(* A line and a block have an address of their own. *)
LEMMA OneBlockEach ==
  ASSUME OnPanel, rows \in Nat,
         NEW u \in Writes888, NEW v \in Writes888, u.at = v.at
  PROVE  u = v
<1>1. PICK l \in {1, 2}, k \in Blocks888 : u = BlockWrite(l, k)
  BY WritesAreBlocks
<1>2. PICK n \in {1, 2}, j \in Blocks888 : v = BlockWrite(n, j)
  BY WritesAreBlocks
<1>3. BlockAt(l, k) = BlockAt(n, j)
  BY <1>1, <1>2 DEF BlockWrite
<1>4. /\ k \in 0..(HalfWidth - 1) /\ j \in 0..(HalfWidth - 1)
      /\ HalfWidth \in Nat
  BY BlocksAreInLine, WidthIsEven
<1>5. 2 * rows + (l - 1) \in Nat /\ 2 * rows + (n - 1) \in Nat
  OBVIOUS
<1>6. 2 * rows + (l - 1) = 2 * rows + (n - 1) /\ k = j
  BY <1>3, <1>4, <1>5, OneAddress DEF BlockAt
<1>7. l = n
  BY <1>6
<1> QED
  BY <1>1, <1>2, <1>6, <1>7

(* The two places of a block show the means of their channels. *)
LEMMA BlockShowsMeans ==
  ASSUME OnPanel, rows \in Nat, rows < height \div 2,
         NEW l \in {1, 2}, NEW k \in Blocks888, NEW n \in {1, 2}
  PROVE  BlockByte(l, k)[n]
           = Mean(Filter(2 * k + (n - 1), 2 * rows + (l - 1)),
                  2 * k + (n - 1), 2 * rows + (l - 1))
<1> DEFINE px == 2 * k + (n - 1)
           py == 2 * rows + (l - 1)
           c == Filter(px, py)
<1>1. k \in Nat /\ 2 * k \in 0..(width - 2)
  BY BlocksAreInLine
<1>2. Filter888[(rows % 3) + 1][l][(k % 3) + 1][n] = c /\ c \in Channels
  BY <1>1, FilterOfBlock
<1>3. BlockByte(l, k)[n] = Average(2 * rows, k)[Filter888[(rows % 3) + 1][l][(k % 3) + 1][n]]
  BY DEF BlockByte
<1>4. 2 * rows \in 0..(height - 2)
  BY DEF OnPanel
<1>5. 2 * (px \div 2) = 2 * k /\ 2 * (py \div 2) = 2 * rows
  BY <1>1
<1> HIDE DEF px, py, c
<1>6. Average(2 * rows, k)[c] = Four(c, 2 * rows, 2 * k) \div 4
  BY <1>1, <1>2, <1>4, AverageIsMean
<1>7. Mean(c, px, py) = Four(c, 2 * rows, 2 * k) \div 4
  BY <1>5 DEF Mean, Four
<1> QED
  BY <1>2, <1>3, <1>6, <1>7 DEF px, py, c
-------------------------------------------------------------------------------
(***************************************************************************)
(* The panel after each row.                                               *)
(***************************************************************************)
OfRun ==
  /\ \E s \in Sizes : width = s[1] /\ height = s[2]
  /\ format \in Formats /\ picture \in Pictures
  /\ rows \in Nat

PanelInv == OfRun /\ PanelShowsFrame

LEMMA RunIsOnPanel == OfRun => OnPanel
BY ColorConstants DEF OfRun, OnPanel, Channel

(* The places of the panel. *)
LEMMA AfterRow ==
  ASSUME OnPanel, rows \in Nat, rows < height \div 2, Write(Writes888),
         NEW px \in 0..(width - 1),
         NEW py \in 0..(2 * (height \div 2) - 1)
  PROVE  Place(px, py)' = IF px < 6 * (width \div 6) /\ py \in {2 * rows, 2 * rows + 1}
                          THEN Mean(Filter(px, py), px, py)
                          ELSE Place(px, py)
<1> DEFINE k == px \div 2
           n == (px % 2) + 1
           a == py * HalfWidth + k
<1>1. /\ k \in 0..(HalfWidth - 1) /\ n \in {1, 2} /\ px = 2 * k + (n - 1)
      /\ (py * width + px) \div 2 = a /\ a \in Buffer
  BY PlaceIsInBuffer
<1>2. width' = width /\ Place(px, py) = dst[a][n] /\ Place(px, py)' = dst'[a][n]
  BY <1>1 DEF Write, Place
<1>3. HalfWidth \in Nat /\ width \in Nat /\ py \in Nat
  BY WidthIsEven DEF OnPanel
<1>4. CASE px < 6 * (width \div 6) /\ py \in {2 * rows, 2 * rows + 1}
  <2> DEFINE l == py - 2 * rows + 1
  <2>1. l \in {1, 2} /\ py = 2 * rows + (l - 1)
    BY <1>4
  <2>2. k \in Blocks888
    BY <1>1, <1>3, <1>4 DEF Blocks888
  <2> HIDE DEF l, k, n
  <2>3. BlockWrite(l, k) \in Writes888 /\ BlockWrite(l, k).at = a
    BY <2>1, <2>2, WritesAreBlocks DEF BlockWrite, BlockAt
  <2> DEFINE u == CHOOSE v \in Writes888 : v.at = a
  <2>4. u \in Writes888 /\ u.at = a
    BY <2>3
  <2>5. u = BlockWrite(l, k)
    BY <2>3, <2>4, OneBlockEach
  <2>6. dst'[a] = u.byte
    BY <1>1, <2>3 DEF Write
  <2> HIDE DEF u
  <2>7. dst'[a] = BlockByte(l, k)
    BY <2>5, <2>6 DEF BlockWrite
  <2>8. BlockByte(l, k)[n] = Mean(Filter(px, py), px, py)
    BY <1>1, <2>1, <2>2, BlockShowsMeans
  <2> QED
    BY <1>2, <1>4, <2>7, <2>8
<1>5. CASE ~(px < 6 * (width \div 6) /\ py \in {2 * rows, 2 * rows + 1})
  <2>1. ASSUME NEW v \in Writes888, v.at = a PROVE FALSE
    <3>1. PICK l \in {1, 2}, j \in Blocks888 : v = BlockWrite(l, j)
      BY WritesAreBlocks
    <3>2. (2 * rows + (l - 1)) * HalfWidth + j = py * HalfWidth + k
      BY <2>1, <3>1 DEF BlockWrite, BlockAt
    <3>3. j \in 0..(HalfWidth - 1) /\ 2 * rows + (l - 1) \in Nat
      BY <1>3, BlocksAreInLine
    <3>6. k \in 0..(HalfWidth - 1)
      BY <1>1
    <3> DEFINE q == 2 * rows + (l - 1)
    <3> HIDE DEF k, q
    <3>4. q = py /\ j = k
      <4>1. q * HalfWidth + j = py * HalfWidth + k /\ q \in Nat
        BY <3>2, <3>3 DEF q
      <4> QED
        BY <1>3, <3>3, <3>6, <4>1, OneAddress
    <3>5. px < 6 * (width \div 6)
      BY <1>1, <1>3, <3>4 DEF Blocks888
    <3> QED
      BY <1>5, <3>4, <3>5 DEF q
  <2>2. dst'[a] = dst[a]
    BY <1>1, <2>1 DEF Write
  <2> QED
    BY <1>2, <1>5, <2>2
<1> QED
  BY <1>4, <1>5

LEMMA NothingBeyond ==
  ASSUME OnPanel, rows \in Nat, rows < height \div 2, NEW u \in Writes888
  PROVE  u.at \in Buffer
<1>1. PICK l \in {1, 2}, k \in Blocks888 : u = BlockWrite(l, k)
  BY WritesAreBlocks
<1> DEFINE px == 2 * k
           py == 2 * rows + (l - 1)
<1>2. k \in Nat /\ px \in 0..(width - 1) /\ px \div 2 = k
  BY BlocksAreInLine DEF OnPanel
<1>3. py \in 0..(2 * (height \div 2) - 1)
  BY DEF OnPanel
<1> HIDE DEF px, py
<1>4. py * HalfWidth + k \in Buffer
  BY <1>2, <1>3, PlaceIsInBuffer
<1> QED
  BY <1>1, <1>4 DEF BlockWrite, BlockAt, py

LEMMA PanelInit == ColorInit => PanelInv
<1> SUFFICES ASSUME ColorInit PROVE PanelInv
  OBVIOUS
<1>1. OfRun
  BY DEF ColorInit, OfRun
<1>2. OnPanel
  BY <1>1, RunIsOnPanel
<1>3. ASSUME NEW px \in 0..(width - 1), NEW py \in 0..(2 * (height \div 2) - 1)
      PROVE  Place(px, py) = -1 /\ ~Covered(px, py)
  <2>1. (py * width + px) \div 2 \in Buffer /\ px % 2 \in {0, 1}
    BY <1>2, PlaceIsInBuffer
  <2>2. dst[(py * width + px) \div 2] = Old
    BY <2>1 DEF ColorInit
  <2>3. Place(px, py) = -1
    BY <2>1, <2>2 DEF Place, Old
  <2>4. ~(py < 2 * rows)
    BY DEF ColorInit
  <2> QED
    BY <2>3, <2>4 DEF Covered
<1> QED
  BY <1>1, <1>3 DEF PanelInv, PanelShowsFrame, ColorInit

LEMMA PanelStep == PanelInv /\ [ColorNext]_colorVars => PanelInv'
<1> SUFFICES ASSUME PanelInv, [ColorNext]_colorVars PROVE PanelInv'
  OBVIOUS
<1>1. OfRun /\ OnPanel
  BY RunIsOnPanel DEF PanelInv
<1>2. CASE Row888
  <2>1. /\ rows \in Nat /\ rows < height \div 2 /\ Write(Writes888)
        /\ format = RGBA_8888
    BY <1>1, <1>2 DEF OfRun, Row888
  <2>2. /\ width' = width /\ height' = height /\ format' = format
        /\ picture' = picture /\ rows' = rows + 1
    BY <2>1 DEF Write
  <2>3. OfRun'
    BY <1>1, <2>2 DEF OfRun
  <2>4. ~beyond'
    BY <1>1, <2>1, NothingBeyond DEF PanelInv, PanelShowsFrame, Write
  <2>5. ASSUME NEW px \in 0..(width - 1), NEW py \in 0..(2 * (height \div 2) - 1)
        PROVE  Place(px, py)' = IF Covered(px, py)' THEN Mean(Filter(px, py), px, py)' ELSE -1
    <3>1. Mean(Filter(px, py), px, py)' = Mean(Filter(px, py), px, py)
      BY <2>2 DEF Mean, Filter, Nibble, Channel
    <3>2. Place(px, py) = IF Covered(px, py) THEN Mean(Filter(px, py), px, py) ELSE -1
      BY <2>1 DEF PanelInv, PanelShowsFrame
    <3>3. Covered(px, py)'
            <=> (Covered(px, py) \/ (/\ px < 6 * (width \div 6)
                                     /\ py \in {2 * rows, 2 * rows + 1}))
      <4>1. py \in Nat /\ rows \in Nat
        BY <1>1, <2>1 DEF OnPanel
      <4>2. py < 2 * (rows + 1) <=> py < 2 * rows \/ py \in {2 * rows, 2 * rows + 1}
        BY <4>1
      <4> QED
        BY <2>2, <4>2 DEF Covered
    <3>4. Place(px, py)' = IF px < 6 * (width \div 6) /\ py \in {2 * rows, 2 * rows + 1}
                           THEN Mean(Filter(px, py), px, py) ELSE Place(px, py)
      BY <1>1, <2>1, AfterRow
    <3> QED
      BY <3>1, <3>2, <3>3, <3>4
  <2>6. PanelShowsFrame'
    BY <2>2, <2>4, <2>5 DEF PanelShowsFrame
  <2> QED
    BY <2>3, <2>6 DEF PanelInv
<1>3. CASE Row565
  BY <1>1, <1>3 DEF Row565, Write, PanelInv, OfRun, PanelShowsFrame, RGB_565, RGBA_8888
<1>4. CASE UNCHANGED colorVars
  BY <1>4 DEF colorVars, PanelInv, OfRun, PanelShowsFrame, Place, Covered, Mean,
              Filter, Nibble, Channel
<1> QED
  BY <1>2, <1>3, <1>4 DEF ColorNext, Done

(* Rgb888_to_color_eink2 shows at each place that whole groups of columns and
   pairs of lines cover the mean of the channel its filter lets through, and
   touches nothing else, for every size of panel and every frame. *)
THEOREM PanelShown == ColorSpec => []PanelShowsFrame
<1>1. PanelInv => PanelShowsFrame
  BY DEF PanelInv
<1>2. QED
  BY <1>1, PanelInit, PanelStep, PTL DEF ColorSpec
===============================================================================
