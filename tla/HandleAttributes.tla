--------------------------- MODULE HandleAttributes ---------------------------
(***************************************************************************)
(* What hwc_get_handle_attibute makes of the answers of the gralloc 4      *)
(* mapper (hwc_rockchip.cpp over drmgralloc4.cpp).                         *)
(*                                                                         *)
(* A mapper answers each query with a record: err is OK or not, out is <<>>*)
(* or holds the value.  The functions of drmgralloc4.cpp answer alike: out *)
(* is what they store through their pointer argument, if they store at all.*)
(* Of the attributes a conversion uses all are stored when there is no     *)
(* error; the byte stride may not be, but a conversion only logs it.       *)
(***************************************************************************)
EXTENDS Integers, Sequences

CONSTANT NV12_10  \* HAL_PIXEL_FORMAT_YCrCb_NV12_10

OK == 0
BAD_VALUE == -22

Answer(v) == [err |-> OK, out |-> <<v>>]
Failed == [err |-> BAD_VALUE, out |-> <<>>]

(* What the pointer's target holds afterwards. *)
Stored(answer, before) == IF answer.out = <<>> THEN before ELSE Head(answer.out)
-------------------------------------------------------------------------------
(* An error of the mapper or of the decoder is returned. *)
get_metadata(answer) == IF answer.err = OK THEN answer ELSE Failed

get_width(mapper) == get_metadata(mapper.Width)
get_height(mapper) == get_metadata(mapper.Height)
get_format_requested(mapper) == get_metadata(mapper.PixelFormatRequested)
get_allocation_size(mapper) == get_metadata(mapper.AllocationSize)

(* layouts.size() < 1 is logged, but err is still OK: nothing is stored. *)
FirstPlane(mapper, field) ==
  LET layouts == get_metadata(mapper.PlaneLayouts)
  IN  IF layouts.err # OK THEN Failed
      ELSE IF Stored(layouts, <<>>) = <<>> THEN [err |-> OK, out |-> <<>>]
      ELSE Answer(Head(Head(layouts.out))[field])

get_bit_per_pixel(mapper) ==
  IF get_format_requested(mapper).err # OK THEN Failed
  ELSE FirstPlane(mapper, "sampleIncrementInBits")

(* The 10 bit format has its stride in the width. *)
get_byte_stride(mapper) ==
  LET format == get_format_requested(mapper)
  IN  IF format.err # OK THEN Failed
      ELSE IF Stored(format, 0) = NV12_10 THEN get_width(mapper)
      ELSE FirstPlane(mapper, "strideInBytes")

(* Both locals start at 0.  The division by 0 is undefined: it stops the
   process, or gives 0 where the processor says so. *)
get_pixel_stride(mapper) ==
  LET bytes == get_byte_stride(mapper)
      bits == get_bit_per_pixel(mapper)
  IN  IF bytes.err # OK \/ bits.err # OK THEN Failed
      ELSE Answer(IF Stored(bits, 0) = 0 THEN 0
                  ELSE (Stored(bytes, 0) * 8) \div Stored(bits, 0))
-------------------------------------------------------------------------------
(* An error gives -1. *)
Returned(answer) == IF answer.err # OK THEN -1 ELSE Head(answer.out)

hwc_get_handle_width(mapper) == Returned(get_width(mapper))
hwc_get_handle_height(mapper) == Returned(get_height(mapper))
hwc_get_handle_stride(mapper) == Returned(get_pixel_stride(mapper))
hwc_get_handle_format(mapper) == Returned(get_format_requested(mapper))
hwc_get_handle_size(mapper) == Returned(get_allocation_size(mapper))

hwc_get_handle_attibute(mapper, flag) ==
  CASE flag = "ATT_WIDTH" -> hwc_get_handle_width(mapper)
    [] flag = "ATT_HEIGHT" -> hwc_get_handle_height(mapper)
    [] flag = "ATT_STRIDE" -> hwc_get_handle_stride(mapper)
    [] flag = "ATT_FORMAT" -> hwc_get_handle_format(mapper)
    [] flag = "ATT_SIZE" -> hwc_get_handle_size(mapper)
===============================================================================
