------------------------------ MODULE IconHints ------------------------------
(***************************************************************************)
(* Where a notification's icon comes from: raw pixels, a path, or the name *)
(* in the call.  hints maps the names of the hints that were sent to their *)
(* values, each a text, an image of the seven fields the standard asks     *)
(* for, or something else.                                                 *)
(***************************************************************************)
EXTENDS Integers, Sequences

CONSTANTS
    MAX_IMAGE_DIMENSION,   \* 512 in the code
    DataUri(_)             \* the PNG of an image, as a data URI

ASSUME DimensionAssumption == MAX_IMAGE_DIMENSION \in Nat

\* data is the number of bytes sent.
ImageType == [width : Int, height : Int, rowstride : Int, has_alpha : BOOLEAN,
              bits_per_sample : Int, channels : Int, data : Nat]

AText(s) == [kind |-> "text", text |-> s]
AnImage(image) == [kind |-> "image", image |-> image]
Other == [kind |-> "other"]

WellFormed(image) ==
    /\ image.width > 0 /\ image.height > 0
    /\ image.width <= MAX_IMAGE_DIMENSION /\ image.height <= MAX_IMAGE_DIMENSION
    /\ image.bits_per_sample = 8
    /\ image.channels \in {3, 4}
    /\ (image.channels = 4) = image.has_alpha
    /\ image.rowstride >= image.width * image.channels

\* The last row counted in pixels instead of bytes.
Needed_RowInPixels(image) == image.rowstride * (image.height - 1) + image.width

\* The padding of the last row may be missing.
Needed(image) == image.rowstride * (image.height - 1) + image.width * image.channels

\* try_decode_image_data returns Some.
Decodes(image) == WellFormed(image) /\ image.data >= Needed(image)

\* The index of a byte the packing loop reads.
ByteRead(image, row, col, k) == row * image.rowstride + col * image.channels + k
BytesOfPixel(image) == IF image.has_alpha THEN 0..3 ELSE 0..2

\* The older spelling forgotten.
Hint_NewOnly(hints, name, old_name) == IF name \in DOMAIN hints THEN {hints[name]} ELSE {}

\* hints.get(name).or_else(|| hints.get(old_name))
Hint(hints, name, old_name) ==
    IF name \in DOMAIN hints THEN {hints[name]}
    ELSE IF old_name \in DOMAIN hints THEN {hints[old_name]} ELSE {}

Pixels(hints) ==
    {v \in Hint(hints, "image-data", "image_data") : v.kind = "image" /\ Decodes(v.image)}
Paths(hints) ==
    {v \in Hint(hints, "image-path", "image_path") : v.kind = "text" /\ v.text # <<>>}

ResolveIcon(hints, app_icon) ==
    IF Pixels(hints) # {} THEN DataUri((CHOOSE v \in Pixels(hints) : TRUE).image)
    ELSE IF Paths(hints) # {} THEN (CHOOSE v \in Paths(hints) : TRUE).text
    ELSE app_icon
=============================================================================
