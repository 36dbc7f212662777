----------------------------- MODULE ImageRenderer -----------------------------
(***************************************************************************)
(* Raster images: decoding them and scaling them to the size asked for     *)
(* (crates/renderer-image/src/image.rs and scaling.rs).                    *)
(*                                                                         *)
(* A pixel is one number: the four channels of a pixel are scaled alike,   *)
(* one by one.  An encoded image is a document (DocumentFormats) with      *)
(*   width, height : what its header says    header : it can be read       *)
(*   color         : the bytes per pixel the header's color type stands    *)
(*                   for, 0 for one that is neither RGB nor RGBA           *)
(*   depth, pixels : the bytes per pixel and the pixels its decoder yields *)
(*   complete      : the decoder comes to the end of it                    *)
(***************************************************************************)
EXTENDS DocumentFormats

CONSTANT One    \* the unit of the fixed point arithmetic (2^16 in the code)

ASSUME FixedPointAssumption == One \in Nat \ {0}

\* The check every renderer makes of the size a page is asked for in.
RenderTarget(width, height) ==
  ValidTarget([width |-> MaxPageWidth, height |-> MaxPageHeight,
               pixels |-> MaxPixelBuffer], width, height)

-----------------------------------------------------------------------------
(* Decoding.                                                               *)

Undecoded(error) ==
  [error |-> error, image |-> [width |-> 0, height |-> 0, pixels |-> << >>]]

DimensionError(width, height) ==
  IF 0 \in {width, height} THEN "InvalidDocument"
  ELSE IF \/ width > MaxPageWidth \/ height > MaxPageHeight
          \/ PixelBufferSize(width, height) > MaxPixelBuffer
  THEN "ResourceLimitExceeded" ELSE "none"

\* The bytes per pixel each decoder's caller goes by: a JPEG is taken for RGB,
\* a PNG for what its header says, which a palette or a transparent colour
\* belies, and the others for what was decoded.
Claimed(encoded) ==
  CASE encoded.magic = "Jpeg" -> 3
    [] encoded.magic = "Png"  -> encoded.color
    [] OTHER                  -> encoded.depth

ToRgba(encoded) ==
  IF \/ Claimed(encoded) \notin {3, 4}
     \/ Len(encoded.pixels) * encoded.depth #
          encoded.width * encoded.height * Claimed(encoded)
  THEN Undecoded("RenderingFailed")
  ELSE [error |-> "none",
        image |-> [width |-> encoded.width, height |-> encoded.height,
                   pixels |-> encoded.pixels]]

\* The dimensions are judged from the header, before anything is decoded.
Decode(encoded) ==
  IF ~encoded.header THEN Undecoded("InvalidDocument")
  ELSE IF DimensionError(encoded.width, encoded.height) # "none"
  THEN Undecoded(DimensionError(encoded.width, encoded.height))
  ELSE IF ~encoded.complete THEN Undecoded("RenderingFailed")
  ELSE ToRgba(encoded)

\* GIF, TIFF and BMP: whatever was decoded is brought to RGBA.
DecodeImageFormat(encoded) == Decode([encoded EXCEPT !.depth = 4])

DecodeEmbedded(encoded) ==
  IF encoded.size > MaxDocumentSize THEN Undecoded("DocumentTooLarge")
  ELSE IF Detect(encoded) \in {"Png", "Jpeg", "WebP"} THEN Decode(encoded)
  ELSE Undecoded("UnsupportedFormat")

ImageOpen(encoded) ==
  IF /\ encoded.size <= MaxDocumentSize
     /\ Detect(encoded) \in {"Gif", "Tiff", "Bmp"}
  THEN DecodeImageFormat(encoded) ELSE DecodeEmbedded(encoded)

-----------------------------------------------------------------------------
(* Scaling: each line and column of the target lies, in fixed point,       *)
(* between two of the source, and is mixed of them.                        *)

\* The step that treats the sizes as counts of steps, not of lines.
StepOfSizes(from, to) == (from * One) \div to

Step(from, to) == IF to > 1 THEN ((from - 1) * One) \div (to - 1) ELSE 0

Mix(first, second, share) == first * (One - share) + second * share

ScaleRgba(image, width, height) ==
  LET At(x, y) == image.pixels[y * image.width + x + 1]
      Pixel(dx, dy) ==
        LET fx == dx * Step(image.width, width)
            fy == dy * Step(image.height, height)
            x0 == fx \div One
            y0 == fy \div One
            x1 == Least(x0 + 1, image.width - 1)
            y1 == Least(y0 + 1, image.height - 1)
            Row(y) == Mix(At(x0, y), At(x1, y), fx % One)
        IN  Mix(Row(y0), Row(y1), fy % One) \div (One * One)
  IN  IF image.width = width /\ image.height = height THEN image.pixels
      ELSE [k \in 1..(width * height) |->
              Pixel((k - 1) % width, (k - 1) \div width)]

\* What every renderer answers with: an error, or a raster and, of what is
\* drawn on it, the pixels of an image, the glyphs and pictures of a text page,
\* the bands of a table's rows, or the scale of a PDF page as <<over, under>>.
NoPage(error) ==
  [error |-> error, width |-> 0, height |-> 0, stride |-> 0, length |-> 0,
   pixels |-> << >>, glyphs |-> << >>, pictures |-> << >>, bands |-> << >>,
   scale |-> << 0, 1 >>]

RenderedPage(width, height) ==
  [NoPage("none") EXCEPT !.width = width, !.height = height,
                         !.stride = width * BytesPerPixel,
                         !.length = PixelBufferSize(width, height)]

ImageRenderPage(image, page, width, height) ==
  IF page # 0 THEN NoPage("InvalidDocument")
  ELSE IF ~RenderTarget(width, height) THEN NoPage("ResourceLimitExceeded")
  ELSE [RenderedPage(width, height) EXCEPT !.pixels = ScaleRgba(image, width, height)]
=============================================================================
