------------------------------- MODULE TileGrid -------------------------------
(***************************************************************************)
(* RealesrganProcessor::process_image                                      *)
(* (processors/realesrgan/realesrgan-processor.cpp) with its shaders: the  *)
(* image is cut into stripes and tiles, each tile is padded from its       *)
(* surroundings, upscaled, and its middle put into the output.             *)
(*                                                                         *)
(* A pixel stands for its coordinates, so what is computed is where every  *)
(* output pixel comes from.  The network is external: the pixel at (x, y)  *)
(* of its output belongs to the one at (x / scale, y / scale) of its       *)
(* input, and so does the interpolation of the alpha channel.              *)
(***************************************************************************)
EXTENDS Integers

CONSTANTS
  TileSize,  \* tilesize: 200 in the code
  Pad,       \* prepadding: 10
  Scale,     \* scale: 4
  Sizes      \* the widths and heights of the input images

ASSUME TileAssumption ==
  /\ TileSize \in Nat \ {0} /\ Scale \in Nat \ {0} /\ Pad \in Nat
  /\ Sizes \subseteq Nat \ {0}

VARIABLES
  w, h,      \* size of the input
  alpha,     \* channels == 4
  tta_mode,
  pc,        \* where process_image is in its loops
  yi, xi,    \* the current stripe and tile
  recorded,  \* the tile of the stripe that is recorded and not submitted
  out_gpu,   \* the stripe of output on the device, by offset
  out,       \* outimage.data, by offset
  progress   \* what procb was told last, in tiles

gridVars == <<w, h, alpha, tta_mode, pc, yi, xi, recorded, out_gpu, out, progress>>

Abs(i) == IF i < 0 THEN - i ELSE i
Least(i, j) == IF i < j THEN i ELSE j
Most(i, j) == IF i < j THEN j ELSE i

Tiles(size) == (size + TileSize - 1) \div TileSize
xtiles == Tiles(w)
ytiles == Tiles(h)

\* The tile number i of a side, without its padding.
First(i) == i * TileSize
After(i, size) == Least((i + 1) * TileSize, size)
NoPad(i, size) == After(i, size) - First(i)

\* The rows of input that are uploaded for a stripe.
in_tile_y0 == Most(First(yi) - Pad, 0)

\* Mutant: the stripe ends without padding.
in_tile_y1_NoPad == Least((yi + 1) * TileSize, h)
in_tile_y1 == Least((yi + 1) * TileSize + Pad, h)

\* Width and height of a padded tile.
tile_w(x) == NoPad(x, w) + 2 * Pad
tile_h == NoPad(yi, h) + 2 * Pad

-----------------------------------------------------------------------------
(* The shaders                                                             *)

\* realesrgan_preproc: what is outside of the stripe is mirrored into it.
Mirror(i, size) == (size - 1) - Abs(Abs(i) - (size - 1))

crop_y == Least(First(yi), Pad)

\* The position in the stripe that is read for position (gx, gy) of the tile,
\* and where that is in the image.
ReadX(x, gx) == Mirror(gx + First(x) - Pad, w)
ReadY(gy) == Mirror(gy + crop_y - Pad, in_tile_y1 - in_tile_y0)
Preproc(x, gx, gy) == <<ReadX(x, gx), in_tile_y0 + ReadY(gy)>>

\* The eight orientations of realesrgan_preproc_tta, which transpose the last
\* four: column and row at which pixel (gx, gy) of a tile of size tw by th is.
Oriented(n, gx, gy, tw, th) ==
  CASE n = 0 -> <<gx, gy>>
    [] n = 1 -> <<tw - 1 - gx, gy>>
    [] n = 2 -> <<tw - 1 - gx, th - 1 - gy>>
    [] n = 3 -> <<gx, th - 1 - gy>>
    [] n = 4 -> <<gy, gx>>
    [] n = 5 -> <<th - 1 - gy, gx>>
    [] n = 6 -> <<th - 1 - gy, tw - 1 - gx>>
    [] n = 7 -> <<gy, tw - 1 - gx>>

\* Mutant: the last two orientations are read the wrong way round.
ReadBack_Swapped(n, sx, sy, tw, th) ==
  Oriented(IF n = 6 THEN 7 ELSE IF n = 7 THEN 6 ELSE n, sx, sy, tw, th)

\* Where realesrgan_postproc_tta reads pixel (sx, sy) of the upscaled tile.
ReadBack(n, sx, sy, tw, th) == Oriented(n, sx, sy, tw, th)

\* What the network makes of orientation n of tile x, at the position pos.
Upscaled(n, x, pos) ==
  LET p == CHOOSE p \in (0..(tile_w(x) - 1)) \X (0..(tile_h - 1)) :
             Oriented(n, p[1], p[2], tile_w(x), tile_h)
               = <<pos[1] \div Scale, pos[2] \div Scale>>
  IN Preproc(x, p[1], p[2])

\* The pixels that are averaged for position (gx, gy) of the tile's output.
Averaged(x, gx, gy) ==
  LET sx == gx + Pad * Scale
      sy == gy + Pad * Scale IN
  {Upscaled(n, x, ReadBack(n, sx, sy, tile_w(x) * Scale, tile_h * Scale)) :
     n \in IF tta_mode THEN 0..7 ELSE {0}}

\* The alpha channel of a tile is cut out by the preproc, which passes over the
\* padding, and is upscaled on its own.
Alpha(x, gx, gy) == Preproc(x, gx \div Scale + Pad, gy \div Scale + Pad)

\* realesrgan_postproc: the middle of the tile goes to the stripe.
out_w == w * Scale
out_h == NoPad(yi, h) * Scale
gx_max(x) == Least(TileSize * Scale, out_w - First(x) * Scale)

OutOffset(x, gx, gy) == gy * out_w + gx + First(x) * Scale

PixelOf(x, gx, gy) ==
  [rgb |-> Averaged(x, gx, gy), alpha |-> IF alpha THEN Alpha(x, gx, gy) ELSE <<>>]

Spots(x) == (0..(gx_max(x) - 1)) \X (0..(out_h - 1))

\* Data that is written over older data.
Over(new, old) ==
  [o \in DOMAIN new \cup DOMAIN old |-> IF o \in DOMAIN new THEN new[o] ELSE old[o]]

\* What tile x writes, and the stripe after it is executed.
Paint(x) ==
  [o \in {OutOffset(x, s[1], s[2]) : s \in Spots(x)} |->
     LET s == CHOOSE t \in Spots(x) : OutOffset(x, t[1], t[2]) = o
     IN PixelOf(x, s[1], s[2])]
Painted(x) == Over(Paint(x), out_gpu)

-----------------------------------------------------------------------------
(* process_image                                                           *)

Nothing == [o \in {} |-> 0]

GridInit ==
  /\ w \in Sizes /\ h \in Sizes /\ alpha \in BOOLEAN /\ tta_mode \in BOOLEAN
  /\ pc = "upload" /\ yi = 0 /\ xi = 0
  /\ recorded = {}
  /\ out_gpu = Nothing /\ out = Nothing
  /\ progress = 0

Upload ==
  /\ pc = "upload"
  /\ pc' = "tile"
  /\ xi' = 0
  /\ out_gpu' = Nothing
  /\ UNCHANGED <<w, h, alpha, tta_mode, yi, recorded, out, progress>>

\* Mutant: progress is counted in stripes of ytiles tiles, and goes back.
Tile_WrongStride ==
  /\ pc = "tile"
  /\ IF xtiles > 1
     THEN out_gpu' = Painted(xi) /\ UNCHANGED recorded
     ELSE recorded' = {xi} /\ UNCHANGED out_gpu
  /\ progress' = yi * ytiles + xi + 1
  /\ xi' = xi + 1
  /\ pc' = IF xi' = xtiles THEN "download" ELSE "tile"
  /\ UNCHANGED <<w, h, alpha, tta_mode, yi, out>>

\* The work on a tile is recorded, and submitted when there are several tiles
\* in a stripe; then its end is reported.
Tile ==
  /\ pc = "tile"
  /\ IF xtiles > 1
     THEN out_gpu' = Painted(xi) /\ UNCHANGED recorded
     ELSE recorded' = {xi} /\ UNCHANGED out_gpu
  /\ progress' = yi * xtiles + xi + 1
  /\ xi' = xi + 1
  /\ pc' = IF xi' = xtiles THEN "download" ELSE "tile"
  /\ UNCHANGED <<w, h, alpha, tta_mode, yi, out>>

\* What is still recorded is executed, and the stripe copied into the image.
Download ==
  LET stripe == IF recorded = {} THEN out_gpu ELSE Painted(0)
      offset == yi * Scale * TileSize * w * Scale IN
  /\ pc = "download"
  /\ recorded' = {}
  /\ out_gpu' = stripe
  /\ out' = Over([o \in {offset + s : s \in DOMAIN stripe} |-> stripe[o - offset]], out)
  /\ yi' = yi + 1
  /\ pc' = IF yi' = ytiles THEN "done" ELSE "upload"
  /\ UNCHANGED <<w, h, alpha, tta_mode, xi, progress>>

GridNext == Upload \/ Tile \/ Download

GridSpec == GridInit /\ [][GridNext]_gridVars

-----------------------------------------------------------------------------
(* Properties                                                              *)

\* The values each variable ranges over.  Progress is reported tile by tile up
\* to the whole, and with several tiles in a stripe only of what has been
\* computed.
GridTypeOK ==
  /\ w \in Sizes /\ h \in Sizes /\ alpha \in BOOLEAN /\ tta_mode \in BOOLEAN
  /\ pc \in {"upload", "tile", "download", "done"}
  /\ yi \in 0..ytiles /\ xi \in 0..xtiles
  /\ pc = "done" <=> yi = ytiles
  /\ pc = "tile" => xi < xtiles
  /\ pc = "download" => xi = xtiles
  /\ progress = yi * xtiles + IF pc \in {"tile", "download"} THEN xi ELSE 0
  /\ recorded # {} => xtiles = 1 /\ pc = "download"

\* The output has a pixel at every offset, and every one is upscaled from the
\* pixel of the input below it, in each orientation and with its alpha.
Expected(o) ==
  LET source == <<(o % out_w) \div Scale, (o \div out_w) \div Scale>> IN
  [rgb |-> {source}, alpha |-> IF alpha THEN source ELSE <<>>]

OutputIsImage ==
  /\ \A o \in DOMAIN out : out[o] = Expected(o)
  /\ pc = "done" => DOMAIN out = 0..(out_w * h * Scale - 1)

MirroredImage(i, size) ==
  IF i < 0 THEN - i ELSE IF i < size THEN i ELSE 2 * (size - 1) - i

\* The shader reads pixels of the stripe that has been uploaded.
ReadsUploaded ==
  /\ \A gx \in 0..(tile_w(xi) - 1) : ReadX(xi, gx) \in 0..(w - 1)
  /\ \A gy \in 0..(tile_h - 1) : ReadY(gy) \in 0..(in_tile_y1 - in_tile_y0 - 1)

\* A padded tile is cut from the image mirrored at its edges: the stripe, which
\* is all that is uploaded, does not show in it.  This needs an image that is
\* larger than the padding.
PaddingIsSurrounding ==
  pc = "tile" /\ w > Pad /\ h > Pad =>
    /\ ReadsUploaded
    /\ \A gx \in 0..(tile_w(xi) - 1), gy \in 0..(tile_h - 1) :
         Preproc(xi, gx, gy) =
           <<MirroredImage(First(xi) - Pad + gx, w), MirroredImage(First(yi) - Pad + gy, h)>>
=============================================================================
