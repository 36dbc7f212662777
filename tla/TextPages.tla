------------------------------- MODULE TextPages -------------------------------
(***************************************************************************)
(* Laying text, embedded pictures and tables out on a page                 *)
(* (crates/renderer-ooxml/src/render.rs).                                  *)
(*                                                                         *)
(* Lengths are pixels of the target.  The code computes sizes in f32; here *)
(* they are exact quotients <<over, under>>, rounded where the code rounds.*)
(* A glyph is where its character starts; fontdue, which knows how far each*)
(* character moves the pen, is external.  Lines, frames and shading are    *)
(* left out.                                                               *)
(***************************************************************************)
EXTENDS OoxmlText, ImageRenderer

CONSTANTS
  BaseFont,        \* the font's size on a page of PageWidth by PageHeight
  Em,              \* how far each character moves the pen, in hundredths of the size
  MediaGap,        \* pixels above a picture
  MaxDrawnRows     \* rows of a table that are drawn

ASSUME LayoutAssumption ==
  {BaseFont, PageWidth, PageHeight, MediaGap, MaxDrawnRows} \subseteq Nat \ {0}

Most(a, b) == IF a >= b THEN a ELSE b
Under(a, b) == Most(a - b, 0)
Rounded(over, under) == (2 * over + under) \div (2 * under)

-----------------------------------------------------------------------------
(* The geometry of a target.                                               *)

\* No smaller than one pixel.
FontSize(width, height) ==
  LET scale == IF width * PageHeight <= height * PageWidth
               THEN << width, PageWidth >> ELSE << height, PageHeight >>
  IN  IF BaseFont * scale[1] > scale[2] THEN << BaseFont * scale[1], scale[2] >>
      ELSE << 1, 1 >>

LineHeight(font) == Most(Rounded(font[1] * 135, font[2] * 100), 1)
AdvanceOf(font, ch) == Most(Rounded(font[1] * Em[ch], font[2] * 100), 1)

Geometry(width, height) ==
  LET margin == Most(Rounded(width * 4, 100), 1)
      font   == FontSize(width, height)
  IN  [width |-> width, height |-> height, font |-> font, margin |-> margin,
       maxX |-> Under(width, margin), line |-> LineHeight(font)]

-----------------------------------------------------------------------------
(* Text.  The pen is where the next glyph goes; `off` says that the line   *)
(* ran off the page, `full` that the page is.                              *)

NewLine(g, pen) == [pen EXCEPT !.x = g.margin, !.y = @ + g.line]

DrawGlyph(g, pen, ch) ==
  [pen EXCEPT !.glyphs = Append(@, [ch |-> ch, x |-> pen.x, y |-> pen.y]),
              !.x = @ + AdvanceOf(g.font, ch), !.inWord = TRUE]

\* A character that does not fit starts a new line, within a word only once the
\* pen itself is over the margin.
DrawChar(g, pen, ch) ==
  LET Wraps == \/ pen.x >= g.maxX
               \/ pen.x + AdvanceOf(g.font, ch) > g.maxX /\ ~pen.inWord
      wrapped == NewLine(g, pen)
  IN  IF pen.off THEN pen
      ELSE IF ch \in Blanks
      THEN [pen EXCEPT !.x = @ + AdvanceOf(g.font, ch), !.inWord = FALSE]
      ELSE IF ~Wraps THEN DrawGlyph(g, pen, ch)
      ELSE IF wrapped.y + g.line > g.height THEN [wrapped EXCEPT !.off = TRUE]
      ELSE DrawGlyph(g, wrapped, ch)

\* An empty line moves the pen without a look at the page's end.
DrawLine(g, pen, text) ==
  LET NextChar(p, ch) == DrawChar(g, p, ch)
      after == [NewLine(g, FoldLeft(NextChar, pen, text)) EXCEPT !.inWord = FALSE]
  IN  IF pen.full THEN pen
      ELSE [after EXCEPT !.full = text # << >> /\ after.y + g.line > g.height]

DrawText(g, lines) ==
  LET NextLine(pen, text) == DrawLine(g, pen, text)
  IN  FoldLeft(NextLine,
               [x |-> g.margin, y |-> g.margin, inWord |-> FALSE, off |-> FALSE,
                full |-> FALSE, glyphs |-> << >>], lines)

-----------------------------------------------------------------------------
(* Pictures, one under the other below the text.                           *)

\* As wide as the text and as high as what is left of the page, whichever is
\* less, and never less than a pixel.
PictureSize(g, image, top) ==
  LET content == Most(Under(g.maxX, g.margin), 1)
      left    == Most(Under(g.height, top), 1)
      scale   == IF content * image.height <= left * image.width
                 THEN << content, image.width >> ELSE << left, image.height >>
  IN  [width  |-> Most(Rounded(image.width * scale[1], scale[2]), 1),
       height |-> Most(Rounded(image.height * scale[1], scale[2]), 1)]

\* What the canvas takes of it.
Blit(g, size, top) ==
  [x |-> g.margin, y |-> top,
   width  |-> Least(size.width, Under(g.width, g.margin)),
   height |-> Least(size.height, Under(g.height, top))]

\* A picture that cannot be decoded is passed over.
DrawPicture(g, art, encoded) ==
  LET decoded == DecodeEmbedded(encoded)
      top     == art.y + MediaGap
      size    == PictureSize(g, decoded.image, top)
  IN  IF art.full \/ top >= g.height THEN [art EXCEPT !.full = TRUE]
      ELSE IF decoded.error # "none" THEN art
      ELSE [y |-> top + size.height, full |-> top + size.height >= g.height,
            pictures |-> Append(art.pictures, Blit(g, size, top))]

DrawEmbeddedMedia(g, y, media) ==
  LET NextPicture(art, encoded) == DrawPicture(g, art, encoded)
  IN  FoldLeft(NextPicture, [y |-> y, full |-> FALSE, pictures |-> << >>], media).pictures

RenderTextPage(lines, media, width, height) ==
  LET g   == Geometry(width, height)
      pen == DrawText(g, lines)
  IN  IF ~RenderTarget(width, height) THEN NoPage("ResourceLimitExceeded")
      ELSE [RenderedPage(width, height) EXCEPT
              !.glyphs = pen.glyphs, !.pictures = DrawEmbeddedMedia(g, pen.y, media)]

-----------------------------------------------------------------------------
(* Tables.  A band is what is drawn of one row: its place, and its texts,  *)
(* each with the column it is in.                                          *)

\* A character is taken to be 0.62 of the font's size wide.
CharsIn(g, n) == (n * 62 * g.font[1] + 100 * g.font[2] - 1) \div (100 * g.font[2])

CharsPerLine(g, width) ==
  LET over  == Most(62 * g.font[1], 100 * g.font[2])
  IN  Most((Under(width, 8) * 100 * g.font[2]) \div over, 1)

WrappedLineCount(g, text, width) ==
  IF text = << >> THEN 1
  ELSE (Len(text) + CharsPerLine(g, width) - 1) \div CharsPerLine(g, width)

\* A line ends before the word that does not fit with the blank after it.
WrapCell(g, text, width) ==
  LET EndWord(w) ==
        LET breaks == /\ Len(w.line) + Len(w.word) + 1 > CharsPerLine(g, width)
                      /\ w.line # << >>
        IN  [lines |-> IF breaks THEN Append(w.lines, TrimEnd(w.line)) ELSE w.lines,
             line  |-> (IF breaks THEN << >> ELSE w.line) \o w.word \o << Space >>,
             word  |-> << >>]
      NextChar(w, ch) == IF ch = Space THEN EndWord(w) ELSE [w EXCEPT !.word = Append(@, ch)]
      last == EndWord(FoldLeft(NextChar, [lines |-> << >>, line |-> << >>, word |-> << >>],
                               text))
  IN  IF CharsPerLine(g, width) >= Len(text) \/ text = << >> THEN << text >>
      ELSE IF IsBlank(last.line) THEN last.lines
      ELSE Append(last.lines, TrimEnd(last.line))

\* As wide as the widest cell needs, brought down to the page and to an equal
\* share of it, but never under 8; what is left goes to the last column.
ColumnWidths(g, rows, content) ==
  LET columns == Least(Most(Max({ Len(rows[i]) : i \in DOMAIN rows }), 1), MaxCols)
      Cells(c) == { rows[i][c] : i \in { j \in DOMAIN rows : c <= Len(rows[j]) } }
      needed  == [c \in 1..columns |->
                    Max({8} \cup { CharsIn(g, Len(cell)) + 8 : cell \in Cells(c) })]
      Sum(ws) == FoldLeft(LAMBDA n, w : n + w, 0, ws)
      shrunk  == [c \in 1..columns |->
                    IF Sum(needed) > content
                    THEN Rounded(needed[c] * content, Sum(needed)) ELSE needed[c]]
      clamped == [c \in 1..columns |->
                    Least(Most(shrunk[c], 8), Most(content \div columns, 8))]
  IN  [clamped EXCEPT ![columns] = @ + Under(content, Sum(clamped))]

RowHeight(g, row, widths) ==
  Max({g.line} \cup { WrappedLineCount(g, row[c], widths[c]) * g.line :
                        c \in 1..Least(Len(row), Len(widths)) })

\* The lines of a cell start under the first one's place, and those that would
\* start at the end of the band or below it are not drawn.
CellTexts(g, cell, column, y, height, widths) ==
  LET lines == WrapCell(g, cell, widths[column])
      drawn == SelectSeq([k \in DOMAIN lines |-> k],
                         LAMBDA k : k * g.line < height /\ ~IsBlank(lines[k]))
  IN  [i \in DOMAIN drawn |-> [column |-> column, y |-> y + drawn[i] * g.line,
                               text |-> lines[drawn[i]]]]

DrawRow(g, table, row, widths) ==
  LET height == RowHeight(g, row, widths)
      cells  == [c \in 1..Least(Len(row), Len(widths)) |->
                   CellTexts(g, row[c], c, table.y, height, widths)]
  IN  IF table.full \/ table.y + height > g.height THEN [table EXCEPT !.full = TRUE]
      ELSE [table EXCEPT !.y = @ + height,
              !.bands = Append(@, [y |-> table.y, height |-> height,
                                   texts |-> FlattenSeq(cells)])]

RenderTablePage(rows, width, height) ==
  LET g       == Geometry(width, height)
      content == Most(Under(width, 2 * g.margin), 1)
      widths  == ColumnWidths(g, rows, content)
      NextRow(table, row) == DrawRow(g, table, row, widths)
      drawn   == FoldLeft(NextRow, [y |-> g.margin, full |-> FALSE, bands |-> << >>],
                          Take(rows, MaxDrawnRows))
  IN  IF ~RenderTarget(width, height) THEN NoPage("ResourceLimitExceeded")
      ELSE [RenderedPage(width, height) EXCEPT !.bands = drawn.bands]
=============================================================================
