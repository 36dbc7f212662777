-------------------------------- MODULE Preview --------------------------------
(***************************************************************************)
(* What the worker shows of a document: AnyRenderer                        *)
(* (crates/renderer-worker/src/worker.rs) over the renderers of images, of *)
(* Office containers and of PDF files.  It is RendererWorker's Create and  *)
(* Rasters in full.                                                        *)
(*                                                                         *)
(* A document is [size, magic, parts, image, pdf]: what DocumentFormats    *)
(* looks at, and what each of the renderers would find in it.              *)
(***************************************************************************)
EXTENDS TextPages, PdfRenderers

CONSTANTS Documents,    \* the documents that may arrive
          Engines,      \* the PDF renderers a worker may be built with
          Targets,      \* the sizes a page may be asked for in
          MaxPages      \* the pages asked for

VARIABLES document,     \* the document's bytes
          engine,       \* the PDF renderer of this worker
          renderer,     \* the renderer that was opened, or why none was
          asked,        \* the number, width and height of the last page asked for
          page          \* the answer

vars == << document, engine, renderer, asked, page >>

Names(parts) == [i \in DOMAIN parts |-> parts[i].name]

Format(data) ==
  Detect([size |-> data.size, magic |-> data.magic, entries |-> Names(data.parts)])

-----------------------------------------------------------------------------
(* A renderer, whichever it is.                                            *)

NotOpen == [error |-> "unopened", format |-> "Unknown", pages |-> << >>, media |-> << >>,
            table |-> << >>, image |-> Undecoded("none").image,
            info |-> [pages |-> 0, width |-> 0, height |-> 0]]

OpenImage(data) ==
  LET opened == ImageOpen(data.image)
  IN  [NotOpen EXCEPT !.error = opened.error, !.image = opened.image,
         !.info = [pages |-> 1, width |-> opened.image.width,
                   height |-> opened.image.height]]

OoxmlRenderer(opened) ==
  [NotOpen EXCEPT !.error = opened.error, !.pages = opened.pages,
     !.table = opened.table, !.media = opened.media, !.info = OoxmlInfo(opened)]

OpenOoxml(data) == OoxmlRenderer(OoxmlOpen(data.parts))

OpenPdf(data) ==
  LET opened == IF engine = "hayro" THEN HayroOpen(data.pdf) ELSE MupdfOpen(data.pdf)
  IN  [NotOpen EXCEPT !.error = opened.error, !.info = opened.info]

OpenAs(data, format) ==
  CASE format \notin RenderedFormats -> [NotOpen EXCEPT !.error = "UnsupportedFormat"]
    [] data.size > MaxDocumentSize   -> [NotOpen EXCEPT !.error = "DocumentTooLarge"]
    [] format = "Ooxml" -> OpenOoxml(data)
    [] format = "Pdf"   -> OpenPdf(data)
    [] OTHER            -> OpenImage(data)

OoxmlRenderPage(number, width, height) ==
  IF number >= Len(renderer.pages) THEN NoPage("InvalidDocument")
  ELSE IF renderer.table # << >> THEN RenderTablePage(renderer.table, width, height)
  ELSE RenderTextPage(renderer.pages[number + 1],
                      IF number = 0 THEN renderer.media ELSE << >>, width, height)

PdfRenderPage(number, width, height) ==
  IF engine = "hayro" THEN HayroRenderPage(document.pdf, number, width, height)
  ELSE MupdfRenderPage(document.pdf, number, width, height)

-----------------------------------------------------------------------------

Init ==
  /\ document \in Documents
  /\ engine \in Engines
  /\ renderer = NotOpen
  /\ asked = << >>
  /\ page = NoPage("none")

Open ==
  /\ renderer.error = "unopened"
  /\ renderer' = [OpenAs(document, Format(document)) EXCEPT !.format = Format(document)]
  /\ UNCHANGED << document, engine, asked, page >>

RenderPage(number, width, height) ==
  /\ renderer.error = "none"
  /\ asked' = << number, width, height >>
  /\ page' = CASE renderer.format = "Ooxml" -> OoxmlRenderPage(number, width, height)
               [] renderer.format = "Pdf"   -> PdfRenderPage(number, width, height)
               [] OTHER -> ImageRenderPage(renderer.image, number, width, height)
  /\ UNCHANGED << document, engine, renderer >>

Next ==
  \/ Open
  \/ \E number \in 0..(MaxPages - 1), target \in Targets :
       RenderPage(number, target[1], target[2])

Spec == Init /\ [][Next]_vars

-----------------------------------------------------------------------------
(* Properties.                                                             *)

IsOpen == renderer.error = "none"
Entries(name) == Named(document.parts, name)

\* The shape of the state, and the caps: whatever its headers declare, what is
\* read of an open container inflates to no more than the bytes and the media
\* that are allowed, and no page or table outgrows its own limits (ADR-007,
\* ADR-008; text.rs, container.rs).
TypeOK ==
  /\ engine \in Engines
  /\ IsOpen => ValidInfo(renderer.info) /\ renderer.format \in RenderedFormats
  /\ IsOpen /\ renderer.format = "Ooxml" =>
       LET Sum(parts) == MapThenSumSet(LAMBDA i : document.parts[i].actual, parts)
           TheOne(Pick(_), name) ==
             IF Entries(name) = {} THEN {} ELSE {Pick(Entries(name))}
       IN  /\ Sum(Entries("media") \cup TheOne(Max, "document")
                  \cup TheOne(Max, "strings") \cup TheOne(Min, "sheet")) <= MaxTotal
           /\ Sum(Entries("media")) <= MaxMediaBytes
           /\ Len(renderer.media) <= MaxImages
           /\ \A i \in DOMAIN renderer.pages :
                /\ Len(renderer.pages[i]) <= MaxLines
                /\ Bytes(FlattenSeq(renderer.pages[i])) <= MaxText
           /\ Len(renderer.table) <= MaxRows
           /\ \A i \in DOMAIN renderer.table : \A c \in DOMAIN renderer.table[i] :
                Len(renderer.table[i][c]) <= MaxCell
  /\ asked # << >> /\ page.error = "none" => ValidPage(page)

Ink(text) == SelectSeq(text, LAMBDA ch : ch \notin Blanks)

\* What a part says: the characters inside its `t` elements.
Written(body) ==
  LET Count(k, type) == Cardinality({ j \in 1..k : body[j].type = type /\ body[j].tag = "t" })
      Text(k) == IF Count(k, "start") = Count(k, "end") THEN << >>
                 ELSE IF body[k].type = "text" THEN body[k].text
                 ELSE IF body[k].type = "ref" THEN DecodeReference(body[k]) ELSE << >>
  IN  FlattenSeq([k \in DOMAIN body |-> Text(k)])

FitsOnePage(body) ==
  /\ Bytes(Written(body)) <= MaxText
  /\ Cardinality({ k \in DOMAIN body : body[k].tag \in ParagraphEnds }) < MaxLines

IsSubsequence(s, t) ==
  \E D \in SUBSET DOMAIN t : s = [i \in 1..Cardinality(D) |->
                                    t[CHOOSE k \in D : Cardinality({ j \in D : j <= k }) = i]]

\* The pages of a container are its document and then its slides by their
\* numbers, none left out before one that is shown.  Each shows the characters
\* of its part in their order, and all of them, blanks aside, unless the part is
\* longer than a page; only such a part ends the preview (extract,
\* extract_part_xml, push_line).
PagesInOrder ==
  LET Source(i) ==
        LET word == IF Entries("document") = {} THEN 0 ELSE 1
        IN  IF i <= word THEN Max(Entries("document"))
            ELSE CHOOSE k \in Entries("slide") :
                   i - word = Cardinality({ j \in Entries("slide") :
                      \/ document.parts[j].number < document.parts[k].number
                      \/ /\ document.parts[j].number = document.parts[k].number
                         /\ j <= k })
      Body(i)  == document.parts[Source(i)].body
      sources  == Cardinality(Entries("slide"))
                  + (IF Entries("document") = {} THEN 0 ELSE 1)
      Shown(i) == FlattenSeq(renderer.pages[i])
  IN  IsOpen /\ renderer.format = "Ooxml" =>
        IF sources = 0 THEN renderer.pages = << << >> >>
        ELSE /\ Len(renderer.pages) <= sources
             /\ \A i \in DOMAIN renderer.pages :
                  /\ IsSubsequence(Ink(Shown(i)), Ink(Written(Body(i))))
                  /\ FitsOnePage(Body(i)) => Ink(Shown(i)) = Ink(Written(Body(i)))
             /\ Len(renderer.pages) < sources =>
                  ~FitsOnePage(Body(Len(renderer.pages)))

\* Text is drawn from its beginning, in reading order and without overlap, each
\* glyph left of the margin and each row on the page; it ends where no further
\* row fits.  Pictures are inside the page, below the text and each other.
TextLaidOut(lines, g) ==
  LET glyphs   == page.glyphs
      pictures == page.pictures
      ink      == Ink(FlattenSeq(lines))
      After(a, b) == \/ a.y + g.line <= b.y
                     \/ a.y = b.y /\ a.x + AdvanceOf(g.font, a.ch) <= b.x
  IN  /\ IsPrefix([i \in DOMAIN glyphs |-> glyphs[i].ch], ink)
      /\ \A i \in DOMAIN glyphs :
           /\ g.margin < g.maxX => glyphs[i].x \in g.margin .. (g.maxX - 1)
           /\ glyphs[i].y = g.margin \/ glyphs[i].y + g.line <= g.height
           /\ i > 1 => After(glyphs[i - 1], glyphs[i])
      /\ /\ Len(glyphs) < Len(ink) /\ glyphs # << >>
         /\ \A i \in DOMAIN lines : lines[i] # << >> /\ lines[i][1] \notin Blanks
         => Last(glyphs).y + 2 * g.line > g.height
      /\ \A i \in DOMAIN pictures :
           /\ pictures[i].x + pictures[i].width <= g.width \/ pictures[i].width = 0
           /\ pictures[i].y + pictures[i].height <= g.height
           /\ glyphs # << >> => pictures[i].y >= Last(glyphs).y + g.line + MediaGap
           /\ i > 1 => pictures[i].y >= pictures[i - 1].y + pictures[i - 1].height + MediaGap

\* Of a table less is drawn than the "wrapped cells" of render_table_page's comment
\* (render.rs:269-270).  The rows of the extracted table follow one another down
\* the page.  The lines of a cell start one line below the top of their row: a row
\* of one line shows no text at all, and a cell that fills its row loses its last
\* line.  What is shown of a cell is in its column and is its beginning, in the
\* cell's order and without overlap; it stops short only where the next line would
\* start at the end of the row.  The columns are those of the extracted table:
\* extract_table has put each cell where its row's number says, not its column's,
\* against its own comment of 500 rows and 64 columns (text.rs:291-294, 364-368).
TableLaidOut(table, g) ==
  LET bands == page.bands
      Texts(band, c) == SelectSeq(band.texts, LAMBDA text : text.column = c)
      Shown(texts) == Ink(FlattenSeq([k \in DOMAIN texts |-> texts[k].text]))
      OneSpaced(cell) == \A k \in DOMAIN cell :
        cell[k] \in Blanks => k > 1 /\ cell[k - 1] \notin Blanks
      End(band) == band.y + band.height
      CellLaidOut(cell, band, texts) ==
        /\ \A k \in DOMAIN texts :
             /\ texts[k].y \in (band.y + g.line) .. (End(band) - 1)
             /\ k > 1 => texts[k].y >= texts[k - 1].y + g.line
        /\ IsPrefix(Shown(texts), Ink(cell))
        /\ OneSpaced(cell) /\ Shown(texts) # Ink(cell) =>
             IF texts = << >> THEN band.height = g.line
             ELSE Last(texts).y + g.line >= End(band)
  IN  /\ Len(bands) <= Len(table)
      /\ \A i \in DOMAIN bands :
           /\ bands[i].y = (IF i = 1 THEN g.margin ELSE End(bands[i - 1]))
           /\ End(bands[i]) <= g.height
           /\ \A k \in DOMAIN bands[i].texts : bands[i].texts[k].column \in DOMAIN table[i]
           /\ bands[i].height = g.line => bands[i].texts = << >>
           /\ \A c \in DOMAIN table[i] :
                CellLaidOut(table[i][c], bands[i], Texts(bands[i], c))

\* Every pixel is the bilinear mix of the source at its place, but for a rounding
\* down and the steps that fixed point arithmetic loses on the way there; a size
\* that does not change changes nothing.
ImageScaled(image, width, height) ==
  LET At(x, y) == image.pixels[y * image.width + x + 1]
      spread   == Max(ToSet(image.pixels)) - Min(ToSet(image.pixels))
      spanX    == Most(width - 1, 1)
      spanY    == Most(height - 1, 1)
      slack    == 1 + Up(spread * (spanX + spanY), One)
      Exact(dx, dy) ==    \* times spanX * spanY
        LET px == dx * (image.width - 1)
            py == dy * (image.height - 1)
            x1 == Least(px \div spanX + 1, image.width - 1)
            y1 == Least(py \div spanY + 1, image.height - 1)
            Row(y) == At(px \div spanX, y) * (spanX - (px % spanX))
                      + At(x1, y) * (px % spanX)
        IN  Row(py \div spanY) * (spanY - (py % spanY)) + Row(y1) * (py % spanY)
  IN  /\ width = image.width /\ height = image.height => page.pixels = image.pixels
      /\ Len(page.pixels) = width * height
      /\ \A dx \in 0..(width - 1), dy \in 0..(height - 1) :
           LET off == page.pixels[dy * width + dx + 1] * spanX * spanY - Exact(dx, dy)
           IN  off \in -(slack * spanX * spanY) .. (slack * spanX * spanY)

\* The whole PDF page is inside the target, not stretched, and as large as it can.
PdfLaidOut(sheet, width, height) ==
  LET Fits(n, size)  == n * page.scale[1] <= HalfPoints * size * page.scale[2]
      Fills(n, size) == n * page.scale[1] >= HalfPoints * size * page.scale[2]
  IN  /\ page.width <= width /\ page.height <= height
      /\ Fits(sheet.width, page.width) /\ Fits(sheet.height, page.height)
      /\ Fills(sheet.width, width) \/ Fills(sheet.height, height)

\* What is drawn of a text, a picture or a PDF page that was asked for is that page,
\* and what is drawn of a table is the part of it that TableLaidOut says
\* (render_text_page, render_table_page, scale_rgba, render_page).
LaidOut ==
  asked # << >> /\ page.error = "none" =>
    LET number == asked[1]
        width  == asked[2]
        height == asked[3]
        g      == Geometry(width, height)
    IN  CASE renderer.format = "Pdf" ->
               PdfLaidOut(document.pdf.pages[number + 1], width, height)
          [] renderer.format = "Ooxml" /\ renderer.table # << >> ->
               TableLaidOut(renderer.table, g)
          [] renderer.format = "Ooxml" -> TextLaidOut(renderer.pages[number + 1], g)
          [] OTHER -> ImageScaled(renderer.image, width, height)
=============================================================================
