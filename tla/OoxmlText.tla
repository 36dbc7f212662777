------------------------------- MODULE OoxmlText -------------------------------
(***************************************************************************)
(* Reading an Office container: the caps on its entries, and the text, the *)
(* table and the media taken from it                                       *)
(* (crates/renderer-ooxml/src/container.rs, text.rs and lib.rs).           *)
(*                                                                         *)
(* A container is a sequence of entries                                    *)
(*   [name, number : what its name says it is, and the number of a slide,  *)
(*    compressed, declared : the sizes its header declares,                *)
(*    inflates, actual     : whether it can be decompressed, and to what,  *)
(*    body                 : the events of its XML,                        *)
(*    encoded              : its image (ImageRenderer)]                    *)
(* An XML event has a `type`, the `tag` of an element, the `text` of a run *)
(* or a reference, and of a cell's start its `cell` attribute and whether  *)
(* the cell is `shared`.  A text is a sequence of characters; quick-xml,   *)
(* which yields the events, is external.                                   *)
(***************************************************************************)
EXTENDS DocumentFormats, SequencesExt

CONSTANTS
  MaxEntry,                     \* bytes of an entry
  MaxRatio, RatioSlack,         \* how much smaller than its content an entry may be
  MaxImages, MaxMediaBytes,     \* embedded images
  MaxText, MaxLines,            \* bytes and lines of a page's text
  MaxRows, MaxCols, MaxCell,    \* of a table
  PageWidth, PageHeight,        \* the size of a page, in its own units
  UsizeSpan                     \* sizes are computed modulo this

CONSTANTS Utf8,       \* the bytes of each character
          Blanks,     \* the characters that are white space
          Digits      \* the value of each digit

Space == " "

-----------------------------------------------------------------------------
(* The caps.                                                               *)

MaxTotal == MaxDocumentSize

RatioAllowed(compressed, size) == size <= compressed * MaxRatio + RatioSlack

EntryWithinCaps(compressed, size, total) ==
  /\ size <= MaxEntry
  /\ RatioAllowed(compressed, size)
  /\ total + size <= MaxTotal

\* A reader is [error, total : the bytes read so far, ...].  What an entry
\* declares is no more than a reason to refuse it; what it inflates to counts.
ReadEntryTrusting(reader, entry) ==
  IF ~EntryWithinCaps(entry.compressed, entry.declared, reader.total)
  THEN [reader EXCEPT !.error = "ResourceLimitExceeded"]
  ELSE IF ~entry.inflates THEN [reader EXCEPT !.error = "InvalidDocument"]
  ELSE [reader EXCEPT !.total = @ + entry.declared]

ReadEntry(reader, entry) ==
  IF ~EntryWithinCaps(entry.compressed, entry.declared, 0)
  THEN [reader EXCEPT !.error = "ResourceLimitExceeded"]
  ELSE IF ~entry.inflates THEN [reader EXCEPT !.error = "InvalidDocument"]
  ELSE IF ~EntryWithinCaps(entry.compressed, entry.actual, reader.total)
  THEN [reader EXCEPT !.error = "ResourceLimitExceeded"]
  ELSE [reader EXCEPT !.total = @ + entry.actual]

\* The first pass: every entry by what it declares, and the media by their
\* number and bytes.
EntryPass(scan, entry) ==
  LET isMedia == entry.name = "media"
      media   == scan.media + (IF isMedia THEN entry.declared ELSE 0)
  IN  IF scan.error # "none" THEN scan
      ELSE IF entry.name = "broken" THEN [scan EXCEPT !.error = "InvalidDocument"]
      ELSE IF \/ ~EntryWithinCaps(entry.compressed, entry.declared, scan.total)
              \/ isMedia /\ (scan.images >= MaxImages \/ media > MaxMediaBytes)
      THEN [scan EXCEPT !.error = "ResourceLimitExceeded"]
      ELSE [scan EXCEPT !.total = @ + entry.declared, !.media = media,
                        !.images = @ + (IF isMedia THEN 1 ELSE 0)]

Scan(entries) ==
  FoldLeft(EntryPass, [error |-> "none", total |-> 0, media |-> 0, images |-> 0],
           entries)

-----------------------------------------------------------------------------
(* Lines of text.                                                          *)

Bytes(text) == FoldLeft(LAMBDA n, ch : n + Utf8[ch], 0, text)
IsBlank(text) == ToSet(text) \subseteq Blanks
Take(text, n) == SubSeq(text, 1, Least(n, Len(text)))

\* The longest beginning of a text that is no more than `room` bytes.
FloorCharBoundary(text, room) ==
  Take(text, Max({ n \in 0..Len(text) : Bytes(Take(text, n)) <= room }))

TrimEnd(text) ==
  Take(text, Max({0} \cup { n \in DOMAIN text : text[n] \notin Blanks }))
Trim(text) == Reverse(TrimEnd(Reverse(TrimEnd(text))))

\* A page is [lines, truncated, ...].  A line after the last that is allowed is
\* dropped without a word.
PushLine(page, text) ==
  LET room == MaxText - Bytes(FlattenSeq(page.lines))
  IN  IF IsBlank(text) \/ Len(page.lines) >= MaxLines \/ page.truncated THEN page
      ELSE IF room <= 0 THEN [page EXCEPT !.truncated = TRUE]
      ELSE [page EXCEPT !.lines = Append(@, FloorCharBoundary(text, room)),
                        !.truncated = Bytes(text) > room]

-----------------------------------------------------------------------------
(* The text of a part: what is directly inside a `t`.                      *)

ParagraphEnds == {"p", "tr", "row"}

\* Numeric and the five predefined references; others are dropped.
DecodeReference(event) == IF event.tag = "custom" THEN << >> ELSE event.text

\* The room left is a difference of sizes: it is computed modulo 2^64 in the
\* build that is shipped, for a line that a separator made one byte too long.
AddText(s, text) ==
  IF Bytes(s.line) + Bytes(text) <= MaxText THEN [s EXCEPT !.line = @ \o text]
  ELSE [s EXCEPT !.cut = TRUE,
          !.line = @ \o FloorCharBoundary(text, (MaxText - Bytes(@)) % UsizeSpan)]

AddRun(s, text) ==
  IF IsBlank(text) THEN [s EXCEPT !.blankRun = TRUE]
  ELSE AddText([s EXCEPT !.blankRun = FALSE], text)

\* A reference after a blank run gets the separator the run would have been.
AddReference(s, text) ==
  LET apart == /\ ~IsBlank(text) /\ s.blankRun
               /\ s.line # << >> /\ Last(s.line) # Space
  IN  IF text = << >> THEN s
      ELSE AddText([s EXCEPT !.line = IF apart THEN Append(@, Space) ELSE @,
                             !.blankRun = FALSE], text)

EndLine(s) == [PushLine(s, TrimEnd(s.line)) EXCEPT !.line = << >>]

OnEvent(s, event) ==
  CASE s.error # "none" -> s
    [] event.type = "malformed" -> [s EXCEPT !.error = "InvalidDocument"]
    [] event.type = "start" ->
         [s EXCEPT !.inText = (event.tag = "t"), !.blankRun = FALSE]
    [] event.type = "empty" -> IF event.tag \in ParagraphEnds THEN EndLine(s) ELSE s
    [] event.type = "end" ->
         [(IF event.tag \in ParagraphEnds THEN EndLine(s) ELSE s) EXCEPT !.inText = FALSE]
    [] event.type = "text" /\ s.inText -> AddRun(s, event.text)
    [] event.type = "ref" /\ s.inText -> AddReference(s, DecodeReference(event))
    [] OTHER -> s

EndPart(s) == IF s.line = << >> THEN s ELSE EndLine(s)
Finished(s) == [s EXCEPT !.truncated = @ \/ s.cut]

ExtractPartXml(body, truncated) ==
  Finished(EndPart(FoldLeft(OnEvent,
    [error |-> "none", lines |-> << >>, truncated |-> truncated, inText |-> FALSE,
     line |-> << >>, cut |-> FALSE, blankRun |-> FALSE], body)))

-----------------------------------------------------------------------------
(* The table of a worksheet.                                               *)

\* A cell's reference, like C4: its letters as numbers from 1, and its row.
ParseCellRef(cell) ==
  IF cell.letters = << >> \/ cell.row = 0 THEN << >>
  ELSE << FoldLeft(LAMBDA n, letter : 26 * n + letter, 0, cell.letters) - 1,
          cell.row - 1 >>

\* The shared string a cell names, if its text is the number of one.
SharedString(text, shared) ==
  LET index == FoldLeft(LAMBDA n, ch : 10 * n + Digits[ch], 0, text)
  IN  IF text # << >> /\ ToSet(text) \subseteq DOMAIN Digits /\ index < Len(shared)
      THEN shared[index + 1] ELSE << >>

\* The value goes to the slot of the row's number, whatever its column is.
PlaceCell(row, at, value) ==
  IF at = << >> \/ at[2] >= MaxRows \/ at[1] >= MaxCols THEN row
  ELSE [i \in 1..Max({Len(row), at[2] + 1}) |->
          IF i = at[2] + 1 THEN value ELSE IF i <= Len(row) THEN row[i] ELSE << >>]

OutOfCell(t) == [t EXCEPT !.at = << >>, !.isShared = FALSE, !.text = << >>]

EndCell(t) ==
  LET value == IF t.isShared THEN SharedString(Trim(t.text), t.shared)
               ELSE Trim(t.text)
  IN  OutOfCell([t EXCEPT !.row = PlaceCell(@, t.at, Take(value, MaxCell))])

OnSheetEvent(t, event) ==
  CASE t.error # "none" \/ Len(t.rows) >= MaxRows -> t
    [] event.type = "malformed" -> [t EXCEPT !.error = "InvalidDocument"]
    [] event.type = "start" /\ event.tag = "c" ->
         [t EXCEPT !.at = ParseCellRef(event.cell), !.isShared = event.shared,
                   !.text = << >>]
    [] event.type = "text" /\ t.at # << >> -> [t EXCEPT !.text = @ \o event.text]
    [] event.type = "ref" -> [t EXCEPT !.text = @ \o DecodeReference(event)]
    [] event.type = "end" /\ event.tag = "c" -> EndCell(t)
    [] event.type = "end" /\ event.tag = "row" /\ t.row # << >> ->
         [t EXCEPT !.rows = Append(@, t.row), !.row = << >>]
    [] OTHER -> t

ExtractTable(body, shared) ==
  FoldLeft(OnSheetEvent,
           [error |-> "none", rows |-> << >>, row |-> << >>, at |-> << >>,
            isShared |-> FALSE, text |-> << >>, shared |-> shared], body)

-----------------------------------------------------------------------------
(* The whole container.  `x` is what was read so far.                      *)

Named(entries, name) == { i \in DOMAIN entries : entries[i].name = name }

SlidesAsStored(entries) == SetToSortSeq(Named(entries, "slide"), LAMBDA i, j : i < j)

\* Slides by their number, and of one number by their place in the archive.
SlidesInOrder(entries) ==
  SetToSortSeq(Named(entries, "slide"),
               LAMBDA i, j : \/ entries[i].number < entries[j].number
                             \/ entries[i].number = entries[j].number /\ i < j)

\* What is read, in this order: the last document part of the archive, its
\* slides, the last strings, the first worksheet and the media.
ReadingOrder(entries) ==
  LET TheOne(Pick(_), name) ==
        IF Named(entries, name) = {} THEN << >> ELSE << Pick(Named(entries, name)) >>
      order == TheOne(Max, "document") \o SlidesInOrder(entries)
               \o TheOne(Max, "strings") \o TheOne(Min, "sheet")
               \o SetToSortSeq(Named(entries, "media"), LAMBDA i, j : i < j)
  IN  [k \in DOMAIN order |-> entries[order[k]]]

AddPage(x, entry, page) ==
  [x EXCEPT !.error = page.error, !.truncated = page.truncated,
            !.shared = IF entry.name = "strings" THEN page.lines ELSE @,
            !.pages = IF entry.name = "strings" THEN @ ELSE Append(@, page.lines)]

AddTable(x, table) == [x EXCEPT !.error = table.error, !.table = table.rows]

AddMedia(x, entry) ==
  IF x.mediaBytes + entry.actual > MaxMediaBytes
  THEN [x EXCEPT !.error = "ResourceLimitExceeded"]
  ELSE [x EXCEPT !.mediaBytes = @ + entry.actual, !.media = Append(@, entry.encoded)]

\* An entry that was read, or could not be.
Took(x, entry) ==
  CASE x.error # "none"      -> x
    [] entry.name = "sheet"  -> AddTable(x, ExtractTable(entry.body, x.shared))
    [] entry.name = "media"  -> AddMedia(x, entry)
    [] OTHER -> AddPage(x, entry, ExtractPartXml(entry.body, x.truncated))

\* No slide is read after a page that was cut.
ReadPart(x, entry) ==
  IF x.error # "none" \/ (entry.name = "slide" /\ x.truncated) THEN x
  ELSE Took(ReadEntry(x, entry), entry)

NothingRead ==
  [error |-> "none", total |-> 0, truncated |-> FALSE, pages |-> << >>,
   shared |-> << >>, table |-> << >>, media |-> << >>, mediaBytes |-> 0]

Failed(error) == [NothingRead EXCEPT !.error = error]

HasContent(x) ==
  \/ \E i \in DOMAIN x.pages : \E j \in DOMAIN x.pages[i] : ~IsBlank(x.pages[i][j])
  \/ x.table # << >> \/ x.media # << >>

WithContent(x) ==
  IF x.error = "none" /\ ~HasContent(x) THEN Failed("InvalidDocument") ELSE x

IsOffice(entries) ==
  /\ Named(entries, "types") # {}
  /\ \E name \in {"document", "slide", "strings"} : Named(entries, name) # {}

Admission(entries, scan) ==
  IF Len(entries) \notin 1..MaxZipEntries THEN "ResourceLimitExceeded"
  ELSE IF scan.error = "none" /\ ~IsOffice(entries) THEN "InvalidDocument"
  ELSE scan.error

ExtractIf(error, entries) ==
  IF error # "none" THEN Failed(error)
  ELSE WithContent(FoldLeft(ReadPart, NothingRead, ReadingOrder(entries)))

Extract(entries) == ExtractIf(Admission(entries, Scan(entries)), entries)

\* A workbook's table is drawn on a page that has no text.
WithPage(x) ==
  IF x.pages = << >> /\ x.table # << >> THEN [x EXCEPT !.pages = << << >> >>] ELSE x

OoxmlInfo(x) == [pages |-> Len(x.pages), width |-> PageWidth, height |-> PageHeight]

WithInfo(x) ==
  IF x.error # "none" \/ ValidInfo(OoxmlInfo(x)) THEN x
  ELSE Failed(IF Len(x.pages) \in 1..MaxPageCount THEN "ResourceLimitExceeded"
              ELSE "InvalidDocument")

OoxmlOpen(entries) == WithInfo(WithPage(Extract(entries)))
=============================================================================
