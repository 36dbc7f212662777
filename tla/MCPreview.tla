------------------------------- MODULE MCPreview -------------------------------
(* Model-checking instance of the renderers: small documents of every kind.   *)
(* The characters are a, b, a wide one of two bytes, the digit 0 and a blank. *)
EXTENDS Preview

Widths   == [ch \in {"a", "b", "W", "0", " "} |-> IF ch = "W" THEN 160 ELSE 60]
InUtf8   == [ch \in {"a", "b", "W", "0", " "} |-> IF ch = "W" THEN 2 ELSE 1]
DigitValues == [ch \in {"0"} |-> 0]

-----------------------------------------------------------------------------
(* XML.                                                                    *)

Event(type, tag, text) ==
  [type |-> type, tag |-> tag, text |-> text, cell |-> [letters |-> << >>, row |-> 0],
   shared |-> FALSE]

Text(text)    == Event("text", "", text)
Ref(tag)      == Event("ref", tag, << "b" >>)
Within(tag, events) == << Event("start", tag, << >>) >> \o events \o << Event("end", tag, << >>) >>
Paragraph(events) == Within("p", Within("t", events))

Items == { Text(<< "a" >>), Text(<< "W", " " >>), Text(<< " " >>), Text(<< "a", "a" >>),
           Ref("numeric"), Ref("custom") }

Bodies ==
  { Paragraph(first) : first \in BoundedSeq(Items, 3) }
  \cup { Paragraph(first) \o Paragraph(second) :
           first \in BoundedSeq(Items, 2), second \in TupleOf(Items, 1) }
  \cup { Paragraph(<< Text(<< " " >>), Text(text), Ref("numeric") >>)
         \o << Event("empty", "p", << >>) >> \o Within("t", << Text(text) >>) :
           text \in { << "a" >>, << "a", "a", "a", "a", "a" >>,
                      << "a", " ", " ", "b", "W" >> } }
  \cup { Paragraph(<< Text(<< "a", "a", "a", "a", "a" >>), Text(<< " " >>), Ref("numeric"),
                      Text(<< "b", "b" >>) >>) }

Short     == Paragraph(<< Text(<< "a" >>) >>)
Long      == Paragraph(<< Text(<< "a", "a", "a" >>), Text(<< "b", "W", "b" >>) >>)
Malformed == Within("p", << Event("malformed", "", << >>) >>)
Lines     == Paragraph(<< Text(<< "a" >>) >>) \o Paragraph(<< Text(<< "b" >>) >>)
             \o Paragraph(<< Text(<< "a" >>) >>) \o Paragraph(<< Text(<< "b" >>) >>)

Cell(letters, row, shared, text) ==
  << [Event("start", "c", << >>) EXCEPT !.cell = [letters |-> letters, row |-> row],
                                        !.shared = shared],
     Text(text), Ref("custom"), Event("end", "c", << >>) >>

Sheets ==
  LET Row(cells) == Within("row", cells)
      one(row)   == Cell(<< 1 >>, row, FALSE, << "a", " ", "b", "a" >>)
      two(row)   == Cell(<< 2 >>, row, TRUE, << "0" >>)
  IN  { Row(one(1)) \o Row(one(second)) \o Row(two(third)) : second, third \in {0, 2, 3} }
      \cup { Row(one(1) \o two(1)), Row(two(2)) \o Malformed, Row(<< >>),
             Row(Cell(<< 1, 1 >>, 1, FALSE, << "a" >>)),
             Row(Cell(<< 1 >>, 5, FALSE, << "a" >>)), Row(<< Ref("numeric") >> \o one(4)) }

-----------------------------------------------------------------------------
(* Documents.                                                              *)

Image(size, magic, color, depth, width, height, pixels) ==
  [size |-> size, magic |-> magic, entries |-> << >>, header |-> TRUE, color |-> color,
   depth |-> depth, width |-> width, height |-> height, pixels |-> pixels,
   complete |-> TRUE]

NoImage == Image(0, "Unknown", 0, 0, 0, 0, << >>)
NoPdf   == [readable |-> FALSE, pages |-> << >>]

Part(name, number, body) ==
  [name |-> name, number |-> number, compressed |-> 1, declared |-> 1,
   inflates |-> TRUE, actual |-> 1, body |-> body, encoded |-> NoImage]

Document(size, magic, parts, image, pdf) ==
  [size |-> size, magic |-> magic, parts |-> parts, image |-> image, pdf |-> pdf]

Office(parts) ==
  Document(MinSniffed, "Zip", << Part("types", 0, << >>) >> \o parts, NoImage, NoPdf)

Picture(width, height) ==
  [Part("media", 0, << >>) EXCEPT
     !.encoded = Image(MinSniffed, "Png", 3, 3, width, height,
                       [i \in 1..(width * height) |-> 0])]

Words == { Office(<< Part("document", 0, body) >>) : body \in Bodies }

Decks ==
  LET Slides == { Part("slide", number, body) : number \in {1, 2},
                                                body \in {Short, Long, Lines} }
      Others == { Part("document", 0, Long), Part("other", 0, << >>),
                  Part("strings", 0, Short), Part("slide", 1, Malformed),
                  Part("container", 0, << >>), Part("broken", 0, << >>) }
  IN  { Office(parts) : parts \in BoundedSeq(Slides \cup Others, 3) }
      \cup { Document(MinSniffed, "Zip", parts, NoImage, NoPdf) :
               parts \in { << >>, << Part("document", 0, Short) >>,
                           << Part("container", 0, << >>) >> } }

Workbooks ==
  { Office(<< Part("strings", 0, strings), Part("sheet", 0, sheet) >>) :
      strings \in {Short, Long}, sheet \in Sheets }

\* Sizes at and over each cap, with media that are small, large or no image.
Bombs ==
  LET Sized(part, compressed, declared, actual) ==
        [part EXCEPT !.compressed = compressed, !.declared = declared, !.actual = actual]
      Entries_ == { Sized(part, 4, declared, actual) :
                      part \in { Part("document", 0, Short), Picture(2, 1) },
                      declared \in {1, 4, MaxEntry + 1},
                      actual \in {1, 4, MaxEntry, MaxEntry + 1} }
                  \cup { Sized(Picture(1, 3), 1, declared, actual) :
                           declared, actual \in {3, 4} }
                  \cup { [Picture(3, 3) EXCEPT !.inflates = FALSE],
                         [Picture(3, 3) EXCEPT !.encoded.complete = FALSE] }
  IN  { Office(<< Part("document", 0, Lines) >> \o parts) : parts \in BoundedSeq(Entries_, 2) }

Images ==
  LET Shapes == { << 1, 1 >>, << 2, 1 >>, << 1, 3 >>, << 2, 2 >>, << 3, 1 >>, << 3, 2 >> }
      Shown == UNION { { Image(MinSniffed, magic, 3, 3, shape[1], shape[2], pixels) :
                           magic \in {"Png"},
                           pixels \in [1..(shape[1] * shape[2]) -> {0, 9}] } :
                       shape \in Shapes }
      Plain(magic, color, depth, width, height) ==
        Image(MinSniffed, magic, color, depth, width, height,
              [i \in 1..Least(width * height, 4) |-> 5])
  IN  Shown \cup
      { Plain(magic, color, depth, 2, 2) : magic \in {"Png", "Jpeg", "WebP", "Gif"},
                                           color, depth \in {1, 3, 4} }
      \cup { Plain("Png", 3, 3, width, height) : width, height \in {0, 1, MaxPageWidth + 1} }
      \cup { [Plain("WebP", 3, 3, 1, 1) EXCEPT !.size = MaxDocumentSize + 1],
             [Plain("Jpeg", 3, 3, 1, 1) EXCEPT !.complete = FALSE],
             [Plain("Jpeg", 3, 3, 1, 1) EXCEPT !.header = FALSE],
             [Plain("WebP", 3, 3, 1, 1) EXCEPT !.size = MinSniffed - 1] }

Photos == { Document(image.size, image.magic, << >>, image, NoPdf) : image \in Images }

Pdfs ==
  LET Sheets_ == [width : {0, 1, 5, 2 * MaxPageWidth + 1}, height : {-1, 3, 8},
                  loads : BOOLEAN]
  IN  { Document(MinSniffed, "Pdf", << >>, NoImage, [readable |-> readable, pages |-> pages]) :
          readable \in BOOLEAN, pages \in BoundedSeq(Sheets_, 2) }

DocumentsOfAllKinds == Words \cup Decks \cup Workbooks \cup Bombs \cup Photos \cup Pdfs
TargetsAtTheEdges ==
  { << 0, 1 >>, << 1, 1 >>, << 3, 2 >>, << 4, 4 >>, << 6, 3 >>, << 12, 40 >>,
    << 40, 14 >>, << 4, MaxPageHeight + 1 >> }
=============================================================================
