----------------------------- MODULE PdfRenderers -----------------------------
(***************************************************************************)
(* The two renderers of PDF files, one of which a worker is built with:    *)
(* Hayro (crates/renderer-worker/src/pdf_hayro.rs), the default, and MuPDF *)
(* (crates/renderer-worker/src/pdf.rs).  What the two libraries make of a  *)
(* file is external: a PDF has a `readable` flag and a sequence of `pages` *)
(* with their sizes in half points, which need not be positive, and        *)
(* `loads`, whether MuPDF can load the page.                               *)
(***************************************************************************)
EXTENDS ImageRenderer

HalfPoints == 2
Up(n, d) == (n + d - 1) \div d

\* The greatest scale at which the page is inside the target, <<over, under>>.
FitScale(page, width, height) ==
  IF width * page.height <= height * page.width
  THEN << width * HalfPoints, page.width >> ELSE << height * HalfPoints, page.height >>

Visible(page) == page.width > 0 /\ page.height > 0

PdfInfo(pdf, width, height) ==
  [pages |-> Len(pdf.pages), width |-> width, height |-> height]

InfoError(info) ==
  IF info.pages \notin 1..MaxPageCount THEN "InvalidDocument"
  ELSE IF ValidInfo(info) THEN "none" ELSE "ResourceLimitExceeded"

NotOpened(error) == [error |-> error, info |-> [pages |-> 0, width |-> 0, height |-> 0]]

OpenedWith(info) ==
  IF InfoError(info) # "none" THEN NotOpened(InfoError(info))
  ELSE [error |-> "none", info |-> info]

-----------------------------------------------------------------------------
(* Hayro.                                                                  *)

HayroOpen(pdf) ==
  IF \/ ~pdf.readable \/ pdf.pages = << >>
     \/ ~Visible(pdf.pages[1])
  THEN NotOpened("InvalidDocument")
  ELSE OpenedWith(PdfInfo(pdf, Up(pdf.pages[1].width, HalfPoints),
                          Up(pdf.pages[1].height, HalfPoints)))

\* The raster has the size asked for, white where the page does not reach.
\* The sizes fit Hayro's 16 bits, since MAX_PAGE_WIDTH and _HEIGHT do.
HayroRenderPage(pdf, page, width, height) ==
  IF ~RenderTarget(width, height) THEN NoPage("ResourceLimitExceeded")
  ELSE IF page >= Len(pdf.pages) THEN NoPage("InvalidDocument")
  ELSE IF ~Visible(pdf.pages[page + 1]) THEN NoPage("InvalidDocument")
  ELSE [RenderedPage(width, height) EXCEPT
          !.scale = FitScale(pdf.pages[page + 1], width, height)]

-----------------------------------------------------------------------------
(* MuPDF.                                                                  *)

MupdfOpen(pdf) ==
  IF \/ ~pdf.readable \/ Len(pdf.pages) \notin 1..MaxPageCount
     \/ ~pdf.pages[1].loads \/ ~Visible(pdf.pages[1])
  THEN NotOpened("InvalidDocument")
  ELSE OpenedWith(PdfInfo(pdf, pdf.pages[1].width \div HalfPoints,
                          pdf.pages[1].height \div HalfPoints))

\* The raster is as large as the page at its scale, so it may be smaller than
\* the one asked for.
MupdfRenderPage(pdf, page, width, height) ==
  IF ~RenderTarget(width, height) THEN NoPage("ResourceLimitExceeded")
  ELSE IF page >= Len(pdf.pages) THEN NoPage("InvalidDocument")
  ELSE LET sheet   == pdf.pages[page + 1]
           scale   == FitScale(sheet, width, height)
           Size(n) == Up(n * scale[1], HalfPoints * scale[2])
       IN  IF ~sheet.loads \/ ~Visible(sheet) THEN NoPage("InvalidDocument")
           ELSE IF ~RenderTarget(Size(sheet.width), Size(sheet.height))
           THEN NoPage("ResourceLimitExceeded")
           ELSE [RenderedPage(Size(sheet.width), Size(sheet.height)) EXCEPT
                   !.scale = scale]
=============================================================================
