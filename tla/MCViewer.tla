-------------------------------- MODULE MCViewer --------------------------------
(* Model-checking instance of the viewer: three documents, of two, three and  *)
(* one pages, one after the other.                                            *)
EXTENDS Viewer

Counts == << 2, 3, 1 >>
=============================================================================
