------------------------------ MODULE MCPageCache ------------------------------
(* Model-checking instance of the page cache: six keys (a page of each of    *)
(* three documents at two sizes) and the capacity of the code, three.        *)
(* Documents and rasters are interchangeable.                                *)
EXTENDS PageCacheMachine

Symmetric == Permutations(Documents) \cup Permutations(Rasters)
=============================================================================
