--------------------------- MODULE MCBrowserExtension ---------------------------
(* Model-checking instance of the browser extension: an attachment with a      *)
(* button and a link to the same file, and a file that is elsewhere.           *)
EXTENDS BrowserExtension, TLC

CONSTANTS a1, other, b1, c1, c2

ButtonUrls == b1 :> a1

Alike == Permutations({c1, c2})
=============================================================================
