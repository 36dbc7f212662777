------------------------------- MODULE MCHandOff -------------------------------
(* Model-checking instance of the hand-off: two files from the browser, and   *)
(* files of the user; a queue of two, and two failures that end a drain.      *)
EXTENDS HandOff, TLC

CONSTANTS h1, h2, f1

Good == [terminal |-> FALSE, declared |-> 100, arrives |-> TRUE,
         decodes |-> TRUE, action |-> "open_file"]
SomeMessages ==
  { Good, [Good EXCEPT !.terminal = TRUE], [Good EXCEPT !.declared = 0],
    [Good EXCEPT !.declared = 65536], [Good EXCEPT !.declared = 65537],
    [Good EXCEPT !.arrives = FALSE], [Good EXCEPT !.action = "other"] }

Sound == [local |-> TRUE, regular |-> TRUE, extension |-> "pdf", magic |-> "pdf",
          length |-> 12, size |-> 100, within |-> TRUE]
SomeLooks ==
  { Sound, [Sound EXCEPT !.magic = "webp", !.length = 11],
    [Sound EXCEPT !.size = 67108865], [Sound EXCEPT !.within = FALSE],
    [Sound EXCEPT !.regular = FALSE], [Sound EXCEPT !.extension = "html"] }
=============================================================================
