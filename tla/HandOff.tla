-------------------------------- MODULE HandOff --------------------------------
(***************************************************************************)
(* The hand-off of files from the browser to a document that is shown: the *)
(* brokers of NativeBroker and the application of AppOpening, which meet   *)
(* in the command line of a process and in an acknowledgement file.        *)
(***************************************************************************)
EXTENDS AppOpening

vars == << brokerVars, appVars >>

Init == BrokerInit /\ AppInit

Broker(h) == BrokerStep(h) /\ UNCHANGED appVars

Clock == \E h \in HandOffs : Expire(h) /\ UNCHANGED appVars

Next == Clock \/ (\E h \in HandOffs : Broker(h)) \/ AppStep

\* The brokers run and time passes; the application need not do anything.
Spec == Init /\ [][Next]_vars
             /\ WF_vars(Clock) /\ \A h \in HandOffs : WF_vars(Broker(h))

-----------------------------------------------------------------------------
(* Properties.                                                             *)

\* Every variable has its type; the queue never grows over its limit.
TypeOK == BrokerTypeOK /\ AppTypeOK

\* The browser is told "opened" only of a file the application did open, in
\* whatever order the broker polls, the application queues, opens, creates and
\* writes, and either of them leaves (native-broker main.rs:95, commands.rs:219).
\* The converse does not hold: a poll between create and write finds an empty
\* file and is answered as a refusal, and so is one after 45 seconds.
OkMeansOpened == \A h \in HandOffs : broker[h] = "opened" => h \in opened

\* A drain does not end with a file left in the queue, unless the event for
\* that file is still on its way or the viewer remembers that it was asked to
\* look: no event is forgotten, whatever came between the look at the queue and
\* its answer (App.vue:355).  A drain that gives up after too many failures in a
\* row leaves files behind, which wait for the next event or dialog; so do those
\* that came during a drop, since a drop that ends does not look.
NoFileForgotten ==
  [][ listening = "yes" /\ running' /\ task.by = "drain" /\ task' = NoTask
        /\ queue # << >>
        => events > 0 \/ requested' \/ task.failures + 1 >= MaxFailures ]_vars

\* The manager has no document that nothing will close: each is shown, being
\* closed or on its way to the window, whatever came in between and whether it
\* was picked, dropped or handed over.  The exception is a dropped file whose
\* metadata could not be had after it was opened (App.vue:227): it, and no other
\* dropped file, keeps its place in the manager for as long as the application
\* runs.
OnlyDropsLeak ==
  open \ ({ shown, task.file } \cup closing) \subseteq stranded

\* Every browser gets an answer, whatever becomes of the application.
EveryHandOffAnswered ==
  \A h \in HandOffs : broker[h] = "launch" ~> broker[h] \in Answers
=============================================================================
