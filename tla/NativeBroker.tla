------------------------------ MODULE NativeBroker ------------------------------
(***************************************************************************)
(* The native-messaging broker (crates/native-broker/src/main.rs): for each*)
(* file the browser hands over, a process that checks the request, starts  *)
(* the application with the path of an acknowledgement file, and polls for *)
(* that file until a deadline.  The application writes the file, in two    *)
(* steps (module AppOpening).                                              *)
(***************************************************************************)
EXTENDS DocumentChecks

CONSTANTS HandOffs,  \* files the browser hands over, a broker process for each
          Messages,  \* messages a browser, or someone else, may send
          Looks      \* what a look at a file may find

VARIABLES
  broker,   \* what each broker process is doing, or its answer
  expired,  \* polling brokers whose 45 seconds are over
  ack       \* each acknowledgement file: "none" without its directory

brokerVars == << broker, expired, ack >>

Answers == { "opened", "rejected", "unacknowledged", "refused", "failed" }

BrokerInit ==
  /\ broker = [h \in HandOffs |-> "idle"]
  /\ expired = {}
  /\ ack = [h \in HandOffs |-> "none"]

\* The request is read and the file looked at.
Request(h) ==
  /\ broker[h] = "idle"
  /\ \E m \in Messages, look \in Looks :
       broker' = [broker EXCEPT ![h] = Decide(m, look)]
  /\ UNCHANGED << expired, ack >>

\* A private directory, and the application next to the broker.
Launch(h) ==
  /\ broker[h] = "launch"
  /\ \/ /\ broker' = [broker EXCEPT ![h] = "polling"]
        /\ ack' = [ack EXCEPT ![h] = "absent"]
     \/ /\ broker' = [broker EXCEPT ![h] = "failed"] /\ UNCHANGED ack
  /\ UNCHANGED expired

Expire(h) ==
  /\ broker[h] = "polling" /\ h \notin expired
  /\ expired' = expired \cup {h}
  /\ UNCHANGED << broker, ack >>

\* A process that answers leaves, and takes its directory along.
Answer(h, answer) ==
  /\ broker' = [broker EXCEPT ![h] = answer]
  /\ ack' = [ack EXCEPT ![h] = "none"]
  /\ expired' = expired \ {h}

\* A look at the file; one that is there without "ok" in it is a refusal.
Look(h) ==
  /\ broker[h] = "polling" /\ h \notin expired /\ ack[h] # "absent"
  /\ Answer(h, IF ack[h] = "ok" THEN "opened" ELSE "rejected")

LookFails(h) ==
  broker[h] = "polling" /\ h \notin expired /\ Answer(h, "failed")

\* A mutant: the deadline is set anew in the loop.
DeadlineInLoop(h) ==
  /\ broker[h] = "polling" /\ h \in expired
  /\ expired' = expired \ {h}
  /\ UNCHANGED << broker, ack >>

GiveUp(h) ==
  broker[h] = "polling" /\ h \in expired /\ Answer(h, "unacknowledged")

BrokerStep(h) == Request(h) \/ Launch(h) \/ Look(h) \/ LookFails(h) \/ GiveUp(h)

BrokerTypeOK ==
  /\ broker \in [HandOffs -> Answers \cup { "idle", "launch", "polling" }]
  /\ expired \subseteq HandOffs
  /\ ack \in [HandOffs -> { "none", "absent", "empty", "ok", "error" }]
=============================================================================
