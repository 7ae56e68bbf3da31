--------------------------- MODULE MCQueueRunner ---------------------------
(* Small instances of QueueRunner for TLC.  The messages are m1 and m2, or *)
(* m1 alone; each instance says which deliveries they carry and which of   *)
(* those are requested reviews.                                            *)
EXTENDS QueueRunner

CONSTANTS m1, m2, d1, d2, r1

(* Each message carries a delivery of its own.                             *)
OwnDeliveries == [m \in Messages |-> IF m = m1 THEN d1 ELSE d2]

(* The second message is malformed.                                        *)
SecondMalformed == [m \in Messages |-> IF m = m1 THEN d1 ELSE Malformed]

AllAutomatic == [d \in Deliveries |-> NoRequest]
AllRequested == [d \in Deliveries |-> r1]
=============================================================================
