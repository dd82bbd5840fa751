----------------------------- MODULE MCMailPath -----------------------------
(* Instances of MailPath for TLC.                                          *)
EXTENDS MailPath

\* Ghost sends a batch of two and then a single message.
TwoBatches == [m \in 1 .. Size |-> IF m <= 2 THEN "b1" ELSE "b2"]

\* The third message goes to the address of the first.
SharedAddress == [m \in 1 .. Size |-> IF m = 2 THEN "r2" ELSE "r1"]

\* The second address is one the mailer must not be handed.
SecondUnsafe == {2}
NoneUnsafe == {}
=============================================================================
