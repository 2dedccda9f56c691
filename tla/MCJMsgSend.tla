----------------------------- MODULE MCJMsgSend -----------------------------
(* One connection, the loop and two workers, three messages.               *)
EXTENDS JMsgSend

CONSTANTS w1, w2
=============================================================================
