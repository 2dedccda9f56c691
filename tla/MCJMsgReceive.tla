---------------------------- MODULE MCJMsgReceive ----------------------------
(* Three frames; a header of two bytes, data of none or two, the size 3 is *)
(* out of range.                                                           *)
EXTENDS JMsgReceive
=============================================================================
