---------------------------- MODULE MCConnManager ----------------------------
(* Two clients and two backends for three ids: the ids wrap, and are found *)
(* in use; the bound on Accept keeps clients from taking them all again    *)
(* and again.                                                              *)
EXTENDS ConnManager
=============================================================================
