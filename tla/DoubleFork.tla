------------------------------ MODULE DoubleFork ------------------------------
(* How a command is started without waiting for it: shell_cmd_no_wait      *)
(* (CommMan/utils.cpp) and spawn_bg_wt_demo_as_my_client                   *)
(* (samples/echo_to_all.cpp), which differ in the command.  The caller     *)
(* forks a first child and waits for it; that one forks a second, which    *)
(* becomes the command, and exits.  Either fork may fail, and so may exec. *)
(*                                                                         *)
(* pc: "fork" (about to), "wait" (in waitpid), "exit" (about to), "setsid" *)
(*     and "exec" (about to), "command", "ended" (a zombie until its       *)
(*     parent has waited for it), "back" (the caller, when it has          *)
(*     returned), "none" (not there, or reaped)                            *)
(***************************************************************************)
VARIABLES
    pc,            \* of the processes "caller", "first" and "second"
    parent,        \* of the two children
    leader,        \* those that have a session of their own
    secondFailed   \* history: the second fork failed

vars == <<pc, parent, leader, secondFailed>>

Children == {"first", "second"}

Init ==
    /\ pc = [p \in Children \cup {"caller"} |-> IF p = "caller" THEN "fork" ELSE "none"]
    /\ parent = [p \in Children |-> "nobody"]
    /\ leader = {} /\ secondFailed = FALSE

-----------------------------------------------------------------------------
FirstFork ==
    /\ pc["caller"] = "fork"
    /\ \/ /\ pc' = [pc EXCEPT !["caller"] = "wait", !["first"] = "fork"]
          /\ parent' = [parent EXCEPT !["first"] = "caller"]
       \/ /\ pc' = [pc EXCEPT !["caller"] = "back"]
          /\ UNCHANGED parent
    /\ UNCHANGED <<leader, secondFailed>>

Waitpid ==
    /\ pc["caller"] = "wait" /\ pc["first"] = "ended"
    /\ pc' = [pc EXCEPT !["caller"] = "back", !["first"] = "none"]
    /\ UNCHANGED <<parent, leader, secondFailed>>

(* What the first child does next: exit if the fork gave it a child.  The  *)
(* test for a fork that failed asks `child', which is 0 here, instead of   *)
(* `child2': the first child goes on where the second should.  Mutant: it  *)
(* does not exit.                                                          *)
GoesOn(made) == "setsid"
AfterSecondFork(made) == IF made THEN "exit" ELSE "setsid"

SecondFork ==
    /\ pc["first"] = "fork"
    /\ \/ /\ pc' = [pc EXCEPT !["first"] = AfterSecondFork(TRUE), !["second"] = "setsid"]
          /\ parent' = [parent EXCEPT !["second"] = "first"]
          /\ UNCHANGED secondFailed
       \/ /\ pc' = [pc EXCEPT !["first"] = AfterSecondFork(FALSE)]
          /\ secondFailed' = TRUE
          /\ UNCHANGED parent
    /\ UNCHANGED leader

(* A process ends; its children get another parent, which waits for them.  *)
End(p) ==
    /\ pc' = [q \in DOMAIN pc |->
            IF q = p THEN IF parent[p] = "init" THEN "none" ELSE "ended"
            ELSE IF p = "first" /\ q = "second" /\ pc[q] = "ended" THEN "none"
            ELSE pc[q]]
    /\ parent' = IF p = "first" /\ parent["second"] = "first"
                 THEN [parent EXCEPT !["second"] = "init"] ELSE parent
    /\ UNCHANGED <<leader, secondFailed>>

Exit(p) == pc[p] = "exit" /\ End(p)

Setsid(p) ==
    /\ pc[p] = "setsid"
    /\ pc' = [pc EXCEPT ![p] = "exec"]
    /\ leader' = leader \cup {p}
    /\ UNCHANGED <<parent, secondFailed>>

(* execlp, or exit(-1) when it returns.                                    *)
Exec(p) ==
    /\ pc[p] = "exec"
    /\ \/ /\ pc' = [pc EXCEPT ![p] = "command"]
          /\ UNCHANGED <<parent, leader, secondFailed>>
       \/ End(p)

CommandEnds(p) == pc[p] = "command" /\ End(p)

Next ==
    \/ FirstFork \/ Waitpid \/ SecondFork
    \/ \E p \in Children : Exit(p) \/ Setsid(p) \/ Exec(p) \/ CommandEnds(p)

Spec == Init /\ [][Next]_vars

-----------------------------------------------------------------------------
(* Whatever the schedule of the three processes and whichever call fails:  *)
(* the command runs once, in a session of its own; a caller that has       *)
(* returned has left no child behind, alive or as a zombie; and the caller *)
(* waits while the command runs only if the second fork failed, or for the *)
(* moment in which the first child has yet to exit.                        *)
CallDetaches ==
    /\ \A p \in Children : pc[p] = "command" => p \in leader
    /\ ~(pc["first"] = "command" /\ pc["second"] = "command")
    /\ pc["caller"] = "back" =>
          \A p \in Children : pc[p] # "none" => parent[p] = "init"
    /\ pc["first"] \in {"setsid", "exec", "command"} => secondFailed
=============================================================================
