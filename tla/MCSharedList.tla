---------------------------- MODULE MCSharedList ----------------------------
(* The monitors with two producers, two fetching workers and a consumer    *)
(* that drains the list; two setters and two waiters of the switch.  They  *)
(* share nothing, so a behaviour exercises one of them, its subject.       *)
EXTENDS Monitors

CONSTANTS p1, p2, c1, c2, d1

VARIABLES subject

switchVars == <<on_off, sw_holder, sw_pc, op, sets, wakeups, ons, offs, turned>>
allVars    == <<subject, vars, switchVars>>

ASSUME MCAssumption == Switch!SwitchAssumption

MCInit == Init /\ Switch!Init /\ subject \in {"list", "switch"}

MCNext == \/ subject = "list"   /\ Next         /\ UNCHANGED <<subject, switchVars>>
          \/ subject = "switch" /\ Switch!Next  /\ UNCHANGED <<subject, vars>>

OfList(A)   == subject = "list"   /\ A /\ UNCHANGED <<subject, switchVars>>
OfSwitch(A) == subject = "switch" /\ A /\ UNCHANGED <<subject, vars>>

(* The fairness of either module, for the behaviours that exercise it.     *)
MCFairness ==
    /\ \A c \in Consumers : WF_allVars(OfList(Step(c)))
    /\ \A p \in Producers : WF_allVars(OfList(Step(p) /\ pc[p] # "out"))
    /\ \A t \in Switch!Threads : SF_allVars(OfSwitch(Switch!AcquireLock(t)))
    /\ \A s \in Setters : WF_allVars(OfSwitch(Switch!SetStep(s)))
    /\ \A w \in Waiters : WF_allVars(OfSwitch(Switch!WaitStep(w)))

MCSpec == MCInit /\ [][MCNext]_allVars /\ MCFairness
=============================================================================
