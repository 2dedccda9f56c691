------------------------------ MODULE Monitors ------------------------------
(* The two monitors of thread_utils.h that are built on SimpleConditionVar:*)
(* SharedList, which this module extends, and OnOffSwitch.  They share     *)
(* nothing, so each has threads and a mutex of its own.                    *)
EXTENDS SharedList

CONSTANTS Setters, Waiters, MaxSets, MaxWakeups              \* of OnOffSwitch

VARIABLES on_off, sw_holder, sw_pc, op, sets, wakeups, ons, offs, turned

Switch == INSTANCE OnOffSwitch
            WITH holder <- sw_holder, pc <- sw_pc, taken <- turned,
                 Nobody <- NoThread

(* While the switch is on a thread sleeps in one of its waits only if it   *)
(* is about to be woken, turn_off and late newcomers notwithstanding.      *)
NoSleeperWhileOn == Switch!NoSleeperWhileOn

(* Of several waiters in wait_then_turn_off that one turn_on has woken, at *)
(* most one takes it: the flag is tested and cleared under one lock.       *)
TakenOncePerOn == Switch!TakenOncePerOn

(* A switch that is turned on and stays on lets every waiter return.       *)
OnReleasesAll == Switch!OnReleasesAll
=============================================================================
