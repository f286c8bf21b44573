---------------------------- MODULE ModuleTable ----------------------------
(***************************************************************************)
(* What the table of modules in the EEPROM promises over any number of     *)
(* power failures (pstorage.cpp): ids are handed out in order, an id is    *)
(* reserved before a module gets it, only the newest id can still be       *)
(* given to a module, and a module stays.  An id that a power failure took *)
(* is lost for ever, it never goes to another module.                      *)
(***************************************************************************)
EXTENDS Naturals

CONSTANT Ids, MAX_NUM_MODULES   \* Ids: those of the ids that are followed

VARIABLES next, modules

vars == <<next, modules>>

Init == next = 0 /\ modules = {}

Reserve ==
    /\ next < MAX_NUM_MODULES /\ next' = next + 1
    /\ UNCHANGED modules

Commit ==
    /\ next > 0 /\ next - 1 \in Ids \ modules
    /\ modules' = modules \cup {next - 1}
    /\ UNCHANGED next

Next == Reserve \/ Commit

Spec == Init /\ [][Next]_vars
=============================================================================
