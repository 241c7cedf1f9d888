------------------------------ MODULE MCServer ------------------------------
(***************************************************************************)
(* The servers checked: the lifecycle with every fault and three workers,  *)
(* the log with two, and inspection with the two targets it needs.         *)
(***************************************************************************)
EXTENDS Server

Plain(workers, run, faults) ==
    [workers |-> workers, log |-> "none", inspect |-> FALSE, run |-> run, faults |-> faults]

MCConfigurations ==
    {Plain(3, run, {"start", "spawn", "pin", "loop", "restore"}) : run \in BOOLEAN}
    \cup {[Plain(2, FALSE, {"loop", "sender"}) EXCEPT !.log = "pipe"],
          [Plain(2, FALSE, {"loop", "write"}) EXCEPT !.log = "file"],
          [Plain(3, FALSE, {}) EXCEPT !.inspect = TRUE]}

MCRecords == [w \in 0 .. 2 |-> IF w = 0 THEN 2 ELSE 1]

=============================================================================
