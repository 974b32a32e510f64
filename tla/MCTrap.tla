------------------------------- MODULE MCTrap -------------------------------
(* Trap with two processes on two CPUs: p1 sleeps for a while, p2 kills it.*)
EXTENDS Trap
CONSTANTS p1, p2

MCSleeps == {<<p1, 1>>, <<p1, 2>>}
MCKills == {<<p2, p1>>}

\* Registers that nothing reads before they are written again are left out.
Live(c) == pc[cpu[c].on] \in {"uservec", "save", "kerneltrap"}
View == <<[c \in Cpu |-> IF Live(c) THEN cpu[c]
                         ELSE [cpu[c] EXCEPT !.sepc = 0, !.cause = None, !.spp = None, !.spie = 0]],
          pc, frame, ticks, tickslock, panicked,
          [x \in {y \in Proc : proc[y].state # "ZOMBIE"} |-> [proc[x] EXCEPT !.epc = IF pc[x] = "user" THEN None ELSE @,
                                          !.upc = IF pc[x] = "user" THEN @ ELSE None,
                                          !.hartid = IF pc[x] \in {"user", "uservec"} THEN @ ELSE 0]],
          [x \in Ctx |-> IF pc[x] \in {"user", "exited"} THEN [upc |-> None, kpc |-> None]
                         ELSE IF frame[x].spp = None /\ pc[x] # "kerneltrap" THEN [goal[x] EXCEPT !.kpc = None] ELSE goal[x]]>>
=============================================================================
