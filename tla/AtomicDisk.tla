----------------------------- MODULE AtomicDisk -----------------------------
(***************************************************************************)
(* What the logging layer promises to the file system: a disk whose        *)
(* contents survive a crash, on which the writes of the system calls that  *)
(* were in progress together become durable at once, and only at a moment  *)
(* when no call is in progress.  A call interrupted by a crash leaves no   *)
(* trace, neither does a finished call whose group was not yet committed.  *)
(* Module Log is the implementation (kernel/log.c).                        *)
(***************************************************************************)
CONSTANTS Proc,   \* kernel threads that run file-system calls
          Block,  \* home blocks of the file system
          Val     \* contents of a block

VARIABLES durable,  \* what a crash leaves: [Block -> Val]
          memory,   \* what running calls read: [Block -> Val]
          active,   \* calls between begin_op and end_op
          up        \* the file system is mounted

vars == <<durable, memory, active, up>>

TypeOK ==
  /\ durable \in [Block -> Val]
  /\ memory \in [Block -> Val]
  /\ active \subseteq Proc
  /\ up \in BOOLEAN

Init ==
  /\ durable \in [Block -> Val]
  /\ memory = durable
  /\ active = {}
  /\ up = FALSE

Begin(p) ==
  /\ up /\ p \notin active
  /\ active' = active \cup {p}
  /\ UNCHANGED <<durable, memory, up>>

Write(p, b, v) ==
  /\ up /\ p \in active
  /\ memory' = [memory EXCEPT ![b] = v]
  /\ UNCHANGED <<durable, active, up>>

End(p) ==
  /\ up /\ p \in active
  /\ active' = active \ {p}
  /\ UNCHANGED <<durable, memory, up>>

Commit ==
  /\ up /\ active = {}
  /\ durable' = memory
  /\ UNCHANGED <<memory, active, up>>

Crash ==
  /\ up' = FALSE
  /\ active' = {}
  /\ memory' = durable
  /\ UNCHANGED durable

Recover ==
  /\ ~up
  /\ up' = TRUE
  /\ UNCHANGED <<durable, memory, active>>

Next ==
  \/ \E p \in Proc : Begin(p) \/ End(p)
  \/ \E p \in Proc, b \in Block, v \in Val : Write(p, b, v)
  \/ Commit \/ Crash \/ Recover

Spec == Init /\ [][Next]_vars
=============================================================================
