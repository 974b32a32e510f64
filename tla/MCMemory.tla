----------------------------- MODULE MCMemory -------------------------------
(* Programs: a sound one, one that is large, and one for each of exec's checks. *)
EXTENDS Memory
CONSTANT x

seg(vaddr, filesz, memsz) ==
  [load |-> TRUE, vaddr |-> vaddr, filesz |-> filesz, memsz |-> memsz, short |-> FALSE, byte |-> x]
prog(segs) == [magic |-> TRUE, segs |-> segs, args |-> <<1, 1>>, arg |-> x]
MCImages ==
  { prog(<<seg(0, 1, 1), seg(2, 1, 2)>>),                       \* text and bss
    prog(<<seg(0, 1, 2), [seg(0, 0, 0) EXCEPT !.load = FALSE]>>),
    [prog(<<seg(0, 1, 1)>>) EXCEPT !.args = <<1, 2>>],          \* too many arguments
    prog(<<seg(0, 1, 1), seg(8, 1, 60)>>),                      \* too large
    prog(<<seg(0, 1, 1), seg(1, 1, 1)>>),                       \* not aligned
    prog(<<seg(0, 1, 1), seg(250, 2, 8)>>),                     \* wraps around
    prog(<<seg(0, 2, 1)>>),                                     \* filesz > memsz
    prog(<<[seg(0, 2, 2) EXCEPT !.short = TRUE]>>),             \* file too short
    [prog(<<>>) EXCEPT !.magic = FALSE] }

\* The state up to a renaming of the pages, which nothing depends on: the page
\* tables unfolded, with the contents of the pages in place of their numbers.
RECURSIVE Tree(_, _, _)
Tree(p, pt, level) ==
  [i \in 0..(FANOUT - 1) |->
     LET pte == m.ram[pt][i]
     IN IF pte = NoPte THEN NoPte
        ELSE IF level > 0 THEN Tree(p, pte.pa, level - 1)
        ELSE <<pte.flags, pte.pa = trapframe[p], IF pte.pa \in Page THEN m.ram[pte.pa] ELSE pte.pa>>]
Shape == << [p \in Proc |-> IF Alive(p) THEN Tree(p, pagetable[p], LEVELS - 1) ELSE NoPage],
            sz, m.panic,
            [k \in 0..2 |-> Cardinality({pg \in Page : m.free[pg] = k})] >>

MCIncrements == {-40, -3, 3, 63}
=============================================================================
