----------------------------- MODULE LineInput -----------------------------
(***************************************************************************)
(* What the console's input side promises: the line being typed can still  *)
(* be edited; it is handed over as a whole when it ends, or when there is  *)
(* no room left; readers take characters in the order they were typed, no  *)
(* read goes on past the end of a line, and an end of file is taken only   *)
(* by a read that has taken nothing else.  Module Console is the           *)
(* implementation (kernel/console.c).                                      *)
(***************************************************************************)
EXTENDS Naturals, Sequences

CONSTANTS Reader, Char, Size,
          Newline, Eof    \* the characters that end a line

VARIABLES line,     \* what has been typed of the current line
          input,    \* characters handed over and not taken yet
          got       \* characters each reader has taken in its current read

vars == <<line, input, got>>

Init == line = <<>> /\ input = <<>> /\ got = [p \in Reader |-> 0]

Room == Len(input) + Len(line) < Size

Type(c) ==
  /\ Room
  /\ \/ /\ c \in {Newline, Eof} \/ Len(input) + Len(line) + 1 = Size
        /\ input' = input \o Append(line, c)
        /\ line' = <<>>
     \/ /\ c \notin {Newline, Eof} /\ Len(input) + Len(line) + 1 < Size
        /\ line' = Append(line, c)
        /\ UNCHANGED input
  /\ UNCHANGED got

Rubout == line # <<>> /\ line' = SubSeq(line, 1, Len(line) - 1) /\ UNCHANGED <<input, got>>
KillLine == line' = <<>> /\ UNCHANGED <<input, got>>

Take(p) ==
  /\ input # <<>> /\ Head(input) # Eof
  /\ input' = Tail(input)
  /\ \E n \in {0, got[p] + 1} :
       /\ Head(input) = Newline => n = 0
       /\ got' = [got EXCEPT ![p] = n]
  /\ UNCHANGED line

TakeEof(p) ==
  /\ input # <<>> /\ Head(input) = Eof
  /\ got[p] = 0
  /\ input' = Tail(input)
  /\ UNCHANGED <<line, got>>

Finish(p) == got' = [got EXCEPT ![p] = 0] /\ UNCHANGED <<line, input>>

Next == \/ \E c \in Char : Type(c)
        \/ Rubout \/ KillLine
        \/ \E p \in Reader : Take(p) \/ TakeEof(p) \/ Finish(p)
Spec == Init /\ [][Next]_vars
=============================================================================
