------------------------------- MODULE Shell -------------------------------
(***************************************************************************)
(* The shell, user/sh.c: how it parses a line, and how runcmd's processes  *)
(* fork, wait and pass descriptors around so that the programs of the line *)
(* are connected as it says.                                               *)
(*                                                                         *)
(* A line is a sequence of characters: "a" stands for any letter and " "   *)
(* for any white space.  The kernel is external: fork fails when there are *)
(* no processes left, open and dup take the lowest free descriptor, a read *)
(* from a pipe waits for all its writers to close it, and init reaps the   *)
(* processes whose parents are gone; it always finds a process for a new   *)
(* shell.                                                                  *)
(***************************************************************************)
EXTENDS Naturals, Sequences, SequencesExt, FiniteSets, FiniteSetsExt

CONSTANTS Lines,        \* what the user types
          Strings,      \* the lines on which the parser is compared with the grammar
          MAXARGS, NPROC, NPIPE, NOFILE

---------------------------------------------------------------------------
(* The parser.  Positions in the line stand for pointers.                  *)

NUL == "0"
symbols == {"<", "|", ">", "&", ";", "(", ")"}
At(l, s) == IF s > Len(l) THEN NUL ELSE l[s]
skip(l, s) == Min({k \in s .. Len(l) + 1 : At(l, k) # " "})
WordEnd(l, s) == Min({k \in s .. Len(l) + 1 : At(l, k) \in symbols \cup {" ", NUL}})

gettoken(l, s) ==
  LET q == skip(l, s)
      c == At(l, q)
      append == c = ">" /\ At(l, q + 1) = ">"
      eq == IF c = NUL THEN q ELSE IF append THEN q + 2 ELSE IF c \in symbols THEN q + 1 ELSE WordEnd(l, q) IN
  [ret |-> IF append THEN "+" ELSE IF c \in symbols \cup {NUL} THEN c ELSE "a",
   q |-> q, eq |-> eq, s |-> skip(l, eq)]

\* What gettoken finds at each place of the line; and the first character there.
Scanned(l) == [s \in 1 .. Len(l) + 1 |-> gettoken(l, s)]
peek(t, s, toks) == (IF t[s].ret = "+" THEN ">" ELSE t[s].ret) \in toks

execcmd(argv) == [type |-> "EXEC", argv |-> argv]
redircmd(cmd, r) == [type |-> "REDIR", cmd |-> cmd, file |-> r.file, tok |-> r.tok]
pipecmd(left, right) == [type |-> "PIPE", left |-> left, right |-> right]
listcmd(left, right) == [type |-> "LIST", left |-> left, right |-> right]
backcmd(cmd) == [type |-> "BACK", cmd |-> cmd]
Redirected(cmd, redirs) == FoldLeft(redircmd, cmd, redirs)

\* What a parser returns: the command, and how far it has come; s = 0 after a panic.
Bad == [cmd |-> execcmd(<<>>), s |-> 0]

\* The redirections at s, in order.
RECURSIVE parseredirs(_, _, _)
parseredirs(t, s, redirs) ==
  IF ~peek(t, s, {"<", ">"}) THEN [redirs |-> redirs, s |-> s]
  ELSE LET f == t[t[s].s] IN
       IF f.ret # "a" THEN [redirs |-> redirs, s |-> 0]
       ELSE parseredirs(t, f.s, Append(redirs, [file |-> <<f.q, f.eq>>, tok |-> t[s].ret]))

\* parseexec's loop.
RECURSIVE parseargs(_, _, _, _)
parseargs(t, s, argv, redirs) ==
  IF s = 0 THEN Bad
  ELSE IF peek(t, s, {"|", ")", "&", ";"}) \/ t[s].ret = NUL
  THEN [cmd |-> Redirected(execcmd(argv), redirs), s |-> t[s].q]
  ELSE IF t[s].ret # "a" \/ Len(argv) + 1 >= MAXARGS THEN Bad
  ELSE LET r == parseredirs(t, t[s].s, redirs) IN
       parseargs(t, r.s, Append(argv, <<t[s].q, t[s].eq>>), r.redirs)

\* parse[n, s] is what the parser n returns at s; each is given the others.
parseblock(t, s, parse) ==
  LET b == parse["line", t[s].s] IN
  IF b.s = 0 \/ ~peek(t, b.s, {")"}) THEN Bad
  ELSE LET r == parseredirs(t, t[b.s].s, <<>>) IN
       IF r.s = 0 THEN Bad ELSE [cmd |-> Redirected(b.cmd, r.redirs), s |-> r.s]

parseexec(t, s, parse) ==
  IF peek(t, s, {"("}) THEN parseblock(t, s, parse)
  ELSE LET r == parseredirs(t, s, <<>>) IN parseargs(t, r.s, <<>>, r.redirs)

parsepipe(t, s, parse) ==
  LET c == parseexec(t, s, parse) IN
  IF c.s = 0 \/ ~peek(t, c.s, {"|"}) THEN c
  ELSE LET r == parse["pipe", t[c.s].s] IN
       IF r.s = 0 THEN Bad ELSE [cmd |-> pipecmd(c.cmd, r.cmd), s |-> r.s]

\* parseline's loop over "&".
RECURSIVE parseback(_, _)
parseback(t, c) ==
  IF c.s = 0 \/ ~peek(t, c.s, {"&"}) THEN c
  ELSE parseback(t, [cmd |-> backcmd(c.cmd), s |-> t[c.s].s])

parseline(t, s, parse) ==
  LET c == parseback(t, parse["pipe", s]) IN
  IF c.s = 0 \/ ~peek(t, c.s, {";"}) THEN c
  ELSE LET r == parse["line", t[c.s].s] IN
       IF r.s = 0 THEN Bad ELSE [cmd |-> listcmd(c.cmd, r.cmd), s |-> r.s]

Parser(l) ==
  LET t == Scanned(l)
      parse[n \in {"line", "pipe"}, s \in 1 .. Len(l) + 1] ==
        IF n = "line" THEN parseline(t, s, parse) ELSE parsepipe(t, s, parse)
  IN parse["line", 1]

\* mutant: what follows a command is not looked at
parsecmdLeftovers(l) == Parser(l)
parsecmd(l) ==
  LET c == Parser(l) IN
  IF c.s # 0 /\ skip(l, c.s) # Len(l) + 1 THEN Bad ELSE c

\* The places where nulterminate writes a 0.
RECURSIVE nulterminate(_)
nulterminate(cmd) ==
  CASE cmd.type = "EXEC" -> {cmd.argv[i][2] : i \in DOMAIN cmd.argv}
    [] cmd.type = "REDIR" -> nulterminate(cmd.cmd) \cup {cmd.file[2]}
    [] cmd.type \in {"PIPE", "LIST"} -> nulterminate(cmd.left) \cup nulterminate(cmd.right)
    [] cmd.type = "BACK" -> nulterminate(cmd.cmd)

---------------------------------------------------------------------------
(* The grammar, as a reader would state it: the tokens of a line are found *)
(* anywhere in it, and a list is split at its first ";" outside of         *)
(* parentheses, a pipeline at its first "|".                               *)

Wordy(l, k) == k \in DOMAIN l /\ l[k] \notin symbols \cup {" "}
\* How many ">" come right before k.
Before(l, k) == Cardinality({j \in 1 .. k - 1 : \A i \in j .. k - 1 : l[i] = ">"})
Starts(l) == {k \in DOMAIN l : \/ Wordy(l, k) /\ ~Wordy(l, k - 1)
                               \/ l[k] \in symbols \ {">"}
                               \/ l[k] = ">" /\ Before(l, k) % 2 = 0}
TokenAt(l, k) ==
  [ret |-> IF Wordy(l, k) THEN "a" ELSE IF l[k] = ">" /\ At(l, k + 1) = ">" THEN "+" ELSE l[k],
   word |-> <<k, Min({j \in k .. Len(l) + 1 : ~Wordy(l, j)})>>]
Tokens(l) == LET ks == SetToSortSeq(Starts(l), <) IN [k \in DOMAIN ks |-> TokenAt(l, ks[k])]

Count(t, tok, i, k) == Cardinality({j \in i .. k - 1 : t[j].ret = tok})
Top(t, i, j, tok) == {k \in i .. j : t[k].ret = tok /\ Count(t, "(", i, k) = Count(t, ")", i, k)}
\* The parenthesis that closes the one at i.
Closing(t, i, j) == {k \in i + 1 .. j : /\ t[k].ret = ")"
                                        /\ Count(t, "(", i, k) = Count(t, ")", i, k) + 1}
Redir == {"<", ">", "+"}
WordsOf(t, K) == LET ks == SetToSortSeq(K, <) IN [k \in DOMAIN ks |-> t[ks[k]].word]
RedirsOf(t, K) == LET ks == SetToSortSeq(K, <) IN
                  [k \in DOMAIN ks |-> [file |-> t[ks[k] + 1].word, tok |-> t[ks[k]].ret]]

\* The commands that tokens i to j may stand for, as[n, i, j] for each form n of
\* command: one, or none.
AsExec(t, i, j, as) ==
  LET close == Closing(t, i, j)
      from == IF i > j \/ t[i].ret # "(" \/ close = {} THEN i ELSE Min(close) + 1
      redirs == {k \in from .. j : t[k].ret \in Redir}
      words == {k \in from .. j : t[k].ret = "a" /\ k - 1 \notin redirs}
      inner == IF from = i THEN IF Cardinality(words) < MAXARGS THEN {execcmd(WordsOf(t, words))} ELSE {}
               ELSE IF words = {} THEN as["line", i + 1, from - 2] ELSE {} IN
  IF \/ \E k \in from .. j : t[k].ret \notin Redir \cup {"a"}
     \/ \E k \in redirs : k = j \/ t[k + 1].ret # "a"
  THEN {} ELSE {Redirected(c, RedirsOf(t, redirs)) : c \in inner}

AsPipe(t, i, j, as) ==
  LET ks == Top(t, i, j, "|") IN
  IF ks = {} THEN AsExec(t, i, j, as)
  ELSE {pipecmd(a, b) : a \in AsExec(t, i, Min(ks) - 1, as), b \in as["pipe", Min(ks) + 1, j]}

AsBack(t, i, j, as) ==
  IF i <= j /\ t[j].ret = "&" THEN {backcmd(c) : c \in as["back", i, j - 1]} ELSE AsPipe(t, i, j, as)

AsLine(t, i, j, as) ==
  LET ks == Top(t, i, j, ";") IN
  IF ks = {} THEN AsBack(t, i, j, as)
  ELSE {listcmd(a, b) : a \in AsBack(t, i, Min(ks) - 1, as), b \in as["line", Min(ks) + 1, j]}

Meaning(l) ==
  LET t == Tokens(l)
      as[n \in {"line", "back", "pipe"}, i \in 1 .. Len(t) + 1, j \in 0 .. Len(t)] ==
        CASE n = "line" -> AsLine(t, i, j, as) [] n = "back" -> AsBack(t, i, j, as)
          [] n = "pipe" -> AsPipe(t, i, j, as)
  IN as["line", 1, Len(t)]

\* A word of the command as exec and open find it: from its start to the first 0.
AsString(l, zeroes, q) == <<q, Min({k \in q .. Len(l) + 1 : k \in zeroes \cup {Len(l) + 1}})>>
RECURSIVE WordsIn(_)
WordsIn(cmd) ==
  CASE cmd.type = "EXEC" -> Range(cmd.argv)
    [] cmd.type = "REDIR" -> WordsIn(cmd.cmd) \cup {cmd.file}
    [] cmd.type \in {"PIPE", "LIST"} -> WordsIn(cmd.left) \cup WordsIn(cmd.right)
    [] cmd.type = "BACK" -> WordsIn(cmd.cmd)

---------------------------------------------------------------------------
(* Running a line                                                          *)

Pid == 1 .. NPROC
sh == 1                              \* the shell itself; the others run runcmd
Fd == 0 .. NOFILE - 1
Closed == [of |-> "closed", n |-> 0]
Console == [of |-> "console", n |-> 0]
Opened(file) == [of |-> "file", n |-> file[1]]
ReadEnd(k) == [of |-> "read", n |-> k]
WriteEnd(k) == [of |-> "write", n |-> k]
NoCmd == execcmd(<<>>)
Dead == <<0, 0>>                     \* p[2] where it is not in use
Unused == [pc |-> "unused", cmd |-> NoCmd, fd |-> [d \in Fd |-> Closed], parent |-> 0, p |-> Dead,
           in |-> Console, out |-> Console, loose |-> FALSE]

VARIABLE proc       \* [Pid -> a process: where it is, its command, descriptors, parent and p[2];
                    \* where the line says that its input and output are (in, out); whether
                    \* the shell does not wait for it (loose)]
vars == <<proc>>

Stdio(n) == [d \in Fd |-> IF d < n THEN Console ELSE Closed]
Init ==
  \E n \in 0 .. 3 : proc = [p \in Pid |-> IF p = sh THEN [Unused EXCEPT !.pc = "open", !.fd = Stdio(n)] ELSE Unused]

\* The kernel: descriptors, processes, pipes.
lowest(fd) == Min({d \in Fd : fd[d] = Closed})
close(fd, d) == [fd EXCEPT ![d] = Closed]
open(fd, f) == [fd EXCEPT ![lowest(fd)] = f]
dup(fd, d) == open(fd, fd[d])

HasOpen(f) == \E p \in Pid, d \in Fd : proc[p].fd[d] = f
FreePipes == {k \in 1 .. NPIPE : ~HasOpen(ReadEnd(k)) /\ ~HasOpen(WriteEnd(k))}
FreePids == {p \in Pid \ {sh} : proc[p].pc = "unused"}
Children(p) == {q \in Pid : proc[q].pc # "unused" /\ proc[q].parent = p}

\* exit(): the children are init's now, and those that have ended are gone.
Exit(ps, p) ==
  [q \in Pid |->
     IF q = p THEN IF ps[p].parent = 0 THEN Unused ELSE [ps[p] EXCEPT !.pc = "zombie", !.cmd = NoCmd, !.fd = Stdio(0)]
     ELSE IF ps[q].pc = "unused" \/ ps[q].parent # p THEN ps[q]
     ELSE IF ps[q].pc = "zombie" THEN Unused ELSE [ps[q] EXCEPT !.parent = 0]]

Descendants(p) ==
  LET D[n \in 0 .. NPROC] == IF n = 0 THEN {p} ELSE UNION {Children(q) : q \in D[n - 1]} IN
  UNION {D[n] : n \in 1 .. NPROC}

\* fork1(): p goes on as parent says; the child is a copy of p, changed as child
\* says.  When there is no process left p panics; the shell does not wait for
\* the children p has.
fork1(p, parent, child) ==
  \/ /\ FreePids # {}
     /\ proc' = [proc EXCEPT ![p] = parent, ![Min(FreePids)] = [child EXCEPT !.parent = p]]
  \/ /\ FreePids = {}
     /\ proc' = Exit([q \in Pid |-> IF q \in Descendants(p) THEN [proc[q] EXCEPT !.loose = TRUE] ELSE proc[q]], p)

\* wait(0): a child that has ended.  (It also returns when there is no child; the
\* shell always has one, or p would be stuck here.)
wait(p, then) ==
  \E q \in Children(p) :
    /\ proc[q].pc = "zombie"
    /\ proc' = [proc EXCEPT ![p] = then, ![q] = Unused]

Running(p, type) == proc[p].pc = "run" /\ proc[p].cmd.type = type
Run(p, cmd) == [proc[p] EXCEPT !.pc = "run", !.cmd = cmd]

\* main(): the console is opened until three descriptors are open ...
OpenConsole ==
  /\ proc[sh].pc = "open"
  /\ proc' = IF lowest(proc[sh].fd) >= 3 THEN [proc EXCEPT ![sh].pc = "getcmd"]
             ELSE [proc EXCEPT ![sh].fd = open(@, Console)]

\* ... and lines are read; cd is the shell's own.  The child parses the line,
\* and panics if it cannot.
Cd(l) == Len(l) >= 3 /\ l[1] = "c" /\ l[2] = "d" /\ l[3] = " "
getcmd(l) ==
  /\ proc[sh].pc = "getcmd"
  /\ IF Cd(l) THEN UNCHANGED proc
     ELSE LET c == parsecmd(l) IN
          fork1(sh, [proc[sh] EXCEPT !.pc = "wait"],
                IF c.s = 0 THEN [proc[sh] EXCEPT !.pc = "end"] ELSE Run(sh, c.cmd))

\* At the end of its input the shell exits; init starts another one, with the
\* console as its first three descriptors.
Eof ==
  /\ proc[sh].pc = "getcmd"
  /\ proc' = Exit(proc, sh)
Restart ==
  /\ proc[sh].pc = "unused"
  /\ proc' = [proc EXCEPT ![sh] = [Unused EXCEPT !.pc = "open", !.fd = Stdio(3)]]

Wait ==
  /\ proc[sh].pc = "wait"
  /\ wait(sh, [proc[sh] EXCEPT !.pc = "getcmd"])

\* runcmd, for each type of command.
RunExec(p) ==
  /\ Running(p, "EXEC")
  /\ \/ proc' = Exit(proc, p)                                \* no command, or exec fails
     \/ /\ proc[p].cmd.argv # <<>>
        /\ proc' = [proc EXCEPT ![p].pc = "exec", ![p].cmd = NoCmd]

RunRedir(p) ==
  /\ Running(p, "REDIR")
  /\ LET r == proc[p].cmd
         f == Opened(r.file)
         new == [Run(p, r.cmd) EXCEPT !.fd = open(close(@, IF r.tok = "<" THEN 0 ELSE 1), f)] IN
     \/ proc' = Exit(proc, p)                                \* open fails
     \/ proc' = [proc EXCEPT ![p] = IF r.tok = "<" THEN [new EXCEPT !.in = f] ELSE [new EXCEPT !.out = f]]

RunList(p) ==
  /\ Running(p, "LIST")
  /\ fork1(p, [proc[p] EXCEPT !.pc = "list"], Run(p, proc[p].cmd.left))
RunListRight(p) ==
  /\ proc[p].pc = "list"
  /\ wait(p, Run(p, proc[p].cmd.right))

RunPipe(p) ==
  /\ Running(p, "PIPE")
  /\ \/ /\ FreePipes = {}
        /\ proc' = Exit(proc, p)
     \/ \E k \in FreePipes :
          LET c == proc[p]
              fd == open(c.fd, ReadEnd(k)) IN
          /\ k = Min(FreePipes)
          /\ proc' = [proc EXCEPT ![p] = [c EXCEPT !.pc = "left", !.fd = open(fd, WriteEnd(k)),
                                                   !.p = <<lowest(c.fd), lowest(fd)>>]]

\* In each child, one end of the pipe takes the place of descriptor d.
\* mutant: the end that was duplicated stays open as well
PlumbedTwice(p, end, d) ==
  LET c == proc[p] IN close(dup(close(c.fd, d), c.p[end]), c.p[3 - end])
Plumbed(p, end, d) ==
  LET c == proc[p] IN close(close(dup(close(c.fd, d), c.p[end]), c.p[1]), c.p[2])

ForkLeft(p) ==
  /\ proc[p].pc = "left"
  /\ LET c == proc[p] IN
     fork1(p, [c EXCEPT !.pc = "right"],
           [Run(p, c.cmd.left) EXCEPT !.fd = Plumbed(p, 2, 1), !.p = Dead, !.out = c.fd[c.p[2]]])
ForkRight(p) ==
  /\ proc[p].pc = "right"
  /\ LET c == proc[p] IN
     fork1(p, [c EXCEPT !.pc = "close"],
           [Run(p, c.cmd.right) EXCEPT !.fd = Plumbed(p, 1, 0), !.p = Dead, !.in = c.fd[c.p[1]]])

\* mutant: the writing end stays open
ClosePipeHalf(p) ==
  /\ proc[p].pc = "close"
  /\ proc' = [proc EXCEPT ![p].fd = close(@, proc[p].p[1]), ![p].p = Dead, ![p].pc = "wait1", ![p].cmd = NoCmd]
ClosePipe(p) ==
  /\ proc[p].pc = "close"
  /\ proc' = [proc EXCEPT ![p].fd = close(close(@, proc[p].p[1]), proc[p].p[2]), ![p].p = Dead,
                          ![p].pc = "wait1", ![p].cmd = NoCmd]

\* mutant: only one child is waited for
WaitPipeOnce(p) ==
  /\ proc[p].pc = "wait1"
  /\ wait(p, [proc[p] EXCEPT !.pc = "end"])
WaitPipe(p) ==
  /\ proc[p].pc \in {"wait1", "wait2"}
  /\ wait(p, [proc[p] EXCEPT !.pc = IF @ = "wait1" THEN "wait2" ELSE "end"])

RunBack(p) ==
  /\ Running(p, "BACK")
  /\ fork1(p, [proc[p] EXCEPT !.pc = "end"], [Run(p, proc[p].cmd.cmd) EXCEPT !.loose = TRUE])

End(p) ==
  /\ proc[p].pc = "end"
  /\ proc' = Exit(proc, p)

\* A program may end when it likes; it ends when nobody can write to its input
\* any more and its output is read, by another program or by nobody.
AtEof(p) == LET f == proc[p].fd[0] IN f.of = "read" => ~HasOpen(WriteEnd(f.n))
Taken(p) == LET f == proc[p].fd[1] IN
  f.of = "write" => \/ ~HasOpen(ReadEnd(f.n))
                    \/ \E q \in Pid : proc[q].pc = "exec" /\ proc[q].fd[0] = ReadEnd(f.n)
Program(p) ==
  /\ proc[p].pc = "exec"
  /\ proc' = Exit(proc, p)
Filter(p) == AtEof(p) /\ Taken(p) /\ Program(p)

runcmd(p) ==
  \/ RunExec(p) \/ RunRedir(p) \/ RunList(p) \/ RunListRight(p) \/ RunPipe(p) \/ ForkLeft(p)
  \/ ForkRight(p) \/ ClosePipe(p) \/ WaitPipe(p) \/ RunBack(p) \/ End(p)
Main == OpenConsole \/ Wait \/ Restart

Next ==
  \/ Main \/ Eof
  \/ \E l \in Lines : getcmd(l)
  \/ \E p \in Pid : runcmd(p) \/ Program(p)

\* Every process runs, and every program ends at the end of its input.
Fairness == WF_vars(Main) /\ \A p \in Pid : WF_vars(runcmd(p) \/ Filter(p))
Spec == Init /\ [][Next]_vars /\ Fairness

---------------------------------------------------------------------------
(* Properties                                                              *)

\* The parser accepts the lines of the grammar and no others, and builds the
\* command the grammar gives; and the strings that nulterminate ends in the line
\* are the words, none cut short and none run together.
ParseRight ==
  proc[sh].pc = "open" /\ proc[sh].fd = Stdio(0) =>
    \A l \in Strings :
      LET c == parsecmd(l) IN
      /\ Meaning(l) = IF c.s = 0 THEN {} ELSE {c.cmd}
      /\ \A w \in WordsIn(c.cmd) : AsString(l, nulterminate(c.cmd), w[1]) = w

\* A program starts with its input and output where the line says, the error
\* output on the console, and no other descriptor, in particular no end of a
\* pipe, left open by the dups and closes of runcmd on the way.
WiredRight ==
  \A p \in Pid : proc[p].pc = "exec" =>
    proc[p].fd = [d \in Fd |-> CASE d = 0 -> proc[p].in [] d = 1 -> proc[p].out [] d = 2 -> Console
                                  [] OTHER -> Closed]

\* At the prompt the line has run: only what it put in the background is left,
\* or the children of a runcmd that could not fork.
ForegroundDone ==
  proc[sh].pc = "getcmd" => \A p \in Pid \ {sh} : proc[p].pc = "unused" \/ proc[p].loose

\* The prompt comes back, whatever the processes of the line do in which order:
\* no reader waits for an end of file that a descriptor of the shell keeps away,
\* and no wait() waits for a child that is not there.
PromptReturns == proc[sh].pc = "wait" ~> proc[sh].pc = "getcmd"
=============================================================================
