------------------------------ MODULE ByteFile ------------------------------
(***************************************************************************)
(* What a file promises: it is a sequence of bytes; an open file has an    *)
(* offset; a write puts the caller's bytes there, in order, some at a time *)
(* and others may come between; a read returns what is there.  Module      *)
(* FileData is the implementation (kernel/fs.c, kernel/file.c).            *)
(***************************************************************************)
EXTENDS Naturals, Sequences

CONSTANTS Proc, Byte,
          Ino,         \* [open file -> its inode]
          Reads,       \* the read() calls: [p, f, n]
          MaxBytes     \* the size a file can have

VARIABLES content,     \* [inode -> its bytes]
          loose,       \* bytes that a failed write has touched: they may change back
          off,         \* [open file -> offset]
          todo,        \* [Proc -> what is left of its write]
          got          \* [Proc -> what its last read returned]

vars == <<content, loose, off, todo, got>>

File == DOMAIN Ino
Done == [f |-> 0, bytes |-> <<>>, good |-> 0]

Overwrite(s, o, bytes) ==
  [j \in 1 .. (IF Len(s) > o + Len(bytes) THEN Len(s) ELSE o + Len(bytes)) |->
     IF j > o /\ j <= o + Len(bytes) THEN bytes[j - o] ELSE s[j]]

\* s and t are the same but for some bytes at the places in P.
SameBut(s, t, P) == Len(s) = Len(t) /\ \A j \in DOMAIN s : s[j] = t[j] \/ j \in P

Init ==
  /\ content \in [{Ino[f] : f \in File} -> Seq(Byte)]
  /\ loose = [i \in DOMAIN content |-> {}]
  /\ off = [f \in File |-> 0]
  /\ todo = [p \in Proc |-> Done]
  /\ got = [p \in Proc |-> <<>>]

Start(p) ==
  /\ todo[p] = Done
  /\ todo'[p].bytes # <<>>
  /\ todo'[p].f \in File
  /\ todo' = [todo EXCEPT ![p] = todo'[p]]
  /\ got' = [got EXCEPT ![p] = <<>>]
  /\ UNCHANGED <<content, loose, off>>

\* The next k bytes go to the file; the call is over when none are left.
Put(p, k) ==
  LET t == todo[p]
      i == Ino[t.f]
      o == off[t.f] IN
  /\ k >= 1 /\ k <= t.good
  /\ o <= Len(content[i]) /\ o + k <= MaxBytes
  /\ content' = [content EXCEPT ![i] = Overwrite(@, o, SubSeq(t.bytes, 1, k))]
  /\ loose'[i] \subseteq loose[i] \ (o + 1 .. o + k)
  /\ loose' = [loose EXCEPT ![i] = loose'[i]]
  /\ off' = [off EXCEPT ![t.f] = o + k]
  /\ todo' = [todo EXCEPT ![p] = IF k = Len(t.bytes) THEN Done
                                 ELSE [@ EXCEPT !.bytes = SubSeq(@, k + 1, Len(@)), !.good = @ - k]]
  /\ UNCHANGED got

\* The call fails: the offset is past the end, the file would be too large, or
\* the caller's memory ends.  In that case k bytes are in the file, and a few
\* bytes after them may be, without making it longer.
Fail(p, k) ==
  LET t == todo[p]
      i == Ino[t.f]
      o == off[t.f]
      new == IF k = 0 THEN content[i] ELSE Overwrite(content[i], o, SubSeq(t.bytes, 1, k))
      torn == IF t.good < Len(t.bytes) THEN o + k + 1 .. o + Len(t.bytes) ELSE {} IN
  /\ t # Done
  /\ \/ k = 0 /\ (o > Len(content[i]) \/ o + Len(t.bytes) > MaxBytes)
     \/ o <= Len(content[i]) /\ t.good < Len(t.bytes) /\ k <= t.good
  /\ SameBut(new, content'[i], torn)
  /\ content' = [content EXCEPT ![i] = content'[i]]
  /\ loose'[i] \subseteq loose[i] \cup torn
  /\ loose' = [loose EXCEPT ![i] = loose'[i]]
  /\ off' = [off EXCEPT ![t.f] = o + k]
  /\ todo' = [todo EXCEPT ![p] = Done]
  /\ UNCHANGED got

\* A read returns the next bytes, as many as the caller asked for or as there are.
Read(p, f, n) ==
  LET s == content[Ino[f]]
      end == IF off[f] + n < Len(s) THEN off[f] + n ELSE Len(s) IN
  /\ todo[p] = Done
  /\ got' = [got EXCEPT ![p] = SubSeq(s, off[f] + 1, end)]
  /\ off' = [off EXCEPT ![f] = @ + Len(got'[p])]
  /\ UNCHANGED <<content, loose, todo>>

Truncate(i) ==
  /\ content' = [content EXCEPT ![i] = <<>>]
  /\ loose' = [loose EXCEPT ![i] = {}]
  /\ UNCHANGED <<off, todo, got>>

\* What a failed write left may go away.
Settle ==
  /\ \A i \in DOMAIN content : /\ SameBut(content[i], content'[i], loose[i])
                               /\ loose'[i] \subseteq loose[i]
  /\ DOMAIN content' = DOMAIN content /\ DOMAIN loose' = DOMAIN loose
  /\ UNCHANGED <<off, todo, got>>

\* The machine is started again: the files are as they were.
Reboot ==
  /\ \A i \in DOMAIN content : SameBut(content[i], content'[i], loose[i])
  /\ loose' = [i \in DOMAIN content |-> {}]
  /\ DOMAIN content' = DOMAIN content
  /\ off' = [f \in File |-> 0]
  /\ todo' = [p \in Proc |-> Done]
  /\ got' = [p \in Proc |-> <<>>]

Next ==
  \/ \E p \in Proc : \/ Start(p)
                     \/ \E k \in 0 .. Len(todo[p].bytes) : Put(p, k) \/ Fail(p, k)
  \/ \E r \in Reads : Read(r.p, r.f, r.n)
  \/ \E i \in DOMAIN content : Truncate(i)
  \/ Settle
  \/ Reboot

Spec == Init /\ [][Next]_vars
=============================================================================
