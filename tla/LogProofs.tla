----------------------------- MODULE LogProofs ------------------------------
(***************************************************************************)
(* The log implements an atomic disk, and begin_op's reservation is enough *)
(* for what the admitted calls write, for every number of threads, blocks  *)
(* and contents and every size of the log.                                 *)
(*                                                                         *)
(* IndInv is the inductive invariant of the refinement: what is where,     *)
(* step by step, in a commit and in a recovery.  Room counts the blocks    *)
(* that the active calls have written against the ones they reserved.      *)
(***************************************************************************)
EXTENDS Log, Integers, TLAPS

\* Calls are counted, and never overlap a commit; while the machine recovers
\* there are none.
Calls ==
  /\ outstanding = Cardinality(Active)
  /\ \A p \in Proc : pc[p] = "op" => ~committing
  /\ CommitAlone
  /\ \A p \in Proc : pc[p] = "off" <=> boot # "up"
  /\ boot # "up" => ~committing
  /\ panicked => Active # {}

\* No block is logged twice, and the log has room for all that are.
Injective(s) == \A i, j \in DOMAIN s : s[i] = s[j] => i = j

Distinct ==
  /\ Injective(lh) /\ Len(lh) <= Nlog - 1
  /\ Injective(hdr) /\ Len(hdr) <= Nlog - 1

\* The first n blocks of transaction s are home, resp. in the log.
Home(s, n) == \A i \in 1..n : disk[s[i]] = dlog[i]

Logged(m, n) == \A i \in m..n : dlog[i] = cache[lh[i]]

\* A pinned buffer is in the cache; any other is as on the disk.
Buffers ==
  /\ \A b \in Block : cache[b] # Torn
  /\ \A b \in Block : pin[b] # 0 => cache[b] \in Val
  /\ boot = "up" => \A b \in Block : disk[b] \in Val
  /\ \A b \in Block : pin[b] = 0 /\ cache[b] # Absent => cache[b] = disk[b]

\* The commit, step by step.
PinnedFrom(n) ==
  \A b \in Block : pin[b] = IF \E i \in n..Len(lh) : lh[i] = b THEN 1 ELSE 0

Committing ==
  /\ boot = "up" /\ (\A p \in Proc : pc[p] \notin {"install_trans", "clear_head"})
        => hdr = <<>> /\ PinnedFrom(1)
  /\ \A p \in Proc :
       /\ pc[p] = "write_log" => tail \in 1..Len(lh) /\ Logged(1, tail - 1)
       /\ pc[p] = "write_head" => tail = 1 /\ lh # <<>> /\ Logged(1, Len(lh))
       /\ pc[p] = "install_trans" =>
            /\ tail \in 1..Len(lh) /\ hdr = lh /\ PinnedFrom(tail)
            /\ Logged(tail, Len(lh)) /\ Home(lh, tail - 1)
       /\ pc[p] = "clear_head" =>
            hdr = lh /\ PinnedFrom(Len(lh) + 1) /\ Home(lh, Len(lh))
       /\ pc[p] = "committed" => lh = <<>>

\* The recovery, step by step.  What the header names is whole in the log;
\* what it does not name is whole at home.
Recovering ==
  /\ \A i \in DOMAIN hdr : dlog[i] \in Val
  /\ \A b \in Block : b \notin Range(hdr) => disk[b] \in Val
  /\ boot # "up" => \A b \in Block : pin[b] = 0
  /\ boot = "read_head" => lh = <<>> /\ \A b \in Block : cache[b] = Absent
  /\ boot = "install_trans" => lh = hdr /\ tail \in 1..Len(lh) /\ Home(lh, tail - 1)
  /\ boot = "clear_head" => lh = hdr /\ Home(lh, Len(lh))

\* A panic leaves a changed buffer that is not logged; only a restart follows.
IndInv ==
  /\ TypeOK /\ Calls /\ Distinct /\ Recovering
  /\ ~panicked => Buffers /\ Committing

-----------------------------------------------------------------------------
(* Sequences                                                               *)
LEMMA SeqFacts ==
  ASSUME NEW S, NEW s \in Seq(S)
  PROVE  /\ Len(s) \in Nat
         /\ DOMAIN s = 1..Len(s)
         /\ \A i \in 1..Len(s) : s[i] \in S
OBVIOUS

LEMMA EmptyFacts ==
  ASSUME NEW S
  PROVE  <<>> \in Seq(S) /\ Len(<<>>) = 0 /\ DOMAIN <<>> = {} /\ Range(<<>>) = {}
<1>1. <<>> \in Seq(S) /\ Len(<<>>) = 0
  OBVIOUS
<1>2. DOMAIN <<>> = {}
  OBVIOUS
<1> QED
  BY <1>1, <1>2, Zenon DEF Range

LEMMA NonEmptyFacts ==
  ASSUME NEW S, NEW s \in Seq(S), s # <<>>
  PROVE  1 \in 1..Len(s)
OBVIOUS

LEMMA AppendFacts ==
  ASSUME NEW S, NEW s \in Seq(S), NEW e \in S
  PROVE  /\ Append(s, e) \in Seq(S)
         /\ Len(Append(s, e)) = Len(s) + 1
         /\ \A i \in 1..Len(s) : Append(s, e)[i] = s[i]
         /\ Append(s, e)[Len(s) + 1] = e
OBVIOUS

LEMMA TypeSeqs == TypeOK => /\ lh \in Seq(Block) /\ hdr \in Seq(Block)
                            /\ Len(lh) \in Nat /\ DOMAIN lh = 1..Len(lh)
                            /\ Len(hdr) \in Nat /\ DOMAIN hdr = 1..Len(hdr)
                            /\ \A i \in 1..Len(lh) : lh[i] \in Block
                            /\ \A i \in 1..Len(hdr) : hdr[i] \in Block
BY SeqFacts, Zenon DEF TypeOK

-----------------------------------------------------------------------------
(* One lemma per step.  Inv is what a machine that has not panicked has.   *)
Inv == TypeOK /\ Calls /\ Distinct /\ Recovering /\ Buffers /\ Committing

\* What the commit relies on is out of reach of a step that moves threads only
\* between labels outside of it.
LEMMA CommitFrame ==
  ASSUME Committing,
         UNCHANGED <<disk, hdr, dlog, cache, pin, lh, tail, boot>>,
         \A q \in Proc : pc'[q] # pc[q] => pc[q] \notin CommitPC /\ pc'[q] \notin CommitPC
  PROVE  Committing'
<1> USE DEF CommitPC
<1>1. /\ \A n : PinnedFrom(n)' <=> PinnedFrom(n)
      /\ \A m, n : Logged(m, n)' <=> Logged(m, n)
      /\ \A s, n : Home(s, n)' <=> Home(s, n)
  BY Zenon DEF PinnedFrom, Logged, Home
<1>2. (boot = "up" /\ (\A p \in Proc : pc[p] \notin {"install_trans", "clear_head"})
        => hdr = <<>> /\ PinnedFrom(1))'
  BY Zenon DEF Committing, PinnedFrom
<1>3. ASSUME NEW p \in Proc
      PROVE  (/\ pc[p] = "write_log" => tail \in 1..Len(lh) /\ Logged(1, tail - 1)
              /\ pc[p] = "write_head" => tail = 1 /\ lh # <<>> /\ Logged(1, Len(lh))
              /\ pc[p] = "install_trans" =>
                   /\ tail \in 1..Len(lh) /\ hdr = lh /\ PinnedFrom(tail)
                   /\ Logged(tail, Len(lh)) /\ Home(lh, tail - 1)
              /\ pc[p] = "clear_head" =>
                   hdr = lh /\ PinnedFrom(Len(lh) + 1) /\ Home(lh, Len(lh))
              /\ pc[p] = "committed" => lh = <<>>)'
  BY <1>1 DEF Committing, Logged, Home, PinnedFrom
<1> QED
  BY <1>2, <1>3, Zenon DEF Committing

\* Nor does it depend on the cached copies of blocks that are not pinned.
LEMMA CacheFrame ==
  ASSUME Inv,
         UNCHANGED <<disk, hdr, dlog, pin, lh, tail, boot, pc>>,
         \A a \in Block : pin[a] # 0 => cache'[a] = cache[a]
  PROVE  Committing'
<1> USE DEF Inv
<1>1. /\ \A n : PinnedFrom(n)' <=> PinnedFrom(n)
      /\ \A n : Home(lh, n)' <=> Home(lh, n)
  BY Zenon DEF PinnedFrom, Home
<1>2. ASSUME NEW p \in Proc, pc[p] = "write_log" PROVE Logged(1, tail - 1)'
  <2>1. PinnedFrom(1) /\ Logged(1, tail - 1) /\ tail \in 1..Len(lh)
    BY <1>2, Zenon DEF Committing, Calls, CommitAlone, CommitPC
  <2>2. tail - 1 \in Nat /\ tail - 1 <= Len(lh)
    BY <2>1, TypeSeqs
  <2>3. Logged(1, tail - 1)' <=> \A i \in 1..tail - 1 : dlog[i] = cache'[lh[i]]
    BY Zenon DEF Logged
  <2>4. ASSUME NEW i \in 1..tail - 1 PROVE dlog[i] = cache'[lh[i]]
    <3>1. i \in 1..Len(lh) /\ lh[i] \in Block
      BY <2>1, <2>2, TypeSeqs
    <3>2. pin[lh[i]] = 1
      BY <2>1, <3>1, Zenon DEF PinnedFrom
    <3> QED
      BY <2>1, <3>1, <3>2 DEF Logged
  <2> QED
    BY <2>3, <2>4, Zenon
<1>3. ASSUME NEW p \in Proc, pc[p] = "write_head" PROVE Logged(1, Len(lh))'
  <2>1. PinnedFrom(1) /\ Logged(1, Len(lh))
    BY <1>3, Zenon DEF Committing, Calls, CommitAlone, CommitPC
  <2>2. ASSUME NEW i \in 1..Len(lh) PROVE dlog[i] = cache'[lh[i]]
    BY <2>1, TypeSeqs DEF Logged, PinnedFrom
  <2> QED
    BY <2>2, Zenon DEF Logged
<1>4. ASSUME NEW p \in Proc, pc[p] = "install_trans" PROVE Logged(tail, Len(lh))'
  <2>1. PinnedFrom(tail) /\ Logged(tail, Len(lh)) /\ tail \in 1..Len(lh)
    BY <1>4, Zenon DEF Committing
  <2>2. ASSUME NEW i \in tail..Len(lh) PROVE dlog[i] = cache'[lh[i]]
    <3>1. lh[i] \in Block
      BY <2>1, TypeSeqs
    <3> QED
      BY <2>1, <3>1 DEF Logged, PinnedFrom
  <2> QED
    BY <2>2, Zenon DEF Logged
<1> QED
  BY <1>1, <1>2, <1>3, <1>4 DEF Committing, PinnedFrom, Home

LEMMA LogWrite ==
  ASSUME Inv, ~panicked, NEW p \in Proc, NEW b \in Block, NEW v \in Val, log_write(p, b, v)
  PROVE  IndInv'
<1> USE SizesAssumption, ValuesAssumption DEF Inv, log_write, diskVars
<1>1. boot = "up" /\ (\A q \in Proc : pc[q] \notin CommitPC) /\ p \in Active
  BY Zenon DEF Calls, CommitAlone, Active
<1>2. lh' \in Seq(Block) /\ hdr' \in Seq(Block)
  <2>1. CASE TooBig \/ b \in Range(lh)
    BY <2>1, Zenon DEF TypeOK
  <2>2. CASE ~(TooBig \/ b \in Range(lh))
    <3>1. lh' = Append(lh, b) /\ lh \in Seq(Block) /\ hdr' \in Seq(Block)
      BY <2>2, Zenon DEF TypeOK
    <3> QED
      BY <3>1, AppendFacts, Zenon
  <2> QED
    BY <2>1, <2>2, Zenon
<1>3. TypeOK'
  <2>1. pin' \in [Block -> Nat]
    <3>1. CASE TooBig \/ b \in Range(lh)
      BY <3>1, Zenon DEF TypeOK
    <3>2. CASE ~(TooBig \/ b \in Range(lh))
      <4>1. pin' = [pin EXCEPT ![b] = @ + 1] /\ pin \in [Block -> Nat]
        BY <3>2, Zenon DEF TypeOK
      <4> QED
        BY <4>1
    <3> QED
      BY <3>1, <3>2, Zenon
  <2>2. panicked' \in BOOLEAN
    BY Zenon DEF TooBig
  <2> QED
    BY <1>2, <2>1, <2>2, Zenon DEF TypeOK
<1>4. Calls'
  <2>1. Active' = Active
    BY Zenon DEF Active
  <2> QED
    BY <1>1, <2>1, Zenon DEF Calls, CommitAlone
<1>5. CASE TooBig \/ b \in Range(lh)
  <2>1. Distinct' /\ Recovering'
    BY <1>1, <1>5, Zenon DEF Distinct, Injective, Recovering, Home
  <2>2. ASSUME ~panicked' PROVE Buffers' /\ Committing'
    <3>1. b \in Range(lh)
      BY <1>5, <2>2, Zenon
    <3>2. pin[b] = 1
      BY <1>1, <3>1, TypeSeqs DEF Range, Committing, PinnedFrom, CommitPC
    <3>3. Buffers'
      BY <1>1, <1>5, <3>2 DEF TypeOK, Buffers
    <3>4. Committing'
      BY <1>1, <1>5 DEF Committing, PinnedFrom, CommitPC
    <3> QED
      BY <3>3, <3>4, Zenon
  <2> QED
    BY <1>3, <1>4, <2>1, <2>2, Zenon DEF IndInv
<1>6. CASE ~TooBig /\ b \notin Range(lh)
  <2>1. /\ lh' = Append(lh, b) /\ Len(lh') = Len(lh) + 1 /\ Len(lh) \in Nat
        /\ \A i \in 1..Len(lh) : lh'[i] = lh[i]
        /\ lh'[Len(lh) + 1] = b
        /\ DOMAIN lh' = 1..Len(lh) + 1
    <3>1. lh' = Append(lh, b) /\ lh \in Seq(Block) /\ Len(lh) \in Nat
      BY <1>6, TypeSeqs, Zenon
    <3>2. /\ Len(lh') = Len(lh) + 1
          /\ \A i \in 1..Len(lh) : lh'[i] = lh[i]
          /\ lh'[Len(lh) + 1] = b
      BY <3>1, AppendFacts
    <3>3. DOMAIN lh' = 1..Len(lh')
      BY <1>2, SeqFacts, Zenon
    <3> QED
      BY <3>1, <3>2, <3>3, Zenon
  <2>2. \A i \in 1..Len(lh) : lh[i] # b
    BY <1>6, TypeSeqs, Zenon DEF Range
  <2>3. pin[b] = 0 /\ pin' = [pin EXCEPT ![b] = 1]
    BY <1>1, <1>6, <2>2, SMTT(30) DEF TypeOK, Committing, PinnedFrom, CommitPC
  <2>4. Distinct'
    <3>1. Len(lh') <= Nlog - 1
      BY <1>6, <2>1 DEF TooBig
    <3>2. Injective(lh)'
      <4>1. DOMAIN lh = 1..Len(lh)
        BY TypeSeqs, Zenon
      <4>2. \A i, j \in 1..Len(lh) : lh[i] = lh[j] => i = j
        BY <4>1, Zenon DEF Distinct, Injective
      <4>3. \A i, j \in 1..Len(lh) + 1 : lh'[i] = lh'[j] => i = j
        BY <2>1, <2>2, <4>2
      <4> QED
        BY <2>1, <4>3, Zenon DEF Injective
    <3> QED
      BY <3>1, <3>2, Zenon DEF Distinct, Injective
  <2>5. Recovering'
    BY <1>1, Zenon DEF Recovering
  <2>6. Buffers'
    BY <1>1, <2>3 DEF TypeOK, Buffers
  <2>7. Committing'
    <3>1. \A a \in Block : (\E i \in 1..Len(lh') : lh'[i] = a)
                            <=> (a = b \/ \E i \in 1..Len(lh) : lh[i] = a)
      BY <2>1
    <3>2. PinnedFrom(1)
      BY <1>1, Zenon DEF Committing, CommitPC
    <3>3. \A a \in Block : pin'[a] = IF a = b THEN 1 ELSE pin[a]
      BY <2>3, Zenon DEF TypeOK
    <3>4. PinnedFrom(1)'
      BY <3>1, <3>2, <3>3, SMTT(30) DEF PinnedFrom
    <3> QED
      BY <1>1, <3>4, Zenon DEF Committing, CommitPC
  <2> QED
    BY <1>3, <1>4, <2>4, <2>5, <2>6, <2>7, Zenon DEF IndInv
<1> QED
  BY <1>5, <1>6, Zenon

\* While a thread commits, it is alone.
LEMMA Committer ==
  ASSUME Inv, NEW p \in Proc, pc[p] \in CommitPC
  PROVE  /\ boot = "up" /\ committing /\ outstanding = 0 /\ Active = {}
         /\ \A q \in Proc \ {p} : pc[q] \in {"idle", "begin", "sleep"}
BY Zenon DEF Inv, Calls, CommitAlone, CommitPC, Active

LEMMA CommitterCalls ==
  ASSUME Inv, NEW p \in Proc, pc[p] \in CommitPC,
         NEW l \in CommitPC, pc' = [pc EXCEPT ![p] = l],
         UNCHANGED <<outstanding, committing, boot, panicked>>
  PROVE  Calls' /\ pc' \in [Proc -> PC]
<1>1. Active' = {}
  BY Committer, Zenon DEF Inv, TypeOK, Active, CommitPC
<1>2. CommitAlone'
  BY Committer, Zenon DEF Inv, TypeOK, CommitAlone, CommitPC
<1>3. pc' \in [Proc -> PC]
  BY Zenon DEF Inv, TypeOK, PC
<1> QED
  BY <1>1, <1>2, <1>3, Committer, Zenon DEF Inv, TypeOK, Calls, CommitPC, Active

LEMMA WriteLog == ASSUME Inv, ~panicked, NEW p \in Proc, write_log(p) PROVE IndInv'
<1> USE SizesAssumption, ValuesAssumption DEF Inv, write_log, diskVars
<1> DEFINE b == lh[tail]
<1>1. boot = "up" /\ \A q \in Proc \ {p} : pc[q] \in {"idle", "begin", "sleep"}
  BY Committer, Zenon DEF CommitPC
<1>2. hdr = <<>> /\ PinnedFrom(1)
  BY <1>1, Zenon DEF Committing
<1>3. tail \in 1..Len(lh) /\ Logged(1, tail - 1) /\ tail \in 1..Nlog-1
  BY TypeSeqs DEF Committing, Distinct
<1>4. b \in Block /\ pin[b] = 1 /\ cache[b] \in Val
  <2>1. b \in Block /\ Len(lh) \in Nat
    BY <1>3, TypeSeqs, Zenon
  <2>2. pin[b] = 1
    BY <1>2, <1>3, <2>1, Zenon DEF PinnedFrom
  <2> QED
    BY <2>1, <2>2 DEF Buffers
<1>5. cache' = cache /\ dlog' = [dlog EXCEPT ![tail] = cache[b]]
  BY <1>4, Zenon DEF Bread, TypeOK
<1>6. \/ tail < Len(lh) /\ tail' = tail + 1 /\ pc' = [pc EXCEPT ![p] = "write_log"]
      \/ tail = Len(lh) /\ tail' = 1 /\ pc' = [pc EXCEPT ![p] = "write_head"]
  BY <1>3, TypeSeqs DEF TypeOK
<1>7. Calls' /\ pc' \in [Proc -> PC]
  BY <1>6, CommitterCalls, Zenon DEF CommitPC
<1>8. TypeOK'
  <2>1. lh' \in Seq(Block) /\ hdr' \in Seq(Block)
    BY Zenon DEF TypeOK
  <2>2. dlog' \in [1..Nlog-1 -> Val \cup {Torn}] /\ tail' \in Nat
    BY <1>3, <1>4, <1>5, <1>6, SMTT(30) DEF TypeOK
  <2> QED
    BY <1>5, <1>7, <2>1, <2>2, Zenon DEF TypeOK
<1>9. Distinct' /\ Buffers'
  BY <1>5, Zenon DEF Distinct, Injective, Buffers
<1>10. Recovering'
  <2>1. DOMAIN hdr' = {}
    BY <1>2, EmptyFacts, Zenon
  <2> QED
    BY <1>1, <2>1, Zenon DEF Recovering
<1>11. Committing'
  <2>1. hdr' = <<>> /\ PinnedFrom(1)'
    BY <1>2, Zenon DEF PinnedFrom
  <2>2. \A i \in 1..tail : dlog'[i] = cache'[lh'[i]]
    BY <1>3, <1>5, SMTT(30) DEF Logged, TypeOK
  <2>3. \A q \in Proc : q # p => pc'[q] = pc[q]
    BY <1>6, Zenon DEF TypeOK
  <2>4. CASE tail < Len(lh)
    <3>1. tail' \in 1..Len(lh') /\ Logged(1, tail - 1)' /\ pc'[p] = "write_log"
      BY <1>3, <1>6, <2>2, <2>4, TypeSeqs, SMTT(30) DEF Logged, TypeOK
    <3> QED
      BY <1>1, <2>1, <2>3, <3>1, Zenon DEF Committing
  <2>5. CASE tail = Len(lh)
    <3>1. tail' = 1 /\ Logged(1, Len(lh))' /\ pc'[p] = "write_head"
      BY <1>3, <1>6, <2>2, <2>5, TypeSeqs, SMTT(30) DEF Logged, TypeOK
    <3>2. lh' # <<>>
      BY <1>3, EmptyFacts
    <3> QED
      BY <1>1, <2>1, <2>3, <3>1, <3>2, Zenon DEF Committing
  <2> QED
    BY <1>6, <2>4, <2>5, Zenon
<1> QED
  BY <1>7, <1>8, <1>9, <1>10, <1>11, Zenon DEF IndInv

LEMMA WriteHead == ASSUME Inv, ~panicked, NEW p \in Proc, write_head(p) PROVE IndInv'
<1> USE SizesAssumption, ValuesAssumption DEF Inv, write_head, diskVars
<1>1. boot = "up" /\ \A q \in Proc \ {p} : pc[q] \in {"idle", "begin", "sleep"}
  BY Committer, Zenon DEF CommitPC
<1>2. hdr = <<>> /\ PinnedFrom(1)
  BY <1>1, Zenon DEF Committing
<1>3. tail = 1 /\ lh # <<>> /\ Logged(1, Len(lh)) /\ tail \in 1..Len(lh)
  BY TypeSeqs, NonEmptyFacts, Zenon DEF Committing
<1>4. Calls' /\ pc' \in [Proc -> PC]
  BY CommitterCalls, Zenon DEF CommitPC
<1>5. TypeOK'
  <2>1. lh' \in Seq(Block) /\ hdr' \in Seq(Block)
    BY Zenon DEF TypeOK
  <2> QED
    BY <1>4, <2>1, Zenon DEF TypeOK
<1>6. Distinct' /\ Buffers'
  BY Zenon DEF Distinct, Injective, Buffers
<1>7. Recovering'
  <2>1. \A i \in DOMAIN lh : dlog[i] \in Val
    <3> SUFFICES ASSUME NEW i \in 1..Len(lh) PROVE dlog[i] \in Val
      BY TypeSeqs, Zenon
    <3>1. lh[i] \in Block /\ Len(lh) \in Nat
      BY TypeSeqs, Zenon
    <3>2. pin[lh[i]] = 1
      BY <1>2, <3>1, Zenon DEF PinnedFrom
    <3> QED
      BY <1>3, <3>1, <3>2 DEF Logged, Buffers
  <2> QED
    BY <1>1, <2>1, Zenon DEF Recovering, Buffers
<1>8. Committing'
  <2>1. PinnedFrom(1)' /\ Logged(1, Len(lh))'
    BY <1>2, <1>3, Zenon DEF PinnedFrom, Logged
  <2>2. Home(lh, 0)'
    BY DEF Home
  <2>3. pc'[p] = "install_trans" /\ \A q \in Proc : q # p => pc'[q] = pc[q]
    BY Zenon DEF TypeOK
  <2> QED
    BY <1>1, <1>3, <2>1, <2>2, <2>3, SMTT(30) DEF Committing
<1> QED
  BY <1>4, <1>5, <1>6, <1>7, <1>8, Zenon DEF IndInv

LEMMA InstallTrans == ASSUME Inv, ~panicked, NEW p \in Proc, install_trans(p) PROVE IndInv'
<1> USE SizesAssumption, ValuesAssumption DEF Inv, install_trans
<1> DEFINE b == lh[tail]
<1>1. boot = "up" /\ \A q \in Proc \ {p} : pc[q] \in {"idle", "begin", "sleep"}
  BY Committer, Zenon DEF CommitPC
<1>2. /\ tail \in 1..Len(lh) /\ hdr = lh /\ PinnedFrom(tail)
      /\ Logged(tail, Len(lh)) /\ Home(lh, tail - 1)
  BY Zenon DEF Committing
<1>3. b \in Block /\ pin[b] = 1 /\ cache[b] \in Val /\ dlog[tail] = cache[b]
  <2>1. b \in Block /\ Len(lh) \in Nat /\ tail \in Nat
    BY <1>2, TypeSeqs
  <2>2. pin[b] = 1
    BY <1>2, <2>1 DEF PinnedFrom
  <2> QED
    BY <1>2, <2>1, <2>2 DEF Buffers, Logged
<1>4. /\ cache' = cache
      /\ disk' = [disk EXCEPT ![b] = cache[b]]
      /\ pin' = [pin EXCEPT ![b] = 0]
  BY <1>3 DEF InstallBlock, TypeOK
<1>5. \/ tail < Len(lh) /\ tail' = tail + 1 /\ pc' = [pc EXCEPT ![p] = "install_trans"]
      \/ tail = Len(lh) /\ tail' = 1 /\ pc' = [pc EXCEPT ![p] = "clear_head"]
  BY <1>2, TypeSeqs, SMTT(30) DEF TypeOK
<1>6. Calls' /\ pc' \in [Proc -> PC]
  BY <1>5, CommitterCalls, Zenon DEF CommitPC
<1>7. TypeOK'
  <2>1. lh' \in Seq(Block) /\ hdr' \in Seq(Block)
    BY Zenon DEF TypeOK
  <2>2. disk' \in [Block -> Val \cup {Torn}] /\ pin' \in [Block -> Nat] /\ tail' \in Nat
    BY <1>2, <1>3, <1>4, <1>5 DEF TypeOK
  <2> QED
    BY <1>4, <1>6, <2>1, <2>2, Zenon DEF TypeOK
<1>8. Distinct'
  BY Zenon DEF Distinct, Injective
<1>9. Buffers'
  BY <1>3, <1>4, Zenon DEF Buffers, TypeOK
<1>10. Recovering'
  BY <1>1, <1>3, <1>4 DEF Recovering, TypeOK
<1>11. \A i, j \in 1..Len(lh) : lh[i] = lh[j] => i = j
  BY TypeSeqs, Zenon DEF Distinct, Injective
<1>12. Committing'
  <2>1. \A a \in Block : pin'[a] = IF \E i \in (tail + 1)..Len(lh) : lh[i] = a THEN 1 ELSE 0
    <3> SUFFICES ASSUME NEW a \in Block
                 PROVE  pin'[a] = IF \E i \in (tail + 1)..Len(lh) : lh[i] = a THEN 1 ELSE 0
      BY Zenon
    <3>0. tail \in Nat /\ Len(lh) \in Nat
      BY <1>2, TypeSeqs
    <3>1. CASE a = b
      BY <1>2, <1>3, <1>4, <1>11, <3>0, <3>1, SMTT(30) DEF TypeOK
    <3>2. CASE a # b
      <4>1. pin'[a] = IF \E i \in tail..Len(lh) : lh[i] = a THEN 1 ELSE 0
        BY <1>2, <1>4, <3>2, Zenon DEF PinnedFrom, TypeOK
      <4>2. (\E i \in tail..Len(lh) : lh[i] = a) <=> (\E i \in (tail + 1)..Len(lh) : lh[i] = a)
        BY <3>0, <3>2
      <4> QED
        BY <4>1, <4>2, Zenon
    <3> QED
      BY <3>1, <3>2, Zenon
  <2>2. \A i \in 1..tail : disk'[lh[i]] = dlog[i]
    <3> SUFFICES ASSUME NEW i \in 1..tail PROVE disk'[lh[i]] = dlog[i]
      BY Zenon
    <3>1. tail \in 1..Len(lh) /\ Len(lh) \in Nat /\ i \in 1..Len(lh) /\ lh[i] \in Block
      BY <1>2, TypeSeqs
    <3>2. CASE i = tail
      BY <1>3, <1>4, <3>1, <3>2, Zenon DEF TypeOK
    <3>3. CASE i # tail
      <4>1. i \in 1..(tail - 1) /\ lh[i] # lh[tail]
        BY <1>11, <3>1, <3>3
      <4>2. disk'[lh[i]] = disk[lh[i]]
        BY <1>4, <3>1, <4>1, Zenon DEF TypeOK
      <4> QED
        BY <1>2, <4>1, <4>2, Zenon DEF Home
    <3> QED
      BY <3>2, <3>3, Zenon
  <2>3. \A q \in Proc : q # p => pc'[q] = pc[q]
    BY <1>5, Zenon DEF TypeOK
  <2>4. CASE tail < Len(lh)
    <3>1. pc'[p] = "install_trans" /\ tail' = tail + 1 /\ tail' \in 1..Len(lh)
      <4>1. tail' = tail + 1 /\ pc' = [pc EXCEPT ![p] = "install_trans"]
        BY <1>5, <2>4, Zenon
      <4>2. tail \in 1..Len(lh) /\ Len(lh) \in Nat
        BY <1>2, TypeSeqs, Zenon
      <4> QED
        BY <2>4, <4>1, <4>2 DEF TypeOK
    <3>2. PinnedFrom(tail)' /\ Logged(tail, Len(lh))' /\ Home(lh, tail - 1)'
      <4>1. PinnedFrom(tail)'
        BY <2>1, <3>1, Zenon DEF PinnedFrom
      <4>2. Logged(tail, Len(lh))'
        <5>1. lh' = lh /\ dlog' = dlog /\ cache' = cache
          BY <1>4, Zenon DEF InstallBlock
        <5>2. \A i \in tail'..Len(lh) : i \in tail..Len(lh)
          BY <1>2, <3>1, TypeSeqs
        <5> QED
          BY <1>2, <5>1, <5>2, Zenon DEF Logged
      <4>3. Home(lh, tail - 1)'
        <5>1. tail' - 1 = tail
          BY <1>2, <3>1, TypeSeqs
        <5> QED
          BY <2>2, <5>1, Zenon DEF Home
      <4> QED
        BY <4>1, <4>2, <4>3, Zenon
    <3> QED
      BY <1>1, <1>2, <2>3, <3>1, <3>2, Zenon DEF Committing
  <2>5. CASE tail = Len(lh)
    <3>1. pc'[p] = "clear_head"
      BY <1>5, <2>5, TypeSeqs DEF TypeOK
    <3>2. PinnedFrom(Len(lh) + 1)'
      BY <2>1, <2>5, SMTT(30) DEF PinnedFrom
    <3>3. Home(lh, Len(lh))'
      BY <2>2, <2>5, Zenon DEF Home
    <3> QED
      BY <1>1, <1>2, <2>3, <3>1, <3>2, <3>3, Zenon DEF Committing
  <2> QED
    BY <1>5, <2>4, <2>5, Zenon
<1> QED
  BY <1>6, <1>7, <1>8, <1>9, <1>10, <1>12, Zenon DEF IndInv

LEMMA ClearHead == ASSUME Inv, ~panicked, NEW p \in Proc, clear_head(p) PROVE IndInv'
<1> USE SizesAssumption, ValuesAssumption DEF Inv, clear_head
<1>1. boot = "up" /\ \A q \in Proc \ {p} : pc[q] \in {"idle", "begin", "sleep"}
  BY Committer, Zenon DEF CommitPC
<1>2. \A b \in Block : pin[b] = 0
  BY TypeSeqs DEF Committing, PinnedFrom
<1>3. Calls' /\ pc' \in [Proc -> PC]
  BY CommitterCalls, Zenon DEF CommitPC
<1>4. /\ lh' \in Seq(Block) /\ hdr' \in Seq(Block) /\ Len(lh') = 0 /\ Len(hdr') = 0
      /\ DOMAIN lh' = {} /\ DOMAIN hdr' = {}
  BY EmptyFacts, Zenon
<1>5. TypeOK'
  BY <1>3, <1>4, Zenon DEF TypeOK
<1>6. Distinct' /\ Buffers'
  BY <1>4 DEF Distinct, Injective, Buffers
<1>7. Recovering'
  BY <1>1, <1>4, Zenon DEF Recovering, Buffers
<1>8. Committing'
  <2>1. PinnedFrom(1)'
    BY <1>2, <1>4 DEF PinnedFrom
  <2>2. pc'[p] = "committed" /\ \A q \in Proc : q # p => pc'[q] = pc[q]
    BY Zenon DEF TypeOK
  <2> QED
    BY <1>1, <2>1, <2>2, Zenon DEF Committing
<1> QED
  BY <1>3, <1>5, <1>6, <1>7, <1>8, Zenon DEF IndInv

LEMMA FetchStep == ASSUME Inv, ~panicked, NEW b \in Block, Fetch(b) PROVE IndInv'
<1> USE SizesAssumption, ValuesAssumption DEF Inv, Fetch, diskVars
<1>1. cache' = [cache EXCEPT ![b] = disk[b]] /\ disk[b] \in Val
  BY Zenon DEF Buffers
<1>2. TypeOK'
  <2>1. lh' \in Seq(Block) /\ hdr' \in Seq(Block)
    BY Zenon DEF TypeOK
  <2> QED
    BY <1>1, <2>1, Zenon DEF TypeOK
<1>3. Calls' /\ Distinct' /\ Recovering'
  BY Zenon DEF Calls, CommitAlone, Active, Distinct, Injective, Recovering
<1>4. Buffers'
  BY <1>1 DEF Buffers, TypeOK
<1>5. \A a \in Block : pin[a] # 0 => cache'[a] = cache[a]
  BY <1>1, Zenon DEF Buffers, TypeOK
<1> QED
  BY <1>2, <1>3, <1>4, <1>5, CacheFrame, Zenon DEF IndInv

LEMMA RecycleStep == ASSUME Inv, ~panicked, NEW b \in Block, Recycle(b) PROVE IndInv'
<1> USE SizesAssumption, ValuesAssumption DEF Inv, Recycle, diskVars
<1>1. TypeOK'
  <2>1. lh' \in Seq(Block) /\ hdr' \in Seq(Block)
    BY Zenon DEF TypeOK
  <2> QED
    BY <2>1, Zenon DEF TypeOK
<1>2. Calls' /\ Distinct'
  BY Zenon DEF Calls, CommitAlone, Active, Distinct, Injective
<1>3. Recovering'
  BY Zenon DEF Recovering, Home, TypeOK
<1>4. Buffers'
  BY Zenon DEF Buffers, TypeOK
<1>5. \A a \in Block : pin[a] # 0 => cache'[a] = cache[a]
  BY Zenon DEF TypeOK
<1> QED
  BY <1>1, <1>2, <1>3, <1>4, <1>5, CacheFrame, Zenon DEF IndInv

LEMMA ReadHead == ASSUME Inv, ~panicked, read_head PROVE IndInv'
<1> USE SizesAssumption DEF Inv, read_head, diskVars
<1>1. boot' \in {"clear_head", "install_trans"} /\ \A p \in Proc : pc[p] = "off"
  BY Zenon DEF Calls
<1>2. TypeOK'
  <2>1. lh' \in Seq(Block) /\ hdr' \in Seq(Block)
    BY Zenon DEF TypeOK
  <2> QED
    BY <1>1, <2>1, Zenon DEF TypeOK
<1>3. Calls'
  BY <1>1, Zenon DEF Calls, CommitAlone, Active
<1>4. Distinct'
  BY Zenon DEF Distinct, Injective
<1>5. Recovering'
  <2>1. hdr # <<>> => tail' \in 1..Len(hdr)
    BY TypeSeqs, NonEmptyFacts, Zenon
  <2>2. Home(lh, 0)'
    BY DEF Home
  <2>3. hdr = <<>> => Len(hdr) = 0
    BY EmptyFacts, Zenon
  <2> QED
    BY <2>1, <2>2, <2>3 DEF Recovering
<1>6. Buffers' /\ Committing'
  BY <1>1, Zenon DEF Buffers, Committing
<1> QED
  BY <1>2, <1>3, <1>4, <1>5, <1>6, Zenon DEF IndInv

LEMMA RecoverInstall == ASSUME Inv, ~panicked, recover_install PROVE IndInv'
<1> USE SizesAssumption, ValuesAssumption DEF Inv, recover_install
<1> DEFINE b == lh[tail]
<1>1. \A p \in Proc : pc[p] = "off"
  BY Zenon DEF Calls
<1>2. lh = hdr /\ tail \in 1..Len(lh) /\ Home(lh, tail - 1) /\ \A a \in Block : pin[a] = 0
  BY Zenon DEF Recovering
<1>3. b \in Block /\ b \in Range(hdr) /\ dlog[tail] \in Val
  BY <1>2, TypeSeqs, Zenon DEF Range, Recovering
<1>4. /\ disk' = [disk EXCEPT ![b] = dlog[tail]]
      /\ cache' = [cache EXCEPT ![b] = dlog[tail]]
  BY Zenon DEF InstallBlock
<1>5. \/ tail < Len(lh) /\ tail' = tail + 1 /\ boot' = "install_trans"
      \/ tail = Len(lh) /\ tail' = 1 /\ boot' = "clear_head"
  <2>1. tail < Len(lh) \/ tail = Len(lh)
    BY <1>2, TypeSeqs
  <2> QED
    BY <2>1, Zenon
<1>6. TypeOK'
  <2>1. lh' \in Seq(Block) /\ hdr' \in Seq(Block)
    BY Zenon DEF TypeOK
  <2>2. disk' \in [Block -> Val \cup {Torn}] /\ cache' \in [Block -> Val \cup {Torn, Absent}]
    BY <1>3, <1>4, Zenon DEF TypeOK
  <2>3. tail' \in Nat /\ boot' \in {"read_head", "install_trans", "clear_head", "up"}
    BY <1>2, <1>5
  <2> QED
    BY <2>1, <2>2, <2>3, Zenon DEF TypeOK
<1>7. Calls'
  BY <1>1, <1>5, Zenon DEF Calls, CommitAlone, Active
<1>8. Distinct'
  BY Zenon DEF Distinct, Injective
<1>9. Buffers'
  BY <1>2, <1>3, <1>4, <1>5, Zenon DEF Buffers, TypeOK
<1>10. Committing'
  BY <1>1, <1>5, Zenon DEF Committing
<1>11. \A i, j \in 1..Len(lh) : lh[i] = lh[j] => i = j
  BY TypeSeqs, Zenon DEF Distinct, Injective
<1>12. Recovering'
  <2>1. \A i \in 1..tail : disk'[lh[i]] = dlog[i]
    <3> SUFFICES ASSUME NEW i \in 1..tail PROVE disk'[lh[i]] = dlog[i]
      BY Zenon
    <3>1. tail \in 1..Len(lh) /\ Len(lh) \in Nat /\ i \in 1..Len(lh) /\ lh[i] \in Block
      BY <1>2, TypeSeqs
    <3>2. CASE i = tail
      BY <1>3, <1>4, <3>1, <3>2, Zenon DEF TypeOK
    <3>3. CASE i # tail
      <4>1. i \in 1..(tail - 1) /\ lh[i] # lh[tail]
        BY <1>11, <3>1, <3>3
      <4>2. disk'[lh[i]] = disk[lh[i]]
        BY <1>4, <3>1, <4>1, Zenon DEF TypeOK
      <4> QED
        BY <1>2, <4>1, <4>2 DEF Home
    <3> QED
      BY <3>2, <3>3, Zenon
  <2>2. \A a \in Block : a \notin Range(hdr) => disk'[a] \in Val
    BY <1>3, <1>4, Zenon DEF Recovering, TypeOK
  <2>3. boot' = "install_trans" => tail' \in 1..Len(lh) /\ Home(lh, tail - 1)'
    <3> SUFFICES ASSUME boot' = "install_trans"
                 PROVE  tail' \in 1..Len(lh) /\ Home(lh, tail - 1)'
      BY Zenon
    <3>1. tail' = tail + 1 /\ tail < Len(lh)
      BY <1>2, <1>5, TypeSeqs
    <3>2. tail \in 1..Len(lh) /\ Len(lh) \in Nat
      BY <1>2, TypeSeqs, Zenon
    <3>3. tail' \in 1..Len(lh) /\ tail' - 1 = tail
      BY <3>1, <3>2
    <3> QED
      BY <2>1, <3>3, Zenon DEF Home
  <2>4. boot' = "clear_head" => Home(lh, Len(lh))'
    BY <1>5, <2>1, Zenon DEF Home
  <2> QED
    BY <1>2, <1>5, <2>2, <2>3, <2>4, Zenon DEF Recovering
<1> QED
  BY <1>6, <1>7, <1>8, <1>9, <1>10, <1>12, Zenon DEF IndInv

LEMMA RecoverClear == ASSUME Inv, ~panicked, recover_clear PROVE IndInv'
<1> USE SizesAssumption, ValuesAssumption DEF Inv, recover_clear
<1>1. (\A p \in Proc : pc[p] = "off") /\ ~committing
  BY Zenon DEF Calls
<1>2. lh = hdr /\ Home(lh, Len(lh)) /\ \A b \in Block : pin[b] = 0
  BY Zenon DEF Recovering
<1>3. /\ lh' \in Seq(Block) /\ hdr' \in Seq(Block) /\ Len(lh') = 0 /\ Len(hdr') = 0
      /\ DOMAIN lh' = {} /\ DOMAIN hdr' = {}
  BY EmptyFacts, Zenon
<1>4. \A b \in Block : disk[b] \in Val
  <2> SUFFICES ASSUME NEW b \in Block PROVE disk[b] \in Val
    BY Zenon
  <2>1. CASE b \in Range(hdr)
    <3>1. PICK i \in 1..Len(hdr) : hdr[i] = b
      BY <2>1, TypeSeqs, Zenon DEF Range
    <3> QED
      BY <1>2, <3>1, TypeSeqs DEF Home, Recovering
  <2>2. CASE b \notin Range(hdr)
    BY <2>2, Zenon DEF Recovering
  <2> QED
    BY <2>1, <2>2, Zenon
<1>5. TypeOK'
  <2>1. pc' \in [Proc -> PC]
    BY Zenon DEF PC
  <2> QED
    BY <1>3, <2>1, Zenon DEF TypeOK
<1>6. Calls'
  <2>1. Active' = {} /\ Active = {}
    BY <1>1, Zenon DEF Active
  <2> QED
    BY <1>1, <2>1, Zenon DEF Calls, CommitAlone, CommitPC
<1>7. Distinct'
  BY <1>3 DEF Distinct, Injective
<1>8. Buffers' /\ Recovering'
  BY <1>3, <1>4, Zenon DEF Buffers, Recovering
<1>9. Committing'
  BY <1>2, <1>3 DEF Committing, PinnedFrom
<1> QED
  BY <1>5, <1>6, <1>7, <1>8, <1>9, Zenon DEF IndInv

-----------------------------------------------------------------------------
(* Refinement: each step is a step of the atomic disk or changes nothing   *)
(* of it.                                                                  *)
LEMMA LoggedCopy ==
  ASSUME NEW h, Injective(h), NEW i \in DOMAIN h
  PROVE  (CHOOSE j \in DOMAIN h : h[j] = h[i]) = i
BY Zenon DEF Injective

\* What recovery yields for a block the header names, and for another one.
LEMMA RecoveredFacts ==
  ASSUME TypeOK, Distinct
  PROVE  /\ Recovered = [b \in Block |-> Recovered[b]]
         /\ \A i \in 1..Len(hdr) : Recovered[hdr[i]] = dlog[i]
         /\ \A b \in Block : b \notin Range(hdr) => Recovered[b] = disk[b]
         /\ \A b \in Range(hdr) : \E i \in 1..Len(hdr) : hdr[i] = b
<1>1. /\ Recovered = [b \in Block |-> Recovered[b]]
      /\ \A b \in Block : b \notin Range(hdr) => Recovered[b] = disk[b]
  BY DEF Recovered
<1>2. ASSUME NEW i \in 1..Len(hdr) PROVE Recovered[hdr[i]] = dlog[i]
  <2>1. hdr[i] \in Block /\ i \in DOMAIN hdr /\ hdr[i] \in Range(hdr)
    BY TypeSeqs, Zenon DEF Range
  <2>2. (CHOOSE j \in DOMAIN hdr : hdr[j] = hdr[i]) = i
    BY <2>1, LoggedCopy, Zenon DEF Distinct
  <2> QED
    BY <2>1, <2>2, Zenon DEF Recovered
<1>3. \A b \in Range(hdr) : \E i \in 1..Len(hdr) : hdr[i] = b
  BY TypeSeqs, Zenon DEF Range
<1> QED
  BY <1>1, <1>2, <1>3, Zenon

LEMMA RecoveredEmpty == ASSUME hdr = <<>> PROVE Recovered = [b \in Block |-> disk[b]]
BY EmptyFacts, Zenon DEF Recovered

LEMMA RefInit == Init => Abstract!Init
<1> SUFFICES ASSUME Init PROVE Abstract!Init
  BY Zenon
<1>1. Recovered = disk
  BY RecoveredEmpty, Zenon DEF Init
<1>2. Active = {} /\ boot # "up"
  BY Zenon DEF Init, Active
<1> QED
  BY <1>1, <1>2, Zenon DEF Init, Abstract!Init, Memory

\* What a recovery would leave depends on the disk alone.
LEMMA SameDisk ==
  ASSUME UNCHANGED <<disk, hdr, dlog>>
  PROVE  Recovered' = Recovered
BY DEF Recovered

\* A step that touches neither the disk nor the cache nor the boot.
LEMMA SameContents ==
  ASSUME UNCHANGED <<disk, hdr, dlog, cache, boot>>
  PROVE  Recovered' = Recovered /\ Memory' = Memory /\ (boot = "up")' = (boot = "up")
<1>1. Recovered' = Recovered
  BY SameDisk, Zenon
<1>2. (boot = "up")' = (boot = "up")
  BY Zenon
<1> QED
  BY <1>1, <1>2, Zenon DEF Memory, Bread

LEMMA RefBegin ==
  ASSUME Inv, NEW p \in Proc, begin_op(p)
  PROVE  Abstract!Begin(p) \/ UNCHANGED Abstract!vars
<1> USE DEF Inv, begin_op, diskVars
<1>1. Recovered' = Recovered /\ Memory' = Memory /\ (boot = "up")' = (boot = "up")
  BY SameContents, Zenon
<1>2. boot = "up" /\ p \notin Active
  BY Zenon DEF Calls, Active
<1>3. CASE MustWait
  <2>1. Active' = Active
    BY <1>3, Zenon DEF Active, TypeOK
  <2> QED
    BY <1>1, <2>1, Zenon DEF Abstract!vars
<1>4. CASE ~MustWait
  <2>1. Active' = Active \cup {p}
    BY <1>4, Zenon DEF Active, TypeOK
  <2> QED
    BY <1>1, <1>2, <2>1, Zenon DEF Abstract!Begin
<1> QED
  BY <1>3, <1>4, Zenon

LEMMA RefWrite ==
  ASSUME Inv, NEW p \in Proc, NEW b \in Block, NEW v \in Val, log_write(p, b, v)
  PROVE  Abstract!Write(p, b, v)
<1> USE ValuesAssumption DEF Inv, log_write, diskVars
<1>1. boot = "up" /\ boot' = "up" /\ p \in Active /\ Active' = Active
  BY Zenon DEF Calls, Active
<1>2. Recovered' = Recovered
  BY SameDisk, Zenon
<1>3. Memory' = [Memory EXCEPT ![b] = v]
  <2>1. v # Absent /\ cache' = [cache EXCEPT ![b] = v] /\ disk' = disk
    BY Zenon
  <2>2. \A a \in Block : Bread(a)' = IF a = b THEN v ELSE Bread(a)
    BY <2>1, Zenon DEF Bread, TypeOK
  <2> QED
    BY <1>1, <2>2, Zenon DEF Memory
<1> QED
  BY <1>1, <1>2, <1>3, Zenon DEF Abstract!Write

LEMMA RefEnd ==
  ASSUME Inv, NEW p \in Proc, end_op(p)
  PROVE  Abstract!End(p)
<1> USE DEF Inv, end_op, diskVars
<1>1. Recovered' = Recovered /\ Memory' = Memory /\ (boot = "up")' = (boot = "up")
  BY SameContents, Zenon
<1>2. boot = "up" /\ p \in Active
  BY Zenon DEF Calls, Active
<1>3. Active' = Active \ {p}
  <2>1. CASE outstanding = 1
    BY <2>1, Zenon DEF TypeOK, Active
  <2>2. CASE outstanding # 1
    BY <2>2, Zenon DEF TypeOK, Active, Wakeup
  <2> QED
    BY <2>1, <2>2, Zenon
<1> QED
  BY <1>1, <1>2, <1>3, Zenon DEF Abstract!End

\* A committing thread keeps the set of active calls empty.
LEMMA StillNone ==
  ASSUME Inv, NEW p \in Proc, pc[p] \in CommitPC,
         \A q \in Proc : pc'[q] # "op" \/ pc'[q] = pc[q]
  PROVE  Active' = Active /\ Active = {}
BY Committer, Zenon DEF Active, Inv, TypeOK

LEMMA RefWriteLog == ASSUME Inv, NEW p \in Proc, write_log(p) PROVE UNCHANGED Abstract!vars
<1> USE ValuesAssumption DEF Inv, write_log
<1>1. boot = "up" /\ hdr = <<>> /\ PinnedFrom(1) /\ tail \in 1..Len(lh)
  BY Committer, Zenon DEF CommitPC, Committing
<1>2. cache' = cache
  <2>1. lh[tail] \in Block /\ Len(lh) \in Nat
    BY <1>1, TypeSeqs, Zenon
  <2>2. pin[lh[tail]] = 1
    BY <1>1, <2>1, Zenon DEF PinnedFrom
  <2> QED
    BY <2>1, <2>2 DEF Buffers, Bread, TypeOK
<1>3. Recovered' = Recovered
  <2>1. Recovered = [b \in Block |-> disk[b]]
    BY <1>1, RecoveredEmpty, Zenon
  <2>2. Recovered' = [b \in Block |-> disk'[b]]
    <3>1. hdr' = <<>> /\ Range(hdr') = {}
      BY <1>1, EmptyFacts, Zenon
    <3> QED
      BY <3>1, Zenon DEF Recovered
  <2> QED
    BY <2>1, <2>2, Zenon
<1>4. Memory' = Memory
  BY <1>1, <1>2, Zenon DEF Memory, Bread
<1>5. Active' = Active
  BY StillNone, Zenon DEF CommitPC, TypeOK
<1> QED
  BY <1>1, <1>3, <1>4, <1>5, Zenon DEF Abstract!vars

\* The header's write is the moment the group of calls becomes durable.
LEMMA RefWriteHead == ASSUME Inv, ~panicked, NEW p \in Proc, write_head(p) PROVE Abstract!Commit
<1> USE ValuesAssumption DEF Inv, write_head
<1>1. boot = "up" /\ PinnedFrom(1) /\ Logged(1, Len(lh))
  BY Committer, Zenon DEF CommitPC, Committing
<1>2. Active = {} /\ Active' = Active
  BY StillNone, Zenon DEF CommitPC, TypeOK
<1>3. Recovered' = [b \in Block |-> Bread(b)]
  <2>1. /\ Recovered' = [b \in Block |-> Recovered'[b]]
        /\ \A i \in 1..Len(lh) : Recovered'[lh[i]] = dlog[i]
        /\ \A b \in Block : b \notin Range(lh) => Recovered'[b] = disk[b]
        /\ \A b \in Range(lh) : \E i \in 1..Len(lh) : lh[i] = b
    <3>1. \A i \in 1..Len(lh) :
             lh[i] \in Block /\ lh[i] \in Range(lh) /\ (CHOOSE j \in DOMAIN lh : lh[j] = lh[i]) = i
      BY TypeSeqs, LoggedCopy DEF Distinct, Range
    <3>2. \A b \in Range(lh) : \E i \in 1..Len(lh) : lh[i] = b
      BY TypeSeqs, Zenon DEF Range
    <3>3. Recovered' = [b \in Block |-> IF b \in Range(lh) THEN dlog[CHOOSE i \in DOMAIN lh : lh[i] = b]
                                                          ELSE disk[b]]
      BY DEF Recovered
    <3>4. \A i \in 1..Len(lh) : Recovered'[lh[i]] = dlog[i]
      <4> SUFFICES ASSUME NEW i \in 1..Len(lh) PROVE Recovered'[lh[i]] = dlog[i]
        BY Zenon
      <4>1. Recovered'[lh[i]] = dlog[CHOOSE j \in DOMAIN lh : lh[j] = lh[i]]
        BY <3>1, <3>3, Zenon
      <4> QED
        BY <3>1, <4>1, Zenon
    <3>5. \A b \in Block : b \notin Range(lh) => Recovered'[b] = disk[b]
      BY <3>3, Zenon
    <3> QED
      BY <3>2, <3>3, <3>4, <3>5
  <2>2. ASSUME NEW b \in Block PROVE Recovered'[b] = Bread(b)
    <3>1. CASE b \in Range(lh)
      <4>1. PICK i \in 1..Len(lh) : lh[i] = b
        BY <2>1, <3>1, Zenon
      <4>2. pin[b] = 1
        BY <1>1, <4>1, Zenon DEF PinnedFrom
      <4>3. cache[b] # Absent
        BY <4>2 DEF Buffers
      <4>4. Recovered'[b] = cache[b]
        BY <1>1, <2>1, <4>1, Zenon DEF Logged
      <4> QED
        BY <4>3, <4>4, Zenon DEF Bread
    <3>2. CASE b \notin Range(lh)
      <4>1. pin[b] = 0
        BY <1>1, <3>2, TypeSeqs, Zenon DEF PinnedFrom, Range
      <4> QED
        BY <2>1, <3>2, <4>1, Zenon DEF Buffers, Bread
    <3> QED
      BY <3>1, <3>2, Zenon
  <2> QED
    BY <2>1, <2>2, Zenon
<1>4. Memory = [b \in Block |-> Bread(b)] /\ Memory' = Memory /\ boot' = boot
  BY <1>1, Zenon DEF Memory, Bread
<1> QED
  BY <1>1, <1>2, <1>3, <1>4, Zenon DEF Abstract!Commit

\* Writing a logged copy home does not change what recovery would yield.
LEMMA InstallSameRecovered ==
  ASSUME TypeOK, Distinct, lh = hdr, tail \in 1..Len(lh), InstallBlock,
         hdr' = hdr, dlog' = dlog
  PROVE  Recovered' = Recovered
<1>1. lh[tail] \in Range(hdr) /\ disk' = [disk EXCEPT ![lh[tail]] = dlog[tail]]
  BY TypeSeqs, Zenon DEF Range, InstallBlock
<1>2. \A b \in Block : b \notin Range(hdr) => disk'[b] = disk[b]
  BY <1>1, Zenon DEF TypeOK
<1> QED
  BY <1>2 DEF Recovered

LEMMA RefInstall == ASSUME Inv, NEW p \in Proc, install_trans(p) PROVE UNCHANGED Abstract!vars
<1> USE ValuesAssumption DEF Inv, install_trans
<1>1. boot = "up" /\ Active' = Active
  BY Committer, StillNone, Zenon DEF CommitPC, TypeOK
<1>2. tail \in 1..Len(lh) /\ hdr = lh /\ PinnedFrom(tail) /\ Logged(tail, Len(lh))
  BY Zenon DEF Committing
<1>3. Recovered' = Recovered
  BY <1>2, InstallSameRecovered, Zenon
<1>4. \A b \in Block : Bread(b)' = Bread(b)
  <2>1. lh[tail] \in Block /\ tail \in Nat /\ Len(lh) \in Nat
    BY <1>2, TypeSeqs
  <2>2. pin[lh[tail]] = 1
    BY <1>2, <2>1 DEF PinnedFrom
  <2>3. cache[lh[tail]] \in Val /\ dlog[tail] = cache[lh[tail]]
    BY <1>2, <2>1, <2>2, SMTT(30) DEF Buffers, Logged
  <2> QED
    BY <2>1, <2>3, Zenon DEF Bread, InstallBlock, TypeOK
<1>5. Memory' = Memory
  BY <1>1, <1>4, Zenon DEF Memory
<1> QED
  BY <1>1, <1>3, <1>5, Zenon DEF Abstract!vars

\* Clearing a header whose blocks are all home changes nothing either.
LEMMA ClearSameRecovered ==
  ASSUME TypeOK, Distinct, lh = hdr, Home(lh, Len(lh)), hdr' = <<>>, disk' = disk
  PROVE  Recovered' = Recovered /\ Recovered = [b \in Block |-> disk[b]]
<1>1. Recovered' = [b \in Block |-> disk[b]]
  BY EmptyFacts, Zenon DEF Recovered
<1>2. ASSUME NEW b \in Block PROVE Recovered[b] = disk[b]
  <2>1. CASE b \in Range(hdr)
    <3>1. PICK i \in 1..Len(hdr) : hdr[i] = b
      BY <2>1, RecoveredFacts, Zenon
    <3> QED
      BY <3>1, RecoveredFacts, Zenon DEF Home
  <2>2. CASE b \notin Range(hdr)
    BY <2>2, RecoveredFacts, Zenon
  <2> QED
    BY <2>1, <2>2, Zenon
<1> QED
  BY <1>1, <1>2, RecoveredFacts, Zenon

LEMMA RefClear == ASSUME Inv, NEW p \in Proc, clear_head(p) PROVE UNCHANGED Abstract!vars
<1> USE DEF Inv, clear_head
<1>1. boot = "up" /\ Active' = Active
  BY Committer, StillNone, Zenon DEF CommitPC, TypeOK
<1>2. Recovered' = Recovered
  BY ClearSameRecovered, Zenon DEF Committing
<1>3. Memory' = Memory
  BY <1>1, Zenon DEF Memory, Bread
<1> QED
  BY <1>1, <1>2, <1>3, Zenon DEF Abstract!vars

LEMMA RefEndCommit == ASSUME Inv, NEW p \in Proc, end_commit(p) PROVE UNCHANGED Abstract!vars
<1> USE DEF Inv, end_commit, diskVars
<1>1. Recovered' = Recovered /\ Memory' = Memory /\ (boot = "up")' = (boot = "up")
  BY SameContents, Zenon
<1>2. Active' = Active
  BY StillNone, Zenon DEF CommitPC, TypeOK, Wakeup
<1> QED
  BY <1>1, <1>2, Zenon DEF Abstract!vars

LEMMA RefCache ==
  ASSUME Inv, NEW b \in Block, Fetch(b) \/ Recycle(b)
  PROVE  UNCHANGED Abstract!vars
<1> USE ValuesAssumption DEF Inv, diskVars
<1>1. /\ UNCHANGED <<disk, hdr, dlog, pc, boot>>
      /\ \/ cache[b] = Absent /\ cache' = [cache EXCEPT ![b] = disk[b]]
         \/ cache[b] = disk[b] /\ cache' = [cache EXCEPT ![b] = Absent]
  BY DEF Fetch, Recycle, Buffers
<1>2. Recovered' = Recovered /\ Active' = Active
  BY <1>1, SameDisk, Zenon DEF Active
<1>3. \A a \in Block : Bread(a)' = Bread(a)
  BY <1>1, Zenon DEF Bread, TypeOK
<1>4. Memory' = Memory
  BY <1>1, <1>2, <1>3, Zenon DEF Memory
<1> QED
  BY <1>1, <1>2, <1>4, Zenon DEF Abstract!vars

LEMMA RefCrash == ASSUME IndInv, Crash PROVE Abstract!Crash
<1> USE DEF IndInv, Crash
<1>1. Active' = {} /\ boot' # "up" /\ Memory' = Recovered'
  BY Zenon DEF Active, Memory
<1>2. Recovered' = Recovered
  <2>1. CASE UNCHANGED <<disk, dlog>>
    BY <2>1, SameDisk, Zenon
  <2>2. ASSUME NEW p \in Proc, pc[p] = "write_log", UNCHANGED disk
        PROVE  Recovered' = Recovered
    <3>1. hdr = <<>> /\ hdr' = <<>>
      BY <2>2, Zenon DEF Calls, CommitAlone, CommitPC, Active, Committing
    <3> QED
      BY <2>2, <3>1, EmptyFacts, Zenon DEF Recovered
  <2>3. ASSUME boot = "install_trans" \/ \E p \in Proc : pc[p] = "install_trans",
               disk' = [disk EXCEPT ![lh[tail]] = Torn], UNCHANGED dlog
        PROVE  Recovered' = Recovered
    <3>1. hdr = lh /\ tail \in 1..Len(lh)
      BY <2>3, Zenon DEF Calls, CommitAlone, CommitPC, Active, Committing, Recovering
    <3>2. lh[tail] \in Range(hdr)
      BY <3>1, TypeSeqs, Zenon DEF Range
    <3>3. \A b \in Block : b \notin Range(hdr) => disk'[b] = disk[b]
      BY <2>3, <3>2, Zenon DEF TypeOK
    <3> QED
      BY <2>3, <3>3 DEF Recovered
  <2> QED
    BY <2>1, <2>2, <2>3, Zenon DEF TornWrites
<1> QED
  BY <1>1, <1>2, Zenon DEF Abstract!Crash

LEMMA RefReadHead == ASSUME Inv, read_head PROVE UNCHANGED Abstract!vars
<1> USE DEF Inv, read_head, diskVars
<1>1. Recovered' = Recovered /\ Active' = Active
  BY DEF Recovered, Active
<1>2. boot # "up" /\ boot' # "up"
  BY Zenon
<1> QED
  BY <1>1, <1>2, Zenon DEF Abstract!vars, Memory

LEMMA RefRecoverInstall == ASSUME Inv, recover_install PROVE UNCHANGED Abstract!vars
<1> USE DEF Inv, recover_install
<1>1. Recovered' = Recovered
  BY InstallSameRecovered, Zenon DEF Recovering
<1>2. boot # "up" /\ boot' # "up" /\ Active' = Active
  BY Zenon DEF Active
<1> QED
  BY <1>1, <1>2, Zenon DEF Abstract!vars, Memory

LEMMA RefRecoverClear == ASSUME Inv, recover_clear PROVE Abstract!Recover
<1> USE DEF Inv, recover_clear
<1>1. Recovered' = Recovered /\ Recovered = [b \in Block |-> disk[b]]
  BY ClearSameRecovered, Zenon DEF Recovering
<1>2. \A b \in Block : Bread(b)' = disk[b]
  BY Zenon DEF Bread, Recovering, Buffers
<1>3. Memory' = Recovered /\ Memory = Recovered
  BY <1>1, <1>2, Zenon DEF Memory
<1>4. Active' = {} /\ Active = {}
  BY Zenon DEF Active, Calls
<1>5. boot # "up" /\ boot' = "up"
  BY Zenon
<1> QED
  BY <1>1, <1>3, <1>4, <1>5, Zenon DEF Abstract!Recover

LEMMA RefNext == IndInv /\ [Next]_vars => [Abstract!Next]_(Abstract!vars)
<1> SUFFICES ASSUME IndInv, [Next]_vars PROVE Abstract!Next \/ UNCHANGED Abstract!vars
  BY Zenon
<1>1. CASE UNCHANGED vars
  <2>1. Recovered' = Recovered /\ Memory' = Memory /\ (boot = "up")' = (boot = "up")
    BY <1>1, SameContents, Zenon DEF vars, diskVars, memVars
  <2>2. Active' = Active
    BY <1>1, Zenon DEF vars, memVars, Active
  <2> QED
    BY <2>1, <2>2, Zenon DEF Abstract!vars
<1>2. CASE Crash
  BY <1>2, RefCrash, Zenon DEF Abstract!Next
<1>3. CASE ~panicked /\ Next
  <2>0. Inv /\ ~panicked
    BY <1>3, Zenon DEF Inv, IndInv
  <2>1. ASSUME NEW p \in Proc, begin_op(p) \/ end_op(p)
        PROVE  Abstract!Next \/ UNCHANGED Abstract!vars
    BY <2>0, <2>1, RefBegin, RefEnd, Zenon DEF Abstract!Next
  <2>2. ASSUME NEW p \in Proc, NEW b \in Block, NEW v \in Val, log_write(p, b, v)
        PROVE  Abstract!Next \/ UNCHANGED Abstract!vars
    BY <2>0, <2>2, RefWrite, Zenon DEF Abstract!Next
  <2>3. ASSUME NEW p \in Proc, Commit(p)
        PROVE  Abstract!Next \/ UNCHANGED Abstract!vars
    BY <2>0, <2>3, RefWriteLog, RefWriteHead, RefInstall, RefClear, RefEndCommit, Zenon
       DEF Commit, Abstract!Next
  <2>4. ASSUME NEW b \in Block, Fetch(b) \/ Recycle(b)
        PROVE  Abstract!Next \/ UNCHANGED Abstract!vars
    BY <2>0, <2>4, RefCache, Zenon
  <2>5. CASE Recovery
    BY <2>0, <2>5, RefReadHead, RefRecoverInstall, RefRecoverClear, Zenon DEF Recovery, Abstract!Next
  <2> QED
    BY <1>2, <1>3, <2>1, <2>2, <2>3, <2>4, <2>5, Zenon DEF Next
<1> QED
  BY <1>1, <1>2, <1>3, Zenon DEF Next

-----------------------------------------------------------------------------
(* The steps that change how many calls are active                         *)
INSTANCE FiniteSetTheorems

LEMMA ActiveFinite == IsFiniteSet(Active)
BY FiniteAssumption, FS_Subset, Zenon DEF Active

LEMMA InitInv == Init => IndInv
<1> SUFFICES ASSUME Init PROVE IndInv
  BY Zenon
<1> USE SizesAssumption, ValuesAssumption DEF Init
<1>0. hdr \in Seq(Block) /\ lh \in Seq(Block) /\ Len(lh) = 0 /\ DOMAIN lh = {}
  BY EmptyFacts, Zenon
<1>1. TypeOK
  <2>1. pc \in [Proc -> PC]
    BY Zenon DEF PC
  <2> QED
    BY <1>0, <2>1, Zenon DEF TypeOK
<1>2. Calls
  <2>1. Active = {}
    BY Zenon DEF Active
  <2>2. Cardinality({}) = 0
    BY FS_EmptySet, Zenon
  <2> QED
    BY <2>1, <2>2, Zenon DEF Calls, CommitAlone, CommitPC
<1>3. Distinct
  BY <1>0 DEF Distinct, Injective
<1>4. Recovering
  BY <1>0, Zenon DEF Recovering
<1>5. Buffers /\ Committing
  BY Zenon DEF Buffers, Committing
<1> QED
  BY <1>1, <1>2, <1>3, <1>4, <1>5, Zenon DEF IndInv

LEMMA BeginOp == ASSUME Inv, ~panicked, NEW p \in Proc, begin_op(p) PROVE IndInv'
<1> USE SizesAssumption DEF Inv, begin_op, diskVars
<1>1. /\ pc' = [pc EXCEPT ![p] = pc'[p]]
      /\ \/ pc'[p] = "op" /\ ~committing /\ outstanding' = outstanding + 1
         \/ pc'[p] = "sleep" /\ outstanding' = outstanding
  BY Zenon DEF TypeOK, MustWait
<1>2. TypeOK'
  <2>1. pc' \in [Proc -> PC]
    BY <1>1, Zenon DEF TypeOK, PC
  <2>2. outstanding' \in Nat
    BY <1>1 DEF TypeOK
  <2>3. lh' \in Seq(Block) /\ hdr' \in Seq(Block)
    BY Zenon DEF TypeOK
  <2> QED
    BY <2>1, <2>2, <2>3, Zenon DEF TypeOK
<1>3. outstanding' = Cardinality(Active')
  <2>1. CASE pc'[p] = "op"
    <3>1. Active' = Active \cup {p} /\ p \notin Active
      BY <1>1, <2>1, Zenon DEF TypeOK, Active
    <3> QED
      BY <1>1, <2>1, <3>1, ActiveFinite, FS_AddElement, ZenonT(40) DEF Calls
  <2>2. CASE pc'[p] = "sleep"
    <3>1. Active' = Active
      BY <1>1, <2>2, Zenon DEF TypeOK, Active
    <3> QED
      BY <1>1, <2>2, <3>1, Zenon DEF Calls
  <2> QED
    BY <1>1, <2>1, <2>2, Zenon
<1>4. Calls'
  <2>1. \A q \in Proc : pc[q] \in CommitPC => pc'[p] = "sleep"
    BY <1>1, Zenon DEF Calls, CommitAlone
  <2>2. CommitAlone'
    BY <1>1, <2>1, Zenon DEF TypeOK, Calls, CommitAlone, CommitPC
  <2>3. \A q \in Proc : (pc[q] = "op" => ~committing)'
    BY <1>1, Zenon DEF TypeOK, Calls
  <2>4. \A q \in Proc : (pc[q] = "off" <=> boot # "up")'
    BY <1>1, Zenon DEF TypeOK, Calls
  <2> QED
    BY <1>3, <2>2, <2>3, <2>4, Zenon DEF Calls
<1>5. Distinct' /\ Recovering' /\ Buffers'
  BY Zenon DEF Distinct, Injective, Recovering, Home, Buffers
<1>6. Committing'
  <2>1. \A q \in Proc : pc'[q] # pc[q] => pc[q] \notin CommitPC /\ pc'[q] \notin CommitPC
    BY <1>1, Zenon DEF TypeOK, CommitPC
  <2>2. UNCHANGED <<disk, hdr, dlog, cache, pin, lh, tail, boot>>
    BY Zenon
  <2> QED
    BY <2>1, <2>2, CommitFrame, Zenon
<1> QED
  BY <1>2, <1>4, <1>5, <1>6, Zenon DEF IndInv

LEMMA EndOp == ASSUME Inv, ~panicked, NEW p \in Proc, end_op(p) PROVE IndInv'
<1> USE SizesAssumption DEF Inv, end_op, diskVars
<1>1. boot = "up" /\ ~committing /\ (\A q \in Proc : pc[q] \notin CommitPC)
  BY Zenon DEF Calls, CommitAlone
<1>2. p \in Active /\ outstanding \in Nat \ {0}
  <2>1. p \in Active
    BY Zenon DEF Active
  <2>2. outstanding \in Nat /\ outstanding # 0
    BY <2>1, ActiveFinite, FS_EmptySet, Zenon DEF Calls, TypeOK
  <2> QED
    BY <2>1, <2>2, Zenon
<1>3. ~panicked' /\ tail' = 1 /\ outstanding' \in Nat
  BY <1>1, <1>2
<1>4. Active' = Active \ {p} /\ \A q \in Proc \ {p} : pc'[q] \in {pc[q], "begin"}
  <2>1. CASE outstanding = 1
    BY <2>1, Zenon DEF TypeOK, Active
  <2>2. CASE outstanding # 1
    BY <2>2, Zenon DEF TypeOK, Active, Wakeup
  <2> QED
    BY <2>1, <2>2, Zenon
<1>5. outstanding' = Cardinality(Active')
  BY <1>2, <1>4, ActiveFinite, FS_RemoveElement, Zenon DEF Calls
<1>6. CASE outstanding = 1
  <2>1. Active' = {}
    <3>1. IsFiniteSet(Active') /\ Cardinality(Active') = 0
      <4>1. IsFiniteSet(Active \ {p})
        BY ActiveFinite, FS_RemoveElement, Zenon
      <4>2. outstanding' = 0
        BY <1>6
      <4> QED
        BY <1>4, <1>5, <4>1, <4>2, Zenon
    <3> QED
      BY <3>1, FS_EmptySet, Zenon
  <2>2. /\ committing' = TRUE /\ outstanding' = 0
        /\ pc' = [pc EXCEPT ![p] = pc'[p]]
        /\ pc'[p] = IF lh = <<>> THEN "committed" ELSE "write_log"
    BY <1>6 DEF TypeOK
  <2>3. TypeOK'
    <3>1. pc' \in [Proc -> PC]
      BY <2>2, Zenon DEF TypeOK, PC, CommitPC
    <3>2. lh' \in Seq(Block) /\ hdr' \in Seq(Block) /\ wrote' \in [Proc -> SUBSET Block]
      BY Zenon DEF TypeOK
    <3> QED
      BY <1>3, <2>2, <3>1, <3>2, Zenon DEF TypeOK
  <2>4. Calls'
    <3>1. \A q \in Proc : pc'[q] # "op" /\ (q # p => pc'[q] \in {"idle", "begin", "sleep"})
      <4>1. \A q \in Proc : pc[q] # "off"
        BY <1>1, Zenon DEF Calls
      <4> QED
        BY <1>1, <2>1, <2>2, <4>1, Zenon DEF Active, TypeOK, PC
    <3>2. \A q \in Proc : pc'[q] # "off"
      BY <1>1, <2>2, <3>1, Zenon DEF TypeOK
    <3>3. CommitAlone'
      BY <2>2, <3>1, Zenon DEF CommitAlone, CommitPC
    <3> QED
      BY <1>1, <1>3, <1>5, <3>1, <3>2, <3>3, Zenon DEF Calls
  <2>5. Distinct' /\ Recovering' /\ Buffers'
    BY <1>1, Zenon DEF Distinct, Injective, Recovering, Buffers
  <2>6. Committing'
    <3>1. hdr' = <<>> /\ PinnedFrom(1)'
      BY <1>1, Zenon DEF Committing, CommitPC, PinnedFrom
    <3>2. \A q \in Proc : pc'[q] \in CommitPC => q = p
      BY <1>1, <2>2, Zenon DEF TypeOK
    <3>3. lh # <<>> => tail' \in 1..Len(lh')
      BY <1>3, TypeSeqs, NonEmptyFacts, Zenon
    <3>4. Logged(1, 0)'
      BY DEF Logged
    <3> QED
      BY <1>3, <2>2, <3>1, <3>2, <3>3, <3>4, Zenon DEF Committing, CommitPC
  <2> QED
    BY <2>3, <2>4, <2>5, <2>6, Zenon DEF IndInv
<1>7. CASE outstanding # 1
  <2>1. pc' = Wakeup([pc EXCEPT ![p] = "idle"]) /\ committing' = committing
    BY <1>7, Zenon
  <2>2. /\ pc' \in [Proc -> PC] /\ pc'[p] = "idle"
        /\ \A q \in Proc : pc'[q] \notin CommitPC /\ (pc'[q] = "op" => pc[q] = "op")
        /\ \A q \in Proc : pc'[q] # "off"
    BY <1>1, <2>1, Zenon DEF TypeOK, Wakeup, PC, CommitPC, Calls
  <2>3. TypeOK'
    <3>1. lh' \in Seq(Block) /\ hdr' \in Seq(Block) /\ wrote' \in [Proc -> SUBSET Block]
      BY Zenon DEF TypeOK
    <3>2. committing' \in BOOLEAN /\ panicked' \in BOOLEAN
      BY <1>3, <2>1, Zenon DEF TypeOK
    <3> QED
      BY <1>3, <2>2, <3>1, <3>2 DEF TypeOK
  <2>4. Calls'
    BY <1>1, <1>3, <1>5, <2>1, <2>2, ZenonT(40) DEF Calls, CommitAlone
  <2>5. Distinct' /\ Recovering' /\ Buffers'
    BY <1>1, Zenon DEF Distinct, Injective, Recovering, Buffers
  <2>6. Committing'
    BY <1>1, <2>2, Zenon DEF Committing, CommitPC, PinnedFrom
  <2> QED
    BY <2>3, <2>4, <2>5, <2>6, Zenon DEF IndInv
<1> QED
  BY <1>6, <1>7, Zenon

LEMMA EndCommit == ASSUME Inv, ~panicked, NEW p \in Proc, end_commit(p) PROVE IndInv'
<1> USE SizesAssumption DEF Inv, end_commit, diskVars
<1>1. /\ boot = "up" /\ outstanding = 0
      /\ \A q \in Proc \ {p} : pc[q] \in {"idle", "begin", "sleep"}
  BY Committer, Zenon DEF CommitPC
<1>2. pc' \in [Proc -> {"idle", "begin"}]
  BY <1>1, Zenon DEF TypeOK, Wakeup
<1>3. TypeOK'
  <2>1. lh' \in Seq(Block) /\ hdr' \in Seq(Block)
    BY Zenon DEF TypeOK
  <2>2. pc' \in [Proc -> PC]
    BY <1>2, Zenon DEF PC
  <2> QED
    BY <2>1, <2>2, Zenon DEF TypeOK
<1>4. Calls'
  <2>1. Active' = {}
    BY <1>2, Zenon DEF Active
  <2>2. Cardinality({}) = 0
    BY FS_EmptySet, ZenonT(40)
  <2> QED
    BY <1>1, <1>2, <2>1, <2>2, Zenon DEF Calls, CommitAlone, CommitPC
<1>5. Distinct' /\ Recovering' /\ Buffers'
  BY <1>1 DEF Distinct, Injective, Recovering, Buffers
<1>6. Committing'
  <2>1. \A q \in Proc : pc[q] \notin {"install_trans", "clear_head"}
    BY <1>1, Zenon
  <2>2. hdr = <<>> /\ PinnedFrom(1)
    BY <1>1, <2>1, Zenon DEF Committing
  <2>3. hdr' = <<>> /\ PinnedFrom(1)'
    BY <2>2, Zenon DEF PinnedFrom
  <2>4. \A q \in Proc : pc'[q] \in {"idle", "begin"}
    BY <1>2, Zenon
  <2> QED
    BY <2>3, <2>4, Zenon DEF Committing
<1> QED
  BY <1>3, <1>4, <1>5, <1>6, Zenon DEF IndInv

LEMMA CrashStep == ASSUME IndInv, Crash PROVE IndInv'
<1> USE SizesAssumption, ValuesAssumption DEF IndInv, Crash
<1>1. /\ lh' \in Seq(Block) /\ hdr' \in Seq(Block) /\ Len(lh') = 0 /\ DOMAIN lh' = {}
  BY EmptyFacts, Zenon DEF TypeOK
<1>2. disk' \in [Block -> Val \cup {Torn}] /\ dlog' \in [1..Nlog-1 -> Val \cup {Torn}]
  BY Zenon DEF TypeOK, TornWrites
<1>3. TypeOK'
  <2>1. pc' \in [Proc -> PC]
    BY Zenon DEF PC
  <2> QED
    BY <1>1, <1>2, <2>1, Zenon DEF TypeOK
<1>4. Calls'
  <2>1. Active' = {}
    BY Zenon DEF Active
  <2>2. Cardinality({}) = 0
    BY FS_EmptySet, Zenon
  <2> QED
    BY <2>1, <2>2, Zenon DEF Calls, CommitAlone, CommitPC
<1>5. Distinct'
  BY <1>1 DEF Distinct, Injective
<1>6. Recovering'
  <2> DEFINE Whole == /\ \A i \in DOMAIN hdr : dlog'[i] \in Val
                      /\ \A b \in Block : b \notin Range(hdr) => disk'[b] \in Val
  <2>1. Whole
    <3>1. CASE UNCHANGED <<disk, dlog>>
      BY <3>1, Zenon DEF Recovering
    <3>2. ASSUME NEW p \in Proc, pc[p] = "write_log", dlog' = [dlog EXCEPT ![tail] = Torn],
                 UNCHANGED disk
          PROVE  Whole
      <4>1. hdr = <<>>
        BY <3>2, Zenon DEF Calls, CommitAlone, CommitPC, Active, Committing
      <4> QED
        BY <3>2, <4>1, EmptyFacts, Zenon DEF Recovering
    <3>3. ASSUME boot = "install_trans" \/ \E p \in Proc : pc[p] = "install_trans",
                 disk' = [disk EXCEPT ![lh[tail]] = Torn], UNCHANGED dlog
          PROVE  Whole
      <4>1. hdr = lh /\ tail \in 1..Len(lh)
        BY <3>3, Zenon DEF Calls, CommitAlone, CommitPC, Active, Committing, Recovering
      <4>2. lh[tail] \in Range(hdr)
        BY <4>1, TypeSeqs, Zenon DEF Range
      <4> QED
        BY <3>3, <4>2, Zenon DEF Recovering, TypeOK
    <3> HIDE DEF Whole
    <3> QED
      BY <3>1, <3>2, <3>3, Zenon DEF TornWrites
  <2> QED
    BY <2>1, Zenon DEF Recovering
<1>7. Buffers' /\ Committing'
  BY Zenon DEF Buffers, Committing
<1> QED
  BY <1>3, <1>4, <1>5, <1>6, <1>7, Zenon

LEMMA NextInv == IndInv /\ [Next]_vars => IndInv'
<1> SUFFICES ASSUME IndInv, [Next]_vars PROVE IndInv'
  BY Zenon
<1>1. CASE UNCHANGED vars
  <2> USE <1>1 DEF vars, diskVars, memVars, IndInv
  <2>1. TypeOK'
    BY Zenon DEF TypeOK
  <2>2. Calls'
    BY Zenon DEF Calls, CommitAlone, Active
  <2>3. Distinct'
    BY Zenon DEF Distinct, Injective
  <2>4. Recovering'
    BY Zenon DEF Recovering, Home
  <2>5. ~panicked' => Buffers'
    BY DEF Buffers
  <2>6. ~panicked' => Committing'
    <3> SUFFICES ASSUME ~panicked PROVE Committing'
      BY Zenon
    <3>1. /\ \A n : PinnedFrom(n)' <=> PinnedFrom(n)
          /\ \A m, n : Logged(m, n)' <=> Logged(m, n)
          /\ \A n : Home(lh, n)' <=> Home(lh, n)
      BY Zenon DEF PinnedFrom, Logged, Home
    <3> QED
      BY <3>1, Zenon DEF Committing
  <2> QED
    BY <2>1, <2>2, <2>3, <2>4, <2>5, <2>6, Zenon
<1>2. CASE Crash
  BY <1>2, CrashStep, Zenon
<1>3. CASE ~panicked /\ Next
  <2>1. Inv /\ ~panicked
    BY <1>3, Zenon DEF Inv, IndInv
  <2> QED
    BY <1>2, <1>3, <2>1, BeginOp, LogWrite, EndOp, WriteLog, WriteHead, InstallTrans,
       ClearHead, EndCommit, FetchStep, RecycleStep, ReadHead, RecoverInstall, RecoverClear, ZenonT(40)
       DEF Next, Commit, Recovery
<1> QED
  BY <1>1, <1>2, <1>3, Zenon DEF Next

\* IndInv is an invariant of the specification.
THEOREM Invariance == Spec => []IndInv
BY InitInv, NextInv, PTL DEF Spec

\* Type correctness of the log, the cache, the disk and the threads.
THEOREM TypeCorrect == Spec => []TypeOK
BY Invariance, PTL DEF IndInv

\* A commit never overlaps a file-system call or another commit.
THEOREM CommitsAlone == Spec => []CommitAlone
BY Invariance, PTL DEF IndInv, Calls

\* No buffer whose contents differ from the disk's can be recycled.
THEOREM CleanRecycling == Spec => []RecyclableIsClean
<1>1. IndInv => RecyclableIsClean
  BY Zenon DEF IndInv, Buffers, RecyclableIsClean
<1> QED
  BY <1>1, Invariance, PTL

\* log.c implements an atomic disk: whatever the sizes, the threads and the
\* moments of the crashes, what recovery yields is the state after a whole
\* number of committed groups of system calls.
THEOREM LogRefinesAtomicDisk == Spec => CrashAtomicity
BY RefInit, RefNext, Invariance, PTL DEF Spec, CrashAtomicity, Abstract!Spec

-----------------------------------------------------------------------------
(* The log has room for what the admitted calls may still write            *)
INSTANCE FunctionTheorems

\* The blocks that the active calls have written, each with its call.
Notes == {n \in Active \X Block : n[2] \in wrote[n[1]]}

\* A call's blocks are in the log; it may write OpBlocks of them.  What the log
\* holds, with what the active calls may still add, leaves two blocks of LOGSIZE.
Room ==
  /\ ~panicked
  /\ \A p \in Proc :
       /\ IsFiniteSet(wrote[p]) /\ Cardinality(wrote[p]) <= OpBlocks
       /\ wrote[p] \subseteq Range(lh)
       /\ pc[p] # "op" => wrote[p] = {}
  /\ boot = "up" /\ ~committing /\ outstanding = 0 => lh = <<>>
  /\ outstanding > 0 => Len(lh) + outstanding * OpBlocks + 2 <= LOGSIZE + Cardinality(Notes)

\* Pairs of which the second is one of k, for each of a finite set of firsts.
LEMMA Pairs ==
  ASSUME NEW A, IsFiniteSet(A), NEW B, NEW W, NEW k \in Nat,
         \A a \in A : IsFiniteSet(W[a]) /\ Cardinality(W[a]) <= k
  PROVE  LET N == {n \in A \X B : n[2] \in W[n[1]]}
         IN  IsFiniteSet(N) /\ Cardinality(N) <= Cardinality(A) * k
<1> DEFINE N == {n \in A \X B : n[2] \in W[n[1]]}
<1>1. ASSUME NEW a \in A PROVE \E g : g \in Injection(W[a], 1..k)
  <2> DEFINE m == Cardinality(W[a])
  <2>1. m \in Nat /\ ExistsBijection(1..m, W[a]) /\ m <= k
    BY FS_CardinalityType, Zenon
  <2>2. ExistsBijection(W[a], 1..m)
    BY <2>1, Fun_ExistsBijSymmetric, Zenon
  <2>3. PICK g \in Bijection(W[a], 1..m) : TRUE
    BY <2>2, Fun_ExistsBij, Zenon
  <2>4. g \in [W[a] -> 1..m] /\ \A x, y \in W[a] : g[x] = g[y] => x = y
    BY <2>3, Zenon DEF Bijection, Injection, IsInjective
  <2> HIDE DEF m
  <2>5. g \in [W[a] -> 1..k]
    BY <2>1, <2>4
  <2> QED
    BY <2>4, <2>5, Zenon DEF Injection, IsInjective
<1> DEFINE G(a) == CHOOSE g : g \in Injection(W[a], 1..k)
<1>2. ASSUME NEW a \in A
      PROVE  G(a) \in [W[a] -> 1..k] /\ \A x, y \in W[a] : G(a)[x] = G(a)[y] => x = y
  <2>1. G(a) \in Injection(W[a], 1..k)
    BY <1>1, Zenon
  <2> HIDE DEF G
  <2> QED
    BY <2>1, Zenon DEF Injection, IsInjective
<1> HIDE DEF G
<1> DEFINE F == [n \in N |-> <<n[1], G(n[1])[n[2]]>>]
<1>3. F \in [N -> A \X (1..k)]
  <2>1. ASSUME NEW n \in N PROVE <<n[1], G(n[1])[n[2]]>> \in A \X (1..k)
    <3>1. n[1] \in A /\ n[2] \in W[n[1]]
      BY Zenon
    <3>2. G(n[1])[n[2]] \in 1..k
      BY <1>2, <3>1, Zenon
    <3> QED
      BY <3>1, <3>2, Zenon
  <2> HIDE DEF N
  <2> QED
    BY <2>1, Zenon
<1>4. ASSUME NEW x \in N, NEW y \in N, F[x] = F[y] PROVE x = y
  <2>1. x[1] \in A /\ x[2] \in W[x[1]] /\ y[1] \in A /\ y[2] \in W[y[1]] /\ x = <<x[1], x[2]>> /\ y = <<y[1], y[2]>>
    OBVIOUS
  <2>2. <<x[1], G(x[1])[x[2]]>> = <<y[1], G(y[1])[y[2]]>>
    <3> HIDE DEF N
    <3> QED
      BY <1>4, Zenon
  <2>3. x[1] = y[1] /\ G(x[1])[x[2]] = G(y[1])[y[2]]
    BY <2>2, Zenon
  <2>4. x[2] = y[2]
    BY <1>2, <2>1, <2>3
  <2> QED
    BY <2>1, <2>3, <2>4, Zenon
<1>5. F \in Injection(N, A \X (1..k))
  <2> HIDE DEF N, F
  <2> QED
    BY <1>3, <1>4, Zenon DEF Injection, IsInjective
<1>6. IsFiniteSet(1..k) /\ Cardinality(1..k) = k
  BY FS_Interval
<1>7. IsFiniteSet(A \X (1..k)) /\ Cardinality(A \X (1..k)) = Cardinality(A) * k
  BY <1>6, FS_Product, Zenon
<1> HIDE DEF N, F
<1>8. IsFiniteSet(N) /\ Cardinality(N) <= Cardinality(A) * k
  BY <1>5, <1>7, FS_Injection
<1> QED
  BY <1>8, Zenon DEF N

\* What the active calls have written is at most what they may write.
LEMMA NotesBound ==
  ASSUME Inv, Room
  PROVE  IsFiniteSet(Notes) /\ Cardinality(Notes) \in Nat /\ Cardinality(Notes) <= outstanding * OpBlocks
<1>1. IsFiniteSet(Active) /\ outstanding = Cardinality(Active)
  BY ActiveFinite, Zenon DEF Inv, Calls
<1>2. \A p \in Active : IsFiniteSet(wrote[p]) /\ Cardinality(wrote[p]) <= OpBlocks
  BY Zenon DEF Room, Active
<1>3. OpBlocks \in Nat
  BY SizesAssumption, Zenon
<1>4. IsFiniteSet(Notes) /\ Cardinality(Notes) <= Cardinality(Active) * OpBlocks
  BY <1>1, <1>2, <1>3, Pairs, Zenon DEF Notes
<1> QED
  BY <1>1, <1>4, FS_CardinalityType, Zenon

\* A reservation is at least one block more than a call writes.
LEMMA Reserved ==
  ASSUME NEW n \in Nat, NEW a \in Nat, NEW b \in Nat, a < b
  PROVE  n * a + n <= n * b
<1>1. PICK d \in Nat : b = a + 1 + d
  <2>1. b - a - 1 \in Nat /\ b = a + 1 + (b - a - 1)
    OBVIOUS
  <2> QED
    BY <2>1, Zenon
<1>2. n * b = n * a + n + n * d /\ n * d \in Nat
  BY <1>1
<1> QED
  BY <1>2

\* Multiplying by one more and by one less.
LEMMA Products ==
  ASSUME NEW n \in Nat, NEW a \in Nat
  PROVE  n * a \in Nat /\ (n + 1) * a = n * a + a /\ (n > 0 => (n - 1) * a = n * a - a)
OBVIOUS

\* A step outside of all calls: of a commit, the cache, a crash or the recovery.
LEMMA QuietRoom ==
  ASSUME \A p \in Proc : pc[p] # "op" /\ pc'[p] # "op", Room, wrote' = wrote, ~panicked', outstanding' = 0,
         boot' = "up" /\ ~committing' => lh' = <<>>
  PROVE  Room'
<1>1. \A p \in Proc : wrote[p] = {}
  BY Zenon DEF Room
<1>2. \A p \in Proc : IsFiniteSet(wrote[p]) /\ Cardinality(wrote[p]) <= OpBlocks
  BY Zenon DEF Room
<1> QED
  BY <1>1, <1>2 DEF Room

\* begin_op admits a call only where the log has room for its reservation.
LEMMA BeginRoom == ASSUME Inv, Room, NEW p \in Proc, begin_op(p) PROVE Room'
<1>0. /\ lh \in Seq(Block) /\ Len(lh) \in Nat /\ outstanding \in Nat /\ pc[p] # "op" /\ wrote[p] = {}
      /\ MAXOPBLOCKS \in Nat /\ LOGSIZE \in Nat /\ OpBlocks \in Nat
  BY TypeSeqs, SizesAssumption, Zenon DEF Inv, TypeOK, begin_op, Room
<1>1. /\ wrote' = wrote /\ lh' = lh /\ committing' = committing /\ boot' = boot /\ panicked' = panicked
      /\ \A q \in Proc : q # p => pc'[q] = pc[q]
  BY Zenon DEF begin_op, Inv, TypeOK
<1>2. Notes' = Notes
  <2>1. \A q \in Proc : wrote[q] # {} => (q \in Active' <=> q \in Active)
    BY <1>0, <1>1, Zenon DEF Active
  <2>2. Active \subseteq Proc /\ Active' \subseteq Proc
    BY Zenon DEF Active
  <2> QED
    BY <1>1, <2>1, <2>2, Zenon DEF Notes
<1>3. \A q \in Proc : /\ IsFiniteSet(wrote'[q]) /\ Cardinality(wrote'[q]) <= OpBlocks
                      /\ wrote'[q] \subseteq Range(lh')
                      /\ pc'[q] # "op" => wrote'[q] = {}
  BY <1>0, <1>1, Zenon DEF Room
<1>4. CASE MustWait
  <2>1. outstanding' = outstanding
    BY <1>4, Zenon DEF begin_op
  <2> QED
    BY <1>1, <1>2, <1>3, <2>1, Zenon DEF Room
<1>5. CASE ~MustWait
  <2>1. outstanding' = outstanding + 1
    BY <1>5, Zenon DEF begin_op
  <2>2. ~committing /\ boot = "up" /\ Len(lh) + (outstanding + 1) * MAXOPBLOCKS <= LOGSIZE
    <3>1. ~committing /\ ~(Len(lh) + (outstanding + 1) * MAXOPBLOCKS > LOGSIZE)
      BY <1>5, Zenon DEF MustWait
    <3>2. (outstanding + 1) * MAXOPBLOCKS \in Nat
      BY <1>0
    <3>3. boot = "up"
      BY Zenon DEF Inv, Calls, begin_op
    <3> QED
      BY <1>0, <3>1, <3>2, <3>3
  <2>3. Cardinality(Notes) \in Nat
    BY NotesBound, Zenon
  <2> DEFINE n == outstanding + 1
  <2>4. /\ n \in Nat /\ n * OpBlocks \in Nat /\ n * MAXOPBLOCKS \in Nat
        /\ n * OpBlocks + n <= n * MAXOPBLOCKS
    <3>1. n \in Nat /\ OpBlocks \in Nat /\ MAXOPBLOCKS \in Nat /\ OpBlocks < MAXOPBLOCKS
      BY <1>0, ReservationAssumption
    <3> HIDE DEF n
    <3> QED
      BY <3>1, Reserved, Products, Zenon
  <2>5. Len(lh) + n * OpBlocks + 2 <= LOGSIZE + Cardinality(Notes)
    <3>1. CASE outstanding = 0
      <4>1. Len(lh) = 0 /\ n * OpBlocks = OpBlocks
        BY <1>0, <2>2, <3>1 DEF Room
      <4> QED
        BY <1>0, <2>3, <4>1, ReservationAssumption, SMTT(30)
    <3>2. CASE outstanding # 0
      <4>1. n >= 2 /\ Len(lh) + n * MAXOPBLOCKS <= LOGSIZE
        BY <1>0, <2>2, <3>2, SMTT(30)
      <4> HIDE DEF n
      <4> QED
        BY <1>0, <2>3, <2>4, <4>1, SMTT(30)
    <3> QED
      BY <3>1, <3>2, Zenon
  <2>6. outstanding' # 0
    BY <1>0, <2>1
  <2> QED
    BY <1>1, <1>2, <1>3, <2>1, <2>5, <2>6, Zenon DEF Room
<1> QED
  BY <1>4, <1>5, Zenon

\* The call finds room: log_write does not panic.
LEMMA NotTooBig == ASSUME Inv, Room, NEW p \in Proc, pc[p] = "op" PROVE ~TooBig /\ outstanding > 0
<1>1. outstanding \in Nat /\ outstanding # 0
  <2>1. Active # {} /\ IsFiniteSet(Active) /\ outstanding = Cardinality(Active)
    BY ActiveFinite, Zenon DEF Active, Inv, Calls
  <2> QED
    BY <2>1, FS_EmptySet, FS_CardinalityType, Zenon
<1>2. Len(lh) \in Nat /\ OpBlocks \in Nat /\ LOGSIZE \in Nat /\ Nlog \in Nat
  BY TypeSeqs, SizesAssumption, Zenon DEF Inv
<1>3. Cardinality(Notes) \in Nat /\ Cardinality(Notes) <= outstanding * OpBlocks
  BY NotesBound, Zenon
<1>4. Len(lh) + outstanding * OpBlocks + 2 <= LOGSIZE + Cardinality(Notes)
  BY <1>1 DEF Room
<1>5. outstanding * OpBlocks \in Nat
  BY <1>1, <1>2
<1>6. Len(lh) + 2 <= LOGSIZE
  BY <1>2, <1>3, <1>4, <1>5
<1> QED
  BY <1>1, <1>2, <1>6, ReservationAssumption DEF TooBig

\* A block that log_write adds to the log is one that its call may still write.
LEMMA WriteRoom ==
  ASSUME Inv, Room, NEW p \in Proc, NEW b \in Block, NEW v \in Val, log_write(p, b, v)
  PROVE  Room'
<1>0. /\ lh \in Seq(Block) /\ Len(lh) \in Nat /\ DOMAIN lh = 1..Len(lh) /\ wrote \in [Proc -> SUBSET Block] /\ p \in Active
      /\ ~TooBig /\ outstanding > 0 /\ outstanding \in Nat /\ LOGSIZE \in Nat /\ OpBlocks \in Nat
  BY TypeSeqs, SizesAssumption, NotTooBig, Zenon DEF Inv, TypeOK, log_write, Active
<1>1. /\ wrote' = [wrote EXCEPT ![p] = wrote[p] \cup {b}] /\ ~panicked'
      /\ outstanding' = outstanding /\ committing' = committing /\ pc' = pc /\ boot' = boot
      /\ lh' = (IF b \in Range(lh) THEN lh ELSE Append(lh, b))
      /\ Cardinality(wrote[p] \cup {b}) <= OpBlocks
  BY <1>0, Zenon DEF log_write
<1>2. Range(lh') = Range(lh) \cup {b} /\ Len(lh') \in Nat /\ Len(lh') <= Len(lh) + (IF b \in Range(lh) THEN 0 ELSE 1)
  <2>1. CASE b \in Range(lh)
    BY <1>0, <1>1, <2>1, SMTT(30)
  <2>2. CASE b \notin Range(lh)
    <3>1. /\ lh' \in Seq(Block) /\ Len(lh') = Len(lh) + 1 /\ DOMAIN lh' = 1..Len(lh) + 1
          /\ \A i \in 1..Len(lh) : lh'[i] = lh[i]
          /\ lh'[Len(lh) + 1] = b
      BY <1>0, <1>1, <2>2, AppendFacts, SeqFacts, SMTT(30)
    <3>2. Range(lh') = Range(lh) \cup {b}
      <4>1. 1..Len(lh) + 1 = (1..Len(lh)) \cup {Len(lh) + 1}
        BY <1>0
      <4> QED
        BY <1>0, <3>1, <4>1 DEF Range
    <3> QED
      BY <1>0, <2>2, <3>1, <3>2, SMTT(30)
  <2> QED
    BY <2>1, <2>2, Zenon
<1>3. \A q \in Proc : /\ IsFiniteSet(wrote'[q]) /\ Cardinality(wrote'[q]) <= OpBlocks
                      /\ wrote'[q] \subseteq Range(lh')
                      /\ pc'[q] # "op" => wrote'[q] = {}
  <2>1. wrote'[p] = wrote[p] \cup {b} /\ \A q \in Proc : q # p => wrote'[q] = wrote[q]
    BY <1>0, <1>1, Zenon
  <2>2. IsFiniteSet(wrote[p] \cup {b})
    BY FS_AddElement, Zenon DEF Room
  <2>3. wrote'[p] \subseteq Range(lh') /\ pc'[p] = "op"
    BY <1>1, <1>2, <2>1, Zenon DEF Room, log_write
  <2>4. ASSUME NEW q \in Proc, q # p
        PROVE  /\ IsFiniteSet(wrote'[q]) /\ Cardinality(wrote'[q]) <= OpBlocks
               /\ wrote'[q] \subseteq Range(lh')
               /\ pc'[q] # "op" => wrote'[q] = {}
    BY <1>1, <1>2, <2>1, <2>4, Zenon DEF Room
  <2> QED
    BY <1>1, <2>1, <2>2, <2>3, <2>4, Zenon
<1>4. Notes' = Notes \cup {<<p, b>>} /\ (<<p, b>> \in Notes <=> b \in wrote[p])
  <2>1. Active' = Active /\ Active \subseteq Proc
    BY <1>1, Zenon DEF Active
  <2>2. \A q \in Active : wrote'[q] = (IF q = p THEN wrote[p] \cup {b} ELSE wrote[q])
    BY <1>0, <1>1, <2>1, Zenon
  <2>3. ASSUME NEW q \in Active, NEW a \in Block
        PROVE  <<q, a>> \in Notes' <=> <<q, a>> \in Notes \cup {<<p, b>>}
    BY <2>1, <2>2 DEF Notes
  <2>4. Notes \subseteq Active \X Block /\ Notes' \subseteq Active \X Block /\ <<p, b>> \in Active \X Block
    BY <1>0, <2>1, Zenon DEF Notes
  <2>5. Notes' = Notes \cup {<<p, b>>}
    BY <2>3, <2>4
  <2> QED
    BY <1>0, <2>5, Zenon DEF Notes
<1>5. /\ Cardinality(Notes) \in Nat
      /\ Cardinality(Notes') = IF b \in wrote[p] THEN Cardinality(Notes) ELSE Cardinality(Notes) + 1
  BY <1>4, NotesBound, FS_AddElement, Zenon
<1>6. b \in wrote[p] => b \in Range(lh)
  BY Zenon DEF Room
<1>7. Len(lh') + outstanding * OpBlocks + 2 <= LOGSIZE + Cardinality(Notes')
  <2>1. Len(lh) + outstanding * OpBlocks + 2 <= LOGSIZE + Cardinality(Notes) /\ outstanding * OpBlocks \in Nat
    BY <1>0 DEF Room
  <2>2. CASE b \in wrote[p]
    BY <1>0, <1>2, <1>5, <1>6, <2>1, <2>2, SMTT(30)
  <2>3. CASE b \notin wrote[p]
    <3>1. Len(lh') <= Len(lh) + 1 /\ Cardinality(Notes') = Cardinality(Notes) + 1
      BY <1>0, <1>2, <1>5, <2>3, SMTT(30)
    <3> QED
      BY <1>0, <1>2, <1>5, <2>1, <3>1, SMTT(30)
  <2> QED
    BY <2>2, <2>3, Zenon
<1>8. ~panicked' /\ outstanding' = outstanding /\ outstanding # 0
  BY <1>0, <1>1
<1> QED
  BY <1>3, <1>7, <1>8, Zenon DEF Room

\* The call that ends gives back what it did not write; the last one leaves the log
\* to the commit.
LEMMA EndRoom == ASSUME Inv, Room, NEW p \in Proc, end_op(p) PROVE Room'
<1>0. /\ Len(lh) \in Nat /\ wrote \in [Proc -> SUBSET Block] /\ pc \in [Proc -> PC] /\ p \in Active /\ pc[p] = "op" /\ ~committing
      /\ outstanding > 0 /\ outstanding \in Nat /\ LOGSIZE \in Nat /\ OpBlocks \in Nat
  BY TypeSeqs, SizesAssumption, NotTooBig, Zenon DEF Inv, TypeOK, Calls, end_op, Active
<1>1. /\ wrote' = [wrote EXCEPT ![p] = {}] /\ outstanding' = outstanding - 1 /\ lh' = lh /\ boot' = boot
      /\ outstanding = 1 => committing'
      /\ pc' = (IF outstanding = 1 THEN [pc EXCEPT ![p] = IF lh = <<>> THEN "committed" ELSE "write_log"]
                                   ELSE Wakeup([pc EXCEPT ![p] = "idle"]))
  BY Zenon DEF end_op
<1>2. ~panicked'
  <2>1. panicked' = committing
    BY Zenon DEF end_op
  <2> QED
    BY <1>0, <2>1, Zenon
<1>3. wrote'[p] = {} /\ \A q \in Proc : q # p => wrote'[q] = wrote[q]
  BY <1>0, <1>1, Zenon
<1>4. pc'[p] # "op" /\ \A q \in Proc : q # p => (pc'[q] = "op" <=> pc[q] = "op")
  BY <1>0, <1>1, Zenon DEF Wakeup
<1>5. \A q \in Proc : /\ IsFiniteSet(wrote'[q]) /\ Cardinality(wrote'[q]) <= OpBlocks
                      /\ wrote'[q] \subseteq Range(lh')
                      /\ pc'[q] # "op" => wrote'[q] = {}
  <2>1. IsFiniteSet({}) /\ Cardinality({}) <= OpBlocks
    BY <1>0, FS_EmptySet
  <2>2. ASSUME NEW q \in Proc, q # p
        PROVE  /\ IsFiniteSet(wrote[q]) /\ Cardinality(wrote[q]) <= OpBlocks
               /\ wrote[q] \subseteq Range(lh)
               /\ pc'[q] # "op" => wrote[q] = {}
    BY <1>4, <2>2, Zenon DEF Room
  <2> QED
    BY <1>1, <1>3, <2>1, <2>2, Zenon
<1>6. Active' = Active \ {p} /\ Active \subseteq Proc
  BY <1>0, <1>4, Zenon DEF Active
<1> DEFINE own == {p} \X wrote[p]
<1>7. Notes = Notes' \cup own /\ Notes' \subseteq Notes
  <2>1. ASSUME NEW q \in Active, NEW a \in Block
        PROVE  /\ <<q, a>> \in Notes <=> a \in wrote[q]
               /\ <<q, a>> \in Notes' <=> q # p /\ a \in wrote[q]
               /\ <<q, a>> \in own <=> q = p /\ a \in wrote[q]
    BY <1>3, <1>6, Zenon DEF Notes
  <2>2. Notes \subseteq Active \X Block /\ Notes' \subseteq Active \X Block /\ own \subseteq Active \X Block
    BY <1>0, <1>6, Zenon DEF Notes
  <2> QED
    BY <2>1, <2>2
<1>8. IsFiniteSet(own) /\ Cardinality(own) \in Nat /\ Cardinality(own) <= OpBlocks
  <2>1. IsFiniteSet({p}) /\ Cardinality({p}) = 1 /\ IsFiniteSet(wrote[p]) /\ Cardinality(wrote[p]) <= OpBlocks
    BY FS_Singleton, Zenon DEF Room
  <2>2. IsFiniteSet(own) /\ Cardinality(own) = Cardinality({p}) * Cardinality(wrote[p])
    BY <2>1, FS_Product, Zenon
  <2>3. Cardinality(wrote[p]) \in Nat
    BY <2>1, FS_CardinalityType, Zenon
  <2> QED
    BY <2>1, <2>2, <2>3
<1> HIDE DEF own
<1>9. Cardinality(Notes') \in Nat /\ Cardinality(Notes) <= Cardinality(Notes') + OpBlocks /\ Cardinality(Notes) \in Nat
  <2>1. IsFiniteSet(Notes) /\ Cardinality(Notes) \in Nat
    BY NotesBound, Zenon
  <2>2. IsFiniteSet(Notes')
    BY <1>7, <2>1, FS_Subset, Zenon
  <2>3. IsFiniteSet(Notes' \cap own)
    BY <2>2, FS_Intersection, Zenon
  <2>4. Cardinality(Notes') \in Nat /\ Cardinality(Notes' \cap own) \in Nat
    BY <2>2, <2>3, FS_CardinalityType, Zenon
  <2>5. Cardinality(Notes) = Cardinality(Notes') + Cardinality(own) - Cardinality(Notes' \cap own)
    BY <1>7, <1>8, <2>2, FS_Union, Zenon
  <2> QED
    BY <1>0, <1>8, <2>1, <2>4, <2>5, SMTT(30)
<1>10. Len(lh) + outstanding' * OpBlocks + 2 <= LOGSIZE + Cardinality(Notes')
  <2>1. Len(lh) + outstanding * OpBlocks + 2 <= LOGSIZE + Cardinality(Notes)
    BY <1>0, Zenon DEF Room
  <2>2. outstanding * OpBlocks \in Nat /\ outstanding' * OpBlocks = outstanding * OpBlocks - OpBlocks
    BY <1>0, <1>1, Products, Zenon
  <2> QED
    BY <1>0, <1>9, <2>1, <2>2, SMTT(30)
<1>11. outstanding' = 0 => committing'
  BY <1>0, <1>1
<1> QED
  BY <1>1, <1>2, <1>5, <1>10, <1>11, ZenonT(40) DEF Room

\* Every other step comes where no call is active, or changes no call.
LEMMA OtherRoom ==
  ASSUME Inv, Room, \/ \E p \in Proc : Commit(p)
                    \/ \E b \in Block : Fetch(b) \/ Recycle(b)
                    \/ Recovery
  PROVE  Room'
<1>1. CASE \E b \in Block : Fetch(b) \/ Recycle(b)
  <2>1. UNCHANGED <<lh, outstanding, committing, pc, wrote, boot, panicked>>
    BY <1>1, Zenon DEF Fetch, Recycle
  <2>2. Notes' = Notes
    BY <2>1, Zenon DEF Notes, Active
  <2> QED
    BY <2>1, <2>2, Zenon DEF Room
<1>2. CASE Recovery
  <2>1. (\A p \in Proc : pc[p] # "op") /\ outstanding = 0
    <3>1. boot # "up"
      BY <1>2, Zenon DEF Recovery, read_head, recover_install, recover_clear
    <3>2. \A p \in Proc : pc[p] = "off"
      BY <3>1, Zenon DEF Inv, Calls
    <3>3. Active = {}
      BY <3>2, Zenon DEF Active
    <3> QED
      BY <3>2, <3>3, FS_EmptySet, Zenon DEF Inv, Calls
  <2>2. /\ wrote' = wrote /\ outstanding' = outstanding /\ panicked' = panicked /\ committing' = committing
        /\ \A p \in Proc : pc'[p] # "op"
        /\ boot' = "up" => lh' = <<>>
    BY <1>2, <2>1, Zenon DEF Recovery, read_head, recover_install, recover_clear
  <2>3. ~panicked
    BY Zenon DEF Room
  <2> QED
    BY <2>1, <2>2, <2>3, QuietRoom, Zenon
<1>3. ASSUME NEW p \in Proc, Commit(p) PROVE Room'
  <2>1. pc[p] \in CommitPC /\ pc \in [Proc -> PC]
    BY <1>3, Zenon DEF Commit, write_log, write_head, install_trans, clear_head, end_commit, CommitPC, Inv, TypeOK
  <2>2. committing /\ outstanding = 0 /\ \A q \in Proc : pc[q] # "op"
    BY <2>1, Zenon DEF Inv, Calls, CommitAlone, CommitPC
  <2>3. wrote' = wrote /\ outstanding' = outstanding /\ panicked' = panicked
    BY <1>3, Zenon DEF Commit, write_log, write_head, install_trans, clear_head, end_commit
  <2>4. \A q \in Proc : pc'[q] # "op"
    BY <1>3, <2>1, <2>2, Zenon DEF Commit, write_log, write_head, install_trans, clear_head, end_commit, Wakeup
  <2>5. ~committing' => lh' = <<>>
    <3>1. CASE end_commit(p)
      BY <3>1, Zenon DEF end_commit, Inv, Committing
    <3>2. CASE ~end_commit(p)
      BY <1>3, <2>2, <3>2, Zenon DEF Commit, write_log, write_head, install_trans, clear_head
    <3> QED
      BY <3>1, <3>2, Zenon
  <2>6. ~panicked
    BY Zenon DEF Room
  <2> QED
    BY <2>2, <2>3, <2>4, <2>5, <2>6, QuietRoom, ZenonT(40)
<1> QED
  BY <1>1, <1>2, <1>3, Zenon

\* After a restart there is no call.
LEMMA CrashRoom == ASSUME Crash PROVE Room'
<1>1. /\ \A p \in Proc : wrote'[p] = {}
      /\ outstanding' = 0 /\ boot' = "read_head" /\ panicked' = FALSE
  BY Zenon DEF Crash
<1>2. IsFiniteSet({}) /\ Cardinality({}) <= OpBlocks
  BY FS_EmptySet, SizesAssumption
<1>3. ~(outstanding' > 0) /\ boot' # "up" /\ ~panicked'
  BY <1>1
<1> QED
  BY <1>1, <1>2, <1>3, Zenon DEF Room

\* There is room in every reachable state.
LEMMA RoomInvariant == Spec => []Room
<1>1. Init => Room
  <2> SUFFICES ASSUME Init PROVE Room
    BY Zenon
  <2>1. (\A p \in Proc : wrote[p] = {}) /\ outstanding = 0 /\ boot = "read_head" /\ panicked = FALSE
    BY Zenon DEF Init
  <2>2. IsFiniteSet({}) /\ Cardinality({}) <= OpBlocks
    BY FS_EmptySet, SizesAssumption
  <2>3. ~(outstanding > 0) /\ boot # "up" /\ ~panicked
    BY <2>1
  <2> QED
    BY <2>1, <2>2, <2>3, Zenon DEF Room
<1>2. IndInv /\ Room /\ [Next]_vars => Room'
  <2> SUFFICES ASSUME IndInv, Room, [Next]_vars PROVE Room'
    BY Zenon
  <2>1. Inv /\ ~panicked
    BY Zenon DEF IndInv, Inv, Room
  <2>2. CASE UNCHANGED vars
    <3>1. UNCHANGED <<lh, outstanding, committing, pc, wrote, boot, panicked>>
      BY <2>2, Zenon DEF vars, memVars
    <3>2. Notes' = Notes
      BY <3>1, Zenon DEF Notes, Active
    <3> QED
      BY <3>1, <3>2, Zenon DEF Room
  <2>3. CASE Crash
    BY <2>3, CrashRoom, Zenon
  <2>4. CASE \E p \in Proc : begin_op(p) \/ end_op(p)
    BY <2>1, <2>4, BeginRoom, EndRoom, Zenon
  <2>5. CASE \E p \in Proc, b \in Block, v \in Val : log_write(p, b, v)
    BY <2>1, <2>5, WriteRoom, Zenon
  <2>6. CASE \/ \E p \in Proc : Commit(p)
             \/ \E b \in Block : Fetch(b) \/ Recycle(b)
             \/ Recovery
    BY <2>1, <2>6, OtherRoom, Zenon
  <2> QED
    BY <2>2, <2>3, <2>4, <2>5, <2>6, Zenon DEF Next
<1> QED
  BY <1>1, <1>2, Invariance, PTL DEF Spec

\* begin_op's reservation is enough: no log_write and no end_op panics, and outside
\* of a commit the blocks of the transaction, and no others, are pinned, once.
THEOREM LogNeverPanics == Spec => []NoPanic
<1>1. IndInv /\ Room => NoPanic
  <2> SUFFICES ASSUME IndInv, Room, boot = "up", \A p \in Proc : pc[p] \notin CommitPC, NEW b \in Block
               PROVE  pin[b] = IF b \in Range(lh) THEN 1 ELSE 0
    BY Zenon DEF NoPanic, Room
  <2>1. PinnedFrom(1) /\ DOMAIN lh = 1..Len(lh)
    BY TypeSeqs, Zenon DEF IndInv, Room, Committing, CommitPC
  <2>2. b \in Range(lh) <=> \E i \in 1..Len(lh) : lh[i] = b
    BY <2>1, Zenon DEF Range
  <2> QED
    BY <2>1, <2>2, Zenon DEF PinnedFrom
<1> QED
  BY <1>1, Invariance, RoomInvariant, PTL

=============================================================================
