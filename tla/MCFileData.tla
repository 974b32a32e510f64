----------------------------- MODULE MCFileData -----------------------------
(***************************************************************************)
(* FileData with blocks of two bytes.  Process 1 writes a whole file, of   *)
(* which the last byte is not mapped; process 2 reads with the same open   *)
(* file, moving its offset, truncates the file, and writes another one.    *)
(* The bytes 8 and 9 are also numbers of data blocks.  In the second image *)
(* the root directory's entries fill its block, and the disk is full.      *)
(***************************************************************************)
EXTENDS FileData

MCProc == {1, 2}
MCIno == <<2, 3, 1>>
MCFiles == {<<<<5, 6, 7>>>>, <<<<5, 6, 7, 7, 6>>, <<8>>>>}
MCWrites == {[p |-> 1, f |-> 1, bytes |-> <<8, 9, 8, 8, 9, 9, 8, 9>>, good |-> 7, upto |-> 8],
             [p |-> 2, f |-> 2, bytes |-> <<9, 8>>, good |-> 2, upto |-> 2]}
MCReads == {[p |-> 2, f |-> 1, n |-> 6], [p |-> 2, f |-> 3, n |-> 8]}
MCTruncs == {[p |-> 2, f |-> 1]}

\* The contents of free blocks do not matter: balloc zeroes them.
View == <<bitmap, [b \in bitmap |-> <<data[b], disk[b]>>], dinode, inode, lock, logged, off, th, got, mk, panicked>>
=============================================================================
