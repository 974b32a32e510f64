------------------------------- MODULE MCFs -------------------------------
(* A small instance of Fs. *)
EXTENDS Fs

R(elems) == [root |-> TRUE, elems |-> elems]
P(elems) == [root |-> FALSE, elems |-> elems]
Write(path) == [op |-> "open", path |-> path, rdonly |-> FALSE]
Create(path, type) == [op |-> "create", path |-> path, type |-> type]
Link(path, new) == [op |-> "link", path |-> path, new |-> new]
Unlink(path) == [op |-> "unlink", path |-> path]
Chdir(path) == [op |-> "chdir", path |-> path]

MCName == {"a", "b"}
MCCalls == {Create(P(<<"a">>), "dir"), Create(R(<<"a", "a">>), "file"), Unlink(P(<<"a">>)),
  Unlink(P(<<"a", ".">>)), Chdir(P(<<"a">>)), Link(P(<<"a">>), P(<<"b">>)), Write(P(<<"..", "a">>))}
====
