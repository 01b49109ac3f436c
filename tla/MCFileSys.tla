----------------------------- MODULE MCFileSys -----------------------------
(* An instance of FileSys: two processes that make, enter and remove a     *)
(* directory and make, link, open and remove a file.                       *)
EXTENDS FileSys, TLC

CONSTANTS dir, file

Abs(s) == [abs |-> TRUE, elems |-> s]
Rel(s) == [abs |-> FALSE, elems |-> s]
Call(c, path) == [call |-> c, path |-> path]
LinkTo(path, new) == [call |-> "link", path |-> path, new |-> new]

(* A file, and links that race with its removal. *)
Files ==
  {Call("creat", Abs(<<file>>)), Call("open", Abs(<<file>>)), LinkTo(Abs(<<file>>), Abs(<<file>>)),
   Call("unlink", Abs(<<file>>))}

(* A file linked into a directory that is made and removed. *)
Trees ==
  {Call("mkdir", Abs(<<dir>>)), Call("creat", Abs(<<file>>)), Call("unlink", Abs(<<dir>>)),
   LinkTo(Abs(<<file>>), Abs(<<dir, file>>)), Call("unlink", Abs(<<dir, file>>))}

(* Processes that work in a directory, and an unlink("/"), which has no parent. *)
Directories ==
  {Call("mkdir", Abs(<<dir>>)), Call("unlink", Abs(<<dir>>)), Call("chdir", Abs(<<dir>>)),
   Call("chdir", Rel(<<"..">>)), Call("creat", Rel(<<file>>)),
   Call("unlink", Abs(<<>>)), Call("unlink", Rel(<<"..">>))}

MCWorkloads == {Files, Trees, Directories}

Interchangeable == Permutations(Procs) \cup Permutations(Inums \ {Root})
=============================================================================
