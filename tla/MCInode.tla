----------------------------- MODULE MCInode -----------------------------
(* Instances of Inode for TLC.                                             *)
EXTENDS Inode

Symmetric == Permutations(Proc) \cup Permutations(Name)

\* Files that come and go; links; files with transfers that fail; pipes next
\* to files in a table of one slot.
Mixes == {
    [ninode |-> 2, nofile |-> 1, fails |-> {},
     calls |-> {"open", "creat", "unlink", "rdwr", "close", "update"}],
    [ninode |-> 2, nofile |-> 1, fails |-> {},
     calls |-> {"stat", "link", "unlink", "update"}],
    [ninode |-> 2, nofile |-> 1, fails |-> {"iget", "iupdat", "wdir", "ilist"},
     calls |-> {"creat", "open", "rdwr", "close", "update"}],
    [ninode |-> 1, nofile |-> 2, fails |-> {"wdir"},
     calls |-> {"creat", "open", "pipe", "rdwr", "close", "update"}]}

\* Pipes, which need no directory, next to creat, so that two search the I list.
Makers == {
    [ninode |-> 2, nofile |-> 1, fails |-> {},
     calls |-> {"creat", "unlink", "pipe", "rdwr", "close", "update"}]}

\* link next to creat and unlink.
Unsafe == {
    [ninode |-> 2, nofile |-> 1, fails |-> {},
     calls |-> {"creat", "link", "rdwr", "unlink"}]}

=============================================================================
