--------------------------- MODULE MCFileSystems ---------------------------
(***************************************************************************)
(* Instances of FreeList and Names for TLC.  They share no state here, so  *)
(* that in one behaviour one of them is at work and the other idle.        *)
(***************************************************************************)
EXTENDS FreeList, Names, TLC

CONSTANTS t1, t2, t3, p3

\* The root device, and two disks to mount.
dir(e) == [kind |-> "dir", entry |-> e, rdev |-> 0]
reg == [kind |-> "reg", entry |-> <<>>, rdev |-> 0]
blk(d) == [kind |-> "blk", entry |-> <<>>, rdev |-> d]
Files ==
    <<0, 2>> :> dir(".." :> 2 @@ "mnt" :> 3 @@ "fd" :> 4 @@ "sd" :> 5)
    @@ <<0, 3>> :> dir(".." :> 2) @@ <<0, 4>> :> blk(1) @@ <<0, 5>> :> blk(2)
    @@ <<1, 2>> :> dir(".." :> 2 @@ "usr" :> 3 @@ "cmd" :> 4)
    @@ <<1, 3>> :> dir(".." :> 2) @@ <<1, 4>> :> reg
    @@ <<2, 2>> :> dir(".." :> 2)
Nodes == DOMAIN Files

call(op, path) == [op |-> op, path |-> path, more |-> <<>>]
mount(dev, path) == [op |-> "mount", path |-> dev, more |-> path]
plays(a, b, c, first) ==
    [calls |-> t1 :> a @@ t2 :> b @@ t3 :> c, first |-> first, mover |-> t1]

\* One walks over a device that comes and goes.
Walks ==
    plays({call("chdir", <<"..", "mnt">>), call("stat", <<"/", "mnt", "usr", "..", "..">>),
           call("chdir", <<"/", "mnt", "usr">>), call("chdir", <<"..">>)},
          {mount(<<"fd">>, <<"mnt">>), call("umount", <<"fd">>)}, {}, {t1, t2})
\* Two devices, one in the other or one over the other.
Nests ==
    plays({call("chdir", <<"/", "mnt">>), call("chdir", <<"usr">>), call("chdir", <<"..">>),
           call("chdir", <<"/">>)},
          {mount(<<"fd">>, <<"mnt">>), mount(<<"sd">>, <<"mnt", "usr">>),
           mount(<<"sd">>, <<"mnt">>), call("umount", <<"fd">>), call("umount", <<"sd">>)},
          {}, {t1, t2})
\* Inodes are written while their device is unmounted by one who passes it.
Writes ==
    plays({call("open", <<"mnt", "cmd">>), call("open", <<"mnt">>),
           call("stat", <<"mnt", "cmd", "usr">>), call("chdir", <<"mnt", "cmd">>)},
          {mount(<<"fd">>, <<"mnt">>), call("umount", <<"mnt", "..", "fd">>)},
          {call("sync", <<>>), call("stat", <<"mnt">>)}, {t1, t2, t3})
\* One has a root directory of its own and exits, another one forks.
Parts ==
    plays({call("chroot", <<"/", "mnt">>), call("chdir", <<"/", "usr">>), call("exit", <<>>)},
          {mount(<<"fd">>, <<"mnt">>), call("umount", <<"fd">>), call("fork", <<>>)},
          {call("stat", <<"mnt", "..">>)}, {t1, t2})
\* Nobody calls anything, and FreeList is at work.  In "still" the writes of the
\* superblock succeed, in "rough" they may fail, and two processes are at work.
Still == plays({}, {}, {}, {t1})
AllWorlds ==
    "walks" :> Walks @@ "nests" :> Nests @@ "writes" :> Writes @@ "parts" :> Parts
    @@ "still" :> Still @@ "rough" :> Still

-----------------------------------------------------------------------------
SystemVars == <<vars, namesVars>>

SystemInit == Init /\ NamesInit /\ (world = "still" \/ super = <<>>)

SystemNext ==
    \/ world = "still" /\ Next /\ ~ failed' /\ UNCHANGED namesVars
    \/ world = "rough" /\ Next /\ pc'[p3] = "idle" /\ UNCHANGED namesVars
    \/ world \notin {"still", "rough"} /\ NamesNext /\ UNCHANGED vars

SystemSpec == SystemInit /\ [][SystemNext]_SystemVars /\ \A p \in Proc : WF_vars(Proceeds(p))

=============================================================================
