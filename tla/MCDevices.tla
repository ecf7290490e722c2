----------------------------- MODULE MCDevices -----------------------------
(***************************************************************************)
(* Instances of Disk and Terminal for TLC.  The two drivers share nothing, *)
(* so one of them is at work in a behaviour, and the other does nothing.   *)
(***************************************************************************)
EXTENDS Disk, Terminal

CONSTANTS w1, w2, w3, u1, u2

-----------------------------------------------------------------------------
(* Loads of the disk                                                       *)

drive(u) == [first |-> u, stripes |-> 1]
striped == [first |-> 0, stripes |-> 2]
transfer(kind, rw, dev, blk, count) ==
    [kind |-> kind, rw |-> rw, dev |-> dev, blk |-> blk, count |-> count]
loaded(a, b, c) ==
    [transfers |-> w1 :> a @@ w2 :> b @@ w3 :> c, offline |-> {}, faulty |-> {}]

\* More swaps than there are headers, of more than a piece
Swaps == loaded(<<transfer("swap", "WRITE", drive(0), 0, 1), transfer("swap", "WRITE", drive(0), 0, 2)>>,
                <<transfer("swap", "WRITE", drive(0), 1, 2)>>,
                <<transfer("swap", "READ", drive(0), 0, 2)>>)
\* Raw transfers to a striped device and to one of its drives
Raws == loaded(<<transfer("raw", "READ", striped, 0, 2)>>,
               <<transfer("raw", "WRITE", drive(1), 1, 2)>>,
               <<transfer("cache", "READ", striped, 3, 1), transfer("cache", "WRITE", drive(0), 2, 1)>>)
\* All want one header
Queued == loaded(<<transfer("raw", "WRITE", drive(0), 0, 2)>>, <<transfer("raw", "WRITE", drive(0), 1, 1)>>,
                 <<transfer("raw", "READ", drive(0), 2, 1)>>)
\* A drive whose transfers may fail, and a block that is not on it
Faults == [loaded(<<transfer("swap", "WRITE", drive(0), 0, 1)>>,
                  <<transfer("raw", "WRITE", drive(1), 1, 1), transfer("raw", "READ", drive(1), 9, 1)>>,
                  <<transfer("cache", "READ", drive(1), 2, 1)>>) EXCEPT !.faulty = {1}]
\* The first request for a drive that is off line; there is no second, as
\* b_active of such a drive stays set.
Dead == [loaded(<<transfer("swap", "WRITE", drive(0), 0, 1)>>,
                <<transfer("raw", "WRITE", drive(1), 1, 1)>>, <<>>) EXCEPT !.offline = {1}]
BadSwap == [loaded(<<transfer("swap", "WRITE", drive(0), 0, 1)>>, <<>>, <<>>) EXCEPT !.faulty = {0}]
\* Reads and writes to be sorted
Cached == loaded(<<transfer("cache", "READ", drive(0), 1, 1), transfer("cache", "READ", drive(0), 0, 1)>>,
                 <<transfer("cache", "WRITE", drive(0), 2, 1), transfer("cache", "WRITE", drive(0), 0, 1)>>,
                 <<transfer("cache", "READ", drive(0), 2, 1), transfer("cache", "WRITE", drive(1), 1, 1)>>)

NoLoad == loaded(<<>>, <<>>, <<>>)
AllLoads == {NoLoad, Swaps, Raws, Queued, Faults, Dead, BadSwap, Cached}

-----------------------------------------------------------------------------
(* Sessions at the terminal                                                *)

open == [op |-> "open"]
close == [op |-> "close"]
fork == [op |-> "fork"]
read(n) == [op |-> "read", count |-> n]
write(s) == [op |-> "write", chars |-> s]
setn(f) == [op |-> "setn", flags |-> f]
setp(f) == [op |-> "setp", flags |-> f]
stop == [op |-> "tstp"]

played(first, second, types, most) ==
    [calls |-> u1 :> first @@ u2 :> second, types |-> types, most |-> most,
     children |-> {u2}, clists |-> 20, dials |-> 1, plain |-> FALSE]

\* Lines with erase, kill, backslash and end of file
TypesOf(types) == [played(<<open, setn({"CRMOD"}), read(2), read(9)>>, <<>>, types, 4) EXCEPT !.plain = TRUE]
Typist == TypesOf({"x", "nl", "erase", "esc"})
Killer == TypesOf({"x", "nl", "kill", "eot"})
\* Two readers of one terminal
Readers == [played(<<open, setn({}), fork, read(1), read(9)>>, <<read(2), read(9)>>,
                     {"x", "nl"}, 4) EXCEPT !.plain = TRUE]
\* Two writers above the high water mark, with delays, an echo, and the last
\* close
Writers == played(<<open, setn({"ECHO", "CRMOD", "NLDELAY", "CRDELAY"}), fork,
                      write(<<"x", "nl", "x", "x">>), setp({"ECHO"}), close>>,
                    <<write(<<"x", "x", "x", "x", "x">>), close>>, {"x"}, 1)
\* Output stopped from the keyboard and by the program
Stops == played(<<open, write(<<"x", "x", "x", "x">>), stop, write(<<"x", "x">>), stop,
                    setp({"ECHO"})>>, <<>>, {"stop", "x"}, 3)
\* Interrupts and a lost carrier while processes read and write
Breaks == [played(<<open, fork, write(<<"x", "x", "x", "x", "x">>), read(9), read(9)>>,
                    <<read(9)>>, {"intr", "x", "nl"}, 2) EXCEPT !.dials = 2]
\* A sender that is stopped and started
Tandems == played(<<open, setn({"TANDEM", "CBREAK"}), read(1), read(1), read(1), read(2)>>, <<>>,
                    {"x"}, 4)
Raw8 == played(<<open, write(<<"nl">>), setn({"RAW", "ECHO"}), write(<<"nl", "stop">>),
                   read(1), read(1)>>, <<>>, {"x", "stop", "bad"}, 3)
Excludes == [played(<<open, [op |-> "excl"], [op |-> "nxcl"]>>, <<open, read(1)>>, {"bad", "cr"}, 1)
             EXCEPT !.children = {}]
\* Open, close and hang up, and open again
Reopens == [played(<<open, write(<<"x", "x">>), close, open, write(<<"x", "x">>),
                       setn({"EVENP", "B0"}), read(2)>>, <<>>, {"bad"}, 1) EXCEPT !.dials = 3]
\* More is typed ahead than there may be
Hogs == played(<<open, setn({"CRMOD"}), write(<<"x", "nl">>), read(9)>>, <<>>, {"x"}, 10)
\* The character lists are used up
Few == [played(<<open, setn({}), read(9), read(9)>>, <<>>, {"x", "nl"}, 4) EXCEPT !.clists = 3]

\* A write that comes to a bad address, and one who interrupts it
Astray == played(<<open, fork, write(<<"x", "fault", "x">>), write(<<"x", "x">>)>>,
                   <<read(9)>>, {"intr", "x"}, 2)

NoSession == played(<<>>, <<>>, {}, 0)
AllSessions == {NoSession, Typist, Killer, Readers, Writers, Stops, Breaks, Tandems,
                Raw8, Excludes, Reopens, Hogs, Few, Astray}

-----------------------------------------------------------------------------

Init == DiskInit /\ TtyInit /\ (load = NoLoad \/ session = NoSession)

Next ==
    \/ DiskNext /\ UNCHANGED ttyVars
    \/ TtyNext /\ UNCHANGED diskVars

Spec == Init /\ [][Next]_<<diskVars, ttyVars>> /\ DiskFairness /\ TtyFairness

=============================================================================
