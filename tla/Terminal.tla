------------------------------ MODULE Terminal ------------------------------
(***************************************************************************)
(* A terminal: the line discipline of tty.c over the DZ-11 driver of dz.c. *)
(* Processes read, write, set modes, open and close it; the receiver and   *)
(* transmitter interrupts, the timeout that ends a delay, and dzscan, the  *)
(* look at the carriers, come between any two of their steps.              *)
(*                                                                         *)
(* Characters are of classes: "x" prints, "nl" and "cr" end lines, "erase",*)
(* "kill", "esc", "eot", "intr" and "stop" have their meanings, "bad" has a*)
(* parity error; "delim" is the 0377 of the raw queue and "delay" a count  *)
(* of ticks in the output queue; a "fault" of a write is a character at an *)
(* address that cannot be read.  Columns, tabs and the case mapping are    *)
(* left out.  What one process does at one priority without a sleep is a   *)
(* step; canon takes its characters one by one.                            *)
(***************************************************************************)
EXTENDS Integers, FiniteSets, SequencesExt

CONSTANTS
    User,        \* the processes that use the terminal
    Nobody,      \* no process, no process group
    Sessions,    \* what may go on: the calls of each process, the processes
                 \* that the first forks, what is typed and how much, how
                 \* often the carrier changes, how many characters all the
                 \* queues of the system hold, and what is left out
    TTHIWAT,     \* output waits above this: TTIME
    TTLOWAT,     \* and is woken at this
    TTYHOG,      \* the most that is typed ahead
    BlockAt,     \* a tandem sender is stopped here: TTYHOG/2
    UnblockAt,   \* and started again below this: TTYHOG/5
    CANBSIZ      \* the longest line

Typed == {"x", "nl", "cr", "erase", "kill", "esc", "eot", "intr", "stop", "bad"}
Flag == {"RAW", "CBREAK", "ECHO", "TANDEM", "CRMOD", "EVENP", "ODDP", "HUPCLS",
         "NLDELAY", "CRDELAY"}

ASSUME TerminalAssumption ==
    /\ Nobody \notin User
    /\ 0 <= TTLOWAT /\ TTLOWAT < TTHIWAT
    /\ 0 < UnblockAt /\ UnblockAt <= BlockAt /\ BlockAt <= TTYHOG
    /\ \A s \in Sessions :
         /\ s.types \subseteq Typed /\ s.children \subseteq User
         /\ {s.most, s.clists, s.dials} \subseteq Nat

VARIABLES
    session,  \* the one of Sessions that this is
    tty,      \* the tty structure, its line of the DZ, and who waits for it
    user,     \* where each process is and the calls it still makes
    canonb,   \* the line that canon puts together
    inside,   \* the process that runs in the kernel
    files,    \* the processes that have the terminal open
    carrier,  \* the carrier as the DZ sees it
    dialled,  \* how often it changed
    typed,    \* how many characters arrived
    log,      \* the characters that went into the raw queue
    got       \* the characters that the processes read

ttyVars == <<session, tty, user, canonb, inside, files, carrier, dialled, typed, log, got>>

Cooked(t) == t.flags \cap {"RAW", "CBREAK"} = {}

TtyInit ==
    /\ session \in Sessions
    /\ tty = [raw |-> <<>>, can |-> <<>>, out |-> <<>>, delct |-> 0, state |-> {},
              flags |-> {}, char |-> "none", pgrp |-> Nobody, tcr |-> FALSE, dtr |-> FALSE,
              timers |-> 0, scan |-> FALSE,
              waits |-> [u \in User |-> "none"], sig |-> {}, group |-> [u \in User |-> Nobody]]
    /\ user = [u \in User |->
                 [at |-> IF u \in session.children THEN "unborn" ELSE "user",
                  rest |-> session.calls[u], left |-> <<>>, n |-> 0]]
    /\ canonb = <<>> /\ inside = Nobody /\ files = {}
    /\ carrier = FALSE /\ dialled = 0 /\ typed = 0 /\ log = <<>> /\ got = <<>>

-----------------------------------------------------------------------------
(* What the routines do to the structure.  wakeup(&t_rawq), wakeup(&t_outq) *)
(* and signal(t_pgrp) make the sleepers ready.                              *)

Wake(t, q) == [t EXCEPT !.waits = [u \in User |-> IF @[u] = q THEN "ready" ELSE @[u]]]

Signal(t) ==
    LET hit == {u \in User : t.pgrp # Nobody /\ t.group[u] = t.pgrp}
    IN [t EXCEPT !.sig = @ \cup hit,
                 !.waits = [u \in User |-> IF u \in hit /\ @[u] # "none" THEN "ready" ELSE @[u]]]

\* putc fails when there is no room in the character lists of the system.
Room(t) == Len(t.raw) + Len(t.can) + Len(t.out) < session.clists
Out(t, c) == IF Room(t) THEN [t EXCEPT !.out = Append(@, c)] ELSE t
Raw(t, c) == IF Room(t) THEN [t EXCEPT !.raw = Append(@, c)] ELSE t
Can(t, c) == IF Room(t) THEN [t EXCEPT !.can = Append(@, c)] ELSE t

\* Wrong: a delay does not go by what is left in the queue.
TakeSilently(t) ==
    IF Head(t.out) = "delay" /\ "RAW" \notin t.flags
    THEN [t EXCEPT !.out = Tail(@), !.tcr = FALSE]
    ELSE [t EXCEPT !.out = Tail(@), !.tcr = TRUE, !.state = @ \cup {"BUSY"},
                   !.char = Head(t.out)]

\* Take the next character of the output: a delay, or one to transmit.
Take(t) ==
    IF Head(t.out) = "delay" /\ "RAW" \notin t.flags
    THEN [t EXCEPT !.out = Tail(@), !.tcr = FALSE, !.state = @ \cup {"TIMEOUT"},
                   !.timers = @ + 1]
    ELSE [t EXCEPT !.out = Tail(@), !.tcr = TRUE, !.state = @ \cup {"BUSY"},
                   !.char = Head(t.out)]

LowOn(t) == Len(t.out) <= TTLOWAT /\ "ASLEEP" \in t.state

dzstart(t) ==
    IF t.state \cap {"TIMEOUT", "BUSY", "TTSTOP"} # {} \/ t.out = <<>> THEN t
    ELSE IF LowOn(Take(t)) THEN Wake([Take(t) EXCEPT !.state = @ \ {"ASLEEP"}], "outq")
    ELSE Take(t)

ttstart(t) == IF t.state \cap {"TIMEOUT", "BUSY", "TTSTOP"} = {} THEN dzstart(t) ELSE t

flushtty(t) ==
    Wake(Wake([t EXCEPT !.can = <<>>, !.out = <<>>, !.raw = <<>>, !.delct = 0],
              "rawq"), "outq")

\* Nothing but the character itself in raw mode; else newlines become two
\* characters in CRMOD, and those that take time are followed by a delay.
Delayed(t, c) ==
    IF \/ c = "nl" /\ "NLDELAY" \in t.flags
       \/ c = "cr" /\ "CRDELAY" \in t.flags
    THEN Out(Out(t, c), "delay")
    ELSE Out(t, c)

ttyoutput(c, t) ==
    IF "RAW" \in t.flags THEN Out(t, c)
    ELSE IF c = "eot" \/ (c = "stop" /\ "TANDEM" \in t.flags) THEN t
    ELSE IF c = "nl" /\ "CRMOD" \in t.flags THEN Delayed(Delayed(t, "cr"), c)
    ELSE Delayed(t, c)

-----------------------------------------------------------------------------
(* ttyinput: a typed character                                             *)

Tandem(t) ==
    IF "TANDEM" \in t.flags /\ Len(t.raw) >= BlockAt /\ "TBLOCK" \notin t.state /\ Room(t)
    THEN ttstart([Out(t, "stop") EXCEPT !.state = @ \cup {"TBLOCK"}])
    ELSE t

Toggle(t) == ttstart([t EXCEPT !.state = IF "TTSTOP" \in @ THEN @ \ {"TTSTOP"}
                                                           ELSE @ \cup {"TTSTOP"}])

Echo(c, t) ==
    IF "ECHO" \notin t.flags THEN t
    ELSE IF c = "kill" /\ Cooked(t) THEN ttstart(ttyoutput("nl", ttyoutput(c, t)))
    ELSE ttstart(ttyoutput(c, t))

\* A line is delimited, and every character is one in the other modes.
Delimit(c, t) ==
    IF Cooked(t) /\ c \notin {"nl", "eot"} THEN t
    ELSE IF Cooked(t) /\ Room(t) THEN Wake([Raw(t, "delim") EXCEPT !.delct = @ + 1], "rawq")
    ELSE Wake(t, "rawq")

Enters(c, t) == Delimit(c, Raw(t, c))

Mapped(c, t) == IF c = "cr" /\ "CRMOD" \in t.flags THEN "nl" ELSE c

\* What ttyinput does, and whether the character gets into the raw queue.
ttyinput(c, t0) ==
    LET t == Tandem(t0)
        go == [t EXCEPT !.state = @ \ {"TTSTOP"}]
    IN IF "RAW" \in t.flags
       THEN IF Len(t.raw) > TTYHOG THEN flushtty(t) ELSE Echo(c, Enters(c, t))
       ELSE IF c = "stop" THEN Toggle(t)
       ELSE IF c = "intr" THEN flushtty(Signal(go))
       ELSE IF Len(t.raw) > TTYHOG THEN flushtty(go)
       ELSE Echo(Mapped(c, t), Enters(Mapped(c, t), go))

Dropped(c, t) == c = "bad" /\ Cardinality(t.flags \cap {"EVENP", "ODDP"}) = 1

\* The receiver interrupt.  Nothing is heard before the terminal is open.
dzrint(c, t) ==
    IF "ISOPEN" \notin t.state THEN Wake(t, "rawq")
    ELSE IF Dropped(c, t) THEN t
    ELSE ttyinput(IF c = "bad" THEN "x" ELSE c, t)

\* The transmitter is ready: put out t_char, or disable the line.
dzxint(t) ==
    IF "BUSY" \in t.state THEN dzstart([t EXCEPT !.state = @ \ {"BUSY"}])
    ELSE [t EXCEPT !.tcr = FALSE]

ttrstrt(t) == ttstart([t EXCEPT !.timers = @ - 1, !.state = @ \ {"TIMEOUT"}])

dzscan(t) ==
    IF carrier
    THEN IF "CARR_ON" \in t.state THEN t
         ELSE Wake([t EXCEPT !.state = @ \cup {"CARR_ON"}], "rawq")
    ELSE IF "CARR_ON" \in t.state
         THEN flushtty(Signal([t EXCEPT !.dtr = FALSE, !.state = @ \ {"CARR_ON"}]))
         ELSE t

-----------------------------------------------------------------------------
(* The processes.  One runs at a time, until it sleeps or returns.         *)

At(u, a) == inside = u /\ user[u].at = a
Go(u, a) == user' = [user EXCEPT ![u].at = a] /\ inside' = u
ThisCall(u) == Head(user[u].rest)
rests == <<session, carrier, dialled, typed, log>>

\* The call ends, and the process makes the calls of rest after it.
Leave(u, t, rest) ==
    /\ user' = [user EXCEPT ![u] = [at |-> "user", rest |-> rest, left |-> <<>>, n |-> 0]]
    /\ inside' = Nobody
    /\ tty' = [t EXCEPT !.waits[u] = "none", !.sig = @ \ {u}]
Return(u, t) == Leave(u, t, Tail(user[u].rest))

\* A signal ends the call that sleeps.  The descriptor of an open stays, and
\* is closed when the process exits.
Interrupted(u, t) ==
    Leave(u, t, IF ThisCall(u).op = "open" THEN <<[op |-> "close"]>>
                                           ELSE Tail(user[u].rest))

Sleep(u, q, t) ==
    IF u \in t.sig THEN Interrupted(u, t)
    ELSE tty' = [t EXCEPT !.waits[u] = q] /\ inside' = Nobody /\ UNCHANGED user

Resume(u) ==
    /\ inside = Nobody /\ tty.waits[u] = "ready"
    /\ IF u \in tty.sig THEN Interrupted(u, tty)
       ELSE tty' = [tty EXCEPT !.waits[u] = "none"] /\ inside' = u /\ UNCHANGED user
    /\ UNCHANGED <<rests, files, canonb, got>>

Calls(u, op) ==
    /\ inside = Nobody /\ user[u].at = "user" /\ user[u].rest # <<>>
    /\ ThisCall(u).op = op
    /\ UNCHANGED <<rests, canonb, got>>

\* dzopen till it waits for the carrier.  The first user sets what holds.
Open(u) ==
    /\ Calls(u, "open")
    /\ IF "ISOPEN" \in tty.state /\ "XCLUDE" \in tty.state
       THEN /\ Leave(u, [tty EXCEPT !.state = @ \cup {"WOPEN"}], <<>>)
            /\ UNCHANGED files
       ELSE /\ tty' = [tty EXCEPT !.state = @ \cup {"WOPEN"}, !.dtr = TRUE, !.scan = TRUE,
                                  !.flags = IF "ISOPEN" \in tty.state THEN @
                                            ELSE {"ODDP", "EVENP", "ECHO", "HUPCLS"}]
            /\ Go(u, "open")
            /\ files' = files \cup {u}

\* The rest of dzopen, and ttyopen.
ttyopen(u, t) ==
    LET g == IF t.pgrp = Nobody THEN u ELSE t.pgrp
        s == (t.state \ {"WOPEN"}) \cup {"ISOPEN"}
    IN IF t.group[u] # Nobody THEN [t EXCEPT !.state = s]
       ELSE [t EXCEPT !.state = s, !.pgrp = g, !.group[u] = g]

AwaitCarrier(u) ==
    /\ At(u, "open")
    /\ IF "CARR_ON" \in tty.state THEN Return(u, ttyopen(u, tty))
       ELSE Sleep(u, "rawq", [tty EXCEPT !.state = @ \cup {"WOPEN"}])
    /\ UNCHANGED <<rests, files, canonb, got>>

\* dzclose by the last user: it hangs up and waits for the output; then the
\* state is cleared (Shut).
Close(u) ==
    /\ Calls(u, "close")
    /\ files' = files \ {u}
    /\ IF files # {u} THEN Return(u, tty)
       ELSE /\ tty' = [tty EXCEPT !.dtr = @ /\ "HUPCLS" \notin tty.flags, !.pgrp = Nobody]
            /\ Go(u, "drain")

\* wflushtty
Drain(u) ==
    /\ At(u, "drain")
    /\ IF tty.out # <<>> /\ "CARR_ON" \in tty.state
       THEN Sleep(u, "outq", [dzstart(tty) EXCEPT !.state = @ \cup {"ASLEEP"}])
       ELSE /\ tty' = flushtty(tty)
            /\ Go(u, IF ThisCall(u).op = "close" THEN "shut" ELSE "set")
    /\ UNCHANGED <<rests, files, canonb, got>>

Shut(u) ==
    /\ At(u, "shut")
    /\ Return(u, [tty EXCEPT !.state = {}])
    /\ UNCHANGED <<rests, files, canonb, got>>

\* TIOCSETP waits for the output and drops the input, TIOCSETN does not.
SetParameters(u) ==
    /\ UNCHANGED files
    /\ \/ Calls(u, "setp") /\ Go(u, "drain") /\ UNCHANGED tty
       \/ Calls(u, "setn") /\ Go(u, "set") /\ UNCHANGED tty

\* Speed 0 hangs up the line.
Set(u) ==
    /\ At(u, "set")
    /\ Return(u, [tty EXCEPT !.flags = ThisCall(u).flags,
                             !.dtr = @ /\ "B0" \notin ThisCall(u).flags])
    /\ UNCHANGED <<rests, files, canonb, got>>

\* TIOCTSTP, TIOCEXCL and TIOCNXCL
SetState(u) ==
    /\ UNCHANGED files
    /\ \/ Calls(u, "tstp") /\ Return(u, Toggle(tty))
       \/ Calls(u, "excl") /\ Return(u, [tty EXCEPT !.state = @ \cup {"XCLUDE"}])
       \/ Calls(u, "nxcl") /\ Return(u, [tty EXCEPT !.state = @ \ {"XCLUDE"}])

\* A child has the files of its parent, and is of its process group.
Fork(u) ==
    /\ Calls(u, "fork")
    /\ \E c \in session.children :
         /\ user[c].at = "unborn"
         /\ user' = [user EXCEPT ![u].rest = Tail(@), ![c].at = "user"]
         /\ tty' = [tty EXCEPT !.group[c] = tty.group[u]]
         /\ files' = files \cup {c}
    /\ UNCHANGED inside

-----------------------------------------------------------------------------
(* ttwrite and ttread                                                      *)

Write(u) ==
    /\ Calls(u, "write") /\ UNCHANGED files
    /\ IF "CARR_ON" \notin tty.state THEN Return(u, tty)
       ELSE /\ user' = [user EXCEPT ![u].at = "write", ![u].left = ThisCall(u).chars]
            /\ inside' = u /\ UNCHANGED tty

\* Wrong: the flag is set only when output was not started.
ToSleepIfBusy(t) == IF ttstart(t) # t THEN ttstart(t)
                    ELSE [t EXCEPT !.state = @ \cup {"ASLEEP"}]

\* ASLEEP asks dzstart for the wakeup.
ToSleep(t) == [ttstart(t) EXCEPT !.state = @ \cup {"ASLEEP"}]

\* cpass gives a -1 for a character that it cannot read, which comes out as one
\* that does not print, and leaves u_count as it is: the next is the same again.
Faulted(u) == user[u].at = "write" /\ user[u].left # <<>> /\ Head(user[u].left) = "fault"
cpass(u) == IF Faulted(u) THEN "x" ELSE Head(user[u].left)
Put(u) ==
    /\ At(u, "write")
    /\ CASE user[u].left = <<>> -> Return(u, ttstart(tty))
         [] user[u].left # <<>> /\ Len(tty.out) > TTHIWAT -> Sleep(u, "outq", ToSleep(tty))
         [] OTHER -> /\ tty' = ttyoutput(cpass(u), tty)
                     /\ user' = [user EXCEPT ![u].left = IF Faulted(u) THEN @ ELSE Tail(@)]
                     /\ inside' = u
    /\ UNCHANGED <<rests, files, canonb, got>>

Read(u) ==
    /\ Calls(u, "read") /\ UNCHANGED files
    /\ IF "CARR_ON" \notin tty.state THEN Return(u, tty)
       ELSE /\ user' = [user EXCEPT ![u].at = IF tty.can # <<>> THEN "pass" ELSE "raw",
                                    ![u].n = ThisCall(u).count]
            /\ inside' = u /\ UNCHANGED tty

\* canon waits for a line, or for a character in the raw modes.
NothingTyped(t) == IF Cooked(t) THEN t.delct = 0 ELSE t.raw = <<>>

AwaitInput(u) ==
    /\ At(u, "raw")
    /\ CASE NothingTyped(tty) /\ "CARR_ON" \notin tty.state -> Return(u, tty) /\ UNCHANGED canonb
         [] NothingTyped(tty) /\ "CARR_ON" \in tty.state -> Sleep(u, "rawq", tty) /\ UNCHANGED canonb
         [] OTHER -> Go(u, "canon") /\ canonb' = <<>> /\ UNCHANGED tty
    /\ UNCHANGED <<rests, files, got>>

\* Wrong: a backslash is taken no notice of.
EditKills(s, c) ==
    CASE c = "kill"  -> <<>>
      [] c = "erase" -> IF s = <<>> THEN s ELSE Front(s)
      [] c = "eot"   -> s
      [] OTHER       -> Append(s, c)

\* Erase and kill change the line, unless a backslash is before them, whose
\* place they then take.
Edit(s, c) ==
    IF s # <<>> /\ Last(s) = "esc"
    THEN Append(IF c \in {"erase", "kill", "eot"} THEN Front(s) ELSE s, c)
    ELSE CASE c = "erase" -> IF s = <<>> THEN s ELSE Front(s)
           [] c = "kill"  -> <<>>
           [] c = "eot"   -> s
           [] OTHER       -> Append(s, c)

Copied(line) == IF line = <<>> THEN "nothing" ELSE "copy"

Canon(u) ==
    /\ At(u, "canon")
    /\ IF tty.raw = <<>> THEN Go(u, Copied(canonb)) /\ UNCHANGED <<tty, canonb>>
       ELSE LET c == Head(tty.raw)
                line == IF ~Cooked(tty) THEN Append(canonb, c)
                        ELSE IF c = "delim" THEN canonb
                        ELSE Edit(canonb, c)
            IN /\ tty' = [tty EXCEPT !.raw = Tail(@)]
               /\ canonb' = line
               /\ Go(u, IF Cooked(tty) /\ c = "delim" THEN "delim"
                        ELSE IF Len(line) >= CANBSIZ THEN "copy" ELSE "canon")
    /\ UNCHANGED <<rests, files, got>>

\* t_delct is decremented after the delimiter is taken.
Uncount(u) ==
    /\ At(u, "delim")
    /\ tty' = [tty EXCEPT !.delct = @ - 1]
    /\ Go(u, Copied(canonb))
    /\ UNCHANGED <<rests, files, canonb, got>>

Copy(u) ==
    /\ At(u, "copy")
    /\ tty' = Can(tty, Head(canonb))
    /\ canonb' = Tail(canonb)
    /\ Go(u, IF Len(canonb) = 1 THEN "copied" ELSE "copy")
    /\ UNCHANGED <<rests, files, got>>

\* A stopped sender may go on; an empty line is the end of the file.
Unblock(t) ==
    IF "TBLOCK" \in t.state /\ Len(t.raw) < UnblockAt /\ Room(t)
    THEN ttstart([Out(t, "stop") EXCEPT !.state = @ \ {"TBLOCK"}])
    ELSE t

GoOn(u) ==
    /\ UNCHANGED <<rests, files, canonb, got>>
    /\ \/ At(u, "nothing") /\ Return(u, Unblock(tty))
       \/ At(u, "copied") /\ tty' = Unblock(tty) /\ Go(u, "pass")

Pass(u) ==
    /\ At(u, "pass")
    /\ IF tty.can = <<>> THEN Return(u, tty) /\ UNCHANGED got
       ELSE /\ got' = Append(got, Head(tty.can))
            /\ IF user[u].n = 1 THEN Return(u, [tty EXCEPT !.can = Tail(@)])
               ELSE /\ tty' = [tty EXCEPT !.can = Tail(@)]
                    /\ user' = [user EXCEPT ![u].n = @ - 1] /\ inside' = u
    /\ UNCHANGED <<rests, files, canonb>>

-----------------------------------------------------------------------------
(* Interrupts                                                              *)

users == <<session, user, canonb, inside, files, got>>

\* The DZ listens once it has been opened.
Receive(c) ==
    /\ tty.scan /\ typed < session.most
    /\ typed' = typed + 1
    /\ tty' = dzrint(c, tty)
    /\ log' = IF Len(tty'.raw) > Len(tty.raw)
              THEN Append(log, tty'.raw[Len(tty.raw) + 1]) ELSE log
    /\ UNCHANGED <<users, carrier, dialled>>

Transmit ==
    /\ tty.tcr /\ tty' = dzxint(tty)
    /\ UNCHANGED <<users, carrier, dialled, typed, log>>

DelayOver ==
    /\ tty.timers > 0 /\ tty' = ttrstrt(tty)
    /\ UNCHANGED <<users, carrier, dialled, typed, log>>

Scan ==
    /\ tty.scan /\ dzscan(tty) # tty /\ tty' = dzscan(tty)
    /\ UNCHANGED <<users, carrier, dialled, typed, log>>

\* The other end answers a terminal that is ready, and hangs up.
Dial ==
    /\ dialled < session.dials
    /\ carrier \/ tty.dtr
    /\ dialled' = dialled + 1 /\ carrier' = ~carrier
    /\ UNCHANGED <<users, tty, typed, log>>

Runs(u) ==
    \/ Resume(u) \/ Open(u) \/ AwaitCarrier(u) \/ Close(u) \/ Drain(u) \/ Shut(u)
    \/ SetParameters(u) \/ Set(u) \/ SetState(u) \/ Fork(u)
    \/ Write(u) \/ Put(u)
    \/ Read(u) \/ AwaitInput(u) \/ Canon(u) \/ Uncount(u) \/ Copy(u) \/ GoOn(u) \/ Pass(u)

TtyNext ==
    \/ \E u \in User : Runs(u)
    \/ \E c \in session.types : Receive(c)
    \/ Transmit \/ DelayOver \/ Scan \/ Dial

TtyFairness ==
    /\ \A u \in User : WF_ttyVars(Runs(u))
    /\ WF_ttyVars(Transmit) /\ WF_ttyVars(DelayOver) /\ WF_ttyVars(Scan)

TtySpec == TtyInit /\ [][TtyNext]_ttyVars /\ TtyFairness

-----------------------------------------------------------------------------
(* Properties                                                              *)

Moving(t) == \/ "BUSY" \in t.state /\ t.tcr
             \/ "TIMEOUT" \in t.state /\ t.timers > 0
             \/ "TTSTOP" \in t.state

\* Types.
TtyTypeOK ==
    /\ session \in Sessions /\ inside \in User \cup {Nobody} /\ files \subseteq User
    /\ Range(tty.raw) \subseteq Typed \cup {"delim"} /\ Range(tty.can) \subseteq Typed \cup {"delim"}
    /\ Range(tty.out) \cup {tty.char} \subseteq Typed \cup {"delay", "none"}
    /\ Len(tty.raw) + Len(tty.can) + Len(tty.out) <= session.clists
    /\ tty.flags \subseteq Flag \cup {"B0"} /\ tty.timers \in Nat /\ tty.delct \in Int
    /\ tty.state \subseteq {"WOPEN", "ISOPEN", "CARR_ON", "BUSY", "TIMEOUT", "TTSTOP", "ASLEEP",
                            "XCLUDE", "TBLOCK"}
    /\ \A u \in User : /\ tty.waits[u] \in {"none", "ready", "rawq", "outq"}
                        /\ tty.group[u] \in User \cup {Nobody}
    /\ canonb \in Seq(Typed \cup {"delim"}) /\ Len(canonb) <= CANBSIZ

\* Nobody sleeps for what is there already: who waits for the carrier or for
\* input has none, and who waits for output has asked for the wakeup (ASLEEP)
\* and output is on its way, in a delay, or stopped by the user.
TtySleepers ==
    \A u \in User :
      /\ tty.waits[u] = "outq" =>
            "ASLEEP" \in tty.state /\ tty.out # <<>> /\ Moving(tty)
      /\ tty.waits[u] = "rawq" =>
            IF user[u].at = "open" THEN "CARR_ON" \notin tty.state
            ELSE NothingTyped(tty)

\* t_delct is the number of delimiters in the raw queue (h/tty.h), but for
\* the one that canon has taken and not yet uncounted.
Counted ==
    tty.delct = Len(SelectSeq(tty.raw, LAMBDA c : c = "delim"))
                + Cardinality({u \in User : At(u, "delim")})

\* That is so where no interrupt and no lost carrier flushes the queues.
DelimitersCounted ==
    "intr" \notin session.types /\ session.dials <= 1 => Counted

\* Sleepers and the count they go by.
NobodyMisled == TtyTypeOK /\ TtySleepers /\ DelimitersCounted

\* The characters of a log that a reader is to see: each line as its erase and
\* kill characters leave it, ended by a newline or by an EOT, which is not seen.
Ends == {"nl", "eot"}
Edited(s) ==
    LET quoted(l) == l # <<>> /\ Last(l) = "esc"
        Do(l, c) ==
          CASE quoted(l) /\ c \in {"erase", "kill", "eot"} -> Append(Front(l), c)
            [] ~quoted(l) /\ c = "erase" /\ l # <<>>        -> Front(l)
            [] ~quoted(l) /\ c \in {"erase", "eot"}         -> l
            [] ~quoted(l) /\ c = "kill"                     -> <<>>
            [] OTHER                                        -> Append(l, c)
        Step(a, c) == IF c \in Ends
                      THEN [done |-> a.done \o Do(a.line, c), line |-> <<>>]
                      ELSE [a EXCEPT !.line = Do(@, c)]
        all == FoldLeft(Step, [done |-> <<>>, line |-> <<>>], s)
    IN all.done \o all.line

\* In a session without interrupts and mode changes, what was read, with what
\* is on its way to the reader, is the edited form of what was typed, each
\* character once and in order.
ReadsEditedLines ==
    session.plain =>
      LET waiting == SelectSeq(tty.raw, LAMBDA c : c # "delim")
      IN got \o tty.can \o canonb = Edited(SubSeq(log, 1, Len(log) - Len(waiting)))

\* A process that writes, or waits for its output before it closes or sets
\* parameters, returns, unless the user stops the output: again and again there
\* is no such process, but for one that has come to a character it cannot
\* read (Faulted): that goes on for ever, unless it sleeps and a signal ends it.
WritersReturn ==
    []<>("stop" \in session.types
         \/ \A u \in User : user[u].at \notin {"write", "drain"}
                           \/ Faulted(u))

=============================================================================
