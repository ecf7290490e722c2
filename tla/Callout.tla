----------------------------- MODULE Callout -----------------------------
(***************************************************************************)
(* Callouts: timeout and the first part of clock, in clock.c.  The table   *)
(* callout[] lists the calls to make, each with the ticks between the one  *)
(* before it and itself, and ends with an entry that has no function.      *)
(*                                                                         *)
(* Nothing interrupts timeout (spl7) or clock, so the functions that clock *)
(* calls are the only ones to run between its steps; they may call timeout *)
(* themselves.                                                             *)
(***************************************************************************)
EXTENDS Integers, SequencesExt

CONSTANTS
    Call,     \* the calls (function and argument) that are ever asked for
    MaxTime,  \* bound: the longest delay
    NCALL,    \* entries in callout[], that of the end included
    Room      \* bound: the most entries the callers let the table hold

ASSUME CalloutAssumption ==
    /\ MaxTime \in Nat /\ NCALL \in Nat \ {0}
    /\ Room \in Nat /\ Room <= NCALL

VARIABLES
    list,     \* callout[], without the entry at the end
    running,  \* p1 of clock: the entry to run next; 0 outside its loop
    overflow,    \* "Timeout table overflow"
    left      \* not in the code: ticks until each call falls due

calloutVars == <<list, running, overflow, left>>

CalloutInit ==
    /\ list = <<>> /\ running = 0 /\ overflow = FALSE
    /\ left = [c \in Call |-> 0]

-----------------------------------------------------------------------------
\* The entries that still stand for a call to make; those clock has run stay
\* in the table till the end of its loop.
Waiting == IF running = 0 THEN list ELSE SubSeq(list, running, Len(list))
Pending == {Waiting[i].call : i \in DOMAIN Waiting}

\* The ticks from now to each entry of a table: the sums of the differences.
Sums(l) ==
    LET sum[i \in 0..Len(l)] == IF i = 0 THEN 0 ELSE sum[i - 1] + l[i].time IN sum
Elapsed(i) == Sums(list)[i]

\* Wrong search: it stops at an entry due at the same tick.
PassedStrictly(t) == Cardinality({i \in DOMAIN list : Elapsed(i) < t})

\* How many entries timeout passes over: those due no later.
Passed(t) == Cardinality({i \in DOMAIN list : Elapsed(i) <= t})

\* The table when the entry after the first n has been made relative to a new
\* one due in t ticks.
Shortened(n, t) ==
    IF n < Len(list) THEN [list EXCEPT ![n + 1].time = @ - (t - Elapsed(n))] ELSE list

\* timeout(c, t), inside an action that does nothing else to the table; only
\* where the entry would go is compared with the size of the table.
Timeout(c, t) ==
    LET n == Passed(t)
    IN  IF n >= NCALL - 1
        THEN overflow' = TRUE /\ UNCHANGED <<list, left>>
        ELSE /\ list' = InsertAt(Shortened(n, t), n + 1,
                                 [call |-> c, time |-> t - Elapsed(n)])
             /\ left' = [left EXCEPT ![c] = t]
             /\ UNCHANGED overflow

\* A caller asks for a call that is not pending (ttrstrt: the TIMEOUT bit).
MayAsk(c) == ~ overflow /\ Len(list) < Room /\ c \notin Pending

\* A process or an interrupt routine calls timeout.
Ask == \E c \in Call, t \in 0..MaxTime :
    /\ running = 0 /\ MayAsk(c)
    /\ Timeout(c, t)
    /\ UNCHANGED running

-----------------------------------------------------------------------------
\* The first entry whose time has not come.
FirstNonzero(i) == list[i].time > 0 /\ \A j \in 1..(i - 1) : list[j].time = 0

\* The table after the decrement.
Ticked ==
    [i \in DOMAIN list |->
        IF FirstNonzero(i) THEN [list[i] EXCEPT !.time = IF @ = 0 THEN 0 ELSE @ - 1] ELSE list[i]]

\* A clock interrupt: count down, and begin to run what is due unless it has
\* interrupted code at high priority (BASEPRI).
Tick(high) ==
    /\ ~ overflow /\ running = 0
    /\ list' = Ticked
    /\ running' = IF ~ high /\ list # <<>> /\ Ticked[1].time = 0 THEN 1 ELSE 0
    /\ left' = [c \in Call |-> IF left[c] > 0 THEN left[c] - 1 ELSE 0]
    /\ UNCHANGED overflow

MoreDue == running # 0 /\ running <= Len(list) /\ list[running].time = 0

\* clock makes a call.
MakeCall ==
    /\ ~ overflow /\ MoreDue
    /\ running' = running + 1
    /\ UNCHANGED <<list, overflow, left>>

\* clock makes a call, which calls timeout, perhaps for itself.
MakeCallAndAsk == \E c \in Call, t \in 0..MaxTime :
    /\ ~ overflow /\ MoreDue
    /\ Len(list) < Room
    /\ c \notin Pending \ {list[running].call}
    /\ Timeout(c, t)
    /\ running' = running + 1

\* Wrong clock: the entries that were run are taken to be those whose time is
\* 0 now.
WithoutZeros == SelectSeq(list, LAMBDA e : e.time # 0)

\* The entries that were not run, moved to the beginning.
Remaining == SubSeq(list, running, Len(list))

\* The end of the loop.
MoveDown ==
    /\ ~ overflow /\ running # 0 /\ ~ MoreDue
    /\ list' = Remaining
    /\ running' = 0
    /\ UNCHANGED <<overflow, left>>

CalloutNext ==
    \/ Ask \/ MakeCall \/ MakeCallAndAsk \/ MoveDown
    \/ \E high \in BOOLEAN : Tick(high)

CalloutSpec == CalloutInit /\ [][CalloutNext]_calloutVars

\* The clock goes on, and at times interrupts code at priority 0; clock itself
\* runs to its end.
CalloutFairness ==
    /\ WF_calloutVars(Tick(FALSE))
    /\ WF_calloutVars(MakeCall \/ MakeCallAndAsk) /\ WF_calloutVars(MoveDown)

CalloutLiveSpec == CalloutSpec /\ CalloutFairness

-----------------------------------------------------------------------------
(* What makes callouts correct.                                            *)

\* The table implements timers: calls are made in order, each once, none
\* before its time.
T == INSTANCE Timers WITH pending <- [i \in DOMAIN Waiting |-> Waiting[i].call]
ImplementsTimers == T!Spec

\* Every call that is asked for is made.
EveryCallIsMade == \A c \in Call : c \in Pending ~> MoreDue /\ list[running].call = c

=============================================================================
