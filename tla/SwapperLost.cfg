SPECIFICATION Spec
CONSTANTS
    p1 = p1
    p2 = p2
    p3 = p3
    ls = ls
    ed = ed
    vi = vi
    Proc = {p1, p2, p3}
    Sched = sched
    Prog = {ls, ed, vi}
    NoProg = NoProg
    NoProc = NoProc
    Systems <- Unsafe
INVARIANT NeverLost
CHECK_DEADLOCK FALSE
