----------------------------- MODULE MCSwapper -----------------------------
(* Systems of three processes and three files with text for TLC.           *)
EXTENDS Swapper
CONSTANTS p1, p2, p3, ls, ed, vi

R(g, n) == [prog |-> g, size |-> n]
Nobody == R(NoProg, 0)
Start(p, q, r) == [s \in Proc |-> CASE s = p1 -> p [] s = p2 -> q [] s = p3 -> r]
Own(p) == CASE p = p1 -> ls [] p = p2 -> ed [] p = p3 -> vi

\* Little core, and one text that all use.
Sharing == [core |-> 5, ntext |-> 1, most |-> 4, progs |-> [p \in Proc |-> {}], sticky |-> {},
            calls |-> {"sleep", "grow", "shrink", "fork"}, growers |-> {p1},
            first |-> Start(R(ls, 3), R(ls, 1), Nobody), alone |-> FALSE]

\* Plenty of core: nobody is swapped out, but texts come and go, and there are
\* fewer slots than files.
Plenty == [core |-> 5, ntext |-> 1, most |-> 1, progs |-> [p \in Proc |-> {ls, ed, NoProg}], sticky |-> {ls},
           calls |-> {"fork", "exec", "exit", "unlink"}, growers |-> {},
           first |-> Start(R(ls, 1), Nobody, Nobody), alone |-> FALSE]

\* Little core, and no text with two users.
Alone == [core |-> 3, ntext |-> 2, most |-> 2, progs |-> [p \in Proc |-> {ls, ed, NoProg}], sticky |-> {},
          calls |-> {"sleep", "exec", "exit", "grow"}, growers |-> {p2},
          first |-> Start(R(ls, 1), R(NoProg, 1), Nobody), alone |-> TRUE]

\* Three that need core for their texts at once: two page table maps are not
\* enough.
Crowd == [core |-> 3, ntext |-> 3, most |-> 1, progs |-> [p \in Proc |-> {Own(p)}], sticky |-> {},
          calls |-> {"exec"}, growers |-> {},
          first |-> Start(R(NoProg, 1), R(NoProg, 1), R(NoProg, 1)), alone |-> TRUE]

\* As Plenty, with no text that two use, and unmounts.
Kept == [core |-> 4, ntext |-> 2, most |-> 1, progs |-> [p \in Proc |-> {ls, ed}], sticky |-> {ls},
         calls |-> {"exec", "exit", "unlink", "umount"}, growers |-> {},
         first |-> Start(R(ls, 1), R(NoProg, 1), Nobody), alone |-> TRUE]

\* Little core, and a text that two may use.
Tight == [core |-> 3, ntext |-> 2, most |-> 1, progs |-> [p \in Proc |-> {ls, ed}], sticky |-> {},
          calls |-> {"sleep", "exec", "exit"}, growers |-> {},
          first |-> Start(R(ls, 1), R(ls, 1), Nobody), alone |-> FALSE]

Mixes == {Sharing, Plenty, Alone, Crowd, Kept}
Unsafe == {Tight}

\* What a state is, apart from locals that nobody uses any more.
Seen == <<system, stat, flag, size, swsize, prog, textp, ptext, pages, texts, freemem, maps, waits,
          todo, cpu, panic,
          [a \in Actor |-> IF a \in Working THEN loc[a] ELSE Nothing]>>
=============================================================================
