------------------------------- MODULE MCHost --------------------------------
EXTENDS Host

MCProcs == 1..3

NoJob == [cmd |-> "none", base |-> "a", port |-> "x"]
Runs(cmd, base, dev) == [cmd |-> cmd, base |-> base, port |-> dev]
Jobs(j1, j2, j3) == [p \in MCProcs |-> CASE p = 1 -> j1 [] p = 2 -> j2 [] OTHER -> j3]

Plain(jobs) ==
  [jobs |-> jobs, records |-> 0, chunks |-> 0, ends |-> 0..2, earlier |-> 0, store |-> FALSE, typed |-> FALSE,
   days |-> FALSE, fails |-> FALSE, crashes |-> FALSE, moves |-> FALSE]

Recorded(jobs, chunks) == [Plain(jobs) EXCEPT !.records = 1, !.chunks = chunks]

\* One use for each of: two starts of a name and its stop; names taken beside one another, and
\* one of them killed; a session stopped twice; a crash cleaned up after; a move while others
\* come and crash; a client that attaches; what fails while a session is set up; and the
\* recordings: by one thread over earlier parts, with what is typed, and in a store that a
\* later run prunes.
MCUses ==
  { Plain(Jobs(Runs("start", "a", "x"), Runs("start", "a", "y"), Runs("stop", "a", "x"))),
    Plain(Jobs(Runs("serve", "a", "x"), Runs("serve", "a", "x"), Runs("stop", "a", "x"))),
    Plain(Jobs(Runs("start", "a", "x"), Runs("serve", "a", "y"), Runs("kill", "a", "x"))),
    Plain(Jobs(Runs("start", "a", "x"), Runs("stop", "a", "x"), Runs("stop", "a", "x"))),
    [Plain(Jobs(Runs("start", "a", "x"), Runs("start", "b", "y"), Runs("status", "a", "x")))
       EXCEPT !.crashes = TRUE],
    [Plain(Jobs(Runs("serve", "a", "x"), Runs("start", "a", "y"), NoJob))
       EXCEPT !.moves = TRUE, !.crashes = TRUE],
    [Plain(Jobs(Runs("start", "a", "x"), Runs("attach", "a", "x"), Runs("start", "b", "x")))
       EXCEPT !.moves = TRUE],
    [Plain(Jobs(Runs("start", "a", "x"), Runs("serve", "a", "x"), NoJob)) EXCEPT !.fails = TRUE],
    [Plain(Jobs(Runs("start", "a", "x"), Runs("attach", "a", "x"), NoJob))
       EXCEPT !.fails = TRUE, !.moves = TRUE],
    [Recorded(Jobs(Runs("start", "a", "x"), NoJob, NoJob), 6) EXCEPT !.earlier = 2],
    [Recorded(Jobs(Runs("serve", "a", "x"), NoJob, NoJob), 3) EXCEPT !.typed = TRUE],
    [Recorded(Jobs(Runs("start", "a", "x"), NoJob, NoJob), 3) EXCEPT !.typed = TRUE],
    [Recorded(Jobs(Runs("start", "a", "x"), Runs("start", "b", "y"), NoJob), 2)
       EXCEPT !.ends = {1}, !.store = TRUE, !.days = TRUE] }
=============================================================================
