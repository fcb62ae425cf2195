-------------------------- MODULE MC_ShellCommand --------------------------
EXTENDS ShellCommand

\* a command: its writes to stdout (1) and stderr (2), and the wait status
\* system() reports for it (exit code e is e * 256, signal s is s)
Cmd(w, st) == [writes |-> w, end |-> st]

\* silent success; interleaved output ending with exit 3; a run of stderr
\* lines killed by SIGKILL (9); stdout lines ending with exit 1, the code
\* L's own failures exit with
MC_Commands ==
    {Cmd(<<>>, 0), Cmd(<<1, 2, 1>>, 3 * 256), Cmd(<<2, 2, 1>>, 9),
     Cmd(<<1, 1>>, 1 * 256)}

\* the calls that may fail: every one but fork
MC_CanFail == {"pipe", "malloc", "fdopen", "fopen"}

\* fork may fail as well (EAGAIN at the process limit)
MC_CanFailFork == {"pipe", "malloc", "fdopen", "fopen", "fork"}
=============================================================================
