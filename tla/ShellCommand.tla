---------------------------- MODULE ShellCommand ----------------------------
(***************************************************************************)
(* shellcommand() of src/agent-system/src/ShellCommand.cc: the caller P    *)
(* makes pipe1 and forks the logger L; P logs pipe1 (the command's stderr) *)
(* line by line.  L points its stderr at pipe1, makes pipe2 and forks C;   *)
(* L logs pipe2 (stdout).  C points its stdout at pipe2, runs the command  *)
(* with system() and _exits with its status; L waits for C and _exits with *)
(* C's status; P waits for L and returns it.                               *)
(*                                                                         *)
(* A pipe is its buffered lines (at most Cap, a write blocks on a full     *)
(* pipe) and the processes holding its write and read ends open; fgets()   *)
(* returns EOF on an empty pipe with no writer left.  A line is the index  *)
(* of the command's write that produced it.  A wait status is the integer  *)
(* the kernel reports (exit code e as e * 256, a signal s as s).  With a   *)
(* tempdir, P copies stderr to tempdir/stderr, L stdout to tempdir/stdout  *)
(* and C writes its decoded status to tempdir/exit; a file is its lines,   *)
(* or the number written, and every fopen may fail.  The 1024-byte fgets   *)
(* buffer is not modelled.  shellcommand_background() is the one system()  *)
(* call P makes when the caller chose it.                                  *)
(***************************************************************************)
EXTENDS Integers, Sequences, SequencesExt

CONSTANTS
    Commands,   \* what the command does: [writes : Seq({1, 2}), end : status]
    Cap,        \* lines a pipe holds before a write blocks
    CanFail,    \* which of "pipe", "fork", "malloc", "fdopen" may fail
    SigPipe     \* SIGPIPE: a write to a pipe nobody can read kills the writer

Procs == {"P", "L", "C"}

VARIABLES
    pc,         \* each process's place in shellcommand()
    pipes,      \* pipes[1] is pipe1 (stderr), pipes[2] is pipe2 (stdout)
    forked,     \* the value fork() returned in P (log2) and L (child): 1 or -1
    ret,        \* each process's copy of the local int ret
    status,     \* the wait status of an exited process
    cmd,        \* the command system() runs
    done,       \* how many of its writes the command has made
    sysOk,      \* whether system() managed to start the command
    lFailed,    \* L took one of its _exit (1) error paths
    errLog,     \* the lines P logged with y2warning, in order
    outLog,     \* the lines L logged with y2debug, in order
    result,     \* shellcommand()'s return value, once P has returned
    mode,       \* "fg": the caller called shellcommand (), "bg": shellcommand_background ()
    tempdir,    \* whether the caller passed a non-empty tempdir
    files       \* the tempdir's files stderr, stdout and exit

vars == <<pc, pipes, forked, ret, status, cmd, done, sysOk, lFailed,
          errLog, outLog, result, mode, tempdir, files>>

\* the outcomes of a call that can fail in this environment
Outcomes(call) == IF call \in CanFail THEN BOOLEAN ELSE {TRUE}

\* mutant: the exit code is taken from the low byte, not shifted down
DecodeNoShift(x) == IF x % 128 = 0 THEN x % 256 ELSE (x % 128) + 128

\* WIFEXITED (x) ? WEXITSTATUS (x) : WTERMSIG (x) + 128
Decode(x) == IF x % 128 = 0 THEN (x \div 256) % 256 ELSE (x % 128) + 128

\* the wait status of a process that called _exit (v)
ExitStatus(v) == (v % 256) * 256

NoPipe == [buf |-> <<>>, w |-> {}, r |-> {}]

\* the pipe ends p holds, handed to its child by fork()
Inherit(p, q) ==
    [n \in {1, 2} |-> [pipes[n] EXCEPT
        !.w = IF p \in @ THEN @ \cup {q} ELSE @,
        !.r = IF p \in pipes[n].r THEN @ \cup {q} ELSE @]]

\* exit closes every descriptor the process holds
Released(p) == [n \in {1, 2} |-> [pipes[n] EXCEPT !.w = @ \ {p}, !.r = @ \ {p}]]

\* _exit (v): the process is gone and its pipe ends with it
Exit(p, v) ==
    /\ pc' = [pc EXCEPT ![p] = "exited"]
    /\ status' = [status EXCEPT ![p] = ExitStatus(v)]
    /\ pipes' = Released(p)

\* a tempdir file not created, or (re)created empty by fopen (..., "w")
NoFile == [open |-> FALSE, text |-> <<>>]

\* err = NULL; if (!tempdir.empty ()) err = fopen ((tempdir + "/" + f), "w"),
\* where fopen may fail and leave it NULL
OpenFile(f) ==
    \E ok \in Outcomes("fopen") :
        files' = [files EXCEPT ![f] = [open |-> tempdir /\ ok, text |-> <<>>]]

\* if (file) fprintf (file, "%s", line)
Copy(f, line) == IF files[f].open THEN [files EXCEPT ![f].text = Append(@, line)] ELSE files

\* the command's status as it would be reported, had nothing else failed
CommandStatus == Decode(cmd.end)

-----------------------------------------------------------------------------
Init ==
    /\ mode \in {"fg", "bg"}
    /\ pc = [p \in Procs |-> IF p # "P" THEN "none"
                              ELSE IF mode = "fg" THEN "pipe" ELSE "background"]
    /\ pipes = [n \in {1, 2} |-> NoPipe]
    /\ forked = [p \in {"P", "L"} |-> 0]
    /\ ret = [p \in Procs |-> 0]
    /\ status = [p \in Procs |-> 0]
    /\ cmd \in Commands
    /\ done = 0
    /\ sysOk = FALSE
    /\ lFailed = FALSE
    /\ errLog = <<>>
    /\ outLog = <<>>
    /\ result = 0
    /\ tempdir \in BOOLEAN
    /\ files = [f \in {"stderr", "stdout", "exit"} |-> NoFile]

\* if (pipe (pipe1)) return -1
PPipe ==
    /\ pc["P"] = "pipe"
    /\ \E ok \in Outcomes("pipe") :
         IF ok THEN /\ pipes' = [pipes EXCEPT ![1] = [NoPipe EXCEPT !.w = {"P"}, !.r = {"P"}]]
                    /\ pc' = [pc EXCEPT !["P"] = "fork"]
                    /\ UNCHANGED result
               ELSE /\ pc' = [pc EXCEPT !["P"] = "done"]
                    /\ result' = -1
                    /\ UNCHANGED pipes
    /\ UNCHANGED <<forked, ret, status, cmd, done, sysOk, lFailed, errLog, outLog, mode, tempdir, files>>

\* log2 = fork (): L starts as a copy of P; a failed fork returns -1,
\* which the if (log2) takes for the parent's branch
PFork ==
    /\ pc["P"] = "fork"
    /\ \E ok \in Outcomes("fork") :
         /\ forked' = [forked EXCEPT !["P"] = IF ok THEN 1 ELSE -1]
         /\ pc' = [pc EXCEPT !["P"] = "open", !["L"] = IF ok THEN "setup" ELSE "none"]
         /\ pipes' = IF ok THEN Inherit("P", "L") ELSE pipes
         /\ ret' = IF ok THEN [ret EXCEPT !["L"] = ret["P"]] ELSE ret
    /\ UNCHANGED <<status, cmd, done, sysOk, lFailed, errLog, outLog, result, mode, tempdir, files>>

\* mutant: close (pipe1[1]) is left out
POpenNoClose ==
    /\ pc["P"] = "open"
    /\ OpenFile("stderr")
    /\ \E m \in Outcomes("malloc"), f \in Outcomes("fdopen") :
         IF m /\ f THEN /\ pc' = [pc EXCEPT !["P"] = "read"]
                        /\ UNCHANGED result
                   ELSE /\ pc' = [pc EXCEPT !["P"] = "done"]
                        /\ result' = -1
    /\ UNCHANGED <<pipes, forked, ret, status, cmd, done, sysOk, lFailed, errLog, outLog, mode, tempdir>>

(***************************************************************************)
(* fopen of tempdir/stderr, malloc s1, fdopen (pipe1[0]), then close       *)
(* (pipe1[1]).  Either failure returns -1 at once, with both ends of pipe1 *)
(* still open and L, if any, not waited for.                               *)
(***************************************************************************)
POpen ==
    /\ pc["P"] = "open"
    /\ OpenFile("stderr")
    /\ \E m \in Outcomes("malloc"), f \in Outcomes("fdopen") :
         IF m /\ f THEN /\ pc' = [pc EXCEPT !["P"] = "read"]
                        /\ pipes' = [pipes EXCEPT ![1].w = @ \ {"P"}]
                        /\ UNCHANGED result
                   ELSE /\ pc' = [pc EXCEPT !["P"] = "done"]
                        /\ result' = -1
                        /\ UNCHANGED pipes
    /\ UNCHANGED <<forked, ret, status, cmd, done, sysOk, lFailed, errLog, outLog, mode, tempdir>>

\* mutant: fgets hands back a line but the stream does not move past it
ReadLineNoConsume(p, n, log, f) ==
    \/ /\ pipes[n].buf # <<>>
       /\ log' = Append(log, Head(pipes[n].buf))
       /\ files' = Copy(f, Head(pipes[n].buf))
       /\ UNCHANGED <<pc, pipes>>
    \/ /\ pipes[n].buf = <<>>
       /\ pipes[n].w = {}
       /\ pipes' = [pipes EXCEPT ![n].r = @ \ {p}]
       /\ pc' = [pc EXCEPT ![p] = "wait"]
       /\ UNCHANGED <<log, files>>

\* one fgets (s1, 1024, stream1): a line is copied to the tempdir file f and
\* logged; on EOF fclose (stream1) closes the read end and fclose (f) the
\* file; fgets blocks on an empty pipe that still has a writer
ReadLine(p, n, log, f) ==
    \/ /\ pipes[n].buf # <<>>
       /\ log' = Append(log, Head(pipes[n].buf))
       /\ files' = Copy(f, Head(pipes[n].buf))
       /\ pipes' = [pipes EXCEPT ![n].buf = Tail(@)]
       /\ UNCHANGED pc
    \/ /\ pipes[n].buf = <<>>
       /\ pipes[n].w = {}
       /\ pipes' = [pipes EXCEPT ![n].r = @ \ {p}]
       /\ pc' = [pc EXCEPT ![p] = "wait"]
       /\ UNCHANGED <<log, files>>

\* mutant: an empty pipe is taken for end of file
PReadEmptyIsEof ==
    /\ pc["P"] = "read"
    /\ \/ /\ pipes[1].buf # <<>>
          /\ errLog' = Append(errLog, Head(pipes[1].buf))
          /\ files' = Copy("stderr", Head(pipes[1].buf))
          /\ pipes' = [pipes EXCEPT ![1].buf = Tail(@)]
          /\ UNCHANGED pc
       \/ /\ pipes[1].buf = <<>>
          /\ pipes' = [pipes EXCEPT ![1].r = @ \ {"P"}]
          /\ pc' = [pc EXCEPT !["P"] = "wait"]
          /\ UNCHANGED <<errLog, files>>
    /\ UNCHANGED <<forked, ret, status, cmd, done, sysOk, lFailed, outLog, result, mode, tempdir>>

\* while (fgets (s1, 1024, stream1)) y2warning ("%s", s1)
PRead ==
    /\ pc["P"] = "read"
    /\ ReadLine("P", 1, errLog, "stderr")
    /\ UNCHANGED <<forked, ret, status, cmd, done, sysOk, lFailed, outLog, result, mode, tempdir>>

(***************************************************************************)
(* waitpid (log2, &ret, 0) and the decoding of ret.  With log2 = -1 it     *)
(* waits for any child; P has none, so it fails and ret keeps its 0.       *)
(***************************************************************************)
PWait ==
    /\ pc["P"] = "wait"
    /\ forked["P"] = -1 \/ pc["L"] = "exited"
    /\ LET r == IF forked["P"] = -1 THEN ret["P"] ELSE status["L"]
       IN  /\ ret' = [ret EXCEPT !["P"] = r]
           /\ result' = Decode(r)
    /\ pc' = [pc EXCEPT !["P"] = "done",
                        !["L"] = IF forked["P"] = 1 THEN "reaped" ELSE @]
    /\ UNCHANGED <<pipes, forked, status, cmd, done, sysOk, lFailed, errLog, outLog, mode, tempdir, files>>

(***************************************************************************)
(* L: dup2 (pipe1[1], 2) and close both ends of pipe1, which leaves it     *)
(* holding pipe1's write end as its stderr; then pipe (pipe2), or          *)
(* _exit (1).                                                              *)
(***************************************************************************)
LSetup ==
    /\ pc["L"] = "setup"
    /\ \E ok \in Outcomes("pipe") :
         IF ok THEN /\ pipes' = [pipes EXCEPT ![1].r = @ \ {"L"},
                                    ![2] = [NoPipe EXCEPT !.w = {"L"}, !.r = {"L"}]]
                    /\ pc' = [pc EXCEPT !["L"] = "fork"]
                    /\ UNCHANGED <<status, lFailed>>
               ELSE /\ Exit("L", 1)
                    /\ lFailed' = TRUE
    /\ UNCHANGED <<forked, ret, cmd, done, sysOk, errLog, outLog, result, mode, tempdir, files>>

\* child = fork (): C starts as a copy of L; -1 again takes the parent's branch
LFork ==
    /\ pc["L"] = "fork"
    /\ \E ok \in Outcomes("fork") :
         /\ forked' = [forked EXCEPT !["L"] = IF ok THEN 1 ELSE -1]
         /\ pc' = [pc EXCEPT !["L"] = "open", !["C"] = IF ok THEN "setup" ELSE "none"]
         /\ pipes' = IF ok THEN Inherit("L", "C") ELSE pipes
         /\ ret' = IF ok THEN [ret EXCEPT !["C"] = ret["L"]] ELSE ret
    /\ UNCHANGED <<status, cmd, done, sysOk, lFailed, errLog, outLog, result, mode, tempdir, files>>

\* mutant: close (pipe2[1]) is left out
LOpenNoClose ==
    /\ pc["L"] = "open"
    /\ OpenFile("stdout")
    /\ \E m \in Outcomes("malloc"), f \in Outcomes("fdopen") :
         IF m /\ f THEN /\ pc' = [pc EXCEPT !["L"] = "read"]
                        /\ UNCHANGED <<pipes, status, lFailed>>
                   ELSE /\ Exit("L", 1)
                        /\ lFailed' = TRUE
    /\ UNCHANGED <<forked, ret, cmd, done, sysOk, errLog, outLog, result, mode, tempdir>>

\* fopen of tempdir/stdout, malloc s2 and fdopen (pipe2[0]), each failure
\* an _exit (1); then close (pipe2[1])
LOpen ==
    /\ pc["L"] = "open"
    /\ OpenFile("stdout")
    /\ \E m \in Outcomes("malloc"), f \in Outcomes("fdopen") :
         IF m /\ f THEN /\ pc' = [pc EXCEPT !["L"] = "read"]
                        /\ pipes' = [pipes EXCEPT ![2].w = @ \ {"L"}]
                        /\ UNCHANGED <<status, lFailed>>
                   ELSE /\ Exit("L", 1)
                        /\ lFailed' = TRUE
    /\ UNCHANGED <<forked, ret, cmd, done, sysOk, errLog, outLog, result, mode, tempdir>>

\* while (fgets (s2, 1024, stream2)) y2debug ("%s", s2)
LRead ==
    /\ pc["L"] = "read"
    /\ ReadLine("L", 2, outLog, "stdout")
    /\ UNCHANGED <<forked, ret, status, cmd, done, sysOk, lFailed, errLog, result, mode, tempdir>>

\* waitpid (child, &ret, 0), then _exit with ret decoded; with child = -1
\* there is no child to wait for and ret keeps the value L inherited
LWait ==
    /\ pc["L"] = "wait"
    /\ forked["L"] = -1 \/ pc["C"] = "exited"
    /\ LET r == IF forked["L"] = -1 THEN ret["L"] ELSE status["C"]
       IN  /\ ret' = [ret EXCEPT !["L"] = r]
           /\ pc' = [pc EXCEPT !["L"] = "exited",
                               !["C"] = IF forked["L"] = 1 THEN "reaped" ELSE @]
           /\ status' = [status EXCEPT !["L"] = ExitStatus(Decode(r))]
           /\ pipes' = Released("L")
    /\ UNCHANGED <<forked, cmd, done, sysOk, lFailed, errLog, outLog, result, mode, tempdir, files>>

(***************************************************************************)
(* C: dup2 (pipe2[1], 1) and close both ends of pipe2, keeping its write   *)
(* end as stdout; then ret = system (command).  system() fails with -1     *)
(* when it cannot fork the shell; C then _exits with that decoded.         *)
(***************************************************************************)

\* ret decoded: with a tempdir, fopen (tempdir + "/exit", "w") and, if it
\* worked, fprintf (ex, "%d\n", ret); then _exit (ret)
CExit(v) ==
    /\ ret' = [ret EXCEPT !["C"] = v]
    /\ Exit("C", v)
    /\ \E ok \in Outcomes("fopen") :
         files' = [files EXCEPT !.exit = [open |-> tempdir /\ ok,
                                          text |-> IF tempdir /\ ok THEN <<v>> ELSE <<>>]]

CSetup ==
    /\ pc["C"] = "setup"
    /\ \E ok \in Outcomes("fork") :
         IF ok THEN /\ pipes' = [pipes EXCEPT ![2].r = @ \ {"C"}]
                    /\ pc' = [pc EXCEPT !["C"] = "run"]
                    /\ sysOk' = TRUE
                    /\ UNCHANGED <<ret, status, files>>
               ELSE /\ CExit(Decode(-1))
                    /\ UNCHANGED sysOk
    /\ UNCHANGED <<forked, cmd, done, lFailed, errLog, outLog, result, mode, tempdir>>

\* the pipe a write of the command goes to: stdout is pipe2, stderr pipe1
PipeOf(fd) == IF fd = 1 THEN 2 ELSE 1

\* mutant: a write to a full pipe does not block
CWriteNoBlock ==
    /\ pc["C"] = "run"
    /\ done < Len(cmd.writes)
    /\ LET n == PipeOf(cmd.writes[done + 1])
       IN  IF pipes[n].r = {}
             THEN /\ CExit(Decode(SigPipe))
                  /\ UNCHANGED done
             ELSE /\ pipes' = [pipes EXCEPT ![n].buf = Append(@, done + 1)]
                  /\ done' = done + 1
                  /\ UNCHANGED <<pc, ret, status, files>>
    /\ UNCHANGED <<forked, cmd, sysOk, lFailed, errLog, outLog, result, mode, tempdir>>

(***************************************************************************)
(* The command's next write, inside system(): it blocks while the pipe is  *)
(* full; with no read end left open the write raises SIGPIPE, which kills  *)
(* the command, and system() returns that status.                          *)
(***************************************************************************)
CWrite ==
    /\ pc["C"] = "run"
    /\ done < Len(cmd.writes)
    /\ LET n == PipeOf(cmd.writes[done + 1])
       IN  IF pipes[n].r = {}
             THEN /\ CExit(Decode(SigPipe))
                  /\ UNCHANGED done
             ELSE /\ Len(pipes[n].buf) < Cap
                  /\ pipes' = [pipes EXCEPT ![n].buf = Append(@, done + 1)]
                  /\ done' = done + 1
                  /\ UNCHANGED <<pc, ret, status, files>>
    /\ UNCHANGED <<forked, cmd, sysOk, lFailed, errLog, outLog, result, mode, tempdir>>

\* mutant: the exit file gets system()'s return value before it is decoded
CEndRawExitFile ==
    /\ pc["C"] = "run"
    /\ done = Len(cmd.writes)
    /\ ret' = [ret EXCEPT !["C"] = Decode(cmd.end)]
    /\ Exit("C", Decode(cmd.end))
    /\ \E ok \in Outcomes("fopen") :
         files' = [files EXCEPT !.exit = [open |-> tempdir /\ ok,
                                          text |-> IF tempdir /\ ok THEN <<cmd.end>> ELSE <<>>]]
    /\ UNCHANGED <<forked, cmd, done, sysOk, lFailed, errLog, outLog, result, mode, tempdir>>

\* system() returns the command's status; ret is decoded and C _exits with it
CEnd ==
    /\ pc["C"] = "run"
    /\ done = Len(cmd.writes)
    /\ CExit(Decode(cmd.end))
    /\ UNCHANGED <<forked, cmd, done, sysOk, lFailed, errLog, outLog, result, mode, tempdir>>

(***************************************************************************)
(* shellcommand_background (command): ret = system (command + " >/dev/null *)
(* 2>&1 &"), decoded.  The shell puts the command in the background and    *)
(* exits 0; system() returns -1 when it cannot fork the shell.             *)
(***************************************************************************)
PBackground ==
    /\ pc["P"] = "background"
    /\ \E ok \in Outcomes("fork") :
         /\ ret' = [ret EXCEPT !["P"] = IF ok THEN 0 ELSE -1]
         /\ result' = Decode(ret'["P"])
    /\ pc' = [pc EXCEPT !["P"] = "done"]
    /\ UNCHANGED <<pipes, forked, status, cmd, done, sysOk, lFailed, errLog, outLog,
                   mode, tempdir, files>>

\* shellcommand() has returned to its caller
Finished ==
    /\ pc["P"] = "done"
    /\ UNCHANGED vars

ParentStep == PPipe \/ PFork \/ POpen \/ PRead \/ PWait \/ PBackground
LoggerStep == LSetup \/ LFork \/ LOpen \/ LRead \/ LWait
ChildStep == CSetup \/ CWrite \/ CEnd

Next == ParentStep \/ LoggerStep \/ ChildStep \/ Finished

\* the kernel runs every process that is not blocked
Spec == Init /\ [][Next]_vars
        /\ WF_vars(ParentStep) /\ WF_vars(LoggerStep) /\ WF_vars(ChildStep)

-----------------------------------------------------------------------------
TypeOK ==
    /\ pc \in [Procs -> {"none", "pipe", "background", "fork", "setup", "open",
                         "read", "run", "wait", "done", "exited", "reaped"}]
    /\ files \in [{"stderr", "stdout", "exit"} -> [open : BOOLEAN, text : Seq(Int)]]
    /\ \A n \in {1, 2} : Len(pipes[n].buf) <= Cap
    /\ done \in 0 .. Len(cmd.writes)
    /\ result \in -1 .. 255

\* the lines the command writes to descriptor fd, in order
Lines(fd) == SelectSeq([i \in 1 .. Len(cmd.writes) |-> i], LAMBDA i : cmd.writes[i] = fd)

\* shellcommand() returns -1 for its own setup failure, 1 when the logger
\* process failed its setup, and otherwise the status of the command it ran
\* (exit code, or signal + 128): never a status for a command that did not
\* run, nor one the pipes caused.  The status passes from system() through
\* C's and L's _exit and both decodings.  shellcommand_background() returns
\* the shell's 0, or 255 when system() could not fork.
StatusFaithful ==
    pc["P"] = "done" =>
        \/ mode = "fg" /\ result = -1
        \/ mode = "fg" /\ lFailed /\ result = 1
        \/ mode = "fg" /\ sysOk /\ result = CommandStatus
        \/ mode = "bg" /\ result \in {0, Decode(-1)}

\* When shellcommand() returns the command's status, every line the command
\* wrote to stderr was logged by P and every line it wrote to stdout by L,
\* each in the order written: P reads pipe1 to EOF, which comes only once
\* C and L have exited, and L reads pipe2 to EOF before it waits for C.
LogsComplete ==
    (pc["P"] = "done" /\ result # -1 /\ sysOk /\ ~lFailed)
        => /\ errLog = Lines(2)
           /\ outLog = Lines(1)

\* When shellcommand() returns a status of the command (its own setup and
\* the logger's worked), the tempdir's exit file, if C could create it,
\* holds exactly the status returned: C writes its decoded ret before its
\* _exit, and that value must survive L's and P's waitpid and decoding.
ExitFileAgrees ==
    (mode = "fg" /\ pc["P"] = "done" /\ result # -1 /\ ~lFailed /\ files.exit.open)
        => files.exit.text = <<result>>

\* At every moment, also after an early -1 return while L and C still run
\* unwaited and write the tempdir, its files say only what happened:
\* stderr and stdout hold, in order, a prefix of the command's lines to
\* that stream, and the exit file, once C wrote it, the command's own
\* status, system()'s failure (255), or the SIGPIPE death (141) the command
\* meets only when L failed and left pipe2 without a reader.
TempdirTruthful ==
    /\ IsPrefix(files.stderr.text, Lines(2))
    /\ IsPrefix(files.stdout.text, Lines(1))
    /\ files.exit.text # <<>> =>
         \/ files.exit.text = <<CommandStatus>>
         \/ ~sysOk /\ files.exit.text = <<Decode(-1)>>
         \/ lFailed /\ files.exit.text = <<Decode(SigPipe)>>

\* the processes shellcommand() forked have ended: never started, or exited
DescendantsEnded == \A p \in {"L", "C"} : pc[p] \in {"none", "exited", "reaped"}

\* P returned -1 early still holding pipe1's read end, and the command's
\* next write to stderr blocks on the full pipe1 that nobody reads
BlockedOnAbandonedPipe ==
    /\ pc["P"] = "done" /\ result = -1 /\ "P" \in pipes[1].r
    /\ pc["C"] = "run" /\ done < Len(cmd.writes)
    /\ PipeOf(cmd.writes[done + 1]) = 1 /\ Len(pipes[1].buf) = Cap

\* Eventually L and C have exited for good, with one exception: after
\* the early return -1 of lines 55 and 63, which neither reads nor closes
\* pipe1, a command that fills pipe1 blocks there forever and L waits for
\* it forever.  No other path of shellcommand() leaves a process behind.
DescendantsSettle == <>[](DescendantsEnded \/ BlockedOnAbandonedPipe)

\* What the call promises (ShellCall): the processes, pipes and files are
\* hidden, the logs, the return and the mode are what the caller sees.
Abstract == INSTANCE ShellCall WITH returned <- pc["P"] = "done"

\* shellcommand() implements ShellCall: at every step each log is the
\* command's lines to that stream in the order written, the call returns
\* once, returns the command's status only after logging all of it, and
\* nothing is logged after it returned unless it returned -1 without
\* waiting for the logger.
ImplementsShellCall == Abstract!Spec

\* shellcommand() returns: no process waits on another forever.
ShellReturns == <>(pc["P"] = "done")
====
