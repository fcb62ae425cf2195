----------------------------- MODULE ShellCall -----------------------------
(***************************************************************************)
(* What shellcommand() and shellcommand_background() of                    *)
(* src/agent-system/src/ShellCommand.cc promise their caller, without the  *)
(* processes and pipes that keep it: the command's stderr and stdout lines *)
(* are logged each in the order the command wrote them, and the call       *)
(* returns once, with -1 or 1 for a failure of its own, or with the        *)
(* command's status after every line has been logged.  Only after a -1,    *)
(* which returns without waiting, may logging go on.                       *)
(*                                                                         *)
(* ShellCommand implements this specification (ShellCommand!Abstract).     *)
(***************************************************************************)
EXTENDS Integers, Sequences

CONSTANTS Commands

VARIABLES
    cmd,        \* the command run
    mode,       \* "fg" for shellcommand (), "bg" for shellcommand_background ()
    errLog,     \* the stderr lines logged so far
    outLog,     \* the stdout lines logged so far
    returned,   \* whether the call has returned
    result      \* its return value

vars == <<cmd, mode, errLog, outLog, returned, result>>

\* the lines (write indices) the command writes to descriptor fd, in order
LinesTo(fd) == SelectSeq([i \in 1 .. Len(cmd.writes) |-> i], LAMBDA i : cmd.writes[i] = fd)

\* the exit code of the wait status x, or its signal + 128
ReportedStatus(x) == IF x % 128 = 0 THEN (x \div 256) % 256 ELSE (x % 128) + 128

\* the lines of fd are still logged: before the call returns, or after -1
Logging == ~returned \/ result = -1

Init ==
    /\ cmd \in Commands
    /\ mode \in {"fg", "bg"}
    /\ errLog = <<>>
    /\ outLog = <<>>
    /\ returned = FALSE
    /\ result = 0

\* the next line the command wrote to stderr (fd 2) is logged
LogErr ==
    /\ mode = "fg" /\ Logging
    /\ Len(errLog) < Len(LinesTo(2))
    /\ errLog' = Append(errLog, LinesTo(2)[Len(errLog) + 1])
    /\ UNCHANGED <<cmd, mode, outLog, returned, result>>

\* the next line the command wrote to stdout (fd 1) is logged
LogOut ==
    /\ mode = "fg" /\ Logging
    /\ Len(outLog) < Len(LinesTo(1))
    /\ outLog' = Append(outLog, LinesTo(1)[Len(outLog) + 1])
    /\ UNCHANGED <<cmd, mode, errLog, returned, result>>

\* the call returns r: a failure of its own, or the command's status once
\* all of its output is logged; in the background, the shell's 0 or 255
Return(r) ==
    /\ ~returned
    /\ \/ mode = "fg" /\ r \in {-1, 1}
       \/ /\ mode = "fg"
          /\ r = ReportedStatus(cmd.end)
          /\ errLog = LinesTo(2) /\ outLog = LinesTo(1)
       \/ mode = "bg" /\ r \in {0, 255}
    /\ returned' = TRUE
    /\ result' = r
    /\ UNCHANGED <<cmd, mode, errLog, outLog>>

Next == LogErr \/ LogOut \/ \E r \in -1 .. 255 : Return(r)

Spec == Init /\ [][Next]_vars

=============================================================================
