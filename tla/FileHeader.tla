----------------------------- MODULE FileHeader -----------------------------
(***************************************************************************)
(* The framing of a bytecode file in src/libycp/src/Bytecode.cc:          *)
(* Bytecode::writeFile() writes the magic header, the text                *)
(* "major.minor.release" and a trailing NUL before the code;              *)
(* Bytecode::readFile() compares the header, parses the three numbers with *)
(* the static readInt() one str.get(c) at a time, and applies the version  *)
(* gate before handing the stream to readCode().                          *)
(*                                                                         *)
(* A byte is a digit 0..9 (the characters '0'..'9') or a model value for   *)
(* any other byte.  readInt()'s int is Width bits wide, two's complement.  *)
(* The body is not decoded here: readFile() accepting the stream, and the  *)
(* position readCode() starts from, are the outcome.                       *)
(***************************************************************************)
EXTENDS Integers, Sequences, SequencesExt

CONSTANTS
    Header,             \* YaST_BYTECODE_HEADER, a sequence of non-digit bytes
    Major, Minor, Release,  \* YaST_BYTECODE_MAJOR/_MINOR/_RELEASE as numbers
    Dot, Nul, Other,    \* the bytes '.' and '\0', and one standing for any other
    Undef,              \* the value of readInt()'s char c before its first get
    Files,              \* the files readFile() may be given (see File)
    Width               \* bits of an int

ASSUME Width \in 2 .. 27

Digit == 0 .. 9

(***************************************************************************)
(* A file is where its bytes came from: "missing" (ifstream does not open),*)
(* "foreign" (bytes not written by writeFile), "written" (writeFile's      *)
(* output for a build of version ver); cut bytes lost at its end.          *)
(***************************************************************************)
File == [kind : {"missing", "foreign", "written"},
         ver : Seq(Nat), body : Seq(Digit \cup {Other}), cut : Nat]

VARIABLES file, pc, pos, failed, c, i, fields, result, bodyStart

vars == <<file, pc, pos, failed, c, i, fields, result, bodyStart>>

\* the ASCII decimal text of n, as YaST_BYTECODE_* hold it
RECURSIVE DecimalText(_)
DecimalText(n) ==
    IF n < 10 THEN <<n>> ELSE DecimalText(n \div 10) \o <<n % 10>>

VersionText(v) ==
    DecimalText(v[1]) \o <<Dot>> \o DecimalText(v[2]) \o <<Dot>> \o DecimalText(v[3])

\* mutant: header.size() without the + 1, the NUL is not written
WriteFileNoNul(v, body) == Header \o VersionText(v) \o body

\* writeFile(): header string including its trailing \0, then the code
WriteFile(v, body) == Header \o VersionText(v) \o <<Nul>> \o body

Bytes(f) ==
    LET whole == IF f.kind = "written" THEN WriteFile(f.ver, f.body) ELSE f.body
    IN  SubSeq(whole, 1, Len(whole) - f.cut)

\* i *= 10; i += (c - '0') in a Width-bit int (wraps in two's complement)
WrapInt(x) ==
    LET m == x % (2 ^ Width)
    IN  IF m >= 2 ^ (Width - 1) THEN m - 2 ^ Width ELSE m

IsDigit(ch) == ch \in Digit

\* mutant: a release equal to the compiled one is refused
VersionAcceptedStrict(f) == f[1] = Major /\ f[2] = Minor /\ f[3] < Release

\* the gate: exact major and minor, release not newer than the reader's
VersionAccepted(f) == f[1] = Major /\ f[2] = Minor /\ f[3] <= Release

-----------------------------------------------------------------------------
Init ==
    /\ file \in Files
    /\ pc = "open"
    /\ pos = 0
    /\ failed = FALSE
    /\ c = Undef
    /\ i = 0
    /\ fields = <<>>
    /\ result = "none"
    /\ bodyStart = 0

\* std::ifstream instream (filename); if (!instream.is_open ()) return 0
OpenFile ==
    /\ pc = "open"
    /\ pc' = IF file.kind = "missing" THEN "done" ELSE "header"
    /\ result' = IF file.kind = "missing" THEN "null" ELSE result
    /\ UNCHANGED <<file, pos, failed, c, i, fields, bodyStart>>

(***************************************************************************)
(* instream.read (header, headerlen) and strcmp.  A file shorter than the  *)
(* header sets failbit and leaves the rest of the stack buffer unwritten:  *)
(* whether those bytes equal the header's tail is undefined, so both       *)
(* outcomes are taken.                                                     *)
(***************************************************************************)
ReadHeader ==
    /\ pc = "header"
    /\ LET got == Min({Len(Header), Len(Bytes(file))})
           prefixOk == SubSeq(Bytes(file), 1, got) = SubSeq(Header, 1, got)
       IN  \E tailOk \in IF got = Len(Header) THEN {TRUE} ELSE BOOLEAN :
             /\ pos' = got
             /\ failed' = (got < Len(Header))
             /\ pc' = IF prefixOk /\ tailOk THEN "int" ELSE "done"
             /\ result' = IF prefixOk /\ tailOk THEN result ELSE "null"
    /\ UNCHANGED <<file, c, i, fields, bodyStart>>

\* mutant: the gate comes after a fourth readInt() call
ReadIntStepFourFields ==
    /\ pc = "int"
    /\ LET got == ~failed /\ pos < Len(Bytes(file))
       IN  \E ch \in IF got THEN {Bytes(file)[pos + 1]}
                     ELSE IF c = Undef THEN {0, Nul} ELSE {c} :
             /\ pos' = IF got THEN pos + 1 ELSE pos
             /\ failed' = ~got
             /\ IF IsDigit(ch)
                  THEN /\ c' = ch
                       /\ i' = WrapInt(i * 10 + ch)
                       /\ UNCHANGED <<fields, pc>>
                  ELSE /\ c' = Undef
                       /\ i' = 0
                       /\ fields' = Append(fields, i)
                       /\ pc' = IF Len(fields) = 3 THEN "gate" ELSE "int"
    /\ UNCHANGED <<file, result, bodyStart>>

(***************************************************************************)
(* One iteration of readInt()'s loop: str.get (c), then break on a         *)
(* non-digit (returning i; the next readInt() call starts with a fresh,    *)
(* uninitialized c) or accumulate.  A failed get() leaves c unchanged, and *)
(* an uninitialized c is a digit or not.                                   *)
(***************************************************************************)
ReadIntStep ==
    /\ pc = "int"
    /\ LET got == ~failed /\ pos < Len(Bytes(file))
       IN  \E ch \in IF got THEN {Bytes(file)[pos + 1]}
                     ELSE IF c = Undef THEN {0, Nul} ELSE {c} :
             /\ pos' = IF got THEN pos + 1 ELSE pos
             /\ failed' = ~got
             /\ IF IsDigit(ch)
                  THEN /\ c' = ch
                       /\ i' = WrapInt(i * 10 + ch)
                       /\ UNCHANGED <<fields, pc>>
                  ELSE /\ c' = Undef
                       /\ i' = 0
                       /\ fields' = Append(fields, i)
                       /\ pc' = IF Len(fields) = 2 THEN "gate" ELSE "int"
    /\ UNCHANGED <<file, result, bodyStart>>

\* the version gate; on acceptance readCode (instream) reads from here on
VersionGate ==
    /\ pc = "gate"
    /\ pc' = "done"
    /\ result' = IF VersionAccepted(fields) THEN "code" ELSE "null"
    /\ bodyStart' = IF VersionAccepted(fields) THEN pos + 1 ELSE 0
    /\ UNCHANGED <<file, pos, failed, c, i, fields>>

\* readFile() has returned
Returned ==
    /\ pc = "done"
    /\ UNCHANGED vars

Next == OpenFile \/ ReadHeader \/ ReadIntStep \/ VersionGate \/ Returned

\* readFile() is one synchronous call: its next step is never withheld
Spec == Init /\ [][Next]_vars /\ WF_vars(Next)

-----------------------------------------------------------------------------
IntRange == -(2 ^ (Width - 1)) .. 2 ^ (Width - 1) - 1

TypeOK ==
    /\ file \in Files
    /\ pc \in {"open", "header", "int", "gate", "done"}
    /\ pos \in 0 .. Len(Bytes(file))
    /\ failed \in BOOLEAN
    /\ i \in IntRange
    /\ fields \in Seq(IntRange) /\ Len(fields) <= 3
    /\ result \in {"none", "code", "null"}

\* the numbers of a version all fit in an int
FitsInt(v) == \A k \in DOMAIN v : v[k] < 2 ^ (Width - 1)

\* the version a file's text denotes, read as unbounded decimal numbers
Supported(f) ==
    f.kind = "written" /\ f.cut = 0
    /\ f.ver[1] = Major /\ f.ver[2] = Minor /\ f.ver[3] <= Release

\* readFile() accepts a file exactly when it is intact output of writeFile()
\* from a build whose version the gate admits (spec sections 3 and 8): the
\* header compare, the digit parsing and the gate agree with the version.
\* Only for files whose version numbers fit in an int: readInt() wraps a
\* larger one, and 65535 read as -1 passes the gate (hazard at line 964).
GateAgreesWithVersion ==
    (pc = "done" /\ (file.kind = "written" => FitsInt(file.ver)))
      => (result = "code" <=> Supported(file))

\* When readFile() accepts, readCode() starts at the first byte of the code,
\* right after what writeFile() wrote before it: readInt() consumes the
\* separators and the byte ending the release, no more and no less.
BodyAligned ==
    result = "code" => bodyStart = Len(Bytes(file)) - Len(file.body) + 1

\* Every readFile() call returns (spec section 7: a read that fails mid
\* structure aborts the load).
ReadFileTerminates == <>(pc = "done")

=============================================================================
