------------------------------ MODULE CodeList ------------------------------
(***************************************************************************)
(* Bytecode::writeYCodelist(), Bytecode::readCode() and                    *)
(* Bytecode::readYCodelist() of src/libycp/src/Bytecode.cc.  The file is  *)
(* one written by writeYCodelist, or any other (a foreign or corrupt one). *)
(* readYCodelist reads a count, then calls                                 *)
(* readCode that many times and links each node it returns into the       *)
(* caller's list - *anchor, with *last its tail -.  readCode reads the kind  *)
(* byte as a (signed) char and dispatches on YCode::ykind (YCode.h).       *)
(*                                                                         *)
(* A stream element is a node as written: its kind byte, and whether the  *)
(* rest of it reads back valid (the node constructors are not under src/;  *)
(* their outcome is valid() of the object they build).                     *)
(***************************************************************************)
EXTENDS Integers, Sequences, SequencesExt

CONSTANTS
    Elements,   \* stream elements [code : 0..255, ok : BOOLEAN]
    MaxLen,     \* bound on the elements in the stream
    MaxCount,   \* bound on the count read before them
    LastModes,  \* whether the caller passes last (TRUE) or 0
    NoNode      \* a null YCodePtr / ycodelist_t *

\* YCode::ykind, in the order of its declaration
ycConstant == 13
yeFunctionPointer == 33
yeExpression == 34
ysBreak == 46
ysContinue == 47
ysSwitch == 53
ysStatement == 54

\* the kinds readCode's switch has a case for (ycConstant returns 0)
Handled == (14 .. 32) \cup (35 .. 52)

\* the kinds no node has: YCode::ykind's "-- placeholder --" entries
Placeholders == {ycConstant, yeExpression, ysStatement}

\* a char holding a byte >= 0x80 is negative
SignedChar(b) == IF b >= 128 THEN b - 256 ELSE b

Node == [kind : Int, at : Nat]

\* the caller's list before the call: empty, or one node read earlier
PresetNode == [kind |-> 1, at |-> 0]

VARIABLES stream, count, pos, anchor, last, lastGiven, leaked, pc, result,
          anchor0, count0,
          written,    \* the list writeYCodelist was given
          writer      \* "none" for a file from elsewhere, else "good" or "failed"

vars == <<stream, count, pos, anchor, last, lastGiven, leaked, pc, result,
          anchor0, count0, written, writer>>

\* mutant: the count is one more than the nodes in the list
WriteYCodelistCountOff(codelist, failAt) ==
    [count |-> Len(codelist) + 1,
     stream |-> IF failAt = 0 THEN codelist
                ELSE SubSeq(codelist, 1, failAt - 1) \o <<[codelist[failAt] EXCEPT !.ok = FALSE]>>,
     good |-> failAt = 0]

(***************************************************************************)
(* writeYCodelist: count the nodes, writeInt32 the count, then each node's *)
(* toStream, stopping at the first that fails (failAt, 0 for none).  A     *)
(* node whose toStream failed is left in the file partly written: it does *)
(* not read back valid (toStream is not under src/, spec section 4.4).     *)
(***************************************************************************)
WriteYCodelist(codelist, failAt) ==
    [count |-> Len(codelist),
     stream |-> IF failAt = 0 THEN codelist
                ELSE SubSeq(codelist, 1, failAt - 1) \o <<[codelist[failAt] EXCEPT !.ok = FALSE]>>,
     good |-> failAt = 0]

(***************************************************************************)
(* readCode at position i: "eof" when get fails, "null" for 0, "crash" for *)
(* res->valid() with res still 0 (the switch's default), else the node.    *)
(* YConst is returned without a valid() check.                             *)
(***************************************************************************)
\* an outcome of readCode: its tag and the node it returns
Out(tag, k, i) == [tag |-> tag, node |-> [kind |-> k, at |-> i]]

ReadCode(i) ==
    IF i > Len(stream) THEN Out("eof", 0, i)
    ELSE LET k == SignedChar(stream[i].code)
         IN  IF k < ycConstant THEN Out("node", k, i)
             ELSE IF k = ycConstant THEN Out("null", k, i)
             ELSE IF k \notin Handled THEN Out("crash", k, i)
             ELSE IF stream[i].ok THEN Out("node", k, i) ELSE Out("null", k, i)

\* mutant: the "else if (last != 0)" branch is lost
LinkNoAppend(n) ==
    /\ anchor' = IF anchor = <<>> THEN <<n>> ELSE anchor
    /\ leaked' = IF anchor = <<>> \/ lastGiven THEN leaked ELSE leaked \cup {n}
    /\ last' = IF lastGiven THEN n ELSE last

(***************************************************************************)
(* Link the element: set *anchor if it is 0, else last->next if last      *)
(* is given (else it is reachable from nothing); then *last = element.     *)
(***************************************************************************)
Link(n) ==
    /\ anchor' = IF anchor = <<>> THEN <<n>>
                 ELSE IF lastGiven THEN Append(anchor, n) ELSE anchor
    /\ leaked' = IF anchor = <<>> \/ lastGiven THEN leaked ELSE leaked \cup {n}
    /\ last' = IF lastGiven THEN n ELSE last

-----------------------------------------------------------------------------
\* the nodes a writer may hand on: a node writes its own kind, read back valid
Writable == {e \in Elements : e.ok /\ SignedChar(e.code) \notin Placeholders}

Init ==
    /\ \/ /\ stream \in UNION {[1 .. n -> Elements] : n \in 0 .. MaxLen}
          /\ count \in 0 .. MaxCount
          /\ written = <<>>
          /\ writer = "none"
       \/ \E cl \in UNION {[1 .. n -> Writable] : n \in 0 .. MaxLen}, f \in 0 .. MaxLen :
            /\ f <= Len(cl)
            /\ LET w == WriteYCodelist(cl, f)
               IN  /\ stream = w.stream
                   /\ count = w.count
                   /\ written = cl
                   /\ writer = IF w.good THEN "good" ELSE "failed"
    /\ lastGiven \in LastModes
    /\ anchor \in {<<>>, <<PresetNode>>}
    /\ last = IF anchor = <<>> THEN NoNode ELSE PresetNode
    /\ pos = 1
    /\ leaked = {}
    /\ pc = "loop"
    /\ result = FALSE
    /\ anchor0 = anchor
    /\ count0 = count

\* mutant: count is decremented twice per element
ReadElementTwiceDecrement ==
    /\ pc = "loop"
    /\ count > 0
    /\ LET o == ReadCode(pos)
       IN  IF o.tag = "crash" THEN /\ pc' = "crashed"
                               /\ UNCHANGED <<count, pos, anchor, last, leaked, result>>
           ELSE IF o.tag \in {"eof", "null"}
             THEN /\ pc' = "done" /\ result' = FALSE
                  /\ UNCHANGED <<count, pos, anchor, last, leaked>>
           ELSE /\ count' = count - 2
                /\ pos' = pos + 1
                /\ Link(o.node)
                /\ UNCHANGED <<pc, result>>
    /\ UNCHANGED <<stream, lastGiven, anchor0, count0, written, writer>>

(***************************************************************************)
(* One turn of while (count-- > 0): read an element; a 0 from readCode     *)
(* deletes it and returns false.                                           *)
(***************************************************************************)
ReadElement ==
    /\ pc = "loop"
    /\ count > 0
    /\ LET o == ReadCode(pos)
       IN  IF o.tag = "crash" THEN /\ pc' = "crashed"
                               /\ UNCHANGED <<count, pos, anchor, last, leaked, result>>
           ELSE IF o.tag \in {"eof", "null"}
             THEN /\ pc' = "done" /\ result' = FALSE
                  /\ UNCHANGED <<count, pos, anchor, last, leaked>>
           ELSE /\ count' = count - 1
                /\ pos' = pos + 1
                /\ Link(o.node)
                /\ UNCHANGED <<pc, result>>
    /\ UNCHANGED <<stream, lastGiven, anchor0, count0, written, writer>>

\* the count is used up: return str.good(), which no get has failed
LoopEnd ==
    /\ pc = "loop"
    /\ count <= 0
    /\ pc' = "done"
    /\ result' = TRUE
    /\ UNCHANGED <<stream, count, pos, anchor, last, lastGiven, leaked, anchor0, count0,
                   written, writer>>

\* readYCodelist has returned, or the process has died
Stopped ==
    /\ pc \in {"done", "crashed"}
    /\ UNCHANGED vars

Next == ReadElement \/ LoopEnd \/ Stopped

Spec == Init /\ [][Next]_vars

-----------------------------------------------------------------------------
TypeOK ==
    /\ count \in 0 .. MaxCount
    /\ pos \in 1 .. MaxLen + 1
    /\ anchor \in Seq(Node)
    /\ last \in Node \cup {NoNode}
    /\ pc \in {"loop", "done", "crashed"}
    /\ result \in BOOLEAN
    /\ writer \in {"none", "good", "failed"}

\* the nodes the stream's first k elements stand for, read as written
Written(k) == [j \in 1 .. k |-> [kind |-> SignedChar(stream[j].code), at |-> j]]

\* A list writeYCodelist wrote without error is read back by readYCodelist:
\* it succeeds and appends the written nodes, in order, to the caller's
\* list: the count written and the nodes that follow agree.  It needs a
\* case in readCode for every kind a node writes; ysSwitch and
\* yeFunctionPointer have none, and a written ysSwitch crashes the read.
WrittenReadsBack ==
    (writer = "good" /\ pc # "loop" /\ lastGiven)
      => /\ pc = "done" /\ result = TRUE
         /\ anchor = anchor0 \o [j \in 1 .. Len(written) |->
                                   [kind |-> SignedChar(written[j].code), at |-> j]]

\* When readYCodelist succeeds with last given, the caller's list is what
\* it held before followed by the count nodes read, in stream order, and
\* *last is its tail.
ListIntact ==
    (pc = "done" /\ result = TRUE /\ lastGiven)
      => /\ anchor = anchor0 \o Written(count0)
         /\ last = IF anchor = <<>> THEN NoNode ELSE Last(anchor)

=============================================================================
