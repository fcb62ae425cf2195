----------------------------- MODULE MC_CodeList -----------------------------
EXTENDS CodeList

El(code, ok) == [code |-> code, ok |-> ok]

\* a constant (ycVoid), the ycConstant placeholder, a block read back valid
\* and one whose contents fail, and a break statement
MC_Elements == {El(1, TRUE), El(13, TRUE), El(27, TRUE), El(27, FALSE), El(46, TRUE)}

\* and a switch statement (ysSwitch, written since 10.0)
MC_ElementsSwitch == MC_Elements \cup {El(53, TRUE)}

\* the caller passes last
MC_LastGiven == {TRUE}
=============================================================================
