----------------------------- MODULE MCConsole ------------------------------
EXTENDS Console

Ch(c) == [k |-> "char", c |-> c]
Goto(r, c) == [k |-> "goto", r |-> r, c |-> c]

\* A line, one that is moved up again, a line that wraps and may scroll, and a
\* screen that is cleared and written anew, behind where the cursor ends.
MCTexts == {<<[k |-> "color"], Ch("x"), [k |-> "newline"]>>,
            <<[k |-> "right", n |-> 1], Ch("y"), [k |-> "up", n |-> 1]>>,
            <<Ch("x"), Ch("y"), [k |-> "tab"], Ch("z")>>,
            <<[k |-> "clear"], [k |-> "home"], Ch("y"), Goto(1, 1)>>}
MCKeys == {"k", BS, NL}
=============================================================================
