----------------------------- MODULE MCPrograms -----------------------------
EXTENDS Programs
Segment(vaddr, memsize, filesize, rw) ==
  [load |-> TRUE, vaddr |-> vaddr, memsize |-> memsize, filesize |-> filesize,
   rw |-> rw]
Note == [load |-> FALSE, vaddr |-> 0, memsize |-> 0, filesize |-> 0, rw |-> TRUE]
\* Text and zeros that share a page, and data with zeros behind it, up to the
\* middle of a page; a program that turns out bad half way.
Hello == <<Note, Segment(14, 1, 1, FALSE), Segment(15, 1, 0, TRUE),
           Segment(16, 3, 1, TRUE)>>
Broken == <<Segment(16, 2, 2, TRUE), Segment(18, 1, 2, TRUE)>>
MCImages == [m \in {"hello", "broken"} |-> IF m = "hello" THEN Hello ELSE Broken]
MCIncrements == {-1, 2}
=============================================================================
