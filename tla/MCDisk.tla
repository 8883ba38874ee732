------------------------------- MODULE MCDisk -------------------------------
EXTENDS Disk
CONSTANT d1
\* Two neighbouring inodes in sector 0, a block of whole sectors, and a part of
\* a last sector.
Ask(op, offset, size) ==
  [op |-> op, drive |-> d1, offset |-> offset, size |-> size]
MCRequests == {Ask("read", 0, 4), Ask("read", 0, 6), Ask("read", 4, 1),
               Ask("write", 1, 1),
               Ask("write", 2, 1), Ask("write", 3, 3),
               Ask("write", 0, 4)}

\* The instance is one that the theorems on disk requests are about.
ASSUME MCSmallDrive == SmallDrive
=============================================================================
