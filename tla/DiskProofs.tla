----------------------------- MODULE DiskProofs -----------------------------
(***************************************************************************)
(* The disk driver's lock excludes, for any number of tasks; their disk    *)
(* requests implement the lock, so what is proved of it holds for the      *)
(* driver, and the hardware is touched under the lock alone.               *)
(***************************************************************************)
EXTENDS Disk, TLAPS

\* The inductive invariant: a task that is "in" has set the word, and only it
\* can clear it.
LockInv == TypeOK /\ WordHeld /\ MutualExclusion

\* Every step of ata_lock and ata_unlock preserves the invariant.
LEMMA AtaNextInv == LockInv /\ [AtaNext]_vars => LockInv'
<1> SUFFICES ASSUME LockInv, [AtaNext]_vars PROVE LockInv'
  BY Zenon
<1> USE DEF LockInv, TypeOK, WordHeld, MutualExclusion, Places, Goes
<1>1. ASSUME NEW p \in Procs, Call(p) PROVE LockInv'
  BY <1>1, Zenon DEF Call
<1>2. ASSUME NEW p \in Procs, ata_test(p) PROVE LockInv'
  BY <1>2, Zenon DEF ata_test
<1>3. ASSUME NEW p \in Procs, ata_set(p) PROVE LockInv'
  BY <1>3 DEF ata_set, arch_atomic_test_and_set
<1>4. ASSUME NEW p \in Procs, ata_unlock(p) PROVE LockInv'
  BY <1>4 DEF ata_unlock
<1>5. CASE UNCHANGED vars
  BY <1>5, Zenon DEF vars
<1> QED
  BY <1>1, <1>2, <1>3, <1>4, <1>5, Zenon DEF AtaNext, AtaStep

\* The lock word always agrees with who holds the disk.
THEOREM AtaInvariant == AtaSpec => []LockInv
<1>1. Init => LockInv
  BY DEF Init, LockInv, TypeOK, WordHeld, MutualExclusion, Places
<1> QED
  BY <1>1, AtaNextInv, PTL DEF AtaSpec

\* Two tasks never drive the disk at the same time: ata_lock, whose test of the
\* word and exchange of it are separate steps, is a lock.
THEOREM AtaExcludes == AtaSpec => []MutualExclusion
<1>1. LockInv => MutualExclusion
  BY Zenon DEF LockInv
<1> QED
  BY <1>1, AtaInvariant, PTL

-----------------------------------------------------------------------------
\* What a task does between atapio_read or atapio_write and its return.
LEMMA InsideSteps ==
  ASSUME NEW p \in Procs, AtaInside(p) PROVE AtaNext \/ UNCHANGED vars
<1>1. CASE ata_lock(p)
  BY <1>1, Zenon DEF ata_lock, AtaNext, AtaStep
<1>2. CASE ~ata_lock(p)
  BY <1>2, Zenon DEF AtaInside, read_select, write_select, ata_command, read_sector,
              read_error, read_retry, write_sector, write_error, ata_done,
              Reading, Writing, vars
<1> QED
  BY <1>1, <1>2, Zenon

\* A step of a request locks, unlocks or leaves the lock alone.
LEMMA DiskSteps == [DiskNext]_diskVars => [AtaNext]_vars
<1> SUFFICES ASSUME [DiskNext]_diskVars PROVE AtaNext \/ UNCHANGED vars
  BY Zenon
<1>1. CASE UNCHANGED diskVars
  BY <1>1, Zenon DEF diskVars, ataVars, vars
<1>2. ASSUME NEW p \in Procs, NEW r \in Requests, Request(p, r) PROVE UNCHANGED vars
  BY <1>2, Zenon DEF Request, ataVars, vars
<1>3. ASSUME NEW p \in Procs, disk_call(p) PROVE AtaNext
  BY <1>3, Zenon DEF disk_call, atapio, AtaNext
<1>4. ASSUME NEW p \in Procs, disk_inside(p) PROVE AtaNext \/ UNCHANGED vars
  BY <1>4, InsideSteps, Zenon DEF disk_inside
<1>5. ASSUME NEW p \in Procs, disk_return(p) PROVE AtaNext
  BY <1>5, Zenon DEF disk_return, atapio_return, AtaNext, AtaStep
<1>6. ASSUME NEW p \in Procs, Done(p) PROVE UNCHANGED vars
  BY <1>6, Zenon DEF Done, vars
<1> QED
  BY <1>1, <1>2, <1>3, <1>4, <1>5, <1>6, Zenon DEF DiskNext, DiskStep

\* The requests of tasks to the disk, with all that a drive may answer, follow
\* the protocol of ata_lock: they lock before they use the channel, unlock once,
\* and touch the word in no other way.
THEOREM DiskImplementsLock == DiskSpec => AtaSpec
<1>1. DiskInit => Init
  BY Zenon DEF DiskInit, AtaInit
<1> QED
  BY <1>1, DiskSteps, PTL DEF DiskSpec, AtaSpec

\* Two tasks are never inside the driver at the same time.
THEOREM DiskExcludes == DiskSpec => []MutualExclusion
  BY DiskImplementsLock, AtaExcludes, PTL

\* The channel's registers, the selected drive and the sectors change only in
\* the hands of a task that is between ata_lock and ata_unlock.
OnlyLocked ==
  [][UNCHANGED <<chan, selected, sectors>> \/ \E p \in Procs : at[p] = "in"]_diskVars

\* Disk requests never touch the hardware without the lock (OnlyLocked), whatever
\* the drive answers and whoever else is waiting.
THEOREM DiskOnlyLocked == DiskSpec => OnlyLocked
<1> DEFINE Locked == UNCHANGED <<chan, selected, sectors>> \/ \E p \in Procs : at[p] = "in"
<1>1. ASSUME DiskNext PROVE Locked
  <2>1. ASSUME NEW p \in Procs, NEW r \in Requests, Request(p, r) PROVE Locked
    BY <2>1, Zenon DEF Request, ataVars
  <2>2. ASSUME NEW p \in Procs, disk_call(p) PROVE Locked
    BY <2>2, Zenon DEF disk_call, atapio
  <2>3. ASSUME NEW p \in Procs, AtaInside(p) PROVE Locked
    BY <2>3, Zenon DEF AtaInside, ata_lock, read_select, write_select, ata_command,
                read_sector, read_error, read_retry, write_sector, write_error,
                ata_done, Reading, Writing, Inside
  <2>4. ASSUME NEW p \in Procs, disk_return(p) PROVE Locked
    BY <2>4, Zenon DEF disk_return, atapio_return
  <2>5. ASSUME NEW p \in Procs, Done(p) PROVE Locked
    BY <2>5, Zenon DEF Done
  <2> QED
    BY <1>1, <2>1, <2>2, <2>3, <2>4, <2>5, Zenon DEF DiskNext, DiskStep, disk_inside
<1>2. [DiskNext]_diskVars => [Locked]_diskVars
  BY <1>1, Zenon
<1> QED
  BY <1>2, PTL DEF DiskSpec, OnlyLocked

=============================================================================
