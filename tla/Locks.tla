------------------------------- MODULE Locks -------------------------------
(***************************************************************************)
(* The busy-waiting lock of the disk driver, ata_lock in                   *)
(* drivers/ata/ata.c: a word that is 0 when free, on the cmpxchg routines  *)
(* of arch/i386/cpu/atomic.asm.  Each step is one access to the word: a    *)
(* timer interrupt can come between any two.                               *)
(***************************************************************************)
EXTENDS Naturals, FiniteSets

CONSTANT Procs      \* the tasks that use the lock

VARIABLES word,     \* g_ata_lock
          at        \* where each task is

vars == <<word, at>>

\* "out": does not want the lock; "test": about to read the word; "set": about
\* to do the cmpxchg; "in": between lock and unlock.
Places == {"out", "test", "set", "in"}

Init == word = 0 /\ at = [p \in Procs |-> "out"]

Goes(p, from, to) == at[p] = from /\ at' = [at EXCEPT ![p] = to]

Call(p) == Goes(p, "out", "test") /\ UNCHANGED word

\* arch_atomic_test_and_set(&word, 1) returns the old value; `won` and `lost`
\* are where a return of 0 and of 1 lead.
arch_atomic_test_and_set(p, won, lost) ==
  \/ word = 0 /\ word' = 1 /\ Goes(p, "set", won)
  \/ word # 0 /\ Goes(p, "set", lost) /\ UNCHANGED word

-----------------------------------------------------------------------------
\* Mutant of ata_test: the word that was read as 0 is not set.
ata_test_only(p) == word = 0 /\ Goes(p, "test", "in") /\ UNCHANGED word

\* while (g_ata_lock || atomic_test_and_set(&g_ata_lock, 1));
ata_test(p) == word = 0 /\ Goes(p, "test", "set") /\ UNCHANGED word

ata_set(p) == arch_atomic_test_and_set(p, "in", "test")

\* Mutant of ata_unlock: the word keeps its value.
ata_unlock_kept(p) == Goes(p, "in", "out") /\ UNCHANGED word

ata_unlock(p) == Goes(p, "in", "out") /\ word' = 0

AtaStep(p) == ata_test(p) \/ ata_set(p) \/ ata_unlock(p)
AtaNext == \E p \in Procs : Call(p) \/ AtaStep(p)
AtaSpec == Init /\ [][AtaNext]_vars

-----------------------------------------------------------------------------
TypeOK == word \in {0, 1} /\ at \in [Procs -> Places]

\* No two tasks are between lock and unlock: what makes it a lock, whatever
\* the order in which their reads and exchanges of the word fall.
MutualExclusion == \A p, q \in Procs : at[p] = "in" /\ at[q] = "in" => p = q

\* The word says exactly whether a task holds the lock, so that MutualExclusion
\* is kept by every step.
WordHeld == word = 1 <=> \E p \in Procs : at[p] = "in"
=============================================================================
