-------------------------------- MODULE Ata --------------------------------
(***************************************************************************)
(* The disk driver, drivers/ata/ata.c: tasks send read and write commands  *)
(* to the drives of one channel, under ata_lock, by polling.               *)
(*                                                                         *)
(* A step is what a task does between two waits for the drive; the timer   *)
(* may switch tasks between any two.  The registers of the channel and the *)
(* drives behind it are the hardware, as the driver uses it: a command     *)
(* goes to the drive selected last, and the drive hands over one sector    *)
(* per poll, or reports an error.                                          *)
(***************************************************************************)
EXTENDS Locks, Sequences

CONSTANTS Drives,      \* the drives of the channel
          NSectors,    \* sectors of a drive
          SECTOR,      \* bytes of a sector, 512
          LBA_LOW,     \* sectors the LBA0..2 registers can name, 2^24
          SECCOUNT,    \* values of the sector count register, 256
          RETRIES,     \* 5
          Faults,      \* what a poll may report, a subset of AllFaults
          MaxFaults,   \* bound on the faults
          NoDrive      \* no drive is selected yet

AllFaults == {"abrt", "err"}

ASSUME AtaAssumption ==
  /\ {NSectors, SECTOR, LBA_LOW, SECCOUNT, RETRIES} \subseteq Nat \ {0}
  /\ MaxFaults \in Nat /\ Faults \subseteq AllFaults
  /\ NoDrive \notin Drives

VARIABLES sectors,     \* what is on the drives
          chan,        \* the registers of the channel
          selected,    \* selected_drive, selected_mode
          call,        \* the arguments of atapio_read and atapio_write
          drv,         \* where each task is in them
          tmp,         \* the sectors a task has received
          faults,      \* faults so far
          bad          \* history: tasks that have met an error, or an abort
                       \* after a sector of their read had come

hardware == <<sectors, chan>>
ataVars == <<word, at, sectors, chan, selected, call, drv, tmp, faults, bad>>

Junk == <<"junk", 0>>
JunkSector == [i \in 0..SECTOR - 1 |-> Junk]
Idle == [step |-> "select", tries |-> 0, cnt |-> 0, ok |-> TRUE]
NoCall == [op |-> "none"]

-----------------------------------------------------------------------------
\* Sector s of drive d holds the bytes of its place.
AtaInit ==
  /\ Init
  /\ sectors = [d \in Drives |-> [s \in 0..NSectors - 1 |->
                  [i \in 0..SECTOR - 1 |-> <<d, s * SECTOR + i>>]]]
  /\ chan \in [drive: Drives, hi: {0}, lba: {0}, left: {0}]
  /\ selected = [drive |-> NoDrive, mode |-> NoDrive]
  /\ call = [p \in Procs |-> NoCall]
  /\ drv = [p \in Procs |-> Idle]
  /\ tmp = [p \in Procs |-> <<>>]
  /\ faults = 0 /\ bad = {}

Inside(p, step) == at[p] = "in" /\ drv[p].step = step
Step(p, new) == drv' = [drv EXCEPT ![p] = new]

\* atapio_read, atapio_write: the call, up to ata_lock.
atapio(p, c) ==
  /\ Call(p)
  /\ call' = [call EXCEPT ![p] = c]
  /\ tmp' = [tmp EXCEPT ![p] = <<>>]
  /\ UNCHANGED <<sectors, chan, selected, drv, faults, bad>>

ata_lock(p) ==
  /\ ata_test(p) \/ ata_set(p)
  /\ UNCHANGED <<sectors, chan, selected, call, drv, tmp, faults, bad>>

-----------------------------------------------------------------------------
\* The bits of the address that go into the drive register.
High(lba) == lba \div LBA_LOW

\* The drive register is written only if both the drive and the mode differ
\* from the last ones.
ata_select_drive(d, mode) ==
  IF d # selected.drive /\ mode # selected.mode
    THEN /\ selected' = [drive |-> d, mode |-> mode]
         /\ chan' = [chan EXCEPT !.drive = d, !.hi = mode]
    ELSE UNCHANGED <<selected, chan>>

\* retry: of _atapio_read.
read_select(p) ==
  /\ Inside(p, "select") /\ call[p].op = "read"
  /\ IF drv[p].tries + 1 = RETRIES
       THEN /\ Step(p, [drv[p] EXCEPT !.step = "unlock", !.ok = FALSE])
            /\ bad' = bad \cup {p}
            /\ UNCHANGED <<selected, chan>>
       ELSE /\ ata_select_drive(call[p].drive, High(call[p].lba))
            /\ Step(p, [drv[p] EXCEPT !.step = "command", !.tries = @ + 1])
            /\ UNCHANGED bad
  /\ UNCHANGED <<word, at, sectors, call, tmp, faults>>

\* _atapio_write selects without the high bits of the address.
write_select(p) ==
  /\ Inside(p, "select") /\ call[p].op = "write"
  /\ ata_select_drive(call[p].drive, 0)
  /\ Step(p, [drv[p] EXCEPT !.step = "command"])
  /\ UNCHANGED <<word, at, sectors, call, tmp, faults, bad>>

\* ata_send_sec_and_lba and the command byte; a count of 0 asks for SECCOUNT.
ata_send_sec_and_lba(c) ==
  LET n == c.count % SECCOUNT
  IN chan' = [chan EXCEPT !.lba = c.lba % LBA_LOW,
                          !.left = IF n = 0 THEN SECCOUNT ELSE n]

ata_command(p) ==
  /\ Inside(p, "command")
  /\ ata_send_sec_and_lba(call[p])
  /\ Step(p, [drv[p] EXCEPT !.step = "sector", !.cnt = 0])
  /\ UNCHANGED <<word, at, sectors, selected, call, tmp, faults, bad>>

-----------------------------------------------------------------------------
\* The sector the drive is at, and the drive after it.
Here == chan.hi * LBA_LOW + chan.lba
OnDrive == Here \in 0..NSectors - 1
Advance == chan' = [chan EXCEPT !.lba = @ + 1, !.left = @ - 1]

\* ata_polling(base, 1) finds data, or the drive has given up on the command.
PollOk == chan.left > 0 /\ UNCHANGED faults
PollFault(f) ==
  /\ f \in Faults /\ faults < MaxFaults
  /\ faults' = faults + 1
  /\ chan' = [chan EXCEPT !.left = 0]

\* One sector of the loop in _atapio_read.
Received(p, s) ==
  /\ tmp' = [tmp EXCEPT ![p] = Append(@, s)]
  /\ Step(p, [drv[p] EXCEPT !.cnt = @ + 1])

Reading(p) == /\ Inside(p, "sector") /\ call[p].op = "read"
              /\ drv[p].cnt < call[p].count
              /\ UNCHANGED <<word, at, sectors, selected, call>>

read_sector(p) ==
  /\ Reading(p) /\ PollOk /\ Advance
  /\ Received(p, IF OnDrive THEN sectors[chan.drive][Here] ELSE JunkSector)
  /\ UNCHANGED bad

\* An error other than ABRT, or no data: the data port is read all the same.
read_error(p) ==
  /\ Reading(p)
  /\ PollFault("err") \/ (chan.left = 0 /\ UNCHANGED <<chan, faults>>)
  /\ Received(p, JunkSector)
  /\ bad' = bad \cup {p}

\* The command is sent again; the buffer is not rewound, so that after a sector
\* the data are out of place and go on past the end of the buffer, though the
\* call returns 0.
read_retry(p) ==
  /\ Reading(p) /\ PollFault("abrt")
  /\ Step(p, [drv[p] EXCEPT !.step = "select"])
  /\ bad' = IF tmp[p] = <<>> THEN bad ELSE bad \cup {p}
  /\ UNCHANGED tmp

\* One sector of the loop in _atapio_write.
Writing(p) == /\ Inside(p, "sector") /\ call[p].op = "write"
              /\ drv[p].cnt < call[p].count
              /\ UNCHANGED <<word, at, selected, call, tmp>>

write_sector(p) ==
  /\ Writing(p) /\ PollOk /\ Advance
  /\ sectors' = IF OnDrive
                  THEN [sectors EXCEPT ![chan.drive][Here] =
                                         call[p].out[drv[p].cnt + 1]]
                  ELSE sectors
  /\ Step(p, [drv[p] EXCEPT !.cnt = @ + 1])
  /\ UNCHANGED bad

write_error(p) ==
  /\ Writing(p)
  /\ \/ \E f \in Faults : PollFault(f)
     \/ chan.left = 0 /\ UNCHANGED <<chan, faults>>
  /\ Step(p, [drv[p] EXCEPT !.step = "unlock", !.ok = FALSE])
  /\ bad' = bad \cup {p}
  /\ UNCHANGED sectors

\* The last polls of both never report an error.
ata_done(p) ==
  /\ Inside(p, "sector") /\ drv[p].cnt = call[p].count
  /\ Step(p, [drv[p] EXCEPT !.step = "unlock"])
  /\ UNCHANGED <<word, at, sectors, chan, selected, call, tmp, faults, bad>>

\* ata_unlock and the return of atapio_read, atapio_write.
atapio_return(p) ==
  /\ Inside(p, "unlock")
  /\ ata_unlock(p)
  /\ Step(p, Idle)
  /\ call' = [call EXCEPT ![p] = NoCall]
  /\ UNCHANGED <<sectors, chan, selected, tmp, faults, bad>>

\* What a task does between the call and the return.
AtaInside(p) == \/ ata_lock(p) \/ read_select(p) \/ write_select(p)
                \/ ata_command(p) \/ read_sector(p) \/ read_error(p)
                \/ read_retry(p) \/ write_sector(p) \/ write_error(p)
                \/ ata_done(p)

=============================================================================
