---------------------------- MODULE ConsoleProofs ----------------------------
(***************************************************************************)
(* What is proved of standard input in Console, for any tasks, keys and    *)
(* read sizes and any screen: InputRight.                                  *)
(*                                                                         *)
(* The argument: the pipe holds the lines that are due and then the one    *)
(* that is being typed (LineIs), and one byte more while the interrupt is  *)
(* between the two steps of a backspace; cursize counts the lines.  The    *)
(* interrupt does not begin another key before it has echoed one (Serial), *)
(* so that no key can come between those steps, while readers can.         *)
(***************************************************************************)
EXTENDS Console, SequenceTheorems, TLAPS

Serial ==
  /\ irq.pc \in {"idle", "drop", "echo"}
  /\ DOMAIN w = Actors
  /\ irq.pc # "echo" => w[Irq].pc = "idle"

LineIs ==
  ~late =>
    /\ cursize = Len(due)
    /\ IF irq.pc = "drop" THEN \E x \in Keys : line = Append(due \o now, x)
                          ELSE line = due \o now

Typing ==
  /\ {due, now, line} \subseteq Seq(Keys)
  /\ cursize \in Nat
  /\ rd \in [Readers -> Nat]

InputInv == Typing /\ Serial /\ LineIs

-----------------------------------------------------------------------------
\* The least of three numbers.
LEMMA LeastOfThree ==
  ASSUME NEW a \in Nat, NEW b \in Nat, NEW c \in Nat
  PROVE  Min({a, b, c}) \in Nat /\ Min({a, b, c}) <= b /\ Min({a, b, c}) <= c
<1>1. \E x \in {a, b, c} : \A y \in {a, b, c} : x <= y
  OBVIOUS
<1>2. Min({a, b, c}) \in {a, b, c} /\ \A y \in {a, b, c} : Min({a, b, c}) <= y
  BY <1>1, Zenon DEF Min
<1>. QED
  BY <1>2, Zenon

\* Without its last element a sequence is what the element was put after.
LEMMA FrontOfAppend ==
  ASSUME NEW S, NEW s \in Seq(S), NEW x \in S
  PROVE  Front(Append(s, x)) = s
  BY DEF Front

\* What is put after two sequences is put after the second.
LEMMA AppendOfConcat ==
  \A s, u \in Seq(Keys), x \in Keys : Append(s \o u, x) = s \o Append(u, x)
  BY SMTT(30)

\* A sequence is its front and its last element.
LEMMA FrontLast ==
  ASSUME NEW S, NEW s \in Seq(S), s # <<>>
  PROVE  Front(s) \in Seq(S) /\ \E x \in S : s = Append(Front(s), x)
<1>1. Len(s) \in Nat \ {0} /\ s[Len(s)] \in S
  OBVIOUS
<1>2. Front(s) \in Seq(S) /\ Len(Front(s)) = Len(s) - 1
      /\ \A i \in 1..(Len(s) - 1) : Front(s)[i] = s[i]
  <2>1. Len(s) - 1 \in Int /\ \A i \in 1..(Len(s) - 1) : s[i] \in S
    BY <1>1
  <2>2. PICK n : n = Len(s) - 1
    BY Zenon
  <2>3. /\ SubSeq(s, 1, n) \in Seq(S)
        /\ Len(SubSeq(s, 1, n)) = IF 1 <= n THEN n - 1 + 1 ELSE 0
        /\ \A i \in 1..(n - 1 + 1) : SubSeq(s, 1, n)[i] = s[1 + i - 1]
    BY <2>1, <2>2, SubSeqProperties, SMTT(30)
  <2>. QED
    BY <1>1, <2>2, <2>3 DEF Front
<1>3. s = Append(Front(s), s[Len(s)])
  <2>1. PICK f : f = Front(s)
    BY Zenon
  <2>2. PICK g : g = Append(f, s[Len(s)])
    BY Zenon
  <2>3. /\ g \in Seq(S) /\ Len(g) = Len(s)
        /\ \A i \in 1..Len(s) : g[i] = s[i]
    BY <1>1, <1>2, <2>1, <2>2, AppendProperties
  <2>. QED
    BY <2>1, <2>2, <2>3, SeqEqual, Zenon
<1>. QED
  BY <1>1, <1>2, <1>3, Zenon

\* What is left of a sequence after its first n elements.
LEMMA Suffix ==
  ASSUME NEW s \in Seq(Keys), NEW n \in Nat
  PROVE  SubSeq(s, n + 1, Len(s)) \in Seq(Keys)
<1>1. n + 1 \in Int /\ Len(s) \in Int /\ \A i \in (n + 1)..Len(s) : s[i] \in Keys
  OBVIOUS
<1>. QED
  BY <1>1, SubSeqProperties, Zenon

\* What is taken from two sequences is taken from the first, if that has it.
LEMMA RestOfConcat ==
  ASSUME NEW s \in Seq(Keys), NEW u \in Seq(Keys), NEW n \in Nat, n <= Len(s)
  PROVE  /\ SubSeq(s \o u, n + 1, Len(s \o u)) = SubSeq(s, n + 1, Len(s)) \o u
         /\ SubSeq(s, n + 1, Len(s)) \in Seq(Keys)
         /\ Len(SubSeq(s, n + 1, Len(s))) = Len(s) - n
<1>1. /\ SubSeq(s, n + 1, Len(s)) \in Seq(Keys)
      /\ Len(SubSeq(s, n + 1, Len(s))) = Len(s) - n
  OBVIOUS
<1>2. PICK r : r = SubSeq(s, n + 1, Len(s))
  BY Zenon
<1>3. \A i \in 1..(Len(s) - n) : r[i] = s[n + i]
  BY <1>2
<1>4. /\ Len(r \o u) = Len(s) - n + Len(u)
      /\ \A i \in 1..(Len(s) - n + Len(u)) :
           (r \o u)[i] = IF i <= Len(s) - n THEN s[n + i] ELSE u[i - (Len(s) - n)]
  <2>1. r \in Seq(Keys) /\ Len(r) = Len(s) - n
    BY <1>1, <1>2, Zenon
  <2>2. /\ Len(r \o u) = Len(r) + Len(u)
        /\ \A i \in 1..(Len(r) + Len(u)) :
             (r \o u)[i] = IF i <= Len(r) THEN r[i] ELSE u[i - Len(r)]
    BY <2>1, ConcatProperties, Zenon
  <2>3. ASSUME NEW i \in 1..(Len(s) - n + Len(u))
        PROVE  (r \o u)[i] = IF i <= Len(s) - n THEN s[n + i] ELSE u[i - (Len(s) - n)]
    <3>1. (r \o u)[i] = IF i <= Len(s) - n THEN r[i] ELSE u[i - (Len(s) - n)]
      BY <2>1, <2>2, Zenon
    <3>2. i <= Len(s) - n => r[i] = s[n + i]
      BY <1>3
    <3>. QED
      BY <3>1, <3>2, Zenon
  <2>. QED
    BY <2>1, <2>2, <2>3, Zenon
<1>5. PICK q : q = s \o u
  BY Zenon
<1>6. /\ q \in Seq(Keys) /\ Len(q) = Len(s) + Len(u)
      /\ \A i \in 1..(Len(s) + Len(u)) : q[i] = IF i <= Len(s) THEN s[i] ELSE u[i - Len(s)]
  BY <1>5
<1>7. PICK z : z = SubSeq(q, n + 1, Len(q))
  BY Zenon
<1>8. z \in Seq(Keys) /\ Len(z) = Len(s) - n + Len(u)
      /\ \A i \in 1..(Len(s) - n + Len(u)) : z[i] = q[n + i]
  <2>1. n + 1 \in Int /\ Len(q) \in Int /\ \A i \in (n + 1)..Len(q) : q[i] \in Keys
    BY <1>6
  <2>2. /\ z \in Seq(Keys)
        /\ Len(z) = IF n + 1 <= Len(q) THEN Len(q) - (n + 1) + 1 ELSE 0
        /\ \A i \in 1..(Len(q) - (n + 1) + 1) : z[i] = q[(n + 1) + i - 1]
    BY <1>7, <2>1, SubSeqProperties
  <2>3. PICK m \in Nat : m = Len(q) - n /\ m = Len(s) - n + Len(u)
    <3>1. PICK a \in Nat, b \in Nat : a = Len(s) /\ b = Len(u) /\ n <= a
      OBVIOUS
    <3>2. Len(q) = a + b
      BY <1>6, <3>1, Zenon
    <3>3. (a + b) - n \in Nat /\ (a + b) - n = a - n + b
      BY <3>1
    <3>. QED
      BY <3>1, <3>2, <3>3, Zenon
  <2>4. Len(z) = m
    BY <1>6, <2>2, <2>3
  <2>5. \A i \in 1..m : z[i] = q[n + i]
    <3>1. 1..(Len(q) - (n + 1) + 1) = 1..m
      BY <1>6, <2>3
    <3>2. \A i \in 1..m : (n + 1) + i - 1 = n + i
      OBVIOUS
    <3>. QED
      BY <2>2, <3>1, <3>2, Zenon
  <2>. QED
    BY <2>2, <2>3, <2>4, <2>5, Zenon
<1>9. r \o u \in Seq(Keys)
  BY <1>1, <1>2
<1>10. ASSUME NEW i \in 1..Len(z) PROVE z[i] = (r \o u)[i]
  <2>1. z[i] = q[n + i] /\ n + i \in 1..(Len(s) + Len(u)) /\ i \in Nat /\ Len(s) \in Nat
    BY <1>8
  <2>2. q[n + i] = IF n + i <= Len(s) THEN s[n + i] ELSE u[n + i - Len(s)]
    <3>1. PICK j : j = n + i
      BY Zenon
    <3>2. j \in 1..(Len(s) + Len(u))
      BY <2>1, <3>1, Zenon
    <3>3. q[j] = IF j <= Len(s) THEN s[j] ELSE u[j - Len(s)]
      BY <1>6, <3>2, Zenon
    <3>. QED
      BY <3>1, <3>3, SMTT(30)
  <2>3. i - (Len(s) - n) = n + i - Len(s) /\ (i <= Len(s) - n <=> n + i <= Len(s))
    BY <2>1
  <2>4. i \in 1..(Len(s) - n + Len(u))
    BY <1>8, Zenon
  <2>5. (r \o u)[i] = IF i <= Len(s) - n THEN s[n + i] ELSE u[i - (Len(s) - n)]
    BY <1>4, <2>4, Zenon
  <2>. QED
    BY <2>1, <2>2, <2>3, <2>5, ZenonT(30)
<1>11. z = r \o u
  BY <1>4, <1>8, <1>9, <1>10, SeqEqual, Zenon
<1>. QED
  BY <1>1, <1>2, <1>5, <1>7, <1>11, Zenon

-----------------------------------------------------------------------------
\* A step of a write, of a task or of the interrupt.
WriteStep(a) == \/ character(a) \/ tty_scroll(a) \/ update(a)
                \/ tty_update_display(a) \/ video_draw_char(a)

\* It changes no other write and not the line, and the interrupt returns only
\* when its echo is done.
LEMMA WriteEffect ==
  ASSUME DOMAIN w = Actors, NEW a \in Actors, WriteStep(a)
  PROVE  /\ UNCHANGED input /\ w[a].pc # "idle" /\ DOMAIN w' = DOMAIN w
         /\ \A b \in Actors \ {a} : w'[b] = w[b]
         /\ \/ irq' = irq
            \/ a = Irq /\ w'[a].pc = "idle" /\ irq'.pc = "idle"
<1>1. CASE character(a)
  BY <1>1, ZenonT(30) DEF character
<1>2. CASE tty_scroll(a)
  BY <1>2, Zenon DEF tty_scroll
<1>3. CASE update(a)
  BY <1>3, ZenonT(30) DEF update, Returns
<1>4. CASE tty_update_display(a)
  BY <1>4, Zenon DEF tty_update_display
<1>5. CASE video_draw_char(a)
  BY <1>5, ZenonT(30) DEF video_draw_char, Returns
<1>. QED
  BY <1>1, <1>2, <1>3, <1>4, <1>5, Zenon DEF WriteStep

\* A write of a task, or a step of any write, leaves the line and the interrupt
\* alone, but for the end of an echo.
LEMMA WriteSteps ==
  ASSUME InputInv,
         \/ \E a \in Actors : WriteStep(a)
         \/ \E t \in Tasks : tty_stdoutwrite(t) \/ termios_cmd(t)
  PROVE  InputInv'
<1>1. DOMAIN w = Actors /\ Irq \in Actors
  BY Zenon DEF InputInv, Serial, Actors
<1>2. ASSUME NEW a \in Actors, WriteStep(a)
      PROVE  UNCHANGED input /\ Serial' /\ ((irq.pc = "drop") <=> (irq'.pc = "drop"))
  <2>1. /\ UNCHANGED input /\ w[a].pc # "idle" /\ DOMAIN w' = DOMAIN w
        /\ \A b \in Actors \ {a} : w'[b] = w[b]
        /\ \/ irq' = irq
           \/ a = Irq /\ w'[a].pc = "idle" /\ irq'.pc = "idle"
    BY <1>1, <1>2, WriteEffect, Zenon
  <2>2. a = Irq => irq.pc = "echo"
    BY <2>1, Zenon DEF InputInv, Serial
  <2>3. a # Irq => w'[Irq] = w[Irq]
    BY <1>1, <2>1, Zenon
  <2>. QED
    BY <2>1, <2>2, <2>3, Zenon DEF InputInv, Serial
<1>3. ASSUME NEW t \in Tasks, tty_stdoutwrite(t) \/ termios_cmd(t)
      PROVE  UNCHANGED input /\ Serial' /\ irq' = irq
  <2>1. UNCHANGED input /\ irq' = irq /\ DOMAIN w' = DOMAIN w /\ w'[Irq] = w[Irq]
    <3>1. t # Irq
      BY ConsoleAssumption, Zenon
    <3>2. CASE tty_stdoutwrite(t)
      <4>1. PICK text : Starts(t, text)
        BY <3>2, Zenon DEF tty_stdoutwrite
      <4>2. UNCHANGED input /\ irq' = irq
        BY <3>2, Zenon DEF tty_stdoutwrite
      <4>3. DOMAIN w' = DOMAIN w /\ w'[Irq] = w[Irq]
        BY <1>1, <3>1, <4>1, Zenon DEF Starts
      <4>. QED
        BY <4>2, <4>3, Zenon
    <3>3. CASE termios_cmd(t)
      BY <3>3, Zenon DEF termios_cmd
    <3>. QED
      BY <1>3, <3>2, <3>3, Zenon
  <2>. QED
    BY <2>1, Zenon DEF InputInv, Serial
<1>4. UNCHANGED input /\ Serial' /\ ((irq.pc = "drop") <=> (irq'.pc = "drop"))
  BY <1>2, <1>3, Zenon
<1>5. Typing' /\ LineIs'
  BY <1>4, Zenon DEF InputInv, Typing, LineIs, input
<1>. QED
  BY <1>4, <1>5, Zenon DEF InputInv

\* The interrupt echoes a key, or returns if the terminal is disabled.
LEMMA EchoSerial ==
  ASSUME Serial, NEW t, NEW key, Echo(t, key)
  PROVE  Serial' /\ irq'.pc # "drop"
<1>1. Irq \in Actors /\ Idle.pc = "idle"
  BY Zenon DEF Actors, Idle
<1>2. CASE disabled
  <2>1. irq' = Done /\ w' = [w EXCEPT ![Irq] = Idle]
    BY <1>2, Zenon DEF Echo, Starts
  <2>. QED
    BY <1>1, <2>1, Zenon DEF Serial, Done
<1>3. CASE ~disabled
  <2>1. irq' = [pc |-> "echo", on |-> t] /\ DOMAIN w' = DOMAIN w
    BY <1>3, Zenon DEF Echo, Starts
  <2>. QED
    BY <2>1, Zenon DEF Serial
<1>. QED
  BY <1>2, <1>3, Zenon

\* A key goes to the end of the line; a newline makes the line due.
LEMMA PutStep ==
  ASSUME InputInv, NEW t \in Tasks, key_put(t)
  PROVE  InputInv'
<1>1. PICK key \in Keys :
        /\ line' = Append(line, key)
        /\ cursize' = IF key = NL THEN Len(line) + 1 ELSE cursize
        /\ due' = IF key = NL THEN due \o Append(now, key) ELSE due
        /\ now' = IF key = NL THEN <<>> ELSE Append(now, key)
        /\ Echo(t, key)
  BY Zenon DEF key_put
<1>2. irq.pc = "idle" /\ rd' = rd /\ late' = late
  BY Zenon DEF key_put, Done
<1>3. due \in Seq(Keys) /\ now \in Seq(Keys) /\ line \in Seq(Keys) /\ cursize \in Nat
  BY Zenon DEF InputInv, Typing
<1>4. Typing'
  <2>1. Append(now, key) \in Seq(Keys) /\ Append(line, key) \in Seq(Keys)
        /\ <<>> \in Seq(Keys) /\ Len(line) + 1 \in Nat
    BY <1>3
  <2>2. due \o Append(now, key) \in Seq(Keys)
    BY <1>3, <2>1
  <2>. QED
    BY <1>1, <1>2, <1>3, <2>1, <2>2, Zenon DEF InputInv, Typing
<1>5. Serial' /\ irq'.pc # "drop"
  BY <1>1, EchoSerial, Zenon DEF InputInv
<1>6. LineIs'
  <2>. SUFFICES ASSUME ~late PROVE cursize' = Len(due') /\ line' = due' \o now'
    BY <1>2, <1>5, Zenon DEF LineIs
  <2>1. cursize = Len(due) /\ line = due \o now
    BY <1>2, Zenon DEF InputInv, LineIs
  <2>2. line' = due \o Append(now, key)
    <3>1. Append(due \o now, key) = due \o Append(now, key)
      BY <1>3, AppendOfConcat, Zenon
    <3>. QED
      BY <1>1, <2>1, <3>1, Zenon
  <2>3. CASE key = NL
    <3>1. due' = line' /\ now' = <<>> /\ cursize' = Len(line) + 1
      BY <1>1, <2>2, <2>3, Zenon
    <3>2. Len(line') = Len(line) + 1 /\ line' \o <<>> = line'
      BY <1>1, <1>3
    <3>. QED
      BY <3>1, <3>2, Zenon
  <2>4. CASE key # NL
    BY <1>1, <2>1, <2>2, <2>4, Zenon
  <2>. QED
    BY <2>3, <2>4, Zenon
<1>. QED
  BY <1>4, <1>5, <1>6, Zenon DEF InputInv

\* A backspace takes the last character from the line that is being typed; the
\* byte stays in the pipe for a step.
LEMMA RemoveStep ==
  ASSUME InputInv, NEW t \in Tasks, key_remove(t)
  PROVE  InputInv'
<1>1. /\ irq.pc = "idle" /\ late' = (late \/ (now = <<>> /\ line # <<>>))
      /\ now' = IF now = <<>> THEN now ELSE Front(now)
      /\ irq' = IF line = <<>> THEN Done ELSE [pc |-> "drop", on |-> t]
      /\ UNCHANGED <<w, line, cursize, rd, due>>
  BY Zenon DEF key_remove, Done
<1>2. due \in Seq(Keys) /\ now \in Seq(Keys) /\ line \in Seq(Keys) /\ cursize \in Nat
  BY Zenon DEF InputInv, Typing
<1>3. now # <<>> => Front(now) \in Seq(Keys) /\ \E x \in Keys : now = Append(Front(now), x)
  BY <1>2, FrontLast, Zenon
<1>4. Typing'
  BY <1>1, <1>2, <1>3, Zenon DEF InputInv, Typing
<1>5. irq'.pc = IF line = <<>> THEN "idle" ELSE "drop"
  BY <1>1, Zenon DEF Done
<1>6. Serial'
  BY <1>1, <1>5, Zenon DEF InputInv, Serial
<1>7. LineIs'
  <2>. SUFFICES ASSUME ~late'
                PROVE  /\ cursize' = Len(due')
                       /\ IF irq'.pc = "drop" THEN \E x \in Keys : line' = Append(due' \o now', x)
                                              ELSE line' = due' \o now'
    BY Zenon DEF LineIs
  <2>1. ~late /\ ~(now = <<>> /\ line # <<>>)
    BY <1>1, Zenon
  <2>2. cursize = Len(due) /\ line = due \o now
    BY <1>1, <2>1, Zenon DEF InputInv, LineIs
  <2>3. CASE now = <<>>
    BY <1>1, <1>5, <2>1, <2>2, <2>3, Zenon
  <2>4. CASE now # <<>>
    <3>1. PICK x \in Keys : now = Append(Front(now), x)
      BY <1>3, <2>4, Zenon
    <3>2. line = Append(due \o Front(now), x)
      <4>1. Append(due \o Front(now), x) = due \o Append(Front(now), x)
        BY <1>2, <1>3, <2>4, AppendOfConcat, Zenon
      <4>. QED
        BY <2>2, <3>1, <4>1, Zenon
    <3>3. line # <<>>
      BY <1>2, <1>3, <2>4, <3>2, SMTT(30)
    <3>. QED
      BY <1>1, <1>5, <2>2, <2>4, <3>2, <3>3, Zenon
  <2>. QED
    BY <2>3, <2>4, Zenon
<1>. QED
  BY <1>4, <1>6, <1>7, Zenon DEF InputInv

\* The byte is taken from the pipe.
LEMMA DropStep ==
  ASSUME InputInv, key_drop
  PROVE  InputInv'
<1>1. /\ irq.pc = "drop" /\ line # <<>> /\ line' = Front(line) /\ Echo(irq.on, BS)
      /\ UNCHANGED <<cursize, rd, due, now, late>>
  BY Zenon DEF key_drop
<1>2. due \in Seq(Keys) /\ now \in Seq(Keys) /\ line \in Seq(Keys) /\ cursize \in Nat
  BY Zenon DEF InputInv, Typing
<1>3. Front(line) \in Seq(Keys)
  BY <1>1, <1>2, FrontLast, Zenon
<1>4. Typing'
  BY <1>1, <1>2, <1>3, Zenon DEF InputInv, Typing
<1>5. Serial' /\ irq'.pc # "drop"
  BY <1>1, EchoSerial, Zenon DEF InputInv
<1>6. LineIs'
  <2>. SUFFICES ASSUME ~late PROVE cursize' = Len(due') /\ line' = due' \o now'
    BY <1>1, <1>5, Zenon DEF LineIs
  <2>1. PICK x \in Keys : cursize = Len(due) /\ line = Append(due \o now, x)
    BY <1>1, Zenon DEF InputInv, LineIs
  <2>2. due \o now \in Seq(Keys)
    BY <1>2
  <2>3. Front(line) = due \o now
    BY <2>1, <2>2, FrontOfAppend, Zenon
  <2>. QED
    BY <1>1, <2>1, <2>3, Zenon
<1>. QED
  BY <1>4, <1>5, <1>6, Zenon DEF InputInv

\* A reader takes bytes of lines that are due.
LEMMA ReadStep ==
  ASSUME InputInv, NEW t \in Tasks, ringbuffer_read(t)
  PROVE  InputInv'
<1>1. PICK n : /\ n = Min({rd[t], cursize, Len(line)})
               /\ due' = SubSeq(due, n + 1, Len(due))
               /\ line' = SubSeq(line, n + 1, Len(line))
               /\ cursize' = cursize - n
  BY Zenon DEF ringbuffer_read
<1>2. t \in Readers /\ rd' = [rd EXCEPT ![t] = 0] /\ UNCHANGED <<w, irq, now, late>>
  BY Zenon DEF ringbuffer_read
<1>3. /\ due \in Seq(Keys) /\ now \in Seq(Keys) /\ line \in Seq(Keys) /\ cursize \in Nat
      /\ rd \in [Readers -> Nat] /\ Len(line) \in Nat
  BY DEF InputInv, Typing
<1>4. n \in Nat /\ n <= cursize /\ n <= Len(line)
  <2>1. rd[t] \in Nat
    BY <1>2, <1>3, Zenon
  <2>. QED
    BY <1>1, <1>3, <2>1, LeastOfThree, Zenon
<1>5. due' \in Seq(Keys) /\ line' \in Seq(Keys)
  <2>1. SubSeq(due, n + 1, Len(due)) \in Seq(Keys)
    BY <1>3, <1>4, Suffix, Zenon
  <2>2. SubSeq(line, n + 1, Len(line)) \in Seq(Keys)
    BY <1>3, <1>4, Suffix, Zenon
  <2>. QED
    BY <1>1, <2>1, <2>2, Zenon
<1>6. Typing'
  <2>1. cursize' \in Nat
    <3>1. cursize' = cursize - n
      BY <1>1, Zenon
    <3>. QED
      BY <1>3, <1>4, <3>1, SMTT(30)
  <2>2. rd' \in [Readers -> Nat]
    BY <1>2, <1>3, Zenon
  <2>. QED
    BY <1>2, <1>3, <1>5, <2>1, <2>2, Zenon DEF Typing
<1>7. Serial'
  BY <1>2, Zenon DEF InputInv, Serial
<1>8. LineIs'
  <2>. SUFFICES ASSUME ~late
                PROVE  /\ cursize' = Len(due')
                       /\ IF irq.pc = "drop" THEN \E x \in Keys : line' = Append(due' \o now, x)
                                             ELSE line' = due' \o now
    BY <1>2, Zenon DEF LineIs
  <2>1. cursize = Len(due) /\ n <= Len(due)
    BY <1>4, Zenon DEF InputInv, LineIs
  <2>2. cursize' = Len(due')
    BY <1>1, <1>3, <1>4, <2>1, RestOfConcat, Zenon
  <2>3. CASE irq.pc = "drop"
    <3>1. PICK x \in Keys : line = Append(due \o now, x)
      BY <2>3, Zenon DEF InputInv, LineIs
    <3>2. line = due \o Append(now, x) /\ Append(now, x) \in Seq(Keys)
      <4>1. Append(now, x) \in Seq(Keys)
        BY <1>3
      <4>2. Append(due \o now, x) = due \o Append(now, x)
        BY <1>3, AppendOfConcat, Zenon
      <4>. QED
        BY <3>1, <4>1, <4>2, Zenon
    <3>3. line' = due' \o Append(now, x)
      <4>1. PICK u \in Seq(Keys) : u = Append(now, x)
        BY <3>2, Zenon
      <4>2. SubSeq(due \o u, n + 1, Len(due \o u)) = SubSeq(due, n + 1, Len(due)) \o u
        BY <1>3, <1>4, <2>1, RestOfConcat, Zenon
      <4>. QED
        BY <1>1, <3>2, <4>1, <4>2, Zenon
    <3>4. due' \o Append(now, x) = Append(due' \o now, x)
      BY <1>3, <1>5, AppendOfConcat, Zenon
    <3>. QED
      BY <2>2, <2>3, <3>3, <3>4, Zenon
  <2>4. CASE irq.pc # "drop"
    <3>1. line = due \o now
      BY <2>4, Zenon DEF InputInv, LineIs
    <3>2. line' = due' \o now
      <4>1. SubSeq(due \o now, n + 1, Len(due \o now)) = SubSeq(due, n + 1, Len(due)) \o now
        BY <1>3, <1>4, <2>1, RestOfConcat, Zenon
      <4>. QED
        BY <1>1, <3>1, <4>1, Zenon
    <3>. QED
      BY <2>2, <2>4, <3>2, Zenon
  <2>. QED
    BY <2>3, <2>4, Zenon
<1>. QED
  BY <1>6, <1>7, <1>8, Zenon DEF InputInv

-----------------------------------------------------------------------------
\* InputInv is inductive.
LEMMA InputNext == InputInv /\ [Next]_vars => InputInv'
<1>. SUFFICES ASSUME InputInv, [Next]_vars PROVE InputInv'
  BY Zenon
<1>1. CASE UNCHANGED vars
  BY <1>1, Zenon DEF InputInv, Typing, Serial, LineIs, vars, input
<1>2. ASSUME NEW a \in Actors, WriteStep(a)
      PROVE  InputInv'
  BY <1>2, WriteSteps, Zenon
<1>3. ASSUME NEW t \in Tasks, tty_stdoutwrite(t) \/ termios_cmd(t)
      PROVE  InputInv'
  BY <1>3, WriteSteps, Zenon
<1>4. ASSUME NEW t \in Tasks, pipe_read(t)
      PROVE  InputInv'
  <2>1. PICK n \in ReadSizes : rd' = [rd EXCEPT ![t] = n]
    BY <1>4, Zenon DEF pipe_read
  <2>2. rd' \in [Readers -> Nat] /\ UNCHANGED <<w, irq, line, cursize, due, now, late>>
    BY <1>4, <2>1, ConsoleAssumption, Zenon DEF pipe_read, InputInv, Typing
  <2>. QED
    BY <2>2, Zenon DEF InputInv, Typing, Serial, LineIs
<1>. QED
  BY <1>1, <1>2, <1>3, <1>4, DropStep, PutStep, RemoveStep, ReadStep, Zenon
  DEF Next, WriteStep

\* InputInv holds before anything is typed.
LEMMA InputInit == Init => InputInv
<1>. SUFFICES ASSUME Init PROVE InputInv
  BY Zenon
<1>1. Typing
  BY DEF Init, Typing
<1>2. Serial
  BY Zenon DEF Init, Serial, Actors, Idle
<1>3. LineIs
  BY DEF Init, LineIs
<1>. QED
  BY <1>1, <1>2, <1>3, Zenon DEF InputInv

\* Readers of standard input get the lines that were typed, as they were edited,
\* and the count of what they may have is never more than there is: whatever
\* keys, echoes, writes and reads come in between each other, as long as no end
\* of a line was taken back.
THEOREM LinesAsEdited == Spec => []InputRight
<1>1. InputInv => InputRight
  <2>. SUFFICES ASSUME InputInv, ~late
                PROVE  cursize <= Len(line) /\ SubSeq(line, 1, cursize) = due
    BY Zenon DEF InputRight
  <2>1. due \in Seq(Keys) /\ now \in Seq(Keys) /\ cursize = Len(due)
    BY Zenon DEF InputInv, Typing, LineIs
  <2>2. PICK u \in Seq(Keys) : line = due \o u
    <3>1. CASE irq.pc = "drop"
      <4>1. PICK x \in Keys : line = Append(due \o now, x)
        BY <3>1, Zenon DEF InputInv, LineIs
      <4>2. Append(now, x) \in Seq(Keys)
        BY <2>1
      <4>3. Append(due \o now, x) = due \o Append(now, x)
        BY <2>1, AppendOfConcat, Zenon
      <4>. QED
        BY <4>1, <4>2, <4>3, Zenon
    <3>2. CASE irq.pc # "drop"
      BY <2>1, <3>2, Zenon DEF InputInv, LineIs
    <3>. QED
      BY <3>1, <3>2, Zenon
  <2>3. Len(line) = Len(due) + Len(u) /\ Len(u) \in Nat /\ Len(due) \in Nat
    BY <2>1, <2>2, SMTT(30)
  <2>4. SubSeq(line, 1, cursize) = due
    BY <2>1, <2>2, SubSeqOfConcat1, SubSeqFull, SMTT(30)
  <2>. QED
    BY <2>1, <2>3, <2>4, SMTT(30)
<1>. QED
  BY <1>1, InputInit, InputNext, PTL DEF Spec
=============================================================================
