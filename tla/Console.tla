------------------------------ MODULE Console ------------------------------
(***************************************************************************)
(* The console (kernel/console.c) on the UART (kernel/uart.c): processes   *)
(* that read lines and write text, the interrupt handler that edits the    *)
(* line being typed and echoes it, and a printf() of the kernel.           *)
(*                                                                         *)
(* Output reaches the transmit FIFO along two paths that do not know of    *)
(* each other: uartwrite() serialises the processes with tx_lock and       *)
(* tx_busy and never looks at the device; uartputc_sync() looks at the     *)
(* device only, and takes no lock.  The device is external: a character    *)
(* in the receiver, a transmit FIFO, and the transmitter-empty interrupt.  *)
(***************************************************************************)
EXTENDS Integers, Sequences, FiniteSets

CONSTANTS
    Readers,         \* the processes that read() the console
    Writers,         \* the processes that write() it
    None,            \* nobody; no character
    Intr,            \* the interrupt handler, as the holder of a lock
    Letters,         \* ordinary characters
    INPUT_BUF_SIZE,  \* characters of cons.buf (128)
    UMAX,            \* r, w and e are unsigned ints: they wrap at UMAX
    BATCH,           \* sizeof(buf) in consolewrite() (32)
    TX_FIFO,         \* characters of the transmit FIFO (16)
    Reads, Writes,   \* the n arguments of read() and write()
    Killable         \* the processes that may be killed

Procs == Readers \union Writers

\* The keys with a meaning of their own, and what '\r' is turned into.
CR == "\r"
NL == "\n"
EOT == "^D"
KillKey == "^U"
Backspace == "^H"
Keys == Letters \union {CR, EOT, KillKey, Backspace}
Stored == Letters \union {NL, EOT}

ASSUME ConsoleAssumption ==
    /\ INPUT_BUF_SIZE \in Nat \ {0}
    /\ UMAX \in Nat /\ UMAX > INPUT_BUF_SIZE /\ UMAX % INPUT_BUF_SIZE = 0
    /\ BATCH \in Nat \ {0}
    /\ TX_FIFO \in Nat /\ TX_FIFO >= 3  \* the least that suffices, see FifoNotOverrun
    /\ None \notin Procs /\ Intr \notin Procs /\ None # Intr
    /\ Reads \subseteq Nat /\ Writes \subseteq Nat

VARIABLES
    conslock, txlock,  \* the holders of cons.lock and tx_lock
    buf, r, w, e,      \* the input ring
    tx_busy,           \* has uartwrite() sent and not been interrupted since?
    fifo,              \* the number of characters in the transmit FIFO
    thri,              \* is the transmitter-empty interrupt pending?
    rhr,               \* is a character waiting in the receiver?
    hpc, c, todo,      \* the interrupt handler, its character, its echo left
    ppc,               \* the printf() of the kernel
    pc,                \* where each process is
    n,                 \* what read() or write() has left to do
    nn,                \* what the batch of consolewrite() has left
    did,               \* has this read() copied anything out (n < target)?
    killed             \* p->killed

ring == <<buf, r, w, e>>
uart == <<tx_busy, fifo, thri, rhr>>
handler == <<hpc, c, todo>>
proc == <<pc, n, nn, did, killed>>
vars == <<conslock, txlock, ring, uart, handler, ppc, proc>>

----------------------------------------------------------------------------
\* consoleinit() and uartinit(): the FIFOs are reset, the lock is free, and
\* cons is in zeroed memory.
Init ==
    /\ conslock = None /\ txlock = None
    /\ buf = [k \in 0..INPUT_BUF_SIZE - 1 |-> None]
    /\ r = 0 /\ w = 0 /\ e = 0
    /\ tx_busy = 0 /\ fifo = 0 /\ thri = 0 /\ rhr = 0
    /\ hpc = "idle" /\ c = None /\ todo = 0
    /\ ppc = "idle"
    /\ pc = [p \in Procs |-> "user"]
    /\ n = [p \in Procs |-> 0] /\ nn = [p \in Procs |-> 0]
    /\ did = [p \in Procs |-> FALSE]
    /\ killed = [p \in Procs |-> 0]

At(p, l) == pc[p] = l
Goto(p, l) == pc' = [pc EXCEPT ![p] = l]

\* wakeup(chan), as seen by the processes asleep at l that resume at m.
Wakeup(l, m) == [p \in Procs |-> IF pc[p] = l THEN m ELSE pc[p]]

Plus(x, k) == (x + k) % UMAX
Minus(x, k) == (x - k) % UMAX
Slot(x) == x % INPUT_BUF_SIZE

----------------------------------------------------------------------------
(* The device. *)

TxIdle == fifo = 0    \* LSR_TX_IDLE

\* A write to THR: one more character, and no interrupt until it is sent.
WriteTHR == fifo' = fifo + 1 /\ thri' = 0

\* The oldest character leaves; the interrupt when it was the last.
Transmit ==
    /\ fifo > 0
    /\ fifo' = fifo - 1
    /\ thri' = IF fifo = 1 THEN 1 ELSE thri
    /\ UNCHANGED <<conslock, txlock, ring, tx_busy, rhr, handler, ppc, proc>>

\* The user presses a key; which one is chosen when it is read.
Press ==
    /\ rhr = 0
    /\ rhr' = 1
    /\ UNCHANGED <<conslock, txlock, ring, tx_busy, fifo, thri, handler, ppc, proc>>

----------------------------------------------------------------------------
(* printf(): pr.lock lets one at a time call consputc() -> uartputc_sync(). *)

PrintfWait ==
    /\ ppc = "idle"
    /\ TxIdle
    /\ ppc' = "put"
    /\ UNCHANGED <<conslock, txlock, ring, uart, handler, proc>>

PrintfPut ==
    /\ ppc = "put"
    /\ WriteTHR
    /\ ppc' = "idle"
    /\ UNCHANGED <<conslock, txlock, ring, tx_busy, rhr, handler, proc>>

----------------------------------------------------------------------------
(* The interrupt: plic_claim(), uartintr(), plic_complete().  The PLIC     *)
(* gives a source to no other hart between claim and complete.             *)

\* Claim, and ReadReg(ISR): it acknowledges the transmitter-empty interrupt
\* unless a received character, which goes first, is what it reports.
Claim ==
    /\ hpc = "idle"
    /\ thri = 1 \/ rhr = 1
    /\ thri' = IF rhr = 0 THEN 0 ELSE thri
    /\ hpc' = "tx"
    /\ UNCHANGED <<conslock, txlock, ring, tx_busy, fifo, rhr, c, todo, ppc, proc>>

\* The section of uartintr() under tx_lock.
UartintrTx ==
    /\ hpc = "tx"
    /\ txlock = None
    /\ IF TxIdle
       THEN /\ tx_busy' = 0
            /\ pc' = Wakeup("tx_asleep", "tx_acquire")
       ELSE UNCHANGED <<tx_busy, pc>>
    /\ hpc' = "rx"
    /\ UNCHANGED <<conslock, txlock, ring, fifo, thri, rhr, c, todo, ppc, n, nn, did, killed>>

\* The characters a backspace echoes: back, blank, back.
BACKSPACE == 3

\* The characters of the edited line that ^U erases: back to e = w or to a
\* character that follows a '\n'.
Erased ==
    LET len == Minus(e, w)
        over == {k \in 1..len : buf[Slot(Minus(e, k))] = NL}
    IN  IF over = {} THEN len
        ELSE (CHOOSE k \in over : \A m \in over : k <= m) - 1

\* Mutant: room counted from the delivered lines, not from what is unread.
RoomFromWritten == Minus(e, w) < INPUT_BUF_SIZE

\* Is there room for a character in the ring?
Room == Minus(e, r) < INPUT_BUF_SIZE

EchoOf(k) ==
    CASE k = KillKey -> Erased * BACKSPACE
      [] k = Backspace -> IF e # w THEN BACKSPACE ELSE 0
      [] OTHER -> IF Room THEN 1 ELSE 0

\* uartgetc(), and consoleintr() up to its echo; or, with nothing received,
\* the end of uartintr() and plic_complete().
UartintrRx ==
    /\ hpc = "rx"
    /\ \/ /\ rhr = 1
          /\ rhr' = 0
          /\ conslock = None
          /\ conslock' = Intr
          /\ \E k \in Keys : c' = k /\ todo' = EchoOf(k)
          /\ hpc' = "echo"
       \/ /\ rhr = 0
          /\ hpc' = "idle"
          /\ UNCHANGED <<conslock, c, rhr, todo>>
    /\ UNCHANGED <<txlock, ring, tx_busy, fifo, thri, ppc, proc>>

\* Mutant: the echo does not wait for the transmitter.
EchoWithoutWaiting ==
    /\ hpc = "echo" /\ todo > 0
    /\ hpc' = "put"
    /\ UNCHANGED <<conslock, txlock, ring, uart, c, todo, ppc, proc>>

\* uartputc_sync() of the handler: wait for the FIFO to be empty...
EchoWait ==
    /\ hpc = "echo" /\ todo > 0
    /\ TxIdle
    /\ hpc' = "put"
    /\ UNCHANGED <<conslock, txlock, ring, uart, c, todo, ppc, proc>>

\* ...and write, whatever others have written since.
EchoPut ==
    /\ hpc = "put"
    /\ WriteTHR
    /\ todo' = todo - 1
    /\ hpc' = "echo"
    /\ UNCHANGED <<conslock, txlock, ring, tx_busy, rhr, c, ppc, proc>>

\* Mutant: a full ring is handed over without a wakeup().
StoreWakesAtLineEnd(k) ==
    LET ch == IF k = CR THEN NL ELSE k
        e1 == Plus(e, 1)
        full == Minus(e1, r) = INPUT_BUF_SIZE
    IN  /\ buf' = [buf EXCEPT ![Slot(e)] = ch]
        /\ e' = e1
        /\ w' = IF ch \in {NL, EOT} \/ full THEN e1 ELSE w
        /\ pc' = IF ch \in {NL, EOT} THEN Wakeup("rd_asleep", "rd_acquire") ELSE pc

\* The default case of consoleintr() for character k: store it, and hand
\* the line over when it is over or when the ring is full.
Store(k) ==
    LET ch == IF k = CR THEN NL ELSE k
        e1 == Plus(e, 1)
    IN  /\ buf' = [buf EXCEPT ![Slot(e)] = ch]
        /\ e' = e1
        /\ IF ch \in {NL, EOT} \/ Minus(e1, r) = INPUT_BUF_SIZE
           THEN /\ w' = e1
                /\ pc' = Wakeup("rd_asleep", "rd_acquire")
           ELSE UNCHANGED <<w, pc>>

\* The rest of consoleintr(), and release(&cons.lock).
Consoleintr ==
    /\ hpc = "echo" /\ todo = 0
    /\ CASE c = KillKey ->
                e' = Minus(e, Erased) /\ UNCHANGED <<buf, w, pc>>
         [] c = Backspace ->
                e' = (IF e # w THEN Minus(e, 1) ELSE e) /\ UNCHANGED <<buf, w, pc>>
         [] OTHER ->
                IF Room THEN Store(c) ELSE UNCHANGED <<buf, e, w, pc>>
    /\ c' = None
    /\ conslock' = None
    /\ hpc' = "rx"
    /\ UNCHANGED <<txlock, r, uart, todo, ppc, n, nn, did, killed>>

----------------------------------------------------------------------------
(* read(): consoleread(). *)

Read(p, k) ==
    /\ At(p, "user") /\ killed[p] = 0
    /\ n' = [n EXCEPT ![p] = k]
    /\ Goto(p, "rd_acquire")
    /\ UNCHANGED <<conslock, txlock, ring, uart, handler, ppc, nn, did, killed>>

\* acquire(&cons.lock), of consoleread() or of its return from sleep().
ReadAcquire(p) ==
    /\ At(p, "rd_acquire")
    /\ conslock = None
    /\ conslock' = p
    /\ Goto(p, "rd_loop")
    /\ UNCHANGED <<txlock, ring, uart, handler, ppc, n, nn, did, killed>>

\* release(&cons.lock) and return; n and target are dead.
ReadReturn(p) ==
    /\ conslock' = None
    /\ n' = [n EXCEPT ![p] = 0]
    /\ did' = [did EXCEPT ![p] = FALSE]
    /\ Goto(p, "user")

\* Both loops' conditions: n = 0, a killed process, or nothing to read.
ReadWait(p) ==
    /\ At(p, "rd_loop")
    /\ n[p] = 0 \/ r = w
    /\ IF n[p] = 0 \/ killed[p] = 1
       THEN ReadReturn(p)
       ELSE Goto(p, "rd_sleep") /\ UNCHANGED <<conslock, n, did>>
    /\ UNCHANGED <<txlock, ring, uart, handler, ppc, nn, killed>>

ReadSleep(p) ==
    /\ At(p, "rd_sleep")
    /\ conslock' = None
    /\ Goto(p, "rd_asleep")
    /\ UNCHANGED <<txlock, ring, uart, handler, ppc, n, nn, did, killed>>

\* One character: kept in the ring when it is a ^D that others have come
\* before, lost when copyout fails.
ReadChar(p, copied) ==
    LET ch == buf[Slot(r)]
        over == ch \in {NL, EOT} \/ ~copied
    IN  /\ At(p, "rd_loop")
        /\ n[p] > 0 /\ r # w
        /\ ch = EOT => copied
        /\ IF ch = EOT /\ did[p]
           THEN UNCHANGED r
           ELSE r' = Plus(r, 1)
        /\ IF over
           THEN ReadReturn(p)
           ELSE /\ n' = [n EXCEPT ![p] = @ - 1]
                /\ did' = [did EXCEPT ![p] = TRUE]
                /\ UNCHANGED <<conslock, pc>>
        /\ UNCHANGED <<txlock, buf, w, e, uart, handler, ppc, nn, killed>>

----------------------------------------------------------------------------
(* write(): consolewrite() and uartwrite(). *)

Write(p, k) ==
    /\ At(p, "user") /\ killed[p] = 0
    /\ n' = [n EXCEPT ![p] = k]
    /\ Goto(p, "wr_batch")
    /\ UNCHANGED <<conslock, txlock, ring, uart, handler, ppc, nn, did, killed>>

\* The next batch, or the end: everything is written or copyin fails.
WriteBatch(p) ==
    /\ At(p, "wr_batch")
    /\ \/ /\ n[p] > 0
          /\ nn' = [nn EXCEPT ![p] = IF n[p] < BATCH THEN n[p] ELSE BATCH]
          /\ Goto(p, "tx_acquire")
          /\ UNCHANGED n
       \/ /\ Goto(p, "user")
          /\ n' = [n EXCEPT ![p] = 0]
          /\ UNCHANGED nn
    /\ UNCHANGED <<conslock, txlock, ring, uart, handler, ppc, did, killed>>

TxAcquire(p) ==
    /\ At(p, "tx_acquire")
    /\ txlock = None
    /\ txlock' = p
    /\ Goto(p, "tx_loop")
    /\ UNCHANGED <<conslock, ring, uart, handler, ppc, n, nn, did, killed>>

\* A character of the batch, when uartintr() has cleared tx_busy.
TxPut(p) ==
    /\ At(p, "tx_loop")
    /\ nn[p] > 0 /\ tx_busy = 0
    /\ WriteTHR
    /\ tx_busy' = 1
    /\ nn' = [nn EXCEPT ![p] = @ - 1]
    /\ n' = [n EXCEPT ![p] = @ - 1]
    /\ UNCHANGED <<conslock, txlock, ring, rhr, handler, ppc, pc, did, killed>>

\* sleep(&tx_chan, &tx_lock), or the end of uartwrite().
TxRelease(p) ==
    /\ At(p, "tx_loop")
    /\ nn[p] = 0 \/ tx_busy # 0
    /\ txlock' = None
    /\ Goto(p, IF nn[p] = 0 THEN "wr_batch" ELSE "tx_asleep")
    /\ UNCHANGED <<conslock, ring, uart, handler, ppc, n, nn, did, killed>>

----------------------------------------------------------------------------
\* kkill(): the flag, and a sleeper runs again, whatever it waits for.
Kill(p) ==
    /\ p \in Killable
    /\ killed[p] = 0
    /\ killed' = [killed EXCEPT ![p] = 1]
    /\ pc' = [pc EXCEPT ![p] = CASE @ = "rd_asleep" -> "rd_acquire"
                                 [] @ = "tx_asleep" -> "tx_acquire"
                                 [] OTHER -> @]
    /\ UNCHANGED <<conslock, txlock, ring, uart, handler, ppc, n, nn, did>>

\* A killed process exits at the end of its system call; another one that
\* has inherited the console takes its place.
Exit(p) ==
    /\ At(p, "user") /\ killed[p] = 1
    /\ killed' = [killed EXCEPT ![p] = 0]
    /\ UNCHANGED <<conslock, txlock, ring, uart, handler, ppc, pc, n, nn, did>>

Next ==
    \/ Transmit
    \/ Press
    \/ PrintfWait
    \/ PrintfPut
    \/ Claim
    \/ UartintrTx
    \/ UartintrRx
    \/ EchoWait
    \/ EchoPut
    \/ Consoleintr
    \/ \E p \in Readers, k \in Reads : Read(p, k)
    \/ \E p \in Procs : ReadAcquire(p)
    \/ \E p \in Procs : ReadWait(p)
    \/ \E p \in Procs : ReadSleep(p)
    \/ \E p \in Procs, copied \in BOOLEAN : ReadChar(p, copied)
    \/ \E p \in Writers, k \in Writes : Write(p, k)
    \/ \E p \in Procs : WriteBatch(p)
    \/ \E p \in Procs : TxAcquire(p)
    \/ \E p \in Procs : TxPut(p)
    \/ \E p \in Procs : TxRelease(p)
    \/ \E p \in Procs : Kill(p)
    \/ \E p \in Procs : Exit(p)

Spec == Init /\ [][Next]_vars

----------------------------------------------------------------------------
\* Nobody sleeps through what it waits for.  A reader is asleep only while no
\* ended line is in the ring.  A writer is asleep only while the device is
\* still going to interrupt: characters are in the FIFO, or the interrupt is
\* pending, or uartintr() has acknowledged it and has yet to look at the LSR
\* (an echo or a printf() may fill the FIFO again between the two).
NoLostWakeup ==
    \A p \in Procs :
        /\ At(p, "rd_asleep") => r = w
        /\ At(p, "tx_asleep") =>
               \/ fifo > 0
               \/ thri = 1
               \/ hpc = "tx"

\* The two output paths together never overrun the transmit FIFO, although
\* uartwrite() does not look at the LSR and the character whose room
\* uartputc_sync() saw may have been taken since: no character of a write(),
\* an echo or a printf() is lost.
FifoNotOverrun == fifo <= TX_FIFO

----------------------------------------------------------------------------
\* The characters of the ring from index x up to index y.
Segment(x, y) == [k \in 1..Minus(y, x) |-> buf[Slot(Plus(x, k - 1))]]

Lines == INSTANCE LineQueue
    WITH Chars <- Stored, Enders <- {NL, EOT},
         Capacity <- INPUT_BUF_SIZE,
         ready <- Segment(r, w), line <- Segment(w, e)

\* The ring and its three wrapping indices implement LineQueue, and more than
\* Lines!Spec asks for: every change of the ring is a step of the queue.  What
\* is typed is delivered once and in order, line by line, and line editing
\* reaches neither a delivered line nor beyond the start of its own.
LineDiscipline == Lines!Init /\ [][UNCHANGED ring \/ Lines!Next]_vars

=============================================================================
