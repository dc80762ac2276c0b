-------------------------------- MODULE Tty --------------------------------
(***************************************************************************)
(* The console (kernel/console.c) over the UART driver (kernel/uart.c):    *)
(* processes in consoleread() and consolewrite(), the UART's interrupt     *)
(* handler as devintr() of kernel/trap.c calls it, and the 16550 with its  *)
(* transmit FIFO.  Every read and write of a device register is a step of  *)
(* its own; between them, code under cons.lock or uart_tx_lock is one      *)
(* step.  sleep() and wakeup() are those of Sched.                         *)
(***************************************************************************)
EXTENDS Naturals, Sequences, FiniteSets

CONSTANTS Readers, Writers,   \* processes in read() and write() of the console
          INPUT_BUF_SIZE,
          UINT,               \* the indices of cons count modulo UINT (2^32)
          UART_TX_BUF_SIZE,
          UINT64,             \* uart_tx_w and uart_tx_r count modulo UINT64
          FIFO_DEPTH,         \* bytes the 16550 takes with FCR_FIFO_ENABLE
          Scripts,            \* what is typed: sequences of keys
          Sizes,              \* n of read()
          Start,              \* characters read from the console before the model starts
          Intr                \* the interrupt handler

ASSUME TtyAssumption ==
  /\ INPUT_BUF_SIZE \in Nat \ {0} /\ UART_TX_BUF_SIZE \in Nat \ {0}
  /\ UINT \in Nat /\ UINT % INPUT_BUF_SIZE = 0 /\ UINT > INPUT_BUF_SIZE
  /\ UINT64 \in Nat /\ UINT64 % UART_TX_BUF_SIZE = 0 /\ UINT64 > UART_TX_BUF_SIZE + 1
  /\ FIFO_DEPTH \in Nat /\ FIFO_DEPTH >= 2
  /\ Sizes \subseteq Nat \ {0} /\ Start \in Nat
  /\ Intr \notin Readers \cup Writers

VARIABLES
  buf, r, w, e,       \* cons
  rpc, rn, target,    \* consoleread(): where it stands, n, target
  killed,             \* p->killed of the readers
  txbuf, tx_w, tx_r,  \* uart_tx_buf, uart_tx_w, uart_tx_r
  tpc,                \* where a writer and the handler stand
  hand,               \* c of uartstart(): the byte between buffer and THR
  put,                \* bytes each writer has stored
  key, echo,          \* the handler: c of consoleintr(), bytes consputc() has to send
  thr,                \* the UART's transmit FIFO; LSR_TX_IDLE says that it is empty
  rhr,                \* received bytes that uartgetc() has not read
  pending,            \* the PLIC holds an interrupt of the UART
  sent,               \* bytes of each writer that have left the machine
  lost,               \* a byte was written to a full transmit FIFO
  typing              \* the keys still to be typed

consvars == <<buf, r, w, e>>
readvars == <<rpc, rn, target, killed>>
txvars == <<txbuf, tx_w, tx_r, hand>>
intrvars == <<key, echo>>
device == <<thr, rhr, pending, sent, lost>>
vars == <<consvars, readvars, txvars, put, intrvars, device, typing, tpc>>

Senders == Writers \cup {Intr}
Keys == UNION {{s[i] : i \in DOMAIN s} : s \in Scripts}

\* A script is a sequence of keys.
ASSUME ScriptAssumption == Scripts \subseteq Seq(Keys)

\* consoleinit() and uartinit(): empty buffers, FIFOs cleared and enabled,
\* transmit and receive interrupts on.  Start characters have come and gone.
Init ==
  /\ buf = [i \in 0 .. INPUT_BUF_SIZE - 1 |-> "nul"]
  /\ r = Start % UINT /\ w = r /\ e = r
  /\ rpc = [p \in Readers |-> "idle"] /\ rn = [p \in Readers |-> 0]
  /\ target = [p \in Readers |-> 0] /\ killed = [p \in Readers |-> FALSE]
  /\ txbuf = [i \in 0 .. UART_TX_BUF_SIZE - 1 |-> <<Intr, 0>>] /\ tx_w = 0 /\ tx_r = 0
  /\ hand = <<Intr, 0>>
  /\ tpc = [a \in Senders |-> "idle"]
  /\ put = [p \in Writers |-> 0]
  /\ key = "nul" /\ echo = 0
  /\ thr = <<>> /\ rhr = <<>> /\ pending = FALSE /\ lost = FALSE
  /\ sent = [p \in Writers |-> 0]
  /\ typing \in Scripts

Goto(a, l) == tpc' = [tpc EXCEPT ![a] = l]
RGoto(p, l) == rpc' = [rpc EXCEPT ![p] = l]

\* uart_tx_lock and cons.lock: who holds them between two steps.
txlock == {a \in Senders : tpc[a] \in {"start", "send"}}
conslock == {p \in Readers : rpc[p] = "sleep"} \cup {a \in {Intr} : tpc[a] \in {"echo", "putc"}}
-----------------------------------------------------------------------------
(* The UART                                                                *)

Idle == thr = <<>>    \* LSR_TX_IDLE

\* WriteReg(THR, b): a full FIFO drops the byte.
WriteTHR(b) ==
  /\ thr' = IF Len(thr) < FIFO_DEPTH THEN Append(thr, b) ELSE thr
  /\ lost' = (lost \/ Len(thr) >= FIFO_DEPTH)
  /\ UNCHANGED <<rhr, pending, sent>>

\* The UART sends a byte; it interrupts when the FIFO has become empty.
uart_send ==
  /\ thr # <<>>
  /\ thr' = Tail(thr)
  /\ pending' = (pending \/ Len(thr) = 1)
  /\ sent' = IF Head(thr)[1] \in Writers
             THEN [sent EXCEPT ![Head(thr)[1]] = (@ + 1) % UINT64] ELSE sent
  /\ UNCHANGED <<rhr, lost, consvars, readvars, txvars, put, intrvars, typing, tpc>>

\* A key is typed and arrives in the UART.
uart_receive ==
  /\ typing # <<>> /\ typing' = Tail(typing)
  /\ rhr = <<>> /\ rhr' = <<Head(typing)>> /\ pending' = TRUE
  /\ UNCHANGED <<thr, sent, lost, consvars, readvars, txvars, put, intrvars, tpc>>
-----------------------------------------------------------------------------
(* uartstart(), for a writer or the handler a that holds uart_tx_lock       *)

\* wakeup(&uart_tx_r)
WakeWriters == [a \in Senders |-> IF tpc[a] = "asleep" THEN "awake" ELSE tpc[a]]

\* Mutant: uart_tx_r is advanced before the byte is taken.
uartstart_take_late(a) ==
  /\ tpc[a] = "start" /\ tx_w # tx_r /\ Idle
  /\ tx_r' = (tx_r + 1) % UINT64
  /\ hand' = txbuf[tx_r' % UART_TX_BUF_SIZE]
  /\ tpc' = [WakeWriters EXCEPT ![a] = "send"]
  /\ UNCHANGED <<txbuf, tx_w, consvars, readvars, put, intrvars, device, typing>>

uartstart_take(a) ==
  /\ tpc[a] = "start" /\ tx_w # tx_r /\ Idle
  /\ hand' = txbuf[tx_r % UART_TX_BUF_SIZE]
  /\ tx_r' = (tx_r + 1) % UINT64
  /\ tpc' = [WakeWriters EXCEPT ![a] = "send"]
  /\ UNCHANGED <<txbuf, tx_w, consvars, readvars, put, intrvars, device, typing>>

uartstart_send(a) ==
  /\ tpc[a] = "send" /\ WriteTHR(hand) /\ hand' = <<Intr, 0>> /\ Goto(a, "start")
  /\ UNCHANGED <<txbuf, tx_w, tx_r, consvars, readvars, put, intrvars, typing>>

\* The buffer is empty or THR is not: uartstart() returns, and its caller
\* releases the lock.
Started(a) == tpc[a] = "start" /\ (tx_w = tx_r \/ ~Idle)
-----------------------------------------------------------------------------
(* consolewrite() and uartputc()                                           *)

\* The next byte of a write(), or a writer woken up: acquire uart_tx_lock.  A
\* copy from the user that fails is a write() that ends early.
consolewrite(p) == tpc[p] \in {"idle", "awake"} /\ txlock = {}

Full == tx_w = (tx_r + UART_TX_BUF_SIZE) % UINT64

uartputc_sleep(p) ==
  /\ consolewrite(p) /\ Full /\ Goto(p, "asleep")
  /\ UNCHANGED <<consvars, readvars, txvars, put, intrvars, device, typing>>

\* The byte stored is the next one of writer p.
uartputc_store(p) ==
  /\ consolewrite(p) /\ ~Full
  /\ txbuf' = [txbuf EXCEPT ![tx_w % UART_TX_BUF_SIZE] = <<p, put[p]>>]
  /\ tx_w' = (tx_w + 1) % UINT64
  /\ put' = [put EXCEPT ![p] = (@ + 1) % UINT64]
  /\ Goto(p, "start")
  /\ UNCHANGED <<tx_r, hand, consvars, readvars, intrvars, device, typing>>

uartputc_release(p) ==
  /\ Started(p) /\ Goto(p, "idle")
  /\ UNCHANGED <<consvars, readvars, txvars, put, intrvars, device, typing>>
-----------------------------------------------------------------------------
(* devintr(), uartintr() and consoleintr()                                 *)

\* plic_claim() gives UART0_IRQ; the PLIC holds back the next one until
\* plic_complete().
devintr ==
  /\ tpc[Intr] = "idle" /\ pending /\ pending' = FALSE /\ Goto(Intr, "getc")
  /\ UNCHANGED <<thr, rhr, sent, lost, consvars, readvars, txvars, put, intrvars, typing>>

uartgetc ==
  /\ tpc[Intr] = "getc" /\ rhr # <<>>
  /\ key' = Head(rhr) /\ rhr' = Tail(rhr) /\ Goto(Intr, "consoleintr")
  /\ UNCHANGED <<echo, thr, pending, sent, lost, consvars, readvars, txvars, put, typing>>

\* Mutant: the handler serves the input and forgets the output.
uartgetc_none_quit ==
  /\ tpc[Intr] = "getc" /\ rhr = <<>> /\ txlock = {} /\ Goto(Intr, "idle")
  /\ UNCHANGED <<consvars, readvars, txvars, put, intrvars, device, typing>>

\* No more input: uartintr() goes on to the output.
uartgetc_none ==
  /\ tpc[Intr] = "getc" /\ rhr = <<>> /\ txlock = {} /\ Goto(Intr, "start")
  /\ UNCHANGED <<consvars, readvars, txvars, put, intrvars, device, typing>>

uartintr_release ==
  /\ Started(Intr) /\ Goto(Intr, "idle")
  /\ UNCHANGED <<consvars, readvars, txvars, put, intrvars, device, typing>>

\* consputc(BACKSPACE) sends three bytes.
BACKSPACE == 3

\* Mutant: a line is handed over without a wakeup.
WakeReaders_nobody == rpc

\* wakeup(&cons.r)
WakeReaders == [p \in Readers |-> IF rpc[p] = "asleep" THEN "loop" ELSE rpc[p]]

\* Distance between two indices, as the unsigned subtraction of C gives it.
Minus(a, b) == (a + UINT - b) % UINT

\* Control-U: back to the last newline before cons.e, or to cons.w.
KillTo == CHOOSE k \in 0 .. Minus(e, w) :
            LET Stop(j) == \/ j = Minus(e, w)
                           \/ buf[Minus(e, j + 1) % INPUT_BUF_SIZE] = "\n"
            IN Stop(k) /\ \A j \in 0 .. k - 1 : ~Stop(j)

\* Erase n characters and echo their erasure.
Erase(n) ==
  /\ e' = Minus(e, n) /\ echo' = n * BACKSPACE
  /\ UNCHANGED <<buf, r, w, rpc>>

Stored(c) == IF c = "\r" THEN "\n" ELSE c
HandsOver(c) == c \in {"\n", "^D"}

\* Mutant: the test for a full ring is off by one.
consoleintr_store_wide ==
  LET c == Stored(key) e1 == (e + 1) % UINT IN
  /\ key # "nul" /\ Minus(e, r) <= INPUT_BUF_SIZE
  /\ echo' = 1
  /\ buf' = [buf EXCEPT ![e % INPUT_BUF_SIZE] = c] /\ e' = e1
  /\ IF HandsOver(c) \/ Minus(e1, r) = INPUT_BUF_SIZE
     THEN w' = e1 /\ rpc' = WakeReaders
     ELSE UNCHANGED <<w, rpc>>
  /\ UNCHANGED r

consoleintr_store ==
  LET c == Stored(key) e1 == (e + 1) % UINT IN
  /\ key # "nul" /\ Minus(e, r) < INPUT_BUF_SIZE
  /\ echo' = 1
  /\ buf' = [buf EXCEPT ![e % INPUT_BUF_SIZE] = c] /\ e' = e1
  /\ IF HandsOver(c) \/ Minus(e1, r) = INPUT_BUF_SIZE
     THEN w' = e1 /\ rpc' = WakeReaders
     ELSE UNCHANGED <<w, rpc>>
  /\ UNCHANGED r

\* A NUL, or a key for which the buffer has no room.
consoleintr_ignore ==
  /\ key = "nul" \/ Minus(e, r) >= INPUT_BUF_SIZE
  /\ echo' = 0 /\ UNCHANGED <<buf, r, w, e, rpc>>

\* Control-P: procdump() prints, one byte in the model.
procdump == echo' = 1 /\ UNCHANGED <<buf, r, w, e, rpc>>

\* acquire(&cons.lock) and the switch; the echo follows with the lock held.
consoleintr ==
  /\ tpc[Intr] = "consoleintr" /\ conslock = {}
  /\ Goto(Intr, "echo") /\ key' = "nul"
  /\ CASE key = "^P" -> procdump
       [] key = "^U" -> Erase(KillTo)
       [] key \in {"^H", "del"} -> Erase(IF e # w THEN 1 ELSE 0)
       [] OTHER -> consoleintr_store \/ consoleintr_ignore
  /\ UNCHANGED <<rn, target, killed, txvars, put, device, typing>>

\* consputc(): uartputc_sync() polls LSR and then writes THR.
consputc_poll ==
  /\ tpc[Intr] = "echo" /\ echo > 0 /\ Idle /\ Goto(Intr, "putc")
  /\ UNCHANGED <<consvars, readvars, txvars, put, intrvars, device, typing>>

consputc ==
  /\ tpc[Intr] = "putc" /\ WriteTHR(<<Intr, 0>>)
  /\ echo' = echo - 1 /\ Goto(Intr, "echo")
  /\ UNCHANGED <<key, consvars, readvars, txvars, put, typing>>

consoleintr_release ==
  /\ tpc[Intr] = "echo" /\ echo = 0 /\ Goto(Intr, "getc")
  /\ UNCHANGED <<consvars, readvars, txvars, put, intrvars, device, typing>>
-----------------------------------------------------------------------------
(* consoleread()                                                           *)

read(p, n) ==
  /\ rpc[p] = "idle" /\ RGoto(p, "loop")
  /\ rn' = [rn EXCEPT ![p] = n] /\ target' = [target EXCEPT ![p] = n]
  /\ UNCHANGED <<killed, consvars, txvars, put, intrvars, device, typing, tpc>>

\* The call returns; a killed caller exits before it calls again.
Return(p) ==
  /\ RGoto(p, "idle") /\ killed' = [killed EXCEPT ![p] = FALSE]
  /\ rn' = [rn EXCEPT ![p] = 0] /\ target' = [target EXCEPT ![p] = 0]

\* No input: a killed reader gives up, another one will sleep.
read_check(p) ==
  /\ rpc[p] = "loop" /\ conslock = {} /\ r = w
  /\ IF killed[p]
     THEN Return(p)
     ELSE RGoto(p, "sleep") /\ UNCHANGED <<killed, rn, target>>
  /\ UNCHANGED <<consvars, txvars, put, intrvars, device, typing, tpc>>

read_sleep(p) ==
  /\ rpc[p] = "sleep" /\ RGoto(p, "asleep")
  /\ UNCHANGED <<consvars, rn, target, killed, txvars, put, intrvars, device, typing, tpc>>

\* k bytes without the lock released: the k-th is a newline, fills the caller's
\* buffer, empties the ring (the loop goes on and finds r = w), stands before
\* an end of file, or cannot be copied out.
Char(i) == buf[(r + i - 1) % INPUT_BUF_SIZE]
read_chars(p, k) ==
  /\ rpc[p] = "loop" /\ conslock = {}
  /\ k <= Minus(w, r) /\ k <= rn[p]
  /\ \A i \in 1 .. k : Char(i) # "^D"
  /\ \A i \in 1 .. k - 1 : Char(i) # "\n"
  /\ r' = (r + k) % UINT
  /\ \/ k = Minus(w, r) /\ k < rn[p] /\ Char(k) # "\n"
        /\ rn' = [rn EXCEPT ![p] = @ - k] /\ UNCHANGED <<rpc, target, killed>>
     \/ Return(p)
  /\ UNCHANGED <<buf, w, e, txvars, put, intrvars, device, typing, tpc>>

\* End of file first: it is left in the buffer if the call has bytes to return.
read_eof(p) ==
  /\ rpc[p] = "loop" /\ conslock = {} /\ r # w /\ Char(1) = "^D"
  /\ r' = IF rn[p] < target[p] THEN r ELSE (r + 1) % UINT
  /\ Return(p)
  /\ UNCHANGED <<buf, w, e, txvars, put, intrvars, device, typing, tpc>>

\* kill() of a reader, one at a time.
kill(p) ==
  /\ rpc[p] # "idle" /\ (\A q \in Readers : ~killed[q]) /\ killed' = [killed EXCEPT ![p] = TRUE]
  /\ rpc' = IF rpc[p] = "asleep" THEN [rpc EXCEPT ![p] = "loop"] ELSE rpc
  /\ UNCHANGED <<rn, target, consvars, txvars, put, intrvars, device, typing, tpc>>
-----------------------------------------------------------------------------
ReaderStep(p) ==
  \/ read_check(p) \/ read_sleep(p) \/ read_eof(p)
  \/ \E k \in 1 .. INPUT_BUF_SIZE : read_chars(p, k)
WriterStep(p) ==
  \/ uartputc_sleep(p) \/ uartputc_store(p) \/ uartputc_release(p)
  \/ uartstart_take(p) \/ uartstart_send(p)
Handler ==
  \/ devintr \/ uartgetc \/ uartgetc_none \/ uartintr_release
  \/ consoleintr \/ consputc_poll \/ consputc \/ consoleintr_release
  \/ uartstart_take(Intr) \/ uartstart_send(Intr)

Next ==
  \/ \E p \in Readers : ReaderStep(p) \/ kill(p) \/ \E n \in Sizes : read(p, n)
  \/ \E p \in Writers : WriterStep(p)
  \/ Handler \/ uart_send \/ uart_receive

Spec == Init /\ [][Next]_vars
-----------------------------------------------------------------------------
(* Properties                                                              *)

\* The line being edited and the input handed over, read off the ring.
Ring(from, to) == [i \in 1 .. Minus(to, from) |-> buf[(from + i - 1) % INPUT_BUF_SIZE]]

\* The input half of console.c is the terminal of Terminal (console.c:136-179):
\* editing never reaches input that read() may take, nothing is lost or stored
\* twice when the ring is full or its 32-bit indices wrap, and a line is handed
\* over exactly when it ends or the ring is full.
T == INSTANCE Terminal WITH Keys <- {Stored(c) : c \in Keys}, Ends <- HandsOver,
       Size <- INPUT_BUF_SIZE, line <- Ring(w, e), input <- Ring(r, w)
LineDiscipline == T!Spec

\* What a writer has handed to the driver and has not left the machine, oldest
\* first: the FIFO of the UART, the byte in uartstart()'s hand, the buffer.
Queue == [i \in 1 .. (tx_w + UINT64 - tx_r) % UINT64
            |-> txbuf[(tx_r + i - 1) % UART_TX_BUF_SIZE]]
Underway == Append(thr, hand) \o Queue
\* How many bytes of writer p leave the machine before its byte number n.
Turn(p, n) == (n + UINT64 - sent[p]) % UINT64

\* Bytes of a write() leave in the order written, none lost or repeated
\* (uart.c:87-157), although the echo writes THR without uart_tx_lock, so
\* that two CPUs may see the one LSR_TX_IDLE: the FIFO that uartinit() enables
\* takes the bytes of both.
OutputIntact ==
  /\ ~lost
  /\ \A p \in Writers :
       LET u == Underway
           its == {i \in DOMAIN u : u[i][1] = p} IN
       /\ {Turn(p, u[i][2]) : i \in its} = 0 .. Turn(p, put[p]) - 1
       /\ \A i, j \in its : i < j => Turn(p, u[i][2]) < Turn(p, u[j][2])

\* Buffered output never gets stuck (uart.c:139-147): uartstart() returns while
\* THR is busy because "it will interrupt when it's ready for a new byte", so
\* whenever bytes wait the UART is busy, an interrupt is pending, or somebody is
\* on the way to uartstart(); and a writer sleeps only on a full buffer.
TxAlive ==
  /\ tx_w # tx_r => \/ thr # <<>> \/ pending \/ txlock # {}
                     \/ tpc[Intr] # "idle"
  /\ \A p \in Writers : tpc[p] = "asleep" => Full

\* Nobody sleeps beside input there is to read (console.c:88-97, 170): a reader
\* asleep, or about to sleep with cons.lock held, has an empty buffer before it,
\* also when another reader has put an end of file back or has left part of a
\* line.
ReaderAwake == \A p \in Readers : rpc[p] \in {"sleep", "asleep"} => r = w
=============================================================================
