------------------------------ MODULE TtyProofs ------------------------------
(***************************************************************************)
(* Proofs about module Tty, for every number of readers and writers, every *)
(* size of the rings and every script: buffered output does not get stuck, *)
(* no byte is written to a full transmit FIFO, no reader sleeps beside its *)
(* input, line editing implements Terminal, and the bytes of every writer  *)
(* leave the machine in order.                                             *)
(***************************************************************************)
EXTENDS Tty, Rings, TLAPS

USE TtyAssumption

Byte == Senders \X Nat
WriterLabels == {"idle", "awake", "asleep", "start", "send"}
HandlerLabels == {"idle", "getc", "consoleintr", "echo", "putc", "start", "send"}

\* What the proofs need of the types.
TtyType ==
  /\ rpc \in [Readers -> {"idle", "loop", "sleep", "asleep"}]
  /\ r \in 0 .. UINT - 1
  /\ tx_r \in Nat /\ tx_w \in Nat /\ put \in [Writers -> Nat]
  /\ txbuf \in [0 .. UART_TX_BUF_SIZE - 1 -> Byte] /\ hand \in Byte
  /\ thr \in Seq(Byte)
  /\ lost \in BOOLEAN /\ pending \in BOOLEAN

\* uart_tx_lock has one holder, and only the handler serves interrupts.
TxLockInv ==
  /\ tpc \in [Senders -> WriterLabels \cup HandlerLabels]
  /\ tpc[Intr] \in HandlerLabels /\ \A p \in Writers : tpc[p] \in WriterLabels
  /\ \A a, b \in Senders : tpc[a] \in {"start", "send"} /\ tpc[b] \in {"start", "send"} => a = b

\* cons.lock has one holder.
ConsLockInv ==
  /\ \A p, q \in Readers : rpc[p] = "sleep" /\ rpc[q] = "sleep" => p = q
  /\ \A p \in Readers : rpc[p] = "sleep" => tpc[Intr] \notin {"echo", "putc"}

\* A byte for THR that follows a test of LSR_TX_IDLE.
Sending == \E a \in Senders : tpc[a] = "send"
Echoing == tpc[Intr] = "putc"

\* The holder of uart_tx_lock and the echo may have seen the same
\* LSR_TX_IDLE: room for two bytes is enough for them.
FifoInv ==
  /\ ~lost /\ Len(thr) <= 2
  /\ Sending \/ Echoing => Len(thr) <= 1
  /\ Sending /\ Echoing => thr = <<>>

TtyInv == TtyType /\ TxLockInv /\ ConsLockInv /\ FifoInv /\ TxAlive /\ ReaderAwake
-----------------------------------------------------------------------------
\* The steps of a reader, of whoever runs uartstart() or uartputc(), and the rest
\* of the handler with the device.
Reading(p) ==
  \/ ReaderStep(p) \/ kill(p) \/ \E n \in Sizes : read(p, n)
Uart ==
  \/ devintr \/ uartgetc \/ uartgetc_none \/ uartintr_release
  \/ consputc_poll \/ consputc \/ consoleintr_release \/ uart_send \/ uart_receive
Storing(p) == uartputc_sleep(p) \/ uartputc_store(p) \/ uartputc_release(p)
Starting(a) == uartstart_take(a) \/ uartstart_send(a)

\* consoleread() leaves the output alone.
LEMMA ReaderOutput ==
  ASSUME NEW p \in Readers, Reading(p)
  PROVE  UNCHANGED <<txvars, put, device, tpc>>
  BY Zenon DEF Reading, ReaderStep, read_check, read_sleep, read_eof, read_chars, kill, read

\* The output leaves consoleread() alone.
LEMMA OutputReader ==
  ASSUME Uart \/ (\E p \in Writers : Storing(p)) \/ (\E a \in Senders : Starting(a))
  PROVE  UNCHANGED <<r, w, rpc>>
  BY Zenon DEF Uart, Storing, Starting, uartputc_sleep, uartputc_store, uartputc_release,
         uartstart_take, uartstart_send, devintr, uartgetc, uartgetc_none, uartintr_release,
         consputc_poll, consputc, consoleintr_release, uart_send, uart_receive,
         consvars, readvars, txvars, intrvars, device

\* Every step keeps the variables within their types.
LEMMA ReaderType ==
  ASSUME TtyInv, NEW p \in Readers, Reading(p)
  PROVE  TtyType'
<1> USE DEF TtyInv, consvars, readvars, txvars, intrvars, device,
            TtyType, RGoto, Return
<1>1. CASE read_check(p)
  BY <1>1, Zenon DEF read_check
<1>2. CASE read_sleep(p)
  BY <1>2, Zenon DEF read_sleep
<1>3. CASE read_eof(p)
  BY <1>3 DEF read_eof
<1>4. CASE kill(p)
  BY <1>4, Zenon DEF kill
<1>5. ASSUME NEW k \in 1 .. INPUT_BUF_SIZE, read_chars(p, k) PROVE TtyType'
  BY <1>5, SMTT(60) DEF read_chars
<1>6. ASSUME NEW n \in Sizes, read(p, n) PROVE TtyType'
  BY <1>6, Zenon DEF read
<1> QED
  BY <1>1, <1>2, <1>3, <1>4, <1>5, <1>6, Zenon DEF Reading, ReaderStep

\* The types are kept by consolewrite() and uartputc().
LEMMA WriterType ==
  ASSUME TtyInv, NEW p \in Writers, Storing(p)
  PROVE  TtyType'
<1> USE DEF TtyInv, consvars, readvars, txvars, intrvars, device,
            TtyType, TxLockInv, Byte, Senders
<1>1. CASE uartputc_sleep(p)
  BY <1>1, Zenon DEF uartputc_sleep
<1>2. CASE uartputc_store(p)
  <2>1. txbuf' \in [0 .. UART_TX_BUF_SIZE - 1 -> Byte]
    <3>1. <<p, put[p]>> \in Byte
      BY Zenon
    <3> QED
      BY <1>2, <3>1, Zenon DEF uartputc_store
  <2>2. tx_w' \in Nat /\ put' \in [Writers -> Nat]
    BY <1>2, SMTT(30) DEF uartputc_store
  <2> QED
    BY <1>2, <2>1, <2>2, Zenon DEF uartputc_store
<1>3. CASE uartputc_release(p)
  BY <1>3, Zenon DEF uartputc_release
<1> QED
  BY <1>1, <1>2, <1>3, Zenon DEF Storing

\* The types are kept by uartstart().
LEMMA StartType ==
  ASSUME TtyInv, NEW a \in Senders, Starting(a)
  PROVE  TtyType'
<1> USE DEF TtyInv, consvars, readvars, txvars, intrvars, device,
            TtyType, TxLockInv, Byte, Senders, WriteTHR
<1>1. CASE uartstart_take(a)
  BY <1>1 DEF uartstart_take
<1>2. CASE uartstart_send(a)
  <2>1. lost' \in BOOLEAN
    BY <1>2, Zenon DEF uartstart_send, WriteTHR
  <2>2. thr' \in Seq(Byte)
    BY <1>2 DEF uartstart_send, WriteTHR, TtyType
  <2>3. hand' \in Byte
    BY <1>2, Zenon DEF uartstart_send, Byte, Senders
  <2> QED
    BY <1>2, <2>1, <2>2, <2>3, Zenon DEF uartstart_send, TtyType, WriteTHR
<1> QED
  BY <1>1, <1>2, Zenon DEF Starting

\* The types are kept by the UART and its interrupt handler.
LEMMA UartType ==
  ASSUME TtyInv, Uart
  PROVE  TtyType'
<1> USE DEF TtyInv, consvars, readvars, txvars, intrvars, device,
            TtyType, TxLockInv, Byte, Senders, WriteTHR
<1>1. CASE devintr
  BY <1>1, Zenon DEF devintr
<1>2. CASE uartgetc
  BY <1>2, Zenon DEF uartgetc
<1>3. CASE uartgetc_none
  BY <1>3, Zenon DEF uartgetc_none
<1>4. CASE uartintr_release
  BY <1>4, Zenon DEF uartintr_release
<1>5. CASE consputc_poll
  BY <1>5, Zenon DEF consputc_poll
<1>6. CASE consputc
  <2>1. lost' \in BOOLEAN
    BY <1>6, Zenon DEF consputc, WriteTHR
  <2>2. thr' \in Seq(Byte)
    <3>1. <<Intr, 0>> \in Byte
      BY Zenon DEF Byte, Senders
    <3> QED
      BY <1>6, <3>1 DEF consputc, WriteTHR, TtyType
  <2> QED
    BY <1>6, <2>1, <2>2, Zenon DEF consputc, TtyType, WriteTHR
<1>7. CASE consoleintr_release
  BY <1>7, Zenon DEF consoleintr_release
<1>8. CASE uart_send
  BY <1>8 DEF uart_send
<1>9. CASE uart_receive
  BY <1>9, Zenon DEF uart_receive
<1> QED
  BY <1>1, <1>2, <1>3, <1>4, <1>5, <1>6, <1>7, <1>8, <1>9, Zenon DEF Uart

\* The types are kept by consoleintr().
LEMMA IntrType ==
  ASSUME TtyInv, consoleintr
  PROVE  TtyType'
<1> USE DEF TtyInv, consvars, readvars, txvars, intrvars, device
<1>1. r' = r /\ (rpc' = rpc \/ rpc' = WakeReaders)
  BY Zenon DEF consoleintr, consoleintr_store, consoleintr_ignore, procdump, Erase
<1>2. rpc' \in [Readers -> {"idle", "loop", "sleep", "asleep"}]
  BY <1>1, Zenon DEF TtyType, WakeReaders
<1> QED
  BY <1>1, <1>2, Zenon DEF consoleintr, TtyType

\* uart_tx_lock passes from one holder to the next.
LEMMA WriterTxLock ==
  ASSUME TtyInv, NEW p \in Writers, Storing(p)
  PROVE  TxLockInv'
<1> USE DEF TtyInv, consvars, readvars, txvars, intrvars, device,
            TxLockInv, Senders, WriterLabels, HandlerLabels, Goto, Started, consolewrite, txlock
<1>1. CASE uartputc_sleep(p)
  BY <1>1, Zenon DEF uartputc_sleep
<1>2. CASE uartputc_store(p)
  BY <1>2, Zenon DEF uartputc_store
<1>3. CASE uartputc_release(p)
  BY <1>3, Zenon DEF uartputc_release
<1> QED
  BY <1>1, <1>2, <1>3, Zenon DEF Storing

\* uart_tx_lock keeps one holder: uartstart().
LEMMA StartTxLock ==
  ASSUME TtyInv, NEW a \in Senders, Starting(a)
  PROVE  TxLockInv'
<1> USE DEF TtyInv, consvars, readvars, txvars, intrvars, device,
            TxLockInv, Senders, WriterLabels, HandlerLabels, Goto, WakeWriters, txlock
<1>1. CASE uartstart_take(a)
  BY <1>1, Zenon DEF uartstart_take
<1>2. CASE uartstart_send(a)
  BY <1>2, Zenon DEF uartstart_send
<1> QED
  BY <1>1, <1>2, Zenon DEF Starting

\* uart_tx_lock keeps one holder: the UART and its interrupt handler.
LEMMA UartTxLock ==
  ASSUME TtyInv, Uart
  PROVE  TxLockInv'
<1> USE DEF TtyInv, consvars, readvars, txvars, intrvars, device,
            TxLockInv, Senders, WriterLabels, HandlerLabels, Goto, Started, txlock
<1>1. CASE devintr
  BY <1>1, Zenon DEF devintr
<1>2. CASE uartgetc
  BY <1>2, Zenon DEF uartgetc
<1>3. CASE uartgetc_none
  BY <1>3, Zenon DEF uartgetc_none
<1>4. CASE uartintr_release
  BY <1>4, Zenon DEF uartintr_release
<1>5. CASE consputc_poll
  BY <1>5, Zenon DEF consputc_poll
<1>6. CASE consputc
  BY <1>6, Zenon DEF consputc
<1>7. CASE consoleintr_release
  BY <1>7, Zenon DEF consoleintr_release
<1>8. CASE uart_send
  BY <1>8, Zenon DEF uart_send
<1>9. CASE uart_receive
  BY <1>9, Zenon DEF uart_receive
<1> QED
  BY <1>1, <1>2, <1>3, <1>4, <1>5, <1>6, <1>7, <1>8, <1>9, Zenon DEF Uart

\* uart_tx_lock keeps one holder: consoleintr().
LEMMA IntrTxLock ==
  ASSUME TtyInv, consoleintr
  PROVE  TxLockInv'
  BY Zenon DEF TtyInv, consvars, readvars, txvars, intrvars, device, consoleintr, consoleintr_store,
         consoleintr_ignore, procdump, Erase, TxLockInv, Senders, WriterLabels, HandlerLabels,
         Goto, WakeWriters, Started, consolewrite, txlock

\* cons.lock passes from one holder to the next.
LEMMA ReaderConsLock ==
  ASSUME TtyInv, NEW p \in Readers, Reading(p)
  PROVE  ConsLockInv'
<1> USE DEF TtyInv, consvars, readvars, txvars, intrvars, device,
            TtyType, TxLockInv, ConsLockInv, RGoto, Return, conslock
<1>1. CASE read_check(p)
  BY <1>1, Zenon DEF read_check
<1>2. CASE read_sleep(p)
  BY <1>2, Zenon DEF read_sleep
<1>3. CASE read_eof(p)
  BY <1>3, Zenon DEF read_eof
<1>4. CASE kill(p)
  BY <1>4, Zenon DEF kill
<1>5. ASSUME NEW k \in 1 .. INPUT_BUF_SIZE, read_chars(p, k) PROVE ConsLockInv'
  BY <1>5, Zenon DEF read_chars
<1>6. ASSUME NEW n \in Sizes, read(p, n) PROVE ConsLockInv'
  BY <1>6, Zenon DEF read
<1> QED
  BY <1>1, <1>2, <1>3, <1>4, <1>5, <1>6, Zenon DEF Reading, ReaderStep

\* cons.lock keeps one holder: consolewrite() and uartputc().
LEMMA WriterConsLock ==
  ASSUME TtyInv, NEW p \in Writers, Storing(p)
  PROVE  ConsLockInv'
<1> USE DEF TtyInv, consvars, readvars, txvars, intrvars, device,
            TtyType, TxLockInv, ConsLockInv, Senders, Goto, conslock, HandlerLabels
<1>1. CASE uartputc_sleep(p)
  BY <1>1, Zenon DEF uartputc_sleep
<1>2. CASE uartputc_store(p)
  BY <1>2, Zenon DEF uartputc_store
<1>3. CASE uartputc_release(p)
  BY <1>3, Zenon DEF uartputc_release
<1> QED
  BY <1>1, <1>2, <1>3, Zenon DEF Storing

\* cons.lock keeps one holder: uartstart().
LEMMA StartConsLock ==
  ASSUME TtyInv, NEW a \in Senders, Starting(a)
  PROVE  ConsLockInv'
<1> USE DEF TtyInv, consvars, readvars, txvars, intrvars, device,
            TtyType, TxLockInv, ConsLockInv, Senders, Goto, WakeWriters, conslock, HandlerLabels
<1>1. CASE uartstart_take(a)
  BY <1>1, Zenon DEF uartstart_take
<1>2. CASE uartstart_send(a)
  BY <1>2, Zenon DEF uartstart_send
<1> QED
  BY <1>1, <1>2, Zenon DEF Starting

\* cons.lock keeps one holder: the UART and its interrupt handler.
LEMMA UartConsLock ==
  ASSUME TtyInv, Uart
  PROVE  ConsLockInv'
<1> USE DEF TtyInv, consvars, readvars, txvars, intrvars, device,
            TtyType, TxLockInv, ConsLockInv, Senders, Goto, conslock, HandlerLabels
<1>1. CASE devintr
  BY <1>1, Zenon DEF devintr
<1>2. CASE uartgetc
  BY <1>2, Zenon DEF uartgetc
<1>3. CASE uartgetc_none
  BY <1>3, Zenon DEF uartgetc_none
<1>4. CASE uartintr_release
  BY <1>4, Zenon DEF uartintr_release
<1>5. CASE consputc_poll
  BY <1>5, Zenon DEF consputc_poll
<1>6. CASE consputc
  BY <1>6, Zenon DEF consputc
<1>7. CASE consoleintr_release
  BY <1>7, Zenon DEF consoleintr_release
<1>8. CASE uart_send
  BY <1>8, Zenon DEF uart_send
<1>9. CASE uart_receive
  BY <1>9, Zenon DEF uart_receive
<1> QED
  BY <1>1, <1>2, <1>3, <1>4, <1>5, <1>6, <1>7, <1>8, <1>9, Zenon DEF Uart

\* cons.lock keeps one holder: consoleintr().
LEMMA IntrConsLock ==
  ASSUME TtyInv, consoleintr
  PROVE  ConsLockInv'
  BY DEF TtyInv, consvars, readvars, txvars, intrvars, device, consoleintr, consoleintr_store,
         consoleintr_ignore, procdump, Erase, TtyType, TxLockInv, ConsLockInv, Senders, Goto,
         RGoto, Return, WakeWriters, WakeReaders, conslock, HandlerLabels

\* A byte is written to THR only while the FIFO has room for it.
LEMMA WriterFifo ==
  ASSUME TtyInv, NEW p \in Writers, Storing(p)
  PROVE  FifoInv'
<1> USE DEF TtyInv, consvars, readvars, txvars, intrvars, device,
            TtyType, TxLockInv, FifoInv, Sending, Echoing, Senders, Byte, WriterLabels,
            HandlerLabels, Goto, Idle, consolewrite, txlock
<1>1. CASE uartputc_sleep(p)
  BY <1>1, Zenon DEF uartputc_sleep
<1>2. CASE uartputc_store(p)
  BY <1>2, Zenon DEF uartputc_store
<1>3. CASE uartputc_release(p)
  BY <1>3, Zenon DEF uartputc_release
<1> QED
  BY <1>1, <1>2, <1>3, Zenon DEF Storing

\* THR is written with room in the FIFO: uartstart().
LEMMA StartFifo ==
  ASSUME TtyInv, NEW a \in Senders, Starting(a)
  PROVE  FifoInv'
<1> USE DEF TtyInv, consvars, readvars, txvars, intrvars, device,
            TtyType, TxLockInv, FifoInv, Sending, Echoing, Senders, Byte, WriterLabels,
            HandlerLabels, Goto, WakeWriters, WriteTHR, Idle, txlock
<1>1. CASE uartstart_take(a)
  BY <1>1 DEF uartstart_take
<1>2. CASE uartstart_send(a)
  BY <1>2 DEF uartstart_send
<1> QED
  BY <1>1, <1>2, Zenon DEF Starting

\* THR is written with room in the FIFO: the UART and its interrupt handler.
LEMMA UartFifo ==
  ASSUME TtyInv, Uart
  PROVE  FifoInv'
<1> USE DEF TtyInv, consvars, readvars, txvars, intrvars, device,
            TtyType, TxLockInv, FifoInv, Sending, Echoing, Senders, Byte, WriterLabels,
            HandlerLabels, Goto, WriteTHR, Idle, txlock
<1>1. CASE devintr
  BY <1>1, Zenon DEF devintr
<1>2. CASE uartgetc
  BY <1>2, Zenon DEF uartgetc
<1>3. CASE uartgetc_none
  BY <1>3, Zenon DEF uartgetc_none
<1>4. CASE uartintr_release
  BY <1>4, Zenon DEF uartintr_release
<1>5. CASE consputc_poll
  BY <1>5 DEF consputc_poll
<1>6. CASE consputc
  BY <1>6, SMTT(60) DEF consputc
<1>7. CASE consoleintr_release
  BY <1>7, Zenon DEF consoleintr_release
<1>8. CASE uart_send
  BY <1>8 DEF uart_send
<1>9. CASE uart_receive
  BY <1>9, Zenon DEF uart_receive
<1> QED
  BY <1>1, <1>2, <1>3, <1>4, <1>5, <1>6, <1>7, <1>8, <1>9, Zenon DEF Uart

\* THR is written with room in the FIFO: consoleintr().
LEMMA IntrFifo ==
  ASSUME TtyInv, consoleintr
  PROVE  FifoInv'
  BY Zenon DEF TtyInv, consvars, readvars, txvars, intrvars, device, consoleintr, consoleintr_store,
         consoleintr_ignore, procdump, Erase, TtyType, TxLockInv, FifoInv, Sending, Echoing,
         Senders, Byte, WriterLabels, HandlerLabels, Goto, WakeWriters, WriteTHR, Idle,
         consolewrite, txlock

\* Whoever leaves bytes in the buffer leaves a busy UART or an interrupt behind.
LEMMA WriterAlive ==
  ASSUME TtyInv, NEW p \in Writers, Storing(p)
  PROVE  TxAlive'
<1> USE DEF TtyInv, consvars, readvars, txvars, intrvars, device,
            TtyType, TxLockInv, TxAlive, Senders, Byte, WriterLabels, HandlerLabels, Goto, Idle,
            Started, consolewrite, txlock, Full
<1>1. CASE uartputc_sleep(p)
  BY <1>1, Zenon DEF uartputc_sleep
<1>2. CASE uartputc_store(p)
  BY <1>2, Zenon DEF uartputc_store
<1>3. CASE uartputc_release(p)
  BY <1>3, Zenon DEF uartputc_release
<1> QED
  BY <1>1, <1>2, <1>3, Zenon DEF Storing

\* Buffered bytes keep a cause to move: uartstart().
LEMMA StartAlive ==
  ASSUME TtyInv, NEW a \in Senders, Starting(a)
  PROVE  TxAlive'
<1> USE DEF TtyInv, consvars, readvars, txvars, intrvars, device,
            TtyType, TxLockInv, TxAlive, Senders, Byte, WriterLabels, HandlerLabels, Goto,
            WakeWriters, WriteTHR, Idle, txlock, Full
<1>1. CASE uartstart_take(a)
  BY <1>1, Zenon DEF uartstart_take
<1>2. CASE uartstart_send(a)
  BY <1>2, Zenon DEF uartstart_send
<1> QED
  BY <1>1, <1>2, Zenon DEF Starting

\* Buffered bytes keep a cause to move: the UART and its interrupt handler.
LEMMA UartAlive ==
  ASSUME TtyInv, Uart
  PROVE  TxAlive'
<1> USE DEF TtyInv, consvars, readvars, txvars, intrvars, device,
            TtyType, TxLockInv, TxAlive, Senders, Byte, WriterLabels, HandlerLabels, Goto,
            WriteTHR, Idle, Started, txlock, Full
<1>1. CASE devintr
  BY <1>1, Zenon DEF devintr
<1>2. CASE uartgetc
  BY <1>2, Zenon DEF uartgetc
<1>3. CASE uartgetc_none
  BY <1>3, Zenon DEF uartgetc_none
<1>4. CASE uartintr_release
  BY <1>4, Zenon DEF uartintr_release
<1>5. CASE consputc_poll
  BY <1>5, Zenon DEF consputc_poll
<1>6. CASE consputc
  BY <1>6, Zenon DEF consputc
<1>7. CASE consoleintr_release
  BY <1>7, Zenon DEF consoleintr_release
<1>8. CASE uart_send
  <2>1. thr' = <<>> => pending'
    <3>1. thr' = <<>> => Len(thr) = 1
      <4>1. Len(thr) \in Nat /\ Len(thr) # 0 /\ Len(thr') = Len(thr) - 1
        BY <1>8, SMTT(60) DEF uart_send, TtyType
      <4> QED
        BY <4>1
    <3>2. Len(thr) = 1 => pending'
      BY <1>8, Zenon DEF uart_send
    <3> QED
      BY <3>1, <3>2, Zenon
  <2>2. UNCHANGED <<tx_w, tx_r, tpc>>
    BY <1>8, Zenon DEF uart_send
  <2> QED
    BY <2>1, <2>2, Zenon DEF TxAlive, txlock, Full
<1>9. CASE uart_receive
  BY <1>9, Zenon DEF uart_receive
<1> QED
  BY <1>1, <1>2, <1>3, <1>4, <1>5, <1>6, <1>7, <1>8, <1>9, Zenon DEF Uart

\* Buffered bytes keep a cause to move: consoleintr().
LEMMA IntrAlive ==
  ASSUME TtyInv, consoleintr
  PROVE  TxAlive'
  BY Zenon DEF TtyInv, consvars, readvars, txvars, intrvars, device, consoleintr, consoleintr_store,
         consoleintr_ignore, procdump, Erase, TtyType, TxLockInv, TxAlive, Senders, Byte,
         WriterLabels, HandlerLabels, Goto, WakeWriters, WriteTHR, Idle, Started, consolewrite,
         txlock, Full

\* Input appears only while no reader is asleep or about to sleep.
LEMMA ReaderSleep ==
  ASSUME TtyInv, NEW p \in Readers, Reading(p)
  PROVE  ReaderAwake'
<1> USE DEF TtyInv, consvars, readvars, txvars, intrvars, device,
            TtyType, ConsLockInv, ReaderAwake, RGoto, Return, conslock
<1>1. CASE read_check(p)
  BY <1>1, Zenon DEF read_check
<1>2. CASE read_sleep(p)
  BY <1>2, Zenon DEF read_sleep
<1>3. CASE read_eof(p)
  BY <1>3, Zenon DEF read_eof
<1>4. CASE kill(p)
  BY <1>4, Zenon DEF kill
<1>5. ASSUME NEW k \in 1 .. INPUT_BUF_SIZE, read_chars(p, k) PROVE ReaderAwake'
  <2>1. r # w
    <3>1. ASSUME r = w PROVE Minus(w, r) = 0
      BY <3>1 DEF Minus, TtyType
    <3> QED
      BY <1>5, <3>1, SMTT(60) DEF read_chars
  <2>2. \A q \in Readers : rpc[q] \notin {"sleep", "asleep"}
    BY <2>1, Zenon DEF ReaderAwake
  <2> QED
    BY <1>5, <2>2, Zenon DEF read_chars, ReaderAwake, TtyType, RGoto, Return
<1>6. ASSUME NEW n \in Sizes, read(p, n) PROVE ReaderAwake'
  BY <1>6, Zenon DEF read
<1> QED
  BY <1>1, <1>2, <1>3, <1>4, <1>5, <1>6, Zenon DEF Reading, ReaderStep

\* No reader sleeps beside input: consoleintr().
LEMMA IntrSleep ==
  ASSUME TtyInv, consoleintr
  PROVE  ReaderAwake'
  BY Zenon DEF TtyInv, consvars, readvars, txvars, intrvars, device, consoleintr, consoleintr_store,
         consoleintr_ignore, procdump, Erase, TtyType, ConsLockInv, ReaderAwake, RGoto, Return,
         WakeReaders, conslock

\* Init establishes the invariant.
LEMMA InitInv == Init => TtyInv
<1> SUFFICES ASSUME Init PROVE TtyInv
  BY Zenon
<1> USE DEF Init, Senders
<1>1. TtyType
  <2>1. Start % UINT \in 0 .. UINT - 1
    OBVIOUS
  <2>2. thr \in Seq(Byte) /\ hand \in Byte /\ tx_r \in Nat /\ tx_w \in Nat
    BY DEF Byte
  <2>3. txbuf \in [0 .. UART_TX_BUF_SIZE - 1 -> Byte] /\ put \in [Writers -> Nat]
    BY Zenon DEF Byte
  <2>4. r \in 0 .. UINT - 1
    BY <2>1, Zenon
  <2> QED
    BY <2>2, <2>3, <2>4, Zenon DEF TtyType
<1>2. TxLockInv /\ ConsLockInv
  BY Zenon DEF TxLockInv, ConsLockInv, WriterLabels, HandlerLabels
<1>3. FifoInv
  BY DEF FifoInv, Sending, Echoing
<1>4. TxAlive /\ ReaderAwake
  BY Zenon DEF TxAlive, ReaderAwake
<1> QED
  BY <1>1, <1>2, <1>3, <1>4, Zenon DEF TtyInv

\* TtyInv is inductive.
LEMMA NextInv == TtyInv /\ [Next]_vars => TtyInv'
<1> SUFFICES ASSUME TtyInv, [Next]_vars PROVE TtyInv'
  BY Zenon
<1> USE DEF TtyInv
<1>1. CASE UNCHANGED vars
  BY <1>1, Zenon DEF vars, consvars, readvars, txvars, intrvars, device, TtyType, TxLockInv, ConsLockInv,
         FifoInv, Sending, Echoing, TxAlive, txlock, Full, ReaderAwake
<1>2. ASSUME NEW p \in Readers, Reading(p) PROVE TtyInv'
  <2>1. TxLockInv' /\ FifoInv' /\ TxAlive'
    BY <1>2, ReaderOutput, Zenon
       DEF TxLockInv, FifoInv, Sending, Echoing, TxAlive, txlock, Full, txvars, device
  <2> QED
    BY <1>2, <2>1, ReaderType, ReaderConsLock, ReaderSleep, Zenon
<1>3. ASSUME NEW p \in Writers, Storing(p) PROVE TtyInv'
  <2>1. ReaderAwake'
    BY <1>3, OutputReader, Zenon DEF ReaderAwake
  <2> QED
    BY <1>3, <2>1, WriterType, WriterTxLock, WriterConsLock, WriterFifo, WriterAlive, Zenon
<1>4. ASSUME NEW a \in Senders, Starting(a) PROVE TtyInv'
  <2>1. ReaderAwake'
    BY <1>4, OutputReader, Zenon DEF ReaderAwake
  <2> QED
    BY <1>4, <2>1, StartType, StartTxLock, StartConsLock, StartFifo, StartAlive, Zenon
<1>5. CASE Uart
  <2>1. ReaderAwake'
    BY <1>5, OutputReader, Zenon DEF ReaderAwake
  <2> QED
    BY <1>5, <2>1, UartType, UartTxLock, UartConsLock, UartFifo, UartAlive, Zenon
<1>6. CASE consoleintr
  BY <1>6, IntrType, IntrTxLock, IntrConsLock, IntrFifo, IntrAlive, IntrSleep, Zenon
<1> QED
  BY <1>1, <1>2, <1>3, <1>4, <1>5, <1>6, Zenon
  DEF Next, Reading, WriterStep, Storing, Starting, Handler, Uart, Senders

\* The inductive invariant of console and UART driver holds in every reachable
\* state.
THEOREM TtyInvariant == Spec => []TtyInv
  BY InitInv, NextInv, PTL DEF Spec

\* Buffered output never gets stuck: bytes in uart_tx_buf have a busy UART, a
\* pending interrupt or somebody on the way to uartstart() (uart.c:139-147).
THEOREM TxAliveHolds == Spec => []TxAlive
<1>1. TtyInv => TxAlive
  BY Zenon DEF TtyInv
<1> QED
  BY <1>1, TtyInvariant, PTL

\* No reader sleeps, or is about to, beside input to read (console.c:88-97).
THEOREM ReaderAwakeHolds == Spec => []ReaderAwake
<1>1. TtyInv => ReaderAwake
  BY Zenon DEF TtyInv
<1> QED
  BY <1>1, TtyInvariant, PTL

\* The echo of consputc() and uartstart() write THR under different locks
\* (uart.c:116-157), and yet no byte is written to a full FIFO.
THEOREM NothingDropped == Spec => []~lost
<1>1. TtyInv => ~lost
  BY Zenon DEF TtyInv, FifoInv
<1> QED
  BY <1>1, TtyInvariant, PTL

HIDE TtyAssumption
-----------------------------------------------------------------------------
(* The input half implements Terminal.                                     *)

\* The sizes of the ring and of its indices.
LEMMA Sized ==
  /\ INPUT_BUF_SIZE \in Nat /\ INPUT_BUF_SIZE > 0
  /\ UINT \in Nat /\ UINT > 0 /\ UINT > 1 /\ INPUT_BUF_SIZE < UINT
  BY TtyAssumption

\* The range of the indices is a multiple of the ring.
LEMMA Whole == UINT % INPUT_BUF_SIZE = 0
  BY TtyAssumption, Zenon

\* Two steps forward are one.
LEMMA Forward ==
  ASSUME NEW x \in 0 .. UINT - 1, NEW j \in Nat, NEW k \in Nat, j + k < UINT,
         NEW y, y = (x + j) % UINT
  PROVE  (y + k) % UINT = (x + (j + k)) % UINT
<1>1. UINT \in Nat /\ UINT > 0
  BY Sized, Zenon
<1> QED
  BY <1>1, Advance, SMT

\* A step forward and a smaller one back.
LEMMA Backward ==
  ASSUME NEW x \in 0 .. UINT - 1, NEW j \in 0 .. UINT - 1, NEW k \in 0 .. j,
         NEW y, y = (x + j) % UINT
  PROVE  (y + UINT - k) % UINT = (x + (j - k)) % UINT
<1>1. UINT \in Nat /\ UINT > 0
  BY Sized, Zenon
<1> QED
  BY <1>1, Retreat, SMT

\* Slots do not depend on whether an index has wrapped.
LEMMA SameSlot ==
  ASSUME NEW x \in 0 .. UINT - 1, NEW d \in 0 .. UINT - 1, NEW y, y = (x + d) % UINT, NEW j \in Nat
  PROVE  (y + j) % INPUT_BUF_SIZE = (x + d + j) % INPUT_BUF_SIZE
<1>1. PICK c \in 0 .. 2 * UINT - 1 : c = x + d
  BY Sized
<1>2. y = IF c < UINT THEN c ELSE c - UINT
  BY <1>1, Sized, SmallMod, Zenon
<1>3. PICK z \in Nat : z = y + j
  BY <1>1, <1>2, Sized
<1>4. x + d + j = z \/ x + d + j = z + UINT
  BY <1>1, <1>2, <1>3, Sized
<1>5. (z + UINT) % INPUT_BUF_SIZE = z % INPUT_BUF_SIZE
  BY Sized, Whole, AddMultiple, Zenon
<1> QED
  BY <1>3, <1>4, <1>5, Zenon

\* The characters that can stand in cons.buf.
Chars == {Stored(c) : c \in Keys} \cup {"nul"}
Bufs == [0 .. INPUT_BUF_SIZE - 1 -> Chars]

\* The n characters from index x on.
View(B, x, n) == [i \in 1 .. n |-> B[(x + i - 1) % INPUT_BUF_SIZE]]

\* A view is a sequence of characters.
LEMMA ViewSeq ==
  ASSUME NEW B \in Bufs, NEW x \in Nat, NEW n \in Nat
  PROVE  /\ View(B, x, n) \in Seq(Chars) /\ Len(View(B, x, n)) = n
         /\ \A i \in 1 .. n : View(B, x, n)[i] = B[(x + i - 1) % INPUT_BUF_SIZE]
<1>1. \A i \in 1 .. n : (x + i - 1) % INPUT_BUF_SIZE \in 0 .. INPUT_BUF_SIZE - 1
  BY Sized
<1>2. View(B, x, n) \in [1 .. n -> Chars]
  BY <1>1, Zenon DEF View, Bufs
<1>3. \A i \in 1 .. n : View(B, x, n)[i] = B[(x + i - 1) % INPUT_BUF_SIZE]
  BY Zenon DEF View
<1> QED
  BY <1>2, <1>3

\* A view is what its elements are.
LEMMA ViewEqual ==
  ASSUME NEW B \in Bufs, NEW x \in Nat, NEW n \in Nat,
         NEW s \in Seq(Chars), Len(s) = n,
         \A i \in 1 .. n : s[i] = B[(x + i - 1) % INPUT_BUF_SIZE]
  PROVE  s = View(B, x, n)
<1>1. View(B, x, n) \in Seq(Chars) /\ Len(View(B, x, n)) = n
  BY ViewSeq, Zenon
<1>2. \A i \in 1 .. n : s[i] = View(B, x, n)[i]
  BY Zenon DEF View
<1> QED
  BY <1>1, <1>2

\* A view does not depend on whether its index has wrapped.
LEMMA ViewWrap ==
  ASSUME NEW B, NEW x \in 0 .. UINT - 1, NEW d \in 0 .. UINT - 1, NEW y, y = (x + d) % UINT,
         NEW n \in Nat
  PROVE  View(B, y, n) = View(B, x + d, n)
<1>1. y \in Nat
  BY Sized
<1>2. ASSUME NEW i \in 1 .. n
      PROVE  (y + i - 1) % INPUT_BUF_SIZE = (x + d + i - 1) % INPUT_BUF_SIZE
  <2>1. PICK j \in Nat : j = i - 1
    OBVIOUS
  <2>2. (y + j) % INPUT_BUF_SIZE = (x + d + j) % INPUT_BUF_SIZE
    BY SameSlot
  <2>3. y + i - 1 = y + j /\ x + d + i - 1 = x + d + j
    BY <1>1, <2>1, Zenon
  <2> QED
    BY <2>2, <2>3, Zenon
<1> QED
  BY <1>2, Zenon DEF View

\* The slot behind a view holds its next element, and writing it changes no other.
LEMMA ViewAppend ==
  ASSUME buf \in Bufs, NEW c \in Chars, buf' = [buf EXCEPT ![e % INPUT_BUF_SIZE] = c],
         NEW x \in Nat, NEW n \in 0 .. INPUT_BUF_SIZE - 1,
         e % INPUT_BUF_SIZE = (x + n) % INPUT_BUF_SIZE
  PROVE  /\ \A m \in 0 .. n : View(buf', x, m) = View(buf, x, m)
         /\ View(buf', x, n + 1) = Append(View(buf, x, n), c)
<1>0. PICK B, C : B = buf /\ C = buf' /\ C = [B EXCEPT ![(x + n) % INPUT_BUF_SIZE] = c]
  BY Zenon
<1>1. B \in Bufs /\ C \in Bufs /\ n \in Nat
  BY <1>0, Sized DEF Bufs
<1>2. ASSUME NEW i \in 1 .. n
      PROVE  C[(x + i - 1) % INPUT_BUF_SIZE] = B[(x + i - 1) % INPUT_BUF_SIZE]
  <2>1. PICK a \in Nat, b \in Nat : a = x + i - 1 /\ b = x + n
    BY <1>1
  <2>2. a <= b /\ a # b /\ b < a + INPUT_BUF_SIZE
    BY <2>1, Sized
  <2>3. a % INPUT_BUF_SIZE # b % INPUT_BUF_SIZE
    BY <2>2, Sized, Distinct, Zenon
  <2> QED
    BY <1>0, <1>1, <2>1, <2>3 DEF Bufs
<1>3. ASSUME NEW m \in 0 .. n PROVE View(C, x, m) = View(B, x, m)
  <2>1. \A i \in 1 .. m : i \in 1 .. n
    BY <1>1
  <2>2. \A i \in 1 .. m : C[(x + i - 1) % INPUT_BUF_SIZE] = B[(x + i - 1) % INPUT_BUF_SIZE]
    BY <1>2, <2>1, Zenon
  <2> QED
    BY <2>2, Zenon DEF View
<1>4. C[(x + (n + 1) - 1) % INPUT_BUF_SIZE] = c
  <2>1. x + (n + 1) - 1 = x + n
    BY <1>1
  <2>2. (x + n) % INPUT_BUF_SIZE \in 0 .. INPUT_BUF_SIZE - 1
    BY <1>1, Sized
  <2> QED
    BY <1>0, <1>1, <2>1, <2>2, Zenon DEF Bufs
<1> DEFINE s == View(B, x, n)
<1>5. s \in Seq(Chars) /\ Len(s) = n /\ \A i \in 1 .. n : s[i] = B[(x + i - 1) % INPUT_BUF_SIZE]
  BY <1>1, ViewSeq, Zenon
<1> HIDE DEF s
<1>6. /\ Append(s, c) \in Seq(Chars) /\ Len(Append(s, c)) = n + 1
      /\ \A i \in 1 .. n : Append(s, c)[i] = s[i]
      /\ Append(s, c)[n + 1] = c
  BY <1>5
<1>7. ASSUME NEW i \in 1 .. n + 1 PROVE Append(s, c)[i] = C[(x + i - 1) % INPUT_BUF_SIZE]
  <2>1. i \in 1 .. n \/ i = n + 1
    BY <1>1
  <2>2. CASE i \in 1 .. n
    BY <1>2, <1>5, <1>6, <2>2, Zenon
  <2>3. CASE i = n + 1
    BY <1>4, <1>6, <2>3, Zenon
  <2> QED
    BY <2>1, <2>2, <2>3, Zenon
<1>8. Append(s, c) = View(C, x, n + 1)
  <2>1. n + 1 \in Nat
    BY <1>1
  <2> QED
    BY <1>1, <1>6, <1>7, <2>1, ViewEqual, Zenon
<1> QED
  BY <1>0, <1>3, <1>8, Zenon DEF s

\* Two views side by side are one.
LEMMA ViewConcat ==
  ASSUME NEW B \in Bufs, NEW x \in Nat,
         NEW m \in Nat, NEW n \in Nat
  PROVE  View(B, x, m) \o View(B, x + m, n) = View(B, x, m + n)
<1> DEFINE s == View(B, x, m)
           t == View(B, x + m, n)
<1>0. x + m \in Nat
  OBVIOUS
<1>1. s \in Seq(Chars) /\ Len(s) = m /\ \A i \in 1 .. m : s[i] = B[(x + i - 1) % INPUT_BUF_SIZE]
  BY ViewSeq, Zenon
<1>2. t \in Seq(Chars) /\ Len(t) = n /\ \A i \in 1 .. n : t[i] = B[(x + m + i - 1) % INPUT_BUF_SIZE]
  BY <1>0, ViewSeq, Zenon
<1> HIDE DEF s, t
<1>3. /\ s \o t \in Seq(Chars) /\ Len(s \o t) = m + n
      /\ \A i \in 1 .. m + n : (s \o t)[i] = IF i <= m THEN s[i] ELSE t[i - m]
  <2>1. s \in Seq(Chars) /\ t \in Seq(Chars) /\ Len(s) = m /\ Len(t) = n
    BY <1>1, <1>2, Zenon
  <2> QED
    BY <2>1
<1>4. ASSUME NEW i \in 1 .. m + n PROVE (s \o t)[i] = B[(x + i - 1) % INPUT_BUF_SIZE]
  <2>1. CASE i <= m
    BY <1>1, <1>3, <2>1
  <2>2. CASE ~ (i <= m)
    <3>1. i - m \in 1 .. n /\ x + m + (i - m) - 1 = x + i - 1
      BY <2>2
    <3>2. t[i - m] = B[(x + m + (i - m) - 1) % INPUT_BUF_SIZE]
      BY <1>2, <3>1, Zenon
    <3> QED
      BY <1>3, <2>2, <3>1, <3>2, Zenon
  <2> QED
    BY <2>1, <2>2, Zenon
<1>5. m + n \in Nat
  OBVIOUS
<1>6. s \o t = View(B, x, m + n)
  BY <1>3, <1>4, <1>5, ViewEqual, Zenon
<1> QED
  BY <1>6, Zenon DEF s, t

\* Part of a view is a view.
LEMMA ViewSub ==
  ASSUME NEW B \in Bufs, NEW x \in Nat, NEW n \in Nat,
         NEW j \in 0 .. n, NEW k \in j .. n
  PROVE  SubSeq(View(B, x, n), j + 1, k) = View(B, x + j, k - j)
<1> DEFINE s == View(B, x, n)
<1>1. s \in Seq(Chars) /\ Len(s) = n /\ \A i \in 1 .. n : s[i] = B[(x + i - 1) % INPUT_BUF_SIZE]
  BY ViewSeq, Zenon
<1> HIDE DEF s
<1>2. \A i \in j + 1 .. k : s[i] \in Chars
  BY <1>1
<1>3. /\ SubSeq(s, j + 1, k) \in Seq(Chars)
      /\ Len(SubSeq(s, j + 1, k)) = IF j + 1 <= k THEN k - (j + 1) + 1 ELSE 0
      /\ \A i \in 1 .. k - (j + 1) + 1 : SubSeq(s, j + 1, k)[i] = s[j + 1 + i - 1]
  BY <1>2
<1>4. Len(SubSeq(s, j + 1, k)) = k - j /\ k - j \in Nat /\ x + j \in Nat
  BY <1>3
<1>5. ASSUME NEW i \in 1 .. k - j
      PROVE  SubSeq(s, j + 1, k)[i] = B[(x + j + i - 1) % INPUT_BUF_SIZE]
  <2>1. j + i \in 1 .. n /\ j + 1 + i - 1 = j + i /\ x + (j + i) - 1 = x + j + i - 1
    OBVIOUS
  <2>2. SubSeq(s, j + 1, k)[i] = s[j + i]
    BY <1>3, <2>1
  <2>3. s[j + i] = B[(x + (j + i) - 1) % INPUT_BUF_SIZE]
    BY <1>1, <2>1, Zenon
  <2> QED
    BY <2>1, <2>2, <2>3, Zenon
<1>6. SubSeq(s, j + 1, k) = View(B, x + j, k - j)
  BY <1>3, <1>4, <1>5, ViewEqual, Zenon
<1> QED
  BY <1>6, Zenon DEF s

\* What is typed, received and being handled are keys.
KeyInv == key \in Keys \cup {"nul"} /\ rhr \in Seq(Keys) /\ typing \in Seq(Keys)

\* cons.r, cons.w and cons.e follow each other within the size of the ring, and a
\* newline is never left in the line being edited.
LineInv ==
  /\ buf \in Bufs
  /\ r \in 0 .. UINT - 1 /\ w \in 0 .. UINT - 1 /\ e \in 0 .. UINT - 1
  /\ Minus(w, r) + Minus(e, w) <= INPUT_BUF_SIZE
  /\ \A i \in 1 .. Minus(e, w) : buf[(w + i - 1) % INPUT_BUF_SIZE] # "\n"

\* Where w and e stand, seen from r.
LEMMA Marks ==
  ASSUME LineInv, NEW a, a = Minus(w, r), NEW b, b = Minus(e, w)
  PROVE  /\ a \in 0 .. UINT - 1 /\ b \in 0 .. UINT - 1 /\ a + b \in 0 .. INPUT_BUF_SIZE
         /\ w = (r + a) % UINT /\ e = (w + b) % UINT /\ e = (r + (a + b)) % UINT
         /\ Minus(e, r) = a + b
<1>1. r \in 0 .. UINT - 1 /\ w \in 0 .. UINT - 1 /\ e \in 0 .. UINT - 1
  BY Zenon DEF LineInv
<1>2. a \in 0 .. UINT - 1 /\ w = (r + a) % UINT
  BY <1>1, Sized, Position DEF Minus
<1>3. b \in 0 .. UINT - 1 /\ e = (w + b) % UINT
  BY <1>1, Sized, Position DEF Minus
<1>4. a + b \in 0 .. INPUT_BUF_SIZE
  <2>1. a + b <= INPUT_BUF_SIZE
    BY Zenon DEF LineInv
  <2> QED
    BY <1>2, <1>3, <2>1, Sized
<1>5. (w + b) % UINT = (r + (a + b)) % UINT
  <2>1. a \in Nat /\ b \in Nat /\ a + b < UINT
    BY <1>2, <1>3, <1>4, Sized
  <2>2. r \in 0 .. UINT - 1 /\ w = (r + a) % UINT
    BY <1>1, <1>2, Zenon
  <2> QED
    BY <2>1, <2>2, Forward, ZenonT(60)
<1>6. PICK d \in 0 .. UINT - 1 : d = a + b
  BY <1>4, Sized
<1>7. (e + UINT - r) % UINT = d
  <2>1. e = (r + d) % UINT
    BY <1>3, <1>5, <1>6, Zenon
  <2> QED
    BY <1>1, <2>1, Sized, Apart, Zenon
<1> QED
  BY <1>2, <1>3, <1>4, <1>5, <1>6, <1>7, Zenon DEF Minus

\* The input and the line as views from r.
LEMMA Views ==
  ASSUME LineInv, NEW a, a = Minus(w, r), NEW b, b = Minus(e, w)
  PROVE  /\ Ring(r, w) = View(buf, r, a) /\ Ring(w, e) = View(buf, w, b)
         /\ Ring(w, e) = View(buf, r + a, b)
         /\ Len(Ring(r, w)) = a /\ Len(Ring(w, e)) = b
<1>1. /\ a \in 0 .. UINT - 1 /\ b \in 0 .. UINT - 1
      /\ r \in 0 .. UINT - 1 /\ w \in 0 .. UINT - 1 /\ w = (r + a) % UINT
  BY Marks, Zenon DEF LineInv
<1>2. Ring(r, w) = View(buf, r, a) /\ Ring(w, e) = View(buf, w, b)
  BY Zenon DEF Ring, View
<1>3. View(buf, w, b) = View(buf, r + a, b)
  BY <1>1, Sized, ViewWrap
<1>4. Len(View(buf, r, a)) = a /\ Len(View(buf, w, b)) = b
  <2>1. r \in Nat /\ w \in Nat /\ a \in Nat /\ b \in Nat
    BY <1>1, Sized
  <2>2. buf \in Bufs
    BY Zenon DEF LineInv
  <2> QED
    BY <2>1, <2>2, ViewSeq, Zenon
<1> QED
  BY <1>2, <1>3, <1>4, Zenon

\* consoleread() takes the oldest k characters.
LEMMA TakeLine ==
  ASSUME LineInv, NEW k \in Nat \ {0}, k <= Minus(w, r), r' = (r + k) % UINT,
         UNCHANGED <<buf, w, e>>
  PROVE  LineInv' /\ T!take
<1>1. PICK a, b : a = Minus(w, r) /\ b = Minus(e, w)
  BY Zenon
<1>2. /\ a \in 0 .. UINT - 1 /\ b \in 0 .. UINT - 1 /\ a + b \in 0 .. INPUT_BUF_SIZE
      /\ w = (r + a) % UINT
  BY <1>1, Marks, Zenon
<1>3. k \in 0 .. UINT - 1 /\ a - k \in 0 .. UINT - 1 /\ a - k \in Nat /\ k <= a
  BY <1>1, <1>2, Sized
<1>4. r' \in 0 .. UINT - 1 /\ r \in 0 .. UINT - 1
  BY <1>3, Sized, Apart, Zenon DEF LineInv
<1>5. Minus(w, r)' = a - k
  <2>1. (r' + (a - k)) % UINT = (r + (k + (a - k))) % UINT
    <3>1. PICK m \in Nat : m = a - k /\ k + m < UINT
      BY <1>2, <1>3, Sized
    <3>2. r \in 0 .. UINT - 1 /\ k \in Nat
      BY <1>4, Zenon
    <3>3. (r' + m) % UINT = (r + (k + m)) % UINT
      BY <3>1, <3>2, Forward
    <3> QED
      BY <3>1, <3>3, Zenon
  <2>2. k + (a - k) = a
    BY <1>2, <1>3, Sized
  <2>3. w = (r' + (a - k)) % UINT
    BY <1>2, <2>1, <2>2, Zenon
  <2>4. PICK d \in 0 .. UINT - 1 : d = a - k
    BY <1>3, Zenon
  <2>5. w = (r' + d) % UINT
    BY <2>3, <2>4, Zenon
  <2>6. (w + UINT - r') % UINT = d
    BY <1>4, <2>5, Sized, Apart
  <2> QED
    BY <2>4, <2>6, Zenon DEF Minus
<1>6. Minus(e, w)' = b
  BY <1>1, Zenon DEF Minus
<1>7. LineInv'
  BY <1>2, <1>3, <1>4, <1>5, <1>6, Sized DEF LineInv
<1>8. Ring(w, e)' = Ring(w, e)
  BY <1>1, <1>6, Zenon DEF Ring
<1>9. Ring(r, w)' = View(buf, r', a - k)
  BY <1>5, Zenon DEF Ring, View
<1>10. View(buf, r', a - k) = View(buf, r + k, a - k)
  BY <1>3, <1>4, ViewWrap
<1>11. Ring(r, w) = View(buf, r, a) /\ Len(Ring(r, w)) = a
  BY <1>1, Views, Zenon
<1>12. SubSeq(View(buf, r, a), k + 1, a) = View(buf, r + k, a - k)
  <2>1. r \in Nat /\ a \in Nat /\ k \in 0 .. a /\ a \in k .. a
    BY <1>2, <1>3, <1>4, Sized
  <2>2. buf \in Bufs
    BY Zenon DEF LineInv
  <2> QED
    BY <2>1, <2>2, ViewSub, Zenon
<1>13. Ring(r, w)' = SubSeq(Ring(r, w), k + 1, Len(Ring(r, w))) /\ k \in 1 .. Len(Ring(r, w))
  BY <1>3, <1>9, <1>10, <1>11, <1>12
<1> QED
  BY <1>7, <1>8, <1>13, Zenon DEF T!take

\* Erasing shortens the line and leaves the input alone.
LEMMA EraseLine ==
  ASSUME LineInv, NEW n, NEW b, b = Minus(e, w), n \in 0 .. b, e' = Minus(e, n),
         UNCHANGED <<buf, r, w>>
  PROVE  /\ LineInv' /\ Ring(r, w)' = Ring(r, w)
         /\ Ring(w, e)' = SubSeq(Ring(w, e), 1, b - n) /\ Len(Ring(w, e)) = b
         /\ n = 0 => Ring(w, e)' = Ring(w, e)
         /\ n = b => Ring(w, e)' = <<>>
<1>1. PICK a : a = Minus(w, r)
  BY Zenon
<1>2. /\ a \in 0 .. UINT - 1 /\ b \in 0 .. UINT - 1 /\ a + b \in 0 .. INPUT_BUF_SIZE
      /\ e = (w + b) % UINT
  BY <1>1, Marks, Zenon
<1>3. PICK d : d = b - n
  BY Zenon
<1>4. n \in Nat /\ d \in Nat /\ d \in 0 .. b /\ d \in 0 .. UINT - 1 /\ b \in Nat
  <2>1. b \in Nat /\ b <= UINT - 1
    BY <1>2, Sized
  <2>2. n \in Nat /\ n <= b
    BY <2>1
  <2>3. d \in Nat /\ d <= b
    BY <1>3, <2>1, <2>2
  <2> QED
    BY <2>1, <2>2, <2>3, Sized
<1>5. e' = (w + d) % UINT
  <2>1. w \in 0 .. UINT - 1
    BY Zenon DEF LineInv
  <2>2. (e + UINT - n) % UINT = (w + (b - n)) % UINT
    BY <1>2, <2>1, Backward
  <2> QED
    BY <1>3, <2>2, Zenon DEF Minus
<1>6. e' \in 0 .. UINT - 1 /\ Minus(e, w)' = d
  <2>1. w \in 0 .. UINT - 1
    BY DEF LineInv
  <2>2. e' \in 0 .. UINT - 1 /\ (e' + UINT - w) % UINT = d
    BY <1>4, <1>5, <2>1, Sized, Apart
  <2> QED
    BY <2>2, Zenon DEF Minus
<1>7. Minus(w, r)' = a
  BY <1>1, Zenon DEF Minus
<1>8. LineInv'
  <2>1. \A i \in 1 .. d : buf[(w + i - 1) % INPUT_BUF_SIZE] # "\n"
    <3>1. \A i \in 1 .. b : buf[(w + i - 1) % INPUT_BUF_SIZE] # "\n"
      BY Zenon DEF LineInv
    <3>2. \A i \in 1 .. d : i \in 1 .. b
      BY <1>4
    <3> QED
      BY <3>1, <3>2, Zenon
  <2>2. a + d <= INPUT_BUF_SIZE
    BY <1>2, <1>4, Sized
  <2> QED
    BY <1>6, <1>7, <2>1, <2>2, Zenon DEF LineInv
<1>9. Ring(r, w)' = Ring(r, w)
  BY <1>1, <1>7, Zenon DEF Ring
<1>10. Ring(w, e)' = View(buf, w, d)
  BY <1>6, Zenon DEF Ring, View
<1>11. Ring(w, e) = View(buf, w, b) /\ Len(Ring(w, e)) = b
  BY <1>1, Views, Zenon
<1>12. SubSeq(View(buf, w, b), 1, d) = View(buf, w, d)
  <2>1. SubSeq(View(buf, w, b), 0 + 1, d) = View(buf, w + 0, d - 0)
    <3>1. w \in Nat /\ 0 \in 0 .. b /\ d \in 0 .. b
      BY <1>4, Sized DEF LineInv
    <3>2. buf \in Bufs
      BY Zenon DEF LineInv
    <3> QED
      BY <1>4, <3>1, <3>2, ViewSub, ZenonT(60)
  <2>2. 0 + 1 = 1 /\ w + 0 = w /\ d - 0 = d
    BY <1>4 DEF LineInv
  <2> QED
    BY <2>1, <2>2, Zenon
<1>13. n = 0 => d = b
  BY <1>3, <1>4
<1>14. n = b => d = 0
  BY <1>3, <1>4
<1>15. View(buf, w, 0) = <<>>
  BY DEF View
<1> QED
  BY <1>3, <1>8, <1>9, <1>10, <1>11, <1>12, <1>13, <1>14, <1>15, Zenon

\* Control-U goes back over the whole line, which has no newline.
LEMMA KillAll == ASSUME LineInv PROVE KillTo = Minus(e, w) /\ Minus(e, w) \in Nat
<1>1. PICK a, b : a = Minus(w, r) /\ b = Minus(e, w)
  BY Zenon
<1>2. b \in 0 .. UINT - 1 /\ e = (w + b) % UINT /\ w \in 0 .. UINT - 1
  BY <1>1, Marks, Zenon DEF LineInv
<1> DEFINE Stop(j) == \/ j = b
                      \/ buf[Minus(e, j + 1) % INPUT_BUF_SIZE] = "\n"
<1>3. ASSUME NEW j \in 0 .. b - 1 PROVE ~Stop(j)
  <2>1. PICK d \in Nat : d = b - (j + 1)
    BY <1>2
  <2>2. PICK x : x = Minus(e, j + 1)
    BY Zenon
  <2>3. j + 1 \in 0 .. b /\ d \in 0 .. UINT - 1 /\ d + 1 \in 1 .. b
    BY <1>2, <2>1, Sized
  <2>4. x = (w + d) % UINT
    <3>1. (e + UINT - (j + 1)) % UINT = (w + (b - (j + 1))) % UINT
      BY <1>2, <2>3, Backward
    <3> QED
      BY <2>1, <2>2, <3>1, Zenon DEF Minus
  <2>5. (x + 0) % INPUT_BUF_SIZE = (w + d + 0) % INPUT_BUF_SIZE /\ x \in 0 .. UINT - 1
    <3>1. x \in 0 .. UINT - 1
      BY <1>2, <2>3, <2>4, Sized, Apart, Zenon
    <3>2. (x + 0) % INPUT_BUF_SIZE = (w + d + 0) % INPUT_BUF_SIZE
      <4>1. 0 \in Nat
        BY Zenon
      <4> QED
        BY <1>2, <2>3, <2>4, <4>1, SameSlot
    <3> QED
      BY <3>1, <3>2, Zenon
  <2>6. x + 0 = x /\ w + d + 0 = w + (d + 1) - 1
    BY <1>2, <2>1, <2>5
  <2>7. buf[(w + (d + 1) - 1) % INPUT_BUF_SIZE] # "\n"
    BY <1>1, <2>3, Zenon DEF LineInv
  <2>8. buf[x % INPUT_BUF_SIZE] # "\n"
    BY <2>5, <2>6, <2>7, Zenon
  <2> QED
    BY <1>2, <2>2, <2>8
<1>4. KillTo = CHOOSE k \in 0 .. b : Stop(k) /\ \A j \in 0 .. k - 1 : ~Stop(j)
  BY <1>1, Zenon DEF KillTo
<1> HIDE DEF Stop
<1>5. Stop(b)
  BY Zenon DEF Stop
<1>6. \A k \in 0 .. b : Stop(k) => k = b
  BY <1>2, <1>3
<1>7. b \in 0 .. b
  BY <1>2
<1>8. \E k \in 0 .. b : Stop(k) /\ \A j \in 0 .. k - 1 : ~Stop(j)
  BY <1>3, <1>5, <1>7, Zenon
<1>9. KillTo \in 0 .. b /\ Stop(KillTo)
  BY <1>4, <1>8, Zenon
<1> QED
  BY <1>1, <1>2, <1>6, <1>9

\* A character stored ends up at the end of the line or, with the line, in the input.
LEMMA StoreLine ==
  ASSUME LineInv, KeyInv, consoleintr_store
  PROVE  LineInv' /\ T!Next
<1>1. PICK a, b, c, f : /\ a = Minus(w, r) /\ b = Minus(e, w)
                        /\ c = Stored(key) /\ f = (e + 1) % UINT
  BY Zenon
<1>2. /\ a \in 0 .. UINT - 1 /\ b \in 0 .. UINT - 1 /\ a + b \in 0 .. INPUT_BUF_SIZE
      /\ w = (r + a) % UINT /\ e = (w + b) % UINT /\ e = (r + (a + b)) % UINT
      /\ Minus(e, r) = a + b
  BY <1>1, Marks, Zenon
<1>3. /\ Minus(e, r) < INPUT_BUF_SIZE /\ r' = r /\ e' = f
      /\ buf' = [buf EXCEPT ![e % INPUT_BUF_SIZE] = c]
      /\ HandsOver(c) \/ Minus(f, r) = INPUT_BUF_SIZE => w' = f
      /\ ~(HandsOver(c) \/ Minus(f, r) = INPUT_BUF_SIZE) => w' = w
  BY <1>1, Zenon DEF consoleintr_store
<1>4. /\ a \in Nat /\ b \in Nat /\ a + b < INPUT_BUF_SIZE
      /\ r \in 0 .. UINT - 1 /\ w \in 0 .. UINT - 1 /\ e \in 0 .. UINT - 1
      /\ buf \in Bufs
  BY <1>2, <1>3 DEF LineInv
<1>5. c \in {Stored(x) : x \in Keys} /\ c \in Chars
  BY <1>1, Zenon DEF consoleintr_store, KeyInv, Chars
<1>6. f \in 0 .. UINT - 1 /\ Minus(f, r) = a + b + 1
  <2>1. PICK d \in 0 .. UINT - 1 : d = a + b + 1
    BY <1>4, Sized
  <2>2. f = (r + ((a + b) + 1)) % UINT
    <3>1. PICK j \in Nat : j = a + b /\ j + 1 < UINT
      BY <1>4, Sized
    <3>2. r \in 0 .. UINT - 1 /\ e = (r + j) % UINT /\ 1 \in Nat
      BY <1>2, <1>4, <3>1, Zenon
    <3>3. (e + 1) % UINT = (r + (j + 1)) % UINT
      BY <3>1, <3>2, Forward, ZenonT(60)
    <3> QED
      BY <1>1, <3>1, <3>3, Zenon
  <2>3. f = (r + d) % UINT
    BY <2>1, <2>2, Zenon
  <2>4. f \in 0 .. UINT - 1 /\ (f + UINT - r) % UINT = d
    BY <1>4, <2>3, Sized, Apart, Zenon
  <2> QED
    BY <2>1, <2>4, Zenon DEF Minus
<1>7. Minus(f, w) = b + 1
  <2>1. PICK d \in 0 .. UINT - 1 : d = b + 1
    BY <1>4, Sized
  <2>2. f = (w + (b + 1)) % UINT
    <3>1. 1 \in Nat /\ b \in Nat /\ b + 1 < UINT
      BY <1>4, Sized
    <3>2. w \in 0 .. UINT - 1 /\ e = (w + b) % UINT
      BY <1>2, <1>4, Zenon
    <3>3. (e + 1) % UINT = (w + (b + 1)) % UINT
      BY <3>1, <3>2, Forward, ZenonT(60)
    <3> QED
      BY <1>1, <3>3, Zenon
  <2>3. (f + UINT - w) % UINT = d
    BY <1>4, <2>1, <2>2, Sized, Apart, Zenon
  <2> QED
    BY <2>1, <2>3, Zenon DEF Minus
<1>8. Minus(f, f) = 0
  <2>1. (f + UINT - f) % UINT = 0
    BY <1>6, Sized, Distance
  <2> QED
    BY <2>1, Zenon DEF Minus
<1>9. e % INPUT_BUF_SIZE = (r + (a + b)) % INPUT_BUF_SIZE
  <2>1. (e + 0) % INPUT_BUF_SIZE = (r + (a + b) + 0) % INPUT_BUF_SIZE
    <3>1. PICK d \in 0 .. UINT - 1 : d = a + b
      BY <1>4, Sized
    <3>2. (e + 0) % INPUT_BUF_SIZE = (r + d + 0) % INPUT_BUF_SIZE
      <4>1. 0 \in Nat /\ e = (r + d) % UINT
        BY <1>2, <3>1, Zenon
      <4> QED
        BY <1>4, <4>1, SameSlot
    <3> QED
      BY <3>1, <3>2, Zenon
  <2>2. e + 0 = e /\ r + (a + b) + 0 = r + (a + b)
    BY <1>4
  <2> QED
    BY <2>1, <2>2, Zenon
<1>10. View(buf', r, a) = View(buf, r, a)
  <2>1. PICK n \in 0 .. INPUT_BUF_SIZE - 1, x \in Nat : n = a + b /\ x = r
    BY <1>4, Sized
  <2>2. e % INPUT_BUF_SIZE = (x + n) % INPUT_BUF_SIZE /\ a \in 0 .. n
    BY <1>4, <1>9, <2>1
  <2>3. \A m \in 0 .. n : View(buf', x, m) = View(buf, x, m)
    BY <1>3, <1>4, <1>5, <2>2, ViewAppend, Zenon
  <2> QED
    BY <2>1, <2>2, <2>3, Zenon
<1>11. View(buf', r + a, b + 1) = Append(View(buf, r + a, b), c)
  <2>1. PICK x \in Nat : x = r + a
    BY <1>4
  <2>2. x + b = r + (a + b) /\ b \in 0 .. INPUT_BUF_SIZE - 1
    BY <1>4, <2>1, Sized
  <2>3. e % INPUT_BUF_SIZE = (x + b) % INPUT_BUF_SIZE
    BY <1>9, <2>2, Zenon
  <2>4. View(buf', x, b + 1) = Append(View(buf, x, b), c)
    BY <1>3, <1>4, <1>5, <2>2, <2>3, ViewAppend, Zenon
  <2> QED
    BY <2>1, <2>4, Zenon
<1>12. buf' \in Bufs
  BY <1>3, <1>4, <1>5, Zenon DEF Bufs
<1>13. /\ Ring(r, w) = View(buf, r, a) /\ Ring(w, e) = View(buf, r + a, b)
       /\ Len(Ring(r, w)) = a /\ Len(Ring(w, e)) = b
  BY <1>1, Views, Zenon
<1>14. CASE HandsOver(c) \/ Minus(f, r) = INPUT_BUF_SIZE
  <2>1. w' = f
    BY <1>3, <1>14, Zenon
  <2>2. Minus(e, w)' = 0 /\ Minus(w, r)' = a + b + 1
    BY <1>3, <1>6, <1>8, <2>1, Zenon DEF Minus
  <2>3. LineInv'
    BY <1>3, <1>4, <1>6, <1>12, <2>1, <2>2, Sized, SMTT(60) DEF LineInv
  <2>4. Ring(w, e)' = <<>>
    BY <2>2 DEF Ring
  <2>5. Ring(r, w)' = View(buf', r, a + b + 1)
    BY <1>3, <2>2 DEF Ring, View
  <2>6. View(buf', r, a) \o View(buf', r + a, b + 1) = View(buf', r, a + (b + 1))
    <3>1. r \in Nat /\ b + 1 \in Nat
      BY <1>4
    <3> QED
      BY <1>4, <1>12, <3>1, ViewConcat, ZenonT(60)
  <2>7. a + (b + 1) = a + b + 1
    BY <1>4
  <2>8. Ring(r, w)' = Ring(r, w) \o Append(Ring(w, e), c)
    BY <1>10, <1>11, <1>13, <2>5, <2>6, <2>7, Zenon
  <2>9. T!add(c)
    BY <1>4, <1>6, <1>13, <1>14, <2>4, <2>8, Zenon DEF T!add
  <2> QED
    BY <1>5, <2>3, <2>9, Zenon DEF T!Next
<1>15. CASE ~ (HandsOver(c) \/ Minus(f, r) = INPUT_BUF_SIZE)
  <2>1. w' = w
    BY <1>3, <1>15, Zenon
  <2>2. Minus(e, w)' = b + 1 /\ Minus(w, r)' = a
    BY <1>1, <1>3, <1>7, <2>1, Zenon DEF Minus
  <2>3. Ring(r, w)' = Ring(r, w)
    BY <1>3, <1>10, <1>13, <2>2 DEF Ring, View
  <2>4. Ring(w, e)' = View(buf', w, b + 1)
    BY <2>1, <2>2, Zenon DEF Ring, View
  <2>5. View(buf', w, b + 1) = View(buf', r + a, b + 1)
    BY <1>2, <1>4, ViewWrap
  <2>6. Ring(w, e)' = Append(Ring(w, e), c)
    BY <1>11, <1>13, <2>4, <2>5, Zenon
  <2>7. \A i \in 1 .. b + 1 : buf'[(w + i - 1) % INPUT_BUF_SIZE] # "\n"
    <3>1. \A i \in 1 .. b : Ring(w, e)[i] # "\n"
      BY <1>1, Zenon DEF LineInv, Ring
    <3>2. Ring(w, e) \in Seq(Chars) /\ Len(Ring(w, e)) = b
      <4>1. r + a \in Nat
        BY <1>4
      <4> QED
        BY <1>4, <1>13, <4>1, ViewSeq
    <3>3. c # "\n"
      BY <1>15, Zenon DEF HandsOver
    <3>4. \A i \in 1 .. b + 1 : Append(Ring(w, e), c)[i] # "\n"
      BY <1>4, <1>5, <3>1, <3>2, <3>3
    <3>5. \A i \in 1 .. b + 1 : View(buf', w, b + 1)[i] # "\n"
      BY <2>4, <2>6, <3>4, Zenon
    <3> QED
      BY <3>5, Zenon DEF View
  <2>8. LineInv'
    BY <1>3, <1>4, <1>6, <1>12, <2>1, <2>2, <2>7, Sized, SMTT(60) DEF LineInv
  <2>9. T!add(c)
    BY <1>4, <1>6, <1>13, <1>15, <2>3, <2>6, Zenon DEF T!add
  <2> QED
    BY <1>5, <2>8, <2>9 DEF T!Next
<1> QED
  BY <1>14, <1>15, Zenon

\* Keys stay keys on their way from the keyboard to consoleintr().
LEMMA NextKey == KeyInv /\ [Next]_vars => KeyInv'
<1> SUFFICES ASSUME KeyInv, [Next]_vars PROVE KeyInv'
  BY Zenon
<1>1. CASE uart_receive
  BY <1>1 DEF uart_receive, KeyInv, intrvars
<1>2. CASE uartgetc
  BY <1>2 DEF uartgetc, KeyInv
<1>3. CASE consoleintr
  BY <1>3, Zenon DEF consoleintr, KeyInv, device
<1>4. UNCHANGED <<key, rhr, typing>> \/ uart_receive \/ uartgetc \/ consoleintr
  BY ZenonT(60)
     DEF Next, vars, ReaderStep, WriterStep, Handler, consvars, readvars, txvars, intrvars, device,
         read, read_check, read_sleep, read_chars, read_eof, kill, uartputc_sleep, uartputc_store,
         uartputc_release, uartstart_take, uartstart_send, WriteTHR, devintr, uartgetc_none,
         uartintr_release, consputc_poll, consputc, consoleintr_release, uart_send
<1> QED
  BY <1>1, <1>2, <1>3, <1>4, Zenon DEF KeyInv

\* Every step edits the line, hands it over, takes input, or leaves both alone.
LEMMA RefineNext ==
  KeyInv /\ LineInv /\ [Next]_vars =>
    LineInv' /\ (T!Next \/ UNCHANGED <<Ring(w, e), Ring(r, w)>>)
<1> SUFFICES ASSUME KeyInv, LineInv, [Next]_vars
             PROVE  LineInv' /\ (T!Next \/ UNCHANGED <<Ring(w, e), Ring(r, w)>>)
  BY Zenon
<1>1. ASSUME UNCHANGED consvars PROVE LineInv' /\ UNCHANGED <<Ring(w, e), Ring(r, w)>>
  BY <1>1, Zenon DEF consvars, LineInv, Ring, Minus
<1>2. ASSUME NEW n, NEW b, b = Minus(e, w), n \in 0 .. b, n \in {0, 1} \/ n = b, Erase(n)
      PROVE  LineInv' /\ (T!Next \/ UNCHANGED <<Ring(w, e), Ring(r, w)>>)
  <2>1. /\ LineInv' /\ Ring(r, w)' = Ring(r, w)
        /\ Ring(w, e)' = SubSeq(Ring(w, e), 1, b - n) /\ Len(Ring(w, e)) = b
        /\ n = 0 => Ring(w, e)' = Ring(w, e)
        /\ n = b => Ring(w, e)' = <<>>
    BY <1>2, EraseLine, Zenon DEF Erase
  <2>2. CASE n = 0
    BY <2>1, <2>2, Zenon
  <2>3. CASE n = b
    BY <2>1, <2>3, Zenon DEF T!Next, T!kill
  <2>4. CASE n = 1 /\ n # b
    <3>1. Ring(w, e) # <<>>
      BY <1>2, <2>1, <2>4
    <3> QED
      BY <2>1, <2>4, <3>1, Zenon DEF T!Next, T!erase
  <2> QED
    BY <1>2, <2>2, <2>3, <2>4, Zenon
<1>3. CASE consoleintr
  <2>1. CASE UNCHANGED consvars
    BY <1>1, <2>1, Zenon
  <2>2. CASE consoleintr_store
    BY <2>2, StoreLine, Zenon
  <2>3. PICK b : b = Minus(e, w)
    BY Zenon
  <2>4. CASE Erase(KillTo)
    <3>1. KillTo = b /\ b \in 0 .. b
      BY <2>3, KillAll
    <3> QED
      BY <1>2, <2>3, <2>4, <3>1, Zenon
  <2>5. CASE Erase(IF e # w THEN 1 ELSE 0)
    <3>1. PICK n : n = IF e # w THEN 1 ELSE 0
      BY Zenon
    <3>2. e # w => b # 0
      <4>1. PICK a : a = Minus(w, r)
        OBVIOUS
      <4>2. e = (w + b) % UINT /\ w \in 0 .. UINT - 1
        BY <2>3, <4>1, Marks, Zenon DEF LineInv
      <4>3. (w + 0) % UINT = w
        <5>1. PICK x \in 0 .. 2 * UINT - 1 : x = w + 0 /\ x = w
          BY <4>2, Sized
        <5>2. x % UINT = x
          BY <4>2, <5>1, Sized, SmallMod
        <5> QED
          BY <5>1, <5>2, Zenon
      <4> QED
        BY <4>2, <4>3, Zenon
    <3>3. b \in Nat
      BY <2>3, KillAll, Zenon
    <3>4. n \in 0 .. b
      BY <3>1, <3>2, <3>3
    <3> QED
      BY <1>2, <2>3, <2>5, <3>1, <3>4, Zenon
  <2> QED
    BY <1>3, <2>1, <2>2, <2>4, <2>5, Zenon DEF consoleintr, consoleintr_ignore, procdump, consvars
<1>4. ASSUME NEW p \in Readers, NEW k \in 1 .. INPUT_BUF_SIZE, read_chars(p, k)
      PROVE  LineInv' /\ T!Next
  BY <1>4, TakeLine, SMTT(60) DEF read_chars, T!Next
<1>5. ASSUME NEW p \in Readers, read_eof(p)
      PROVE  LineInv' /\ (T!Next \/ UNCHANGED <<Ring(w, e), Ring(r, w)>>)
  <2>1. CASE r' = r
    BY <1>1, <1>5, <2>1, Zenon DEF read_eof, consvars
  <2>2. CASE r' = (r + 1) % UINT
    <3>1. PICK a : a = Minus(w, r)
      BY Zenon
    <3>2. a \in Nat /\ w = (r + a) % UINT /\ r \in 0 .. UINT - 1
      <4>1. PICK b : b = Minus(e, w)
        OBVIOUS
      <4> QED
        BY <3>1, <4>1, Marks, SMTT(60) DEF LineInv
    <3>3. (r + 0) % UINT = r
      <4>1. PICK x \in 0 .. 2 * UINT - 1 : x = r + 0 /\ x = r
        BY <3>2, Sized
      <4>2. x % UINT = x
        BY <3>2, <4>1, Sized, SmallMod
      <4> QED
        BY <4>1, <4>2, Zenon
    <3>4. a # 0
      BY <1>5, <3>2, <3>3, Zenon DEF read_eof
    <3>5. 1 <= Minus(w, r)
      BY <3>1, <3>2, <3>4
    <3>6. LineInv' /\ T!take
      BY <1>5, <2>2, <3>5, TakeLine, SMTT(60) DEF read_eof
    <3> QED
      BY <3>6, Zenon DEF T!Next
  <2> QED
    BY <1>5, <2>1, <2>2, Zenon DEF read_eof
<1>6. \/ UNCHANGED consvars \/ consoleintr
      \/ \E p \in Readers : read_eof(p) \/ \E k \in 1 .. INPUT_BUF_SIZE : read_chars(p, k)
  BY Zenon DEF Next, vars, ReaderStep, WriterStep, Handler, consvars,
         read, read_check, read_sleep, kill, uartputc_sleep, uartputc_store,
         uartputc_release, uartstart_take, uartstart_send, devintr, uartgetc, uartgetc_none,
         uartintr_release, consputc_poll, consputc, consoleintr_release, uart_send, uart_receive
<1> QED
  BY <1>1, <1>3, <1>4, <1>5, <1>6, Zenon

\* A new console has no line and no input.
LEMMA RefineInit == Init => KeyInv /\ LineInv /\ T!Init
<1> SUFFICES ASSUME Init PROVE KeyInv /\ LineInv /\ T!Init
  BY Zenon
<1>1. KeyInv
  BY ScriptAssumption DEF Init, KeyInv
<1>2. r \in 0 .. UINT - 1 /\ w = r /\ e = r
  <2>1. Start \in Nat
    BY TtyAssumption, Zenon
  <2> QED
    BY <2>1, Sized DEF Init
<1>3. Minus(r, r) = 0
  <2>1. (r + UINT - r) % UINT = 0
    BY <1>2, Sized, Distance
  <2> QED
    BY <2>1, Zenon DEF Minus
<1>4. Minus(w, r) = 0 /\ Minus(e, w) = 0
  BY <1>2, <1>3, Zenon
<1>5. LineInv
  BY <1>2, <1>4, Sized DEF Init, LineInv, Bufs, Chars
<1>6. Ring(w, e) = <<>> /\ Ring(r, w) = <<>>
  BY <1>4 DEF Ring
<1> QED
  BY <1>1, <1>5, <1>6, Zenon DEF T!Init

\* The input half of console.c implements Terminal, for every size of the ring
\* and of its indices and everything that is typed: editing never reaches what
\* read() may take, and no character is lost or stored twice when the ring is
\* full or the indices wrap (console.c:136-179).
THEOREM LineDisciplineHolds == Spec => LineDiscipline
<1>1. Spec => [](KeyInv /\ LineInv)
  BY RefineInit, RefineNext, NextKey, PTL DEF Spec
<1> QED
  BY <1>1, RefineInit, RefineNext, PTL DEF Spec, LineDiscipline, T!Spec
-----------------------------------------------------------------------------
(* Output leaves in the order written.                                     *)

\* Bytes in uart_tx_buf, and the i-th of them.
Held == (tx_w + UINT64 - tx_r) % UINT64
Nth(i) == txbuf[(tx_r + i - 1) % UART_TX_BUF_SIZE]

\* Writer p has a byte that has left the buffer and not the machine.
Ahead(p) == hand[1] = p \/ \E i \in DOMAIN thr : thr[i][1] = p
First(p) == IF Ahead(p) THEN 1 ELSE 0

\* uartstart() takes a byte only when THR is empty, so one byte of a writer at
\* most is out of the buffer, and it is the next to leave.
HandInv ==
  /\ ~Sending => hand = <<Intr, 0>>
  /\ Sending => \A i \in DOMAIN thr : thr[i][1] = Intr
  /\ \A i, j \in DOMAIN thr : thr[i][1] # Intr /\ thr[j][1] # Intr => i = j
  /\ \A i \in DOMAIN thr : thr[i][1] \in Writers => thr[i][2] = sent[thr[i][1]]
  /\ hand[1] \in Writers => hand[2] = sent[hand[1]]

\* The buffer holds the bytes of writer p that follow, in their order.
BufferInv(p) ==
  /\ First(p) <= Turn(p, put[p])
  /\ \A i \in 1 .. Held : Nth(i)[1] = p => Turn(p, Nth(i)[2]) \in First(p) .. Turn(p, put[p]) - 1
  /\ \A k \in First(p) .. Turn(p, put[p]) - 1 :
       \E i \in 1 .. Held : Nth(i)[1] = p /\ Turn(p, Nth(i)[2]) = k
  /\ \A i, j \in 1 .. Held : Nth(i)[1] = p /\ Nth(j)[1] = p /\ i < j =>
       Turn(p, Nth(j)[2]) - Turn(p, Nth(i)[2]) \in 1 .. j - i

CountInv ==
  /\ tx_r \in 0 .. UINT64 - 1 /\ tx_w \in 0 .. UINT64 - 1 /\ Held <= UART_TX_BUF_SIZE
  /\ put \in [Writers -> 0 .. UINT64 - 1] /\ sent \in [Writers -> 0 .. UINT64 - 1]
  /\ txbuf \in [0 .. UART_TX_BUF_SIZE - 1 -> Senders \X (0 .. UINT64 - 1)]

OutInv == CountInv /\ HandInv /\ \A p \in Writers : BufferInv(p)

\* The sizes of the output buffer and of its indices.
LEMMA OutSized ==
  /\ UART_TX_BUF_SIZE \in Nat /\ UART_TX_BUF_SIZE > 0
  /\ UINT64 \in Nat /\ UINT64 > 1 /\ UINT64 > UART_TX_BUF_SIZE + 1
  /\ UINT64 % UART_TX_BUF_SIZE = 0
  BY TtyAssumption

\* A turn is a number below UINT64, and one step of sent[p] takes one off.
LEMMA TurnRange ==
  ASSUME NEW s \in 0 .. UINT64 - 1, NEW n \in 0 .. UINT64 - 1
  PROVE  (n + UINT64 - s) % UINT64 \in 0 .. UINT64 - 1
  BY OutSized

\* The buffer stays, and so does the byte before it.
LEMMA SameBuffer ==
  ASSUME NEW p, BufferInv(p), UNCHANGED <<txbuf, tx_r, tx_w>>, put'[p] = put[p], sent'[p] = sent[p],
         Ahead(p)' = Ahead(p)
  PROVE  BufferInv(p)'
<1>1. First(p)' = First(p) /\ Held' = Held
  BY Zenon DEF First, Held
<1>2. \A i : Nth(i)' = Nth(i)
  BY Zenon DEF Nth
<1>3. \A n : Turn(p, n)' = Turn(p, n)
  BY Zenon DEF Turn
<1> QED
  BY <1>1, <1>2, <1>3, Zenon DEF BufferInv

\* Steps that do not touch the output.
LEMMA OutUnchanged ==
  ASSUME OutInv, UNCHANGED <<txvars, put, thr, sent>>, Sending' = Sending
  PROVE  OutInv'
<1>1. CountInv'
  BY Zenon DEF OutInv, CountInv, Held, txvars
<1>2. HandInv'
  BY Zenon DEF OutInv, HandInv, txvars
<1>3. ASSUME NEW p \in Writers PROVE BufferInv(p)'
  <2>1. Ahead(p)' = Ahead(p)
    BY Zenon DEF Ahead, txvars
  <2> QED
    BY <2>1, SameBuffer, Zenon DEF OutInv, txvars
<1> QED
  BY <1>1, <1>2, <1>3, Zenon DEF OutInv

\* consputc() puts a byte of the handler into THR.
LEMMA OutEcho ==
  ASSUME OutInv, TtyInv, consputc
  PROVE  OutInv'
<1>1. thr' = Append(thr, <<Intr, 0>>) /\ UNCHANGED <<txbuf, tx_r, tx_w, hand, put, sent>>
  <2>1. Len(thr) <= 1 /\ FIFO_DEPTH >= 2 /\ FIFO_DEPTH \in Nat /\ Len(thr) \in Nat
    BY TtyAssumption DEF TtyInv, FifoInv, Echoing, consputc, TtyType
  <2> QED
    BY <2>1 DEF consputc, WriteTHR, txvars
<1>2. Sending' = Sending
  BY Zenon DEF Sending, consputc, Goto, TtyInv, TxLockInv, Senders
<1>3. thr \in Seq(Byte) /\ Len(thr) \in Nat
  BY DEF TtyInv, TtyType
<1>4. DOMAIN thr = 1 .. Len(thr) /\ DOMAIN thr' = 1 .. Len(thr) + 1
  BY <1>1, <1>3
<1>5. /\ \A i \in DOMAIN thr : i \in DOMAIN thr' /\ thr'[i] = thr[i]
      /\ \A i \in DOMAIN thr' : i \in DOMAIN thr \/ thr'[i] = <<Intr, 0>>
  BY <1>1, <1>3, <1>4
<1>6. Intr \notin Writers
  BY TtyAssumption, Zenon
<1>7. CountInv'
  BY <1>1, Zenon DEF OutInv, CountInv, Held
<1>8. HandInv'
  BY <1>1, <1>2, <1>5, <1>6 DEF OutInv, HandInv
<1>9. ASSUME NEW p \in Writers PROVE BufferInv(p)'
  <2>1. Ahead(p)' = Ahead(p)
    BY <1>1, <1>5, <1>6 DEF Ahead
  <2> QED
    BY <1>1, <2>1, SameBuffer, Zenon DEF OutInv
<1> QED
  BY <1>7, <1>8, <1>9, Zenon DEF OutInv

\* uartstart() puts the byte in its hand into THR.
LEMMA OutPut ==
  ASSUME OutInv, TtyInv, NEW a \in Senders, uartstart_send(a)
  PROVE  OutInv'
<1>0. tpc[a] = "send" /\ Sending
  BY Zenon DEF uartstart_send, Sending
<1>1. thr' = Append(thr, hand) /\ UNCHANGED <<txbuf, tx_r, tx_w, put, sent>> /\ hand' = <<Intr, 0>>
  <2>1. Len(thr) <= 1 /\ FIFO_DEPTH >= 2 /\ FIFO_DEPTH \in Nat /\ Len(thr) \in Nat
    BY <1>0, TtyAssumption DEF TtyInv, FifoInv, TtyType
  <2> QED
    BY <2>1 DEF uartstart_send, WriteTHR
<1>2. ~Sending'
  BY <1>0, Zenon DEF Sending, uartstart_send, Goto, TtyInv, TxLockInv
<1>3. thr \in Seq(Byte) /\ Len(thr) \in Nat /\ hand \in Byte
  BY DEF TtyInv, TtyType
<1>4. DOMAIN thr = 1 .. Len(thr) /\ DOMAIN thr' = 1 .. Len(thr) + 1
  BY <1>1, <1>3
<1>5. /\ \A i \in DOMAIN thr : i \in DOMAIN thr' /\ thr'[i] = thr[i]
      /\ \A i \in DOMAIN thr' : i \in DOMAIN thr \/ i = Len(thr) + 1
      /\ Len(thr) + 1 \in DOMAIN thr' /\ thr'[Len(thr) + 1] = hand
  BY <1>1, <1>3, <1>4
<1>6. Intr \notin Writers
  BY TtyAssumption, Zenon
<1>7. CountInv'
  BY <1>1, Zenon DEF OutInv, CountInv, Held
<1>8. \A i \in DOMAIN thr : thr[i][1] = Intr
  BY <1>0, Zenon DEF OutInv, HandInv
<1>9. HandInv'
  BY <1>1, <1>2, <1>5, <1>6, <1>8 DEF OutInv, HandInv
<1>10. ASSUME NEW p \in Writers PROVE BufferInv(p)'
  <2>1. Ahead(p)' = Ahead(p)
    BY <1>1, <1>5, <1>6, Zenon DEF Ahead
  <2> QED
    BY <1>1, <2>1, SameBuffer, Zenon DEF OutInv
<1> QED
  BY <1>7, <1>9, <1>10, Zenon DEF OutInv

\* The slots of the buffer, counted from the oldest byte, do not depend on
\* whether the index has wrapped.
LEMMA NextSlot ==
  ASSUME NEW x \in 0 .. UINT64 - 1, NEW y, y = (x + 1) % UINT64, NEW i \in Nat \ {0}
  PROVE  (y + i - 1) % UART_TX_BUF_SIZE = (x + (i + 1) - 1) % UART_TX_BUF_SIZE
<1>1. y = IF x = UINT64 - 1 THEN 0 ELSE x + 1
  BY OutSized, Increment, Zenon
<1>2. CASE x # UINT64 - 1
  <2>1. y + i - 1 = x + (i + 1) - 1
    BY <1>1, <1>2, OutSized
  <2> QED
    BY <2>1, Zenon
<1>3. CASE x = UINT64 - 1
  <2>1. PICK z \in Nat : z = i - 1
    OBVIOUS
  <2>2. y + i - 1 = z /\ x + (i + 1) - 1 = z + UINT64
    BY <1>1, <1>3, <2>1, OutSized
  <2>3. (z + UINT64) % UART_TX_BUF_SIZE = z % UART_TX_BUF_SIZE
    BY OutSized, AddMultiple, Zenon
  <2> QED
    BY <2>2, <2>3, Zenon
<1> QED
  BY <1>2, <1>3, Zenon

\* The slot behind the bytes held is the one that tx_w names, and no other.
LEMMA FreeSlot ==
  ASSUME NEW x \in 0 .. UINT64 - 1, NEW y \in 0 .. UINT64 - 1,
         NEW d, d = (y + UINT64 - x) % UINT64, d < UART_TX_BUF_SIZE
  PROVE  /\ d \in Nat /\ (x + (d + 1) - 1) % UART_TX_BUF_SIZE = y % UART_TX_BUF_SIZE
         /\ \A i \in 1 .. d : (x + i - 1) % UART_TX_BUF_SIZE # y % UART_TX_BUF_SIZE
<1>1. d = IF x <= y THEN y - x ELSE y + UINT64 - x
  BY OutSized, Distance
<1>2. d \in Nat
  BY <1>1, OutSized
<1>3. PICK z \in Nat : z = x + d
  BY <1>2
<1>4. z % UART_TX_BUF_SIZE = y % UART_TX_BUF_SIZE
  <2>1. z = y \/ z = y + UINT64
    BY <1>1, <1>3, OutSized
  <2>2. (y + UINT64) % UART_TX_BUF_SIZE = y % UART_TX_BUF_SIZE
    <3>1. y \in Nat
      BY OutSized
    <3> QED
      BY <3>1, OutSized, AddMultiple, Zenon
  <2> QED
    BY <2>1, <2>2, Zenon
<1>5. ASSUME NEW i \in 1 .. d PROVE (x + i - 1) % UART_TX_BUF_SIZE # y % UART_TX_BUF_SIZE
  <2>1. PICK a \in Nat : a = x + i - 1
    BY <1>2
  <2>2. a <= z /\ a # z /\ z < a + UART_TX_BUF_SIZE
    BY <1>2, <1>3, <2>1, OutSized
  <2>3. a % UART_TX_BUF_SIZE # z % UART_TX_BUF_SIZE
    BY <2>2, OutSized, Distinct, Zenon
  <2> QED
    BY <1>4, <2>1, <2>3, Zenon
<1>6. x + (d + 1) - 1 = z
  BY <1>2, <1>3
<1> QED
  BY <1>2, <1>4, <1>5, <1>6, Zenon

\* The turns of the bytes held are turns.
LEMMA HeldTurns ==
  ASSUME CountInv, NEW p \in Writers
  PROVE  /\ Held \in 0 .. UART_TX_BUF_SIZE
         /\ Turn(p, put[p]) \in 0 .. UINT64 - 1
         /\ \A i \in 1 .. Held : /\ Nth(i) \in Senders \X (0 .. UINT64 - 1)
                                 /\ Turn(p, Nth(i)[2]) \in 0 .. UINT64 - 1
<1>1. Held \in 0 .. UART_TX_BUF_SIZE
  BY OutSized DEF CountInv, Held
<1>2. sent[p] \in 0 .. UINT64 - 1 /\ put[p] \in 0 .. UINT64 - 1
  BY Zenon DEF CountInv
<1>3. ASSUME NEW i \in 1 .. Held PROVE Nth(i) \in Senders \X (0 .. UINT64 - 1)
  <2>1. (tx_r + i - 1) % UART_TX_BUF_SIZE \in 0 .. UART_TX_BUF_SIZE - 1
    BY <1>1, OutSized DEF CountInv
  <2> QED
    BY <2>1, Zenon DEF CountInv, Nth
<1>4. ASSUME NEW n \in 0 .. UINT64 - 1 PROVE Turn(p, n) \in 0 .. UINT64 - 1
  BY <1>2, TurnRange, Zenon DEF Turn
<1>5. ASSUME NEW i \in 1 .. Held PROVE Turn(p, Nth(i)[2]) \in 0 .. UINT64 - 1
  BY <1>3, <1>4, Zenon
<1> QED
  BY <1>1, <1>2, <1>3, <1>4, <1>5, Zenon

\* One byte of writer p leaves: every later one comes a turn sooner.
LEMMA SoonerTurn ==
  ASSUME NEW s \in 0 .. UINT64 - 1, NEW n \in 0 .. UINT64 - 1, NEW d, d = (n + UINT64 - s) % UINT64,
         d > 0, NEW t, t = (s + 1) % UINT64
  PROVE  t \in 0 .. UINT64 - 1 /\ (n + UINT64 - t) % UINT64 = d - 1
<1>1. t \in 0 .. UINT64 - 1
  BY OutSized
<1>2. (n + UINT64 - s) % UINT64 > 0
  BY Zenon
<1>3. (n + UINT64 - t) % UINT64 = ((n + UINT64 - s) % UINT64) - 1
  <2>1. UINT64 \in Nat /\ UINT64 > 1
    BY OutSized, Zenon
  <2> QED
    BY <1>1, <1>2, <2>1, Shrink, Zenon
<1> QED
  BY <1>1, <1>3, Zenon

\* The UART sends a byte.
LEMMA OutSend ==
  ASSUME OutInv, TtyInv, uart_send
  PROVE  OutInv'
<1>1. /\ thr # <<>> /\ thr' = Tail(thr) /\ UNCHANGED <<txbuf, tx_r, tx_w, hand, put>>
      /\ sent' = IF thr[1][1] \in Writers
                 THEN [sent EXCEPT ![thr[1][1]] = (@ + 1) % UINT64] ELSE sent
  <2>1. thr # <<>> /\ thr \in Seq(Byte)
    BY Zenon DEF uart_send, TtyInv, TtyType
  <2>2. Head(thr) = thr[1]
    BY <2>1
  <2> QED
    BY <2>1, <2>2, Zenon DEF uart_send, txvars
<1>2. Sending' = Sending
  BY Zenon DEF Sending, uart_send
<1>3. thr \in Seq(Byte) /\ Len(thr) \in Nat \ {0}
  BY <1>1 DEF TtyInv, TtyType
<1>4. /\ DOMAIN thr = 1 .. Len(thr) /\ 1 \in DOMAIN thr /\ DOMAIN thr' = 1 .. Len(thr) - 1
      /\ \A i \in DOMAIN thr' : i + 1 \in DOMAIN thr /\ i + 1 # 1 /\ thr'[i] = thr[i + 1]
      /\ \A i \in DOMAIN thr : i = 1 \/ (i - 1 \in DOMAIN thr' /\ thr[i] = thr'[i - 1])
  BY <1>1, <1>3
<1>5. Intr \notin Writers
  BY TtyAssumption
<1>6. CountInv'
  <2>1. sent' \in [Writers -> 0 .. UINT64 - 1]
    <3>1. sent \in [Writers -> 0 .. UINT64 - 1]
      BY Zenon DEF OutInv, CountInv
    <3>2. \A q \in Writers : (sent[q] + 1) % UINT64 \in 0 .. UINT64 - 1
      BY <3>1, OutSized
    <3> QED
      BY <1>1, <3>1, <3>2, Zenon
  <2> QED
    BY <1>1, <2>1, Zenon DEF OutInv, CountInv, Held
<1>7. CASE thr[1][1] \notin Writers
  <2>1. sent' = sent
    BY <1>1, <1>7, Zenon
  <2>2. HandInv'
    BY <1>1, <1>2, <1>4, <2>1 DEF OutInv, HandInv
  <2>3. ASSUME NEW p \in Writers PROVE BufferInv(p)'
    <3>1. Ahead(p)' = Ahead(p)
      BY <1>1, <1>4, <1>7, ZenonT(30) DEF Ahead
    <3> QED
      BY <1>1, <2>1, <3>1, SameBuffer, Zenon DEF OutInv
  <2> QED
    BY <1>6, <2>2, <2>3 DEF OutInv
<1>8. CASE thr[1][1] \in Writers
  <2>1. PICK p \in Writers : p = thr[1][1]
    BY <1>8, Zenon
  <2>2. sent' = [sent EXCEPT ![p] = (@ + 1) % UINT64] /\ thr[1][2] = sent[p] /\ p # Intr
    BY <1>1, <1>4, <1>5, <2>1, Zenon DEF OutInv, HandInv
  <2>3. ~Sending /\ hand = <<Intr, 0>>
    BY <1>4, <2>1, <2>2, Zenon DEF OutInv, HandInv
  <2>4. \A i \in DOMAIN thr : i # 1 => thr[i][1] = Intr
    BY <1>4, <2>1, <2>2, Zenon DEF OutInv, HandInv
  <2>5. \A i \in DOMAIN thr' : thr'[i][1] = Intr
    BY <1>4, <2>4
  <2>6. HandInv'
    BY <1>1, <1>2, <1>5, <2>3, <2>5, Zenon DEF HandInv
  <2>7. ASSUME NEW q \in Writers, q # p PROVE BufferInv(q)'
    <3>1. Ahead(q)' = Ahead(q)
      BY <1>1, <1>4, <1>5, <2>1, <2>4, <2>5, <2>7, Zenon DEF Ahead
    <3>2. sent'[q] = sent[q]
      BY <2>2, <2>7, Zenon DEF OutInv, CountInv
    <3> QED
      BY <1>1, <3>1, <3>2, SameBuffer, Zenon DEF OutInv
  <2>8. BufferInv(p)'
    <3>1. First(p) = 1 /\ First(p)' = 0
      BY <1>1, <1>4, <2>1, <2>2, <2>3, <2>5, Zenon DEF First, Ahead
    <3>2. Held' = Held /\ \A i : Nth(i)' = Nth(i)
      BY <1>1, Zenon DEF Held, Nth
    <3>3. ASSUME NEW n \in 0 .. UINT64 - 1, Turn(p, n) > 0 PROVE Turn(p, n)' = Turn(p, n) - 1
      <4>1. sent[p] \in 0 .. UINT64 - 1 /\ sent'[p] = (sent[p] + 1) % UINT64
        BY <2>2, Zenon DEF OutInv, CountInv
      <4>2. PICK s, d, t : s = sent[p] /\ d = Turn(p, n) /\ t = sent'[p]
        BY Zenon
      <4>3. d = (n + UINT64 - s) % UINT64 /\ d > 0 /\ t = (s + 1) % UINT64 /\ s \in 0 .. UINT64 - 1
        BY <3>3, <4>1, <4>2, Zenon DEF Turn
      <4>4. (n + UINT64 - t) % UINT64 = d - 1
        BY <4>3, SoonerTurn
      <4> QED
        BY <4>2, <4>4, Zenon DEF Turn
    <3>4. /\ Held \in Nat /\ Turn(p, put[p]) \in Nat /\ put[p] \in 0 .. UINT64 - 1
          /\ \A i \in 1 .. Held : /\ Nth(i) \in Senders \X (0 .. UINT64 - 1)
                                  /\ Turn(p, Nth(i)[2]) \in Nat
      BY HeldTurns, OutSized DEF OutInv, CountInv
    <3>5. BufferInv(p)
      BY Zenon DEF OutInv
    <3>6. Turn(p, put[p])' = Turn(p, put[p]) - 1 /\ Turn(p, put[p]) >= 1
      <4>1. Turn(p, put[p]) >= 1
        BY <3>1, <3>4, <3>5, Zenon DEF BufferInv
      <4>2. PICK n \in 0 .. UINT64 - 1 : n = put[p] /\ n = put'[p]
        BY <1>1, <3>4, Zenon
      <4>3. Turn(p, n) > 0
        BY <3>4, <4>1, <4>2
      <4>4. Turn(p, n)' = Turn(p, n) - 1
        BY <3>3, <4>3, Zenon
      <4>5. Turn(p, n)' = Turn(p, put[p])' /\ Turn(p, n) = Turn(p, put[p])
        BY <4>2, Zenon DEF Turn
      <4> QED
        BY <4>1, <4>4, <4>5, Zenon
    <3>7. ASSUME NEW i \in 1 .. Held, Nth(i)[1] = p
          PROVE  /\ Turn(p, Nth(i)[2]) >= 1 /\ Turn(p, Nth(i)[2])' = Turn(p, Nth(i)[2]) - 1
      <4>1. Turn(p, Nth(i)[2]) >= 1
        BY <3>1, <3>4, <3>5, <3>7 DEF BufferInv
      <4>2. PICK n \in 0 .. UINT64 - 1 : n = Nth(i)[2] /\ n = Nth(i)'[2]
        BY <3>2, <3>4, Zenon
      <4>5. Turn(p, n)' = Turn(p, Nth(i)[2])' /\ Turn(p, n) = Turn(p, Nth(i)[2])
        BY <4>2, Zenon DEF Turn
      <4>6. Turn(p, Nth(i)[2]) \in Nat
        BY <3>4, Zenon
      <4>3. Turn(p, n) > 0
        BY <4>1, <4>5, <4>6
      <4>4. Turn(p, n)' = Turn(p, n) - 1
        BY <3>3, <4>3, Zenon
      <4> QED
        BY <4>1, <4>4, <4>5, Zenon
    <3>8. (First(p) <= Turn(p, put[p]))'
      BY <3>1, <3>4, <3>6
    <3>9. ASSUME NEW i \in 1 .. Held', Nth(i)'[1] = p
          PROVE  Turn(p, Nth(i)[2])' \in 0 .. Turn(p, put[p])' - 1
      <4>1. i \in 1 .. Held /\ Nth(i)[1] = p
        BY <3>2, <3>9, Zenon
      <4>2. Turn(p, Nth(i)[2]) \in 1 .. Turn(p, put[p]) - 1
        BY <3>1, <3>5, <4>1, Zenon DEF BufferInv
      <4> QED
        BY <3>4, <3>6, <3>7, <4>1, <4>2
    <3>10. ASSUME NEW k \in 0 .. Turn(p, put[p])' - 1
           PROVE  \E i \in 1 .. Held' : Nth(i)'[1] = p /\ Turn(p, Nth(i)[2])' = k
      <4>1. k + 1 \in 1 .. Turn(p, put[p]) - 1
        BY <3>4, <3>6
      <4>2. PICK i \in 1 .. Held : Nth(i)[1] = p /\ Turn(p, Nth(i)[2]) = k + 1
        BY <3>1, <3>5, <4>1, Zenon DEF BufferInv
      <4> QED
        BY <3>2, <3>7, <4>2
    <3>11. ASSUME NEW i \in 1 .. Held', NEW j \in 1 .. Held', Nth(i)'[1] = p, Nth(j)'[1] = p, i < j
           PROVE  Turn(p, Nth(j)[2])' - Turn(p, Nth(i)[2])' \in 1 .. j - i
      <4>1. i \in 1 .. Held /\ j \in 1 .. Held /\ Nth(i)[1] = p /\ Nth(j)[1] = p
        BY <3>2, <3>11, Zenon
      <4>2. Turn(p, Nth(j)[2]) - Turn(p, Nth(i)[2]) \in 1 .. j - i
        BY <3>5, <3>11, <4>1, Zenon DEF BufferInv
      <4> QED
        BY <3>4, <3>7, <4>1, <4>2
    <3> QED
      BY <3>1, <3>8, <3>9, <3>10, <3>11, Zenon DEF BufferInv
  <2> QED
    BY <1>6, <2>6, <2>7, <2>8, Zenon DEF OutInv
<1> QED
  BY <1>7, <1>8, Zenon

\* uartstart() takes the oldest byte out of the buffer; it is the next to leave.
LEMMA OutTake ==
  ASSUME OutInv, TtyInv, NEW a \in Senders, uartstart_take(a)
  PROVE  OutInv'
<1>1. /\ thr = <<>> /\ tx_w # tx_r /\ UNCHANGED <<thr, txbuf, tx_w, put, sent>>
      /\ hand' = txbuf[tx_r % UART_TX_BUF_SIZE] /\ tx_r' = (tx_r + 1) % UINT64
  BY Zenon DEF uartstart_take, device, Idle
<1>2. ~Sending
  BY Zenon DEF Sending, uartstart_take, TtyInv, TxLockInv
<1>3. Sending'
  <2>1. tpc \in [Senders -> WriterLabels \cup HandlerLabels]
    BY Zenon DEF TtyInv, TxLockInv
  <2>2. tpc'[a] = "send"
    BY <2>1, Zenon DEF uartstart_take, WakeWriters
  <2> QED
    BY <2>2, Zenon DEF Sending
<1>4. hand = <<Intr, 0>> /\ Intr \notin Writers
  BY <1>2, TtyAssumption, Zenon DEF OutInv, HandInv
<1>5. DOMAIN thr = {} /\ DOMAIN thr' = {}
  BY <1>1
<1>6. \A p \in Writers : ~Ahead(p) /\ First(p) = 0
  BY <1>4, <1>5, Zenon DEF Ahead, First
<1>7. CountInv
  BY Zenon DEF OutInv
<1>8. tx_r \in 0 .. UINT64 - 1 /\ tx_w \in 0 .. UINT64 - 1 /\ tx_r' \in 0 .. UINT64 - 1
  BY <1>1, <1>7, OutSized DEF CountInv
<1>9. Held \in Nat /\ Held > 0 /\ Held' = Held - 1
  <2>1. PICK x, y, d : x = tx_r /\ y = tx_w /\ d = Held
    BY Zenon
  <2>2. x \in 0 .. UINT64 - 1 /\ y \in 0 .. UINT64 - 1 /\ d = (y + UINT64 - x) % UINT64 /\ x # y
    BY <1>1, <1>8, <2>1, Zenon DEF Held
  <2>3. d = IF x <= y THEN y - x ELSE y + UINT64 - x
    <3>1. UINT64 \in Nat /\ UINT64 > 0
      BY OutSized
    <3> QED
      BY <2>2, <3>1, Distance, Zenon
  <2>4. d \in Nat /\ d > 0
    BY <2>2, <2>3, OutSized
  <2>5. PICK t : t = (x + 1) % UINT64
    BY Zenon
  <2>6. (y + UINT64 - t) % UINT64 = d - 1
    BY <2>2, <2>4, <2>5, SoonerTurn
  <2>7. Held' = (y + UINT64 - t) % UINT64
    BY <1>1, <2>1, <2>5, Zenon DEF Held
  <2> QED
    BY <2>1, <2>4, <2>6, <2>7, Zenon
<1>10. \A i \in 1 .. Held' : i + 1 \in 1 .. Held /\ i + 1 # 1 /\ Nth(i)' = Nth(i + 1)
  <2>1. ASSUME NEW i \in 1 .. Held' PROVE Nth(i)' = Nth(i + 1)
    <3>1. i \in Nat \ {0}
      BY <1>9
    <3>2. PICK x : x = tx_r
      BY Zenon
    <3>3. (tx_r' + i - 1) % UART_TX_BUF_SIZE = (x + (i + 1) - 1) % UART_TX_BUF_SIZE
      BY <1>1, <1>8, <3>1, <3>2, NextSlot, Zenon
    <3> QED
      BY <1>1, <3>2, <3>3, Zenon DEF Nth
  <2> QED
    BY <1>9, <2>1
<1>11. hand' = Nth(1) /\ 1 \in 1 .. Held
  <2>1. tx_r + 1 - 1 = tx_r
    BY <1>8, OutSized
  <2> QED
    BY <1>1, <1>9, <2>1 DEF Nth
<1>12. CountInv'
  BY <1>1, <1>7, <1>8, <1>9, OutSized DEF CountInv
<1>13. /\ Held \in Nat
       /\ \A p \in Writers : Turn(p, put[p]) \in Nat
       /\ \A p \in Writers : \A i \in 1 .. Held : Turn(p, Nth(i)[2]) \in Nat
       /\ \A i \in 1 .. Held : Nth(i) \in Senders \X (0 .. UINT64 - 1)
  <2>1. \A i \in 1 .. Held : Nth(i) \in Senders \X (0 .. UINT64 - 1)
    <3>1. ASSUME NEW i \in 1 .. Held
          PROVE  (tx_r + i - 1) % UART_TX_BUF_SIZE \in 0 .. UART_TX_BUF_SIZE - 1
      BY <1>8, <1>9, OutSized
    <3> QED
      BY <1>7, <3>1, Zenon DEF CountInv, Nth
  <2> QED
    BY <1>7, <1>9, <2>1, HeldTurns, OutSized
<1>14. \A p \in Writers : \A n : Turn(p, n)' = Turn(p, n)
  BY <1>1, Zenon DEF Turn
<1>15. ASSUME NEW p \in Writers, Nth(1)[1] = p
       PROVE  Turn(p, Nth(1)[2]) = 0 /\ Nth(1)[2] = sent[p] /\ Turn(p, put[p]) >= 1
  <2>1. BufferInv(p)
    BY Zenon DEF OutInv
  <2>2. Turn(p, Nth(1)[2]) \in 0 .. Turn(p, put[p]) - 1
    BY <1>6, <1>11, <1>15, <2>1, Zenon DEF BufferInv
  <2>3. 0 \in 0 .. Turn(p, put[p]) - 1
    BY <1>13, <2>2
  <2>4. PICK i \in 1 .. Held : Nth(i)[1] = p /\ Turn(p, Nth(i)[2]) = 0
    BY <1>6, <2>1, <2>3, Zenon DEF BufferInv
  <2>5. i = 1
    <3>1. CASE 1 < i
      <4>1. Turn(p, Nth(i)[2]) - Turn(p, Nth(1)[2]) >= 1
        BY <1>11, <1>15, <2>1, <2>4, <3>1 DEF BufferInv
      <4> QED
        BY <1>13, <2>2, <2>4, <4>1
    <3> QED
      BY <1>9, <3>1
  <2>6. Turn(p, Nth(1)[2]) = 0
    BY <2>4, <2>5, Zenon
  <2>7. PICK n, s : n = Nth(1)[2] /\ s = sent[p]
    BY Zenon
  <2>8. n \in 0 .. UINT64 - 1 /\ s \in 0 .. UINT64 - 1 /\ (n + UINT64 - s) % UINT64 = 0
    BY <1>7, <1>11, <1>13, <2>6, <2>7, Zenon DEF Turn, CountInv
  <2>9. (n + UINT64 - s) % UINT64 = IF s <= n THEN n - s ELSE n + UINT64 - s
    <3>1. UINT64 \in Nat /\ UINT64 > 0
      BY OutSized
    <3> QED
      BY <2>8, <3>1, Distance, Zenon
  <2>10. n = s
    BY <2>8, <2>9, OutSized
  <2> QED
    BY <1>13, <2>3, <2>6, <2>7, <2>10
<1>16. HandInv'
  BY <1>1, <1>3, <1>5, <1>11, <1>15, Zenon DEF HandInv
<1>17. ASSUME NEW p \in Writers PROVE BufferInv(p)'
  <2>1. BufferInv(p)
    BY DEF OutInv
  <2>2. CASE Nth(1)[1] = p
    <3>1. First(p)' = 1
      BY <1>11, <2>2, Zenon DEF First, Ahead
    <3>2. \A i \in 1 .. Held : Nth(i)[1] = p /\ i # 1 => Turn(p, Nth(i)[2]) >= 1
      BY <1>11, <1>13, <2>1, <2>2 DEF BufferInv
    <3>3. ASSUME NEW k \in 1 .. Turn(p, put[p]) - 1
          PROVE  \E i \in 1 .. Held' : Nth(i)'[1] = p /\ Turn(p, Nth(i)[2])' = k
      <4>1. k \in 0 .. Turn(p, put[p]) - 1 /\ k # 0
        BY <1>13
      <4>2. PICK i \in 1 .. Held : Nth(i)[1] = p /\ Turn(p, Nth(i)[2]) = k
        BY <1>6, <2>1, <4>1, Zenon DEF BufferInv
      <4>3. i # 1
        BY <1>15, <2>2, <4>1, <4>2, Zenon
      <4>4. PICK j \in 1 .. Held' : i = j + 1
        BY <1>9, <4>3
      <4>5. Nth(j)' = Nth(i)
        BY <1>10, <4>4, Zenon
      <4> QED
        BY <1>1, <4>2, <4>5, Zenon DEF Turn
    <3>4. ASSUME NEW i \in 1 .. Held', Nth(i)'[1] = p
          PROVE  Turn(p, Nth(i)[2])' \in 1 .. Turn(p, put[p]) - 1
      <4>1. i + 1 \in 1 .. Held /\ i + 1 # 1 /\ Nth(i)' = Nth(i + 1)
        BY <1>10, Zenon
      <4>2. Turn(p, Nth(i)[2])' = Turn(p, Nth(i + 1)[2])
        BY <1>1, <4>1, Zenon DEF Turn
      <4>3. Turn(p, Nth(i + 1)[2]) \in 0 .. Turn(p, put[p]) - 1
        BY <1>6, <2>1, <3>4, <4>1, Zenon DEF BufferInv
      <4> QED
        BY <1>13, <3>2, <3>4, <4>1, <4>2, <4>3
    <3>5. ASSUME NEW i \in 1 .. Held', NEW j \in 1 .. Held', Nth(i)'[1] = p, Nth(j)'[1] = p, i < j
          PROVE  Turn(p, Nth(j)[2])' - Turn(p, Nth(i)[2])' \in 1 .. j - i
      <4>1. /\ i + 1 \in 1 .. Held /\ Nth(i)' = Nth(i + 1)
            /\ j + 1 \in 1 .. Held /\ Nth(j)' = Nth(j + 1) /\ i + 1 < j + 1
            /\ (j + 1) - (i + 1) = j - i
        BY <1>9, <1>10, <3>5
      <4>2. /\ Turn(p, Nth(i)[2])' = Turn(p, Nth(i + 1)[2])
            /\ Turn(p, Nth(j)[2])' = Turn(p, Nth(j + 1)[2])
        BY <1>1, <4>1, Zenon DEF Turn
      <4> QED
        BY <2>1, <3>5, <4>1, <4>2, Zenon DEF BufferInv
    <3>6. Turn(p, put[p])' = Turn(p, put[p]) /\ Turn(p, put[p]) >= 1
      BY <1>1, <1>15, <2>2, Zenon DEF Turn
    <3> QED
      BY <3>1, <3>3, <3>4, <3>5, <3>6, Zenon DEF BufferInv
  <2>3. CASE Nth(1)[1] # p
    <3>1. First(p)' = 0 /\ First(p) = 0
      BY <1>5, <1>6, <1>11, <2>3, Zenon DEF First, Ahead
    <3>2. Turn(p, put[p])' = Turn(p, put[p])
      BY <1>1, Zenon DEF Turn
    <3>3. ASSUME NEW k \in 0 .. Turn(p, put[p]) - 1
          PROVE  \E i \in 1 .. Held' : Nth(i)'[1] = p /\ Turn(p, Nth(i)[2])' = k
      <4>2. PICK i \in 1 .. Held : Nth(i)[1] = p /\ Turn(p, Nth(i)[2]) = k
        BY <2>1, <3>1, Zenon DEF BufferInv
      <4>3. i # 1
        BY <2>3, <4>2, Zenon
      <4>4. PICK j \in 1 .. Held' : i = j + 1
        BY <1>9, <4>3
      <4>5. Nth(j)' = Nth(i)
        BY <1>10, <4>4, Zenon
      <4> QED
        BY <1>1, <4>2, <4>5, Zenon DEF Turn
    <3>4. ASSUME NEW i \in 1 .. Held', Nth(i)'[1] = p
          PROVE  Turn(p, Nth(i)[2])' \in 0 .. Turn(p, put[p]) - 1
      <4>1. i + 1 \in 1 .. Held /\ Nth(i)' = Nth(i + 1)
        BY <1>10, Zenon
      <4>2. Turn(p, Nth(i)[2])' = Turn(p, Nth(i + 1)[2])
        BY <1>1, <4>1, Zenon DEF Turn
      <4> QED
        BY <2>1, <3>1, <3>4, <4>1, <4>2, Zenon DEF BufferInv
    <3>5. ASSUME NEW i \in 1 .. Held', NEW j \in 1 .. Held', Nth(i)'[1] = p, Nth(j)'[1] = p, i < j
          PROVE  Turn(p, Nth(j)[2])' - Turn(p, Nth(i)[2])' \in 1 .. j - i
      <4>1. /\ i + 1 \in 1 .. Held /\ Nth(i)' = Nth(i + 1)
            /\ j + 1 \in 1 .. Held /\ Nth(j)' = Nth(j + 1) /\ i + 1 < j + 1
            /\ (j + 1) - (i + 1) = j - i
        BY <1>9, <1>10, <3>5
      <4>2. /\ Turn(p, Nth(i)[2])' = Turn(p, Nth(i + 1)[2])
            /\ Turn(p, Nth(j)[2])' = Turn(p, Nth(j + 1)[2])
        BY <1>1, <4>1 DEF Turn
      <4> QED
        BY <2>1, <3>5, <4>1, <4>2 DEF BufferInv
    <3> QED
      BY <1>13, <3>1, <3>2, <3>3, <3>4, <3>5 DEF BufferInv
  <2> QED
    BY <2>2, <2>3, Zenon
<1> QED
  BY <1>12, <1>16, <1>17 DEF OutInv

\* There are no more turns to come than bytes held, and the one before them.
LEMMA FewTurns ==
  ASSUME CountInv, NEW p \in Writers, BufferInv(p)
  PROVE  Turn(p, put[p]) <= Held + 1
<1>1. Held \in Nat /\ Turn(p, put[p]) \in Nat /\ First(p) \in {0, 1}
  BY HeldTurns, OutSized DEF First
<1>2. PICK f, m, n : f = First(p) /\ m = Turn(p, put[p]) - 1 /\ n = Held
  BY Zenon
<1>3. f \in {0, 1} /\ m \in Int /\ n \in Nat /\ m >= f - 1
  BY <1>1, <1>2 DEF BufferInv
<1>4. CASE m >= f
  <2>1. f \in f .. m /\ m \in f .. m
    BY <1>3, <1>4
  <2>2. PICK i \in 1 .. n, j \in 1 .. n :
          /\ Nth(i)[1] = p /\ Turn(p, Nth(i)[2]) = f
          /\ Nth(j)[1] = p /\ Turn(p, Nth(j)[2]) = m
    BY <1>2, <2>1, Zenon DEF BufferInv
  <2>3. CASE i = j
    BY <1>1, <1>2, <1>3, <2>2, <2>3
  <2>4. CASE i < j
    <3>1. m - f \in 1 .. j - i
      BY <1>2, <2>2, <2>4, Zenon DEF BufferInv
    <3> QED
      BY <1>1, <1>2, <1>3, <3>1
  <2>5. CASE j < i
    <3>1. f - m \in 1 .. i - j
      BY <1>2, <2>2, <2>5, Zenon DEF BufferInv
    <3> QED
      BY <1>3, <1>4, <3>1
  <2> QED
    BY <1>3, <2>3, <2>4, <2>5
<1> QED
  BY <1>1, <1>2, <1>3, <1>4

\* uartputc() stores the next byte of its writer.
LEMMA OutStore ==
  ASSUME OutInv, TtyInv, NEW p \in Writers, uartputc_store(p)
  PROVE  OutInv'
<1>1. /\ UNCHANGED <<thr, tx_r, hand, sent>> /\ ~Full
      /\ txbuf' = [txbuf EXCEPT ![tx_w % UART_TX_BUF_SIZE] = <<p, put[p]>>]
      /\ tx_w' = (tx_w + 1) % UINT64 /\ put' = [put EXCEPT ![p] = (@ + 1) % UINT64]
  BY Zenon DEF uartputc_store, device
<1>2. Sending' = Sending
  <2>1. tpc \in [Senders -> WriterLabels \cup HandlerLabels]
    BY Zenon DEF TtyInv, TxLockInv
  <2>2. tpc[p] # "send" /\ tpc' = [tpc EXCEPT ![p] = "start"] /\ p \in Senders
    BY Zenon DEF uartputc_store, consolewrite, Goto, Senders
  <2>3. \A a \in Senders : tpc'[a] = "send" <=> tpc[a] = "send"
    BY <2>1, <2>2, Zenon
  <2> QED
    BY <2>3, Zenon DEF Sending
<1>3. CountInv
  BY Zenon DEF OutInv
<1>4. /\ tx_r \in 0 .. UINT64 - 1 /\ tx_w \in 0 .. UINT64 - 1 /\ tx_w' \in 0 .. UINT64 - 1
      /\ put[p] \in 0 .. UINT64 - 1 /\ sent[p] \in 0 .. UINT64 - 1 /\ Held \in Nat
  BY <1>1, <1>3, OutSized, HeldTurns DEF CountInv
<1>5. Held < UART_TX_BUF_SIZE
  <2>1. Held <= UART_TX_BUF_SIZE
    BY <1>3, Zenon DEF CountInv
  <2>2. PICK x, y, d : x = tx_r /\ y = tx_w /\ d = Held
    BY Zenon
  <2>3. (x + d) % UINT64 = y
    <3>1. UINT64 \in Nat /\ UINT64 > 0
      BY OutSized
    <3>2. d = (y + UINT64 - x) % UINT64
      BY <2>2, Zenon DEF Held
    <3> QED
      BY <1>4, <2>2, <3>1, <3>2, Position, Zenon
  <2>4. d # UART_TX_BUF_SIZE
    BY <1>1, <2>2, <2>3, Zenon DEF Full
  <2> QED
    BY <1>4, <2>1, <2>2, <2>4, OutSized
<1>6. Held' = Held + 1
  <2>1. PICK x, y, z, d : x = tx_r /\ y = tx_w /\ z = tx_w' /\ d = Held
    BY Zenon
  <2>2. /\ x \in 0 .. UINT64 - 1 /\ y \in 0 .. UINT64 - 1 /\ z \in 0 .. UINT64 - 1
        /\ z = (y + 1) % UINT64 /\ d = (y + UINT64 - x) % UINT64
    BY <1>1, <1>4, <2>1, Zenon DEF Held
  <2>3. (y + UINT64 - x) % UINT64 < UINT64 - 1
    BY <1>4, <1>5, <2>1, <2>2, OutSized
  <2>4. (z + UINT64 - x) % UINT64 = ((y + UINT64 - x) % UINT64) + 1
    <3>1. UINT64 \in Nat /\ UINT64 > 1
      BY OutSized, Zenon
    <3> QED
      BY <2>2, <2>3, <3>1, Grow, Zenon
  <2>5. Held' = (z + UINT64 - x) % UINT64
    BY <1>1, <2>1, Zenon DEF Held
  <2> QED
    BY <2>1, <2>2, <2>4, <2>5, Zenon
<1>7. /\ tx_w % UART_TX_BUF_SIZE \in 0 .. UART_TX_BUF_SIZE - 1
      /\ (tx_r + (Held + 1) - 1) % UART_TX_BUF_SIZE = tx_w % UART_TX_BUF_SIZE
      /\ \A i \in 1 .. Held : (tx_r + i - 1) % UART_TX_BUF_SIZE # tx_w % UART_TX_BUF_SIZE
  <2>1. PICK x, y, d : x = tx_r /\ y = tx_w /\ d = Held
    OBVIOUS
  <2>2. /\ x \in 0 .. UINT64 - 1 /\ y \in 0 .. UINT64 - 1 /\ d < UART_TX_BUF_SIZE
        /\ d = (y + UINT64 - x) % UINT64
    BY <1>4, <1>5, <2>1, Zenon DEF Held
  <2>3. /\ (x + (d + 1) - 1) % UART_TX_BUF_SIZE = y % UART_TX_BUF_SIZE
        /\ \A i \in 1 .. d : (x + i - 1) % UART_TX_BUF_SIZE # y % UART_TX_BUF_SIZE
    BY <2>2, FreeSlot
  <2>4. y % UART_TX_BUF_SIZE \in 0 .. UART_TX_BUF_SIZE - 1
    BY <2>2, OutSized
  <2> QED
    BY <2>1, <2>3, <2>4, Zenon
<1>8. txbuf \in [0 .. UART_TX_BUF_SIZE - 1 -> Senders \X (0 .. UINT64 - 1)]
  BY <1>3, Zenon DEF CountInv
<1>9. PICK h \in Nat : h = Held
  BY <1>4, Zenon
<1>10. \A i \in 1 .. h : Nth(i)' = Nth(i)
  BY <1>1, <1>7, <1>8, <1>9 DEF Nth
<1>11. Nth(h + 1)' = <<p, put[p]>>
  <2>1. txbuf'[(tx_r + (Held + 1) - 1) % UART_TX_BUF_SIZE] = <<p, put[p]>>
    BY <1>1, <1>7, <1>8, Zenon
  <2> QED
    BY <1>1, <1>9, <2>1, Zenon DEF Nth
<1>12. CountInv'
  <2>1. txbuf' \in [0 .. UART_TX_BUF_SIZE - 1 -> Senders \X (0 .. UINT64 - 1)]
    <3>1. <<p, put[p]>> \in Senders \X (0 .. UINT64 - 1)
      BY <1>4, Zenon DEF Senders
    <3> QED
      BY <1>1, <1>8, <3>1, Zenon
  <2>2. put' \in [Writers -> 0 .. UINT64 - 1]
    BY <1>1, <1>3, <1>4, OutSized DEF CountInv
  <2>3. Held' <= UART_TX_BUF_SIZE
    BY <1>4, <1>5, <1>6, OutSized
  <2> QED
    BY <1>1, <1>3, <1>4, <2>1, <2>2, <2>3, Zenon DEF CountInv
<1>13. HandInv'
  BY <1>1, <1>2, Zenon DEF OutInv, HandInv
<1>14. \A q \in Writers : First(q)' = First(q) /\ First(q) \in {0, 1}
  BY <1>1, Zenon DEF First, Ahead
<1>15. ASSUME NEW q \in Writers, NEW n PROVE Turn(q, n)' = Turn(q, n)
  BY <1>1, Zenon DEF Turn
<1>16. ASSUME NEW q \in Writers, NEW i \in 1 .. h PROVE Turn(q, Nth(i)[2])' = Turn(q, Nth(i)[2])
  BY <1>1, <1>10, Zenon DEF Turn
<1>17. ASSUME NEW q \in Writers, q # p PROVE BufferInv(q)'
  <2>1. BufferInv(q) /\ Turn(q, put[q])' = Turn(q, put[q])
    BY <1>1, <1>3, <1>17, Zenon DEF OutInv, Turn, CountInv
  <2>2. \A i \in 1 .. h + 1 : Nth(i)'[1] = q => i \in 1 .. h /\ Nth(i)[1] = q
    BY <1>10, <1>11, <1>17
  <2>3. \A i \in 1 .. h : Nth(i)'[1] = q <=> Nth(i)[1] = q
    BY <1>10, Zenon
  <2>4. 1 .. h \subseteq 1 .. h + 1
    BY <1>9
  <2> QED
    BY <1>6, <1>9, <1>14, <1>16, <2>1, <2>2, <2>3, <2>4, SMTT(30) DEF BufferInv
<1>18. BufferInv(p)'
  <2>1. BufferInv(p)
    BY Zenon DEF OutInv
  <2>2. PICK m : m = Turn(p, put[p])
    BY Zenon
  <2>3. m \in Nat /\ m < UINT64 - 1
    <3>1. m <= h + 1
      BY <1>3, <1>9, <2>1, <2>2, FewTurns, Zenon
    <3>2. m \in 0 .. UINT64 - 1
      BY <1>3, <2>2, HeldTurns, Zenon
    <3> QED
      BY <1>5, <1>9, <3>1, <3>2, OutSized
  <2>4. Turn(p, put[p])' = m + 1
    <3>1. PICK s, n, k : s = sent[p] /\ n = put[p] /\ k = put'[p]
      BY Zenon
    <3>2. /\ s \in 0 .. UINT64 - 1 /\ n \in 0 .. UINT64 - 1 /\ k \in 0 .. UINT64 - 1
          /\ k = (n + 1) % UINT64 /\ (n + UINT64 - s) % UINT64 = m
      BY <1>1, <1>3, <1>4, <1>12, <2>2, <3>1, Zenon DEF CountInv, Turn
    <3>3. (k + UINT64 - s) % UINT64 = ((n + UINT64 - s) % UINT64) + 1
      <4>1. UINT64 \in Nat /\ UINT64 > 1
        BY OutSized, Zenon
      <4>2. (n + UINT64 - s) % UINT64 < UINT64 - 1
        BY <2>3, <3>2, Zenon
      <4> QED
        BY <3>2, <4>1, <4>2, Grow, Zenon
    <3> QED
      BY <1>1, <3>1, <3>2, <3>3, Zenon DEF Turn
  <2>5. Nth(h + 1)'[1] = p /\ Turn(p, Nth(h + 1)[2])' = m
    BY <1>1, <1>11, <2>2 DEF Turn
  <2>6. \A i \in 1 .. h : Nth(i)'[1] = p <=> Nth(i)[1] = p
    BY <1>10, Zenon
  <2>7. /\ First(p) <= m /\ First(p) \in {0, 1}
        /\ \A i \in 1 .. h : Nth(i)[1] = p => Turn(p, Nth(i)[2]) \in First(p) .. m - 1
        /\ \A k \in First(p) .. m - 1 : \E i \in 1 .. h : Nth(i)[1] = p /\ Turn(p, Nth(i)[2]) = k
        /\ \A i, j \in 1 .. h : Nth(i)[1] = p /\ Nth(j)[1] = p /\ i < j =>
             Turn(p, Nth(j)[2]) - Turn(p, Nth(i)[2]) \in 1 .. j - i
    BY <1>9, <1>14, <2>1, <2>2, Zenon DEF BufferInv
  <2>8. \A i \in 1 .. h + 1 : i \in 1 .. h \/ i = h + 1
    BY <1>9
  <2>9. ASSUME NEW i \in 1 .. h + 1, Nth(i)'[1] = p
        PROVE  Turn(p, Nth(i)[2])' \in First(p) .. m
    <3>1. CASE i \in 1 .. h
      BY <1>16, <2>3, <2>6, <2>7, <2>9, <3>1
    <3>2. CASE i = h + 1
      BY <2>3, <2>5, <2>7, <3>2
    <3> QED
      BY <2>8, <3>1, <3>2, Zenon
  <2>10. ASSUME NEW k \in First(p) .. m
         PROVE  \E i \in 1 .. h + 1 : Nth(i)'[1] = p /\ Turn(p, Nth(i)[2])' = k
    <3>1. CASE k = m
      BY <1>9, <2>5, <3>1
    <3>2. CASE k # m
      <4>1. k \in First(p) .. m - 1
        BY <2>3, <2>7, <3>2
      <4>2. PICK i \in 1 .. h : Nth(i)[1] = p /\ Turn(p, Nth(i)[2]) = k
        BY <2>7, <4>1, Zenon
      <4> QED
        BY <1>9, <1>16, <2>6, <4>2
    <3> QED
      BY <3>1, <3>2, Zenon
  <2>11. ASSUME NEW i \in 1 .. h + 1, NEW j \in 1 .. h + 1, Nth(i)'[1] = p, Nth(j)'[1] = p, i < j
         PROVE  Turn(p, Nth(j)[2])' - Turn(p, Nth(i)[2])' \in 1 .. j - i
    <3>1. i \in 1 .. h /\ Nth(i)[1] = p /\ Turn(p, Nth(i)[2])' = Turn(p, Nth(i)[2])
      <4>1. i \in 1 .. h
        BY <1>9, <2>11
      <4> QED
        BY <1>16, <2>6, <2>11, <4>1, Zenon
    <3>2. CASE j \in 1 .. h
      BY <1>16, <2>6, <2>7, <2>11, <3>1, <3>2, Zenon
    <3>3. CASE j = h + 1
      <4>0. PICK t : t = Turn(p, Nth(i)[2])
        BY Zenon
      <4>1. t \in First(p) .. m - 1
        BY <2>7, <3>1, <4>0, Zenon
      <4>2. m - 1 \in First(p) .. m - 1
        BY <2>3, <2>7, <4>1
      <4>3. PICK l \in 1 .. h : Nth(l)[1] = p /\ Turn(p, Nth(l)[2]) = m - 1
        BY <2>7, <4>2, Zenon
      <4>4. i < l => m - 1 - t \in 1 .. l - i
        BY <2>7, <3>1, <4>0, <4>3, Zenon
      <4>5. l < i => t - (m - 1) \in 1 .. i - l
        BY <2>7, <3>1, <4>0, <4>3, Zenon
      <4>6. i = l => t = m - 1
        BY <4>0, <4>3, Zenon
      <4>7. m - t \in 1 .. j - i
        BY <1>9, <2>3, <2>7, <3>1, <3>3, <4>1, <4>4, <4>5, <4>6
      <4> QED
        BY <2>5, <3>1, <3>3, <4>0, <4>7, Zenon
    <3> QED
      BY <2>8, <3>2, <3>3, Zenon
  <2>12. Turn(p, put[p])' - 1 = m /\ Held' = h + 1 /\ First(p)' = First(p)
    BY <1>6, <1>9, <1>14, <2>3, <2>4
  <2>13. First(p)' <= Turn(p, put[p])'
    BY <2>3, <2>4, <2>7, <2>12
  <2> QED
    BY <2>9, <2>10, <2>11, <2>12, <2>13, Zenon DEF BufferInv
<1> QED
  BY <1>12, <1>13, <1>17, <1>18, Zenon DEF OutInv

\* The buffer is empty at first.
LEMMA OutInit == Init => OutInv
<1> SUFFICES ASSUME Init PROVE OutInv
  BY Zenon
<1>1. /\ tx_w = 0 /\ tx_r = 0 /\ hand = <<Intr, 0>> /\ thr = <<>>
      /\ put = [p \in Writers |-> 0] /\ sent = [p \in Writers |-> 0]
      /\ txbuf = [i \in 0 .. UART_TX_BUF_SIZE - 1 |-> <<Intr, 0>>]
      /\ tpc = [a \in Senders |-> "idle"]
  BY Zenon DEF Init
<1>2. (0 + UINT64 - 0) % UINT64 = 0
  <2>1. 0 \in 0 .. UINT64 - 1 /\ UINT64 \in Nat /\ UINT64 > 0
    BY OutSized
  <2> QED
    BY <2>1, Distance
<1>3. Held = 0 /\ ~Sending /\ DOMAIN thr = {}
  BY <1>1, <1>2 DEF Held, Sending
<1>4. CountInv
  BY <1>1, <1>3, OutSized DEF CountInv, Senders
<1>5. HandInv
  BY <1>1, <1>3, TtyAssumption, Zenon DEF HandInv
<1>6. ASSUME NEW p \in Writers PROVE BufferInv(p)
  <2>1. Turn(p, put[p]) = 0
    BY <1>1, <1>2, Zenon DEF Turn
  <2>2. First(p) = 0
    BY <1>1, <1>3, TtyAssumption, Zenon DEF First, Ahead
  <2> QED
    BY <1>3, <2>1, <2>2 DEF BufferInv
<1> QED
  BY <1>4, <1>5, <1>6, Zenon DEF OutInv

\* Every step keeps the output in order.
LEMMA OutNext == TtyInv /\ OutInv /\ [Next]_vars => OutInv'
<1> SUFFICES ASSUME TtyInv, OutInv, [Next]_vars PROVE OutInv'
  BY Zenon
<1>0. /\ tpc \in [Senders -> WriterLabels \cup HandlerLabels]
      /\ Intr \in Senders /\ \A p \in Writers : p \in Senders
  BY Zenon DEF TtyInv, TxLockInv, Senders
<1>1. CASE UNCHANGED vars
  <2>1. UNCHANGED <<txvars, put, thr, sent>> /\ Sending' = Sending
    BY <1>1, Zenon DEF vars, device, Sending
  <2> QED
    BY <2>1, OutUnchanged, Zenon
<1>2. ASSUME NEW p \in Readers, Reading(p) PROVE OutInv'
  <2>1. UNCHANGED <<txvars, put, thr, sent, tpc>>
    BY <1>2, Zenon DEF Reading, ReaderStep, read, read_check, read_sleep, read_chars,
                read_eof, kill, device
  <2>2. Sending' = Sending
    BY <2>1, Zenon DEF Sending
  <2> QED
    BY <2>1, <2>2, OutUnchanged, Zenon
<1>3. ASSUME NEW p \in Writers, uartputc_sleep(p) \/ uartputc_release(p) PROVE OutInv'
  <2>1. UNCHANGED <<txvars, put, thr, sent>>
    BY <1>3, Zenon DEF uartputc_sleep, uartputc_release, device
  <2>2. tpc[p] # "send" /\ \E l : l # "send" /\ tpc' = [tpc EXCEPT ![p] = l]
    BY <1>3, Zenon DEF uartputc_sleep, uartputc_release, consolewrite, Started, Goto
  <2>3. Sending' = Sending
    BY <1>0, <2>2, Zenon DEF Sending
  <2> QED
    BY <2>1, <2>3, OutUnchanged, Zenon
<1>4. ASSUME \/ devintr \/ uartgetc \/ uartgetc_none \/ uartintr_release
             \/ consputc_poll \/ consoleintr_release \/ uart_receive \/ consoleintr
      PROVE  OutInv'
  <2>1. UNCHANGED <<txvars, put, thr, sent>>
    BY <1>4, Zenon DEF devintr, uartgetc, uartgetc_none, uartintr_release, consputc_poll,
                consoleintr_release, uart_receive, consoleintr, device
  <2>2. \/ tpc' = tpc
        \/ tpc[Intr] # "send" /\ \E l : l # "send" /\ tpc' = [tpc EXCEPT ![Intr] = l]
    BY <1>4, Zenon DEF devintr, uartgetc, uartgetc_none, uartintr_release, consputc_poll, Started,
                consoleintr_release, uart_receive, consoleintr, Goto
  <2>3. Sending' = Sending
    BY <1>0, <2>2, Zenon DEF Sending
  <2> QED
    BY <2>1, <2>3, OutUnchanged, Zenon
<1>5. ASSUME Next PROVE OutInv'
  <2>1. CASE \E p \in Readers : Reading(p)
    BY <1>2, <2>1, Zenon
  <2>2. CASE \E p \in Writers : WriterStep(p)
    BY <1>0, <1>3, <2>2, OutStore, OutTake, OutPut, Zenon DEF WriterStep
  <2>3. CASE Handler \/ uart_send \/ uart_receive
    BY <1>0, <1>4, <2>3, OutEcho, OutSend, OutTake, OutPut, Zenon DEF Handler
  <2> QED
    BY <1>5, <2>1, <2>2, <2>3, Zenon DEF Next, Reading
<1> QED
  BY <1>1, <1>5, Zenon

\* What is underway: THR, the byte in hand, the buffer.
LEMMA UnderwayIs ==
  ASSUME TtyInv, OutInv
  PROVE  /\ Len(thr) \in Nat /\ Held \in Nat
         /\ DOMAIN Underway = 1 .. Len(thr) + 1 + Held
         /\ \A i \in 1 .. Len(thr) : Underway[i] = thr[i]
         /\ Underway[Len(thr) + 1] = hand
         /\ \A i \in 1 .. Held : Underway[Len(thr) + 1 + i] = Nth(i)
<1>1. thr \in Seq(Byte) /\ hand \in Byte /\ Len(thr) \in Nat
  BY DEF TtyInv, TtyType
<1>2. Held \in Nat
  BY OutSized DEF OutInv, CountInv, Held
<1>3. PICK q, n, m : q = Queue /\ n = Len(thr) /\ m = Held
  BY Zenon
<1>4. \A i \in 1 .. m : q[i] = Nth(i)
  BY <1>3, Zenon DEF Queue, Nth, Held
<1>5. q \in Seq(Byte) /\ Len(q) = m
  <2>1. ASSUME NEW i \in 1 .. m PROVE Nth(i) \in Byte
    <3>1. (tx_r + i - 1) % UART_TX_BUF_SIZE \in 0 .. UART_TX_BUF_SIZE - 1
      BY <1>2, <1>3, OutSized DEF OutInv, CountInv
    <3> QED
      BY <3>1, Zenon DEF Nth, TtyInv, TtyType
  <2>2. q \in [1 .. m -> Byte]
    BY <1>3, <1>4, <2>1, Zenon DEF Queue, Held
  <2> QED
    BY <1>2, <1>3, <2>2
<1>6. PICK s : s = Append(thr, hand)
  BY Zenon
<1>7. /\ s \in Seq(Byte) /\ Len(s) = n + 1 /\ s[n + 1] = hand
      /\ \A i \in 1 .. n : s[i] = thr[i]
  BY <1>1, <1>3, <1>6
<1>8. /\ DOMAIN (s \o q) = 1 .. n + 1 + m
      /\ \A i \in 1 .. n + 1 + m : (s \o q)[i] = IF i <= n + 1 THEN s[i] ELSE q[i - (n + 1)]
  <2>1. n \in Nat /\ m \in Nat
    BY <1>1, <1>2, <1>3, Zenon
  <2>2. /\ s \o q \in Seq(Byte) /\ Len(s \o q) = n + 1 + m
        /\ \A i \in 1 .. n + 1 + m : (s \o q)[i] = IF i <= n + 1 THEN s[i] ELSE q[i - (n + 1)]
    BY <1>5, <1>7, <2>1
  <2>3. DOMAIN (s \o q) = 1 .. n + 1 + m
    BY <2>2
  <2> QED
    BY <2>2, <2>3, Zenon
<1>9. Underway = s \o q
  BY <1>3, <1>6, Zenon DEF Underway
<1>10. \A i \in 1 .. n : (s \o q)[i] = thr[i]
  BY <1>1, <1>2, <1>3, <1>7, <1>8
<1>11. (s \o q)[n + 1] = hand
  BY <1>1, <1>2, <1>3, <1>7, <1>8
<1>12. ASSUME NEW i \in 1 .. m PROVE (s \o q)[n + 1 + i] = Nth(i)
  <2>0. PICK j : j = n + 1 + i
    BY Zenon
  <2>1. j \in 1 .. n + 1 + m /\ ~ (j <= n + 1) /\ j - (n + 1) = i
    BY <1>1, <1>2, <1>3, <2>0
  <2>2. (s \o q)[j] = q[i]
    BY <1>8, <2>1, Zenon
  <2> QED
    BY <1>4, <2>0, <2>2, Zenon
<1> QED
  BY <1>1, <1>2, <1>3, <1>8, <1>9, <1>10, <1>11, <1>12, Zenon

\* The bytes of writer p ahead of the buffer: at most one, the next to leave.
LEMMA AheadIs ==
  ASSUME TtyInv, OutInv, NEW p \in Writers, NEW u, u = Underway
  PROVE  /\ \A i \in 1 .. Len(thr) + 1 : u[i][1] = p => Ahead(p) /\ Turn(p, u[i][2]) = 0
         /\ \A i, j \in 1 .. Len(thr) + 1 : u[i][1] = p /\ u[j][1] = p => i = j
         /\ Ahead(p) => \E i \in 1 .. Len(thr) + 1 : u[i][1] = p
<1>0. PICK n \in Nat : n = Len(thr)
  BY UnderwayIs, Zenon
<1>1. DOMAIN thr = 1 .. n /\ \A i \in 1 .. n : u[i] = thr[i]
  BY <1>0, UnderwayIs DEF TtyInv, TtyType
<1>2. u[n + 1] = hand
  BY <1>0, UnderwayIs, Zenon
<1>3. p # Intr
  BY TtyAssumption, Zenon
<1>4. HandInv
  BY Zenon DEF OutInv
<1>5. sent[p] \in 0 .. UINT64 - 1 /\ Turn(p, sent[p]) = 0
  <2>1. sent[p] \in 0 .. UINT64 - 1 /\ UINT64 \in Nat /\ UINT64 > 0
    BY OutSized DEF OutInv, CountInv
  <2>2. PICK s \in 0 .. UINT64 - 1 : s = sent[p]
    BY <2>1, Zenon
  <2>3. (s + UINT64 - s) % UINT64 = 0
    BY <2>1, Distance
  <2> QED
    BY <2>1, <2>2, <2>3, Zenon DEF Turn
<1>6. ASSUME NEW i \in 1 .. n + 1, u[i][1] = p
      PROVE  Ahead(p) /\ u[i][2] = sent[p]
  <2>1. CASE i = n + 1
    BY <1>2, <1>4, <1>6, <2>1, Zenon DEF HandInv, Ahead
  <2>2. CASE i # n + 1
    <3>1. i \in 1 .. n
      BY <2>2
    <3> QED
      BY <1>1, <1>4, <1>6, <3>1, Zenon DEF HandInv, Ahead
  <2> QED
    BY <2>1, <2>2, Zenon
<1>7. ASSUME NEW i \in 1 .. n + 1, NEW j \in 1 .. n + 1, u[i][1] = p, u[j][1] = p
      PROVE  i = j
  <2>1. ASSUME hand[1] = p, NEW k \in 1 .. n PROVE u[k][1] # p
    <3>1. Sending
      BY <1>3, <1>4, <2>1 DEF HandInv
    <3> QED
      BY <1>1, <1>3, <1>4, <2>1, <3>1, Zenon DEF HandInv
  <2>2. CASE hand[1] = p
    <3>1. i \notin 1 .. n /\ j \notin 1 .. n
      BY <1>7, <2>1, <2>2, Zenon
    <3> QED
      BY <3>1
  <2>3. CASE hand[1] # p
    <3>1. i \in 1 .. n /\ j \in 1 .. n
      <4>1. i # n + 1 /\ j # n + 1
        BY <1>2, <1>7, <2>3, Zenon
      <4> QED
        BY <4>1
    <3> QED
      BY <1>1, <1>3, <1>4, <1>7, <3>1, Zenon DEF HandInv
  <2> QED
    BY <2>2, <2>3, Zenon
<1>8. ASSUME Ahead(p) PROVE \E i \in 1 .. n + 1 : u[i][1] = p
  <2>1. CASE hand[1] = p
    BY <1>2, <2>1
  <2>2. CASE \E i \in DOMAIN thr : thr[i][1] = p
    BY <1>1, <2>2
  <2> QED
    BY <1>8, <2>1, <2>2, Zenon DEF Ahead
<1> QED
  BY <1>0, <1>5, <1>6, <1>7, <1>8

\* The inductive invariant says that what is underway is what was written.
LEMMA OutIntact == TtyInv /\ OutInv => OutputIntact
<1> SUFFICES ASSUME TtyInv, OutInv, NEW p \in Writers
             PROVE  LET its == {i \in DOMAIN Underway : Underway[i][1] = p} IN
                    /\ {Turn(p, Underway[i][2]) : i \in its} = 0 .. Turn(p, put[p]) - 1
                    /\ \A i, j \in its :
                         i < j => Turn(p, Underway[i][2]) < Turn(p, Underway[j][2])
  BY Zenon DEF OutputIntact, TtyInv, FifoInv
<1>1. PICK u, n, h, f, m :
        u = Underway /\ n = Len(thr) /\ h = Held /\ f = First(p) /\ m = Turn(p, put[p])
  BY Zenon
<1>2. /\ n \in Nat /\ h \in Nat /\ DOMAIN u = 1 .. n + 1 + h
      /\ \A i \in 1 .. h : u[n + 1 + i] = Nth(i)
  BY <1>1, UnderwayIs, Zenon
<1>3. m \in Nat /\ f \in {0, 1} /\ (f = 1 <=> Ahead(p)) /\ f <= m
  BY <1>1, HeldTurns DEF OutInv, First, BufferInv
<1>4. /\ \A i \in 1 .. n + 1 : u[i][1] = p => f = 1 /\ Turn(p, u[i][2]) = 0
      /\ \A i, j \in 1 .. n + 1 : u[i][1] = p /\ u[j][1] = p => i = j
      /\ f = 1 => \E i \in 1 .. n + 1 : u[i][1] = p
  BY <1>1, <1>3, AheadIs
<1>5. /\ \A i \in 1 .. h : Nth(i)[1] = p => Turn(p, Nth(i)[2]) \in f .. m - 1
      /\ \A k \in f .. m - 1 : \E i \in 1 .. h : Nth(i)[1] = p /\ Turn(p, Nth(i)[2]) = k
      /\ \A i, j \in 1 .. h : Nth(i)[1] = p /\ Nth(j)[1] = p /\ i < j =>
           Turn(p, Nth(i)[2]) < Turn(p, Nth(j)[2])
  <2>1. /\ \A i \in 1 .. h : Nth(i)[1] = p => Turn(p, Nth(i)[2]) \in f .. m - 1
        /\ \A k \in f .. m - 1 : \E i \in 1 .. h : Nth(i)[1] = p /\ Turn(p, Nth(i)[2]) = k
        /\ \A i, j \in 1 .. h : Nth(i)[1] = p /\ Nth(j)[1] = p /\ i < j =>
             Turn(p, Nth(j)[2]) - Turn(p, Nth(i)[2]) \in 1 .. j - i
    BY <1>1, Zenon DEF OutInv, BufferInv
  <2>2. ASSUME NEW i \in 1 .. h, NEW j \in 1 .. h, Nth(i)[1] = p, Nth(j)[1] = p, i < j
        PROVE  Turn(p, Nth(i)[2]) < Turn(p, Nth(j)[2])
    <3>1. PICK a, b : a = Turn(p, Nth(i)[2]) /\ b = Turn(p, Nth(j)[2])
      BY Zenon
    <3>2. a \in f .. m - 1 /\ b \in f .. m - 1 /\ b - a \in 1 .. j - i
      BY <2>1, <2>2, <3>1, Zenon
    <3>3. b - a >= 1
      BY <1>2, <3>2
    <3> QED
      BY <1>3, <3>1, <3>2, <3>3
  <2> QED
    BY <2>1, <2>2, Zenon
<1>6. ASSUME NEW i \in 1 .. n + 1 + h, ~ (i <= n + 1)
      PROVE  i - (n + 1) \in 1 .. h /\ u[i] = Nth(i - (n + 1))
  <2>1. PICK k \in 1 .. h : i = n + 1 + k
    <3>1. i - (n + 1) \in 1 .. h /\ i = n + 1 + (i - (n + 1))
      BY <1>2, <1>6
    <3> QED
      BY <3>1, Zenon
  <2>2. k = i - (n + 1)
    BY <1>2, <2>1
  <2> QED
    BY <1>2, <2>1, <2>2, Zenon
<1>7. ASSUME NEW i \in 1 .. n + 1 + h, u[i][1] = p
      PROVE  Turn(p, u[i][2]) \in 0 .. m - 1
  <2>1. CASE i <= n + 1
    <3>1. i \in 1 .. n + 1
      BY <1>2, <2>1
    <3>2. f = 1 /\ Turn(p, u[i][2]) = 0
      BY <1>4, <1>7, <3>1, Zenon
    <3> QED
      BY <1>3, <3>2
  <2>2. CASE ~ (i <= n + 1)
    <3>1. Turn(p, u[i][2]) \in f .. m - 1
      BY <1>5, <1>6, <1>7, <2>2, Zenon
    <3> QED
      BY <1>3, <3>1
  <2> QED
    BY <2>1, <2>2, Zenon
<1>8. ASSUME NEW k \in 0 .. m - 1
      PROVE  \E i \in 1 .. n + 1 + h : u[i][1] = p /\ Turn(p, u[i][2]) = k
  <2>1. CASE k < f
    <3>1. f = 1 /\ k = 0
      BY <1>3, <2>1
    <3>2. PICK i \in 1 .. n + 1 : u[i][1] = p
      BY <1>4, <3>1, Zenon
    <3>3. i \in 1 .. n + 1 + h /\ Turn(p, u[i][2]) = 0
      BY <1>2, <1>4, <3>2
    <3> QED
      BY <3>1, <3>2, <3>3, Zenon
  <2>2. CASE ~ (k < f)
    <3>1. k \in f .. m - 1
      BY <1>3, <2>2
    <3>2. PICK j \in 1 .. h : Nth(j)[1] = p /\ Turn(p, Nth(j)[2]) = k
      BY <1>5, <3>1, Zenon
    <3>3. n + 1 + j \in 1 .. n + 1 + h
      BY <1>2
    <3> QED
      BY <1>2, <3>2, <3>3, Zenon
  <2> QED
    BY <2>1, <2>2, Zenon
<1>9. ASSUME NEW i \in 1 .. n + 1 + h, NEW j \in 1 .. n + 1 + h, u[i][1] = p, u[j][1] = p, i < j
      PROVE  Turn(p, u[i][2]) < Turn(p, u[j][2])
  <2>1. ~ (j <= n + 1)
    <3> SUFFICES ASSUME j <= n + 1 PROVE FALSE
      BY Zenon
    <3>1. i \in 1 .. n + 1 /\ j \in 1 .. n + 1 /\ i # j
      BY <1>2, <1>9
    <3> QED
      BY <1>4, <1>9, <3>1, Zenon
  <2>2. PICK l : l = j - (n + 1)
    BY Zenon
  <2>3. l \in 1 .. h /\ u[j] = Nth(l)
    BY <1>6, <2>1, <2>2, Zenon
  <2>4. CASE i <= n + 1
    <3>1. i \in 1 .. n + 1
      BY <1>2, <2>4
    <3>2. f = 1 /\ Turn(p, u[i][2]) = 0
      BY <1>4, <1>9, <3>1, Zenon
    <3>3. Turn(p, u[j][2]) \in f .. m - 1
      BY <1>5, <1>9, <2>3, Zenon
    <3> QED
      BY <1>3, <3>2, <3>3
  <2>5. CASE ~ (i <= n + 1)
    <3>1. PICK k : k = i - (n + 1)
      BY Zenon
    <3>2. k \in 1 .. h /\ u[i] = Nth(k)
      BY <1>6, <2>5, <3>1, Zenon
    <3>3. k < l
      BY <1>2, <1>9, <2>2, <3>1
    <3> QED
      BY <1>5, <1>9, <2>3, <3>2, <3>3, Zenon
  <2> QED
    BY <2>4, <2>5, Zenon
<1> QED
  BY <1>1, <1>2, <1>7, <1>8, <1>9

\* Bytes of a write() leave the machine in the order written, none lost or
\* repeated, for every number of writers and every size of the buffer and of
\* its free-running indices (uart.c:86-157): the next byte to leave is in
\* uart_tx_buf, in uartstart()'s hand or in THR, and the others follow.
THEOREM OutputIntactHolds == Spec => []OutputIntact
<1>1. Spec => []OutInv
  BY OutInit, OutNext, TtyInvariant, PTL DEF Spec
<1> QED
  BY <1>1, OutIntact, TtyInvariant, PTL
==============================================================================
