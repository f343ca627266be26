# Verification of the Lazurit gateway firmware

The firmware (STM32F103, FreeRTOS) polls one Modbus RTU slave over RS485 and
serves what it read to Modbus TCP clients through a W5500 Ethernet chip.  This
directory holds TLA+ modules that model its own logic, TLC configurations that
check them, and theorems that TLAPS checks.  Line numbers are those of the
sources under `src/`; `PROJECT.json` maps every definition to its lines.

## 1. Inventory

```
 RS485 slave ── USART1 ──> HAL receive interrupt ──> HAL_UART_RxCpltCallback
                 ^                                        │ mdb_reg_buf, mdb_err_code
                 │ request                                v
             taskMdb ──────────────────────────> mdb_err_cnt, mdb_err_code
                                                          │ (no lock)
 TCP clients ── W5500 ── SPI2/DMA ── taskNet ── ModbusSS_ParseRxData ── modbusHoldingReq
```

Two tasks of equal priority share one core with time slicing
(`FreeRTOSConfig.h`), so each can be preempted at any instruction, and the
interrupts come in between.  There is no lock, queue or semaphore: the tasks
and the interrupt meet in global variables, and `taskNet` meets the chip in
registers it polls.

| component | source | state | operations | hard behaviour | correct when |
|---|---|---|---|---|---|
| RTU master | `Core/Src/freertos.c` `taskMdbEntry`, `HAL_UART_RxCpltCallback` | wait flag, two tick counters, error count and code, five registers | poll, wait, give up, take an answer | task and interrupt write the same variables; late answers; overruns | every poll has one outcome; the registers become valid again |
| HAL UART receiver | `stm32f1xx_hal_uart.c` | `RxState`, RXNEIE, buffer pointer and counter; DR, RXNE and ORE of the USART | start, abort, interrupt | stale byte, overrun, refused start | no interrupt storm, no byte behind the buffer |
| register table | `freertos.c` `modbusHoldingReq` | `modbusHoldingBuf` | refresh before each read | registers read one by one while they are replaced | answers are torn only in the one way that cannot be avoided |
| Modbus TCP slave | `Drivers/ModbusSS/ModbusSS.c` | none | parse a request, build the answer in place | field ranges, casts, exceptions | registers that exist are read and written, others are left alone |
| TCP server | `Drivers/Ethernet/Eth.c`, `taskNetEntry` | per socket: exchange state and sizes; one buffer for all | poll four sockets in turn | state that outlives its connection; errors that stop the task | a client is answered, and with its own request |
| socket library | `ioLibrary_Driver-master/Ethernet/socket.c` | `sock_is_sending`, `sock_io_mode` | socket, listen, send, recv, disconnect, close | status read twice around an event of the chip; blocking loops | no call blocks for ever |
| W5500 registers | `W5500/w5500.c`, `w5500.h` | the chip: a ring, pointers and counters per direction | read a 16-bit counter byte by byte; copy to or from the ring and move the pointer | the counter changes between two bytes; the pointer is written in two halves and wraps elsewhere than the ring | a value that was there; every byte moved once and in order |
| SPI by DMA | `w5500.c` 65-185, `Eth.c` 369-427, `stm32f1xx_hal_spi.c`, `stm32f1xx_hal_dma.c`, `stm32f1xx_it.c` | HAL state, states of two DMA channels, data and shift register, chip select | read and write a register or a buffer | the task polls a state that two interrupts change; full duplex brings in bytes nobody wants | the bytes of an access reach the chip in order, each once, and the chip is deselected after the last |
| parameters | `Drivers/Parameters/param.c` | table of parameters, string buffers, event counters | set from a CGI string, compare, check events | strings as long as their buffer; handlers that set parameters while events are checked | a text compares equal to what was sent; every event is handled as often as it was set. Linked, but not called yet |
| CRC | `freertos.c` 447-465, `ModbusSS.c` 193-214 | none | CRC-16 of a frame | none: a function | it tells a damaged frame |

DHCP and the UDP finder are compiled out; the remaining directories are
vendored (HAL, CMSIS, FreeRTOS, ioLibrary services) or generated.

## 2. Modules

| module | models | uses |
|---|---|---|
| `Uart` | the HAL receiver and the USART behind it | |
| `RtuMaster` | `taskMdb`, the receive callback, the slave and the line | `Uart`; implements `PollCycle` |
| `PollCycle` | abstract: polls follow one another, each answered or lost; with a parameter that allows late answers to be counted as lost | |
| `Gateway` | the registers between the RTU writers and `taskNet` | |
| `GatewaySystem` | both tasks: `RtuMaster` in the place of the writers, the loop of `Gateway` as the reader | `RtuMaster`; implements `Gateway` |
| `ModbusSS` | parser and answers, to the byte | |
| `W5500` | the chip: commands of the driver, events of the network | |
| `TcpServer` | `taskNet`: server, socket library, shared buffer | `W5500`; implements `RequestServer` |
| `RequestServer` | abstract: on each socket requests wait, are answered, refused or given up with their connection | |
| `RegRead16` | the double read of a 16-bit counter | |
| `WizBuffer` | `wiz_recv_data` and `wiz_send_data`: ring, 16-bit pointers, the two bytes each is written in, the chip and the peer | `RegRead16`; implements `ByteStream` |
| `ByteStream` | abstract: a queue of bytes, put in at one end and taken out at the other | |
| `SpiBus` | one access to the chip: `WIZCHIP_READ` ... `WIZCHIP_WRITE_BUF`, bursts, DMA, interrupts, bus | implements `ChipAccess` |
| `ChipAccess` | abstract: the bytes of an access are exchanged one by one, then the call returns | |
| `Param` | the parameter table, its callers and its event handlers | |
| `MC...` | instances for TLC | |
| `RtuProofs` (and `Uart`), `GatewayProofs`, `SystemProofs`, `TcpProofs`, `SpiProofs`, `WizProofs` (and `RegRead16`), `ModbusProofs`, `ParamProofs` | theorems | |

Definitions whose comment starts with *Fault* are variants of the action behind
them that a plausible bug would give.  No specification uses them; `PROJECT.json`
names for each property the variant that breaks it, so no property holds
whatever the code does.

### The serial side

`Uart` has one action per HAL call.  A call is one step although it is many
instructions, because on one core the handler runs entirely before or after the
one write to RXNEIE that it depends on.  The USART is a data register of one
byte and an overrun flag; an overrun sets only ORE, and reading SR and then DR
clears it.  EIE does not raise an interrupt by itself without DMA (reference
manual of the STM32F1), so the pending condition is RXNEIE and (RXNE or ORE).

`RtuMaster` adds the task.  Its steps end where the next access to what it
shares with the interrupt begins: give up, abort, count and code are four steps.
Counters keep their post-increment (they overshoot their limit by up to two),
and `mdb_err_cnt` its width (`CntMod`).  A frame is a sequence of bytes with its
CRC as last member; the only thing said of a CRC is that a damaged frame has
none (`Frame` is injective and `Garbled` is whatever the configuration puts on
the line).  Kinds of fault (`Faults`): *garbled*, the slave answers nothing, a
damaged, a short or a long frame; *late*, the exchange is not over when the
task goes on; *txtimeout*, `HAL_UART_Transmit` times out.  Without *late*, an
exchange of about 2 ms is over before 2000 ms are counted; that is the guard
`Quiet` in `GiveUp` and `StartRequest`.  The history variable `clean` says of the
poll that is running that nothing was on the line and no byte in the data
register when the request was sent, nor a byte when the reception began;
`OneAnswer` is what follows for the bytes of that poll.

`Gateway` takes the writers (reduced to the statements that write the three
variables a client can read) and interleaves them with the loop of
`modbusHoldingReq`, one register per step.  A frame is represented by the number
of its copy, so "older" and "newer" are comparisons.  The task gives up in
three steps, and a late answer may end the poll between the first and the
second.

`GatewaySystem` puts the two together: every step of the task, its interrupt,
the slave or the line (`Write`), and every step of the reader (`Read`), in any
order.  `RtuMaster` keeps the values of the registers and `Gateway` the number
of their copy, so the composition has a history of the copies (`copied`); its
length is the number, its last member what the registers hold
(`BufferIsLastCopy`).  `ImplementsGateway` says that the RTU master is one of the
writers `Gateway` allows, so what is true of `Gateway`'s answers is true of the
answers a client of the whole system gets.

### The network side

`W5500` has one action per command and per event of the network.  A command is
one step, since the driver waits for `Sn_CR`.  What is received is a sequence of
bytes.  Of a byte it matters only what the parser makes of it where it looks for
unit and function (`UnitFunc`): it accepts or refuses the ones a client puts
there, and may do either with a byte of data that got into that place.
SENDOK is set when the data is acknowledged.  `Events` says what clients do
besides the ordinary: *earlySyn* (connect between the LISTEN command and the
read of the status), *abort* (close or reset in the middle of an exchange),
*timeout* (retransmissions used up), *pipeline* (send without waiting),
*fragment* (a request in segments that end at any byte, so also within the header),
*bad* (a request the parser refuses).

In `TcpServer` every read of a chip register is a step: the status may change
between any two.  `Sn_RX_RSR` takes two, as `getSn_RX_RSR` does not verify a zero:
if the high byte was 0 and the size reaches a multiple of `Radix` before the low
byte is read, a zero is read for a buffer that is not empty (`RSR`).  `Eth_f_recv`
then comes back at its next turn; `recv` goes round in its loop, or, when the client
has closed its side, looks at `Sn_TX_FSR` to decide whether to do that or to close.
Every other value that `getSn_RX_RSR` returns was in the register at a moment
between its first and its last byte (`RegRead16`), so reading it there is one step.
`Sn_TX_FSR` is one step, too: at most one answer is on its way, so its high byte is
never 0.  Error returns are followed to where they end, including the
negative error code that becomes a `uint16_t` in `Eth_f_runTcpSrv` (line 249)
and is taken for a length.  `pc = "halt"` is `Error_Handler`, which disables
interrupts and never returns.  `buf` records for each byte of the shared buffer that
the parser takes for the request whose it is, which is how the ownership properties
are stated.

`ModbusSS` works on real bytes: `GetWord`, `WriteWord` (which counts words from
the pointer it is given), the cast before the product in the byte count, and the
subtraction `r + q - 1` without a lower bound are the code's.

The refinement of `RequestServer` counts the requests that are still in the chip,
in the buffer or in the parser: what is *waiting* is read off the state of the
server at every one of its labels, so a request that was answered twice, or an
answer that was made up, would be a step the abstract server has not.  Requests
that are read together are parsed once and get one answer (`Answer` takes any
number of them); a client that closes its side at once loses its request with
its connection (`GiveUp`).  `mute` is `state_res_inProc` outside an exchange.

`RegRead16` is the double read of a counter in all its bytes.  `TcpServer` takes two
things from it: a value that was there, or a zero across a boundary
(`ResultWasThere`, `ZeroOnlyAcrossBoundary`).  `WizBuffer` puts that reader to work, for one direction of one
socket at a time (`dir`): the driver reads the counter, copies a message,
writes its pointer as two bytes and gives the command, while bytes keep coming
in or going out.  The chip takes the pointer for a count modulo `Mod` and the
ring has `Size` cells, of which `Mod` is a multiple, as 2 KB is of 64 KB.

`SpiBus` is below both: one access is a frame of three header bytes and data.
The task, the two DMA channels, the shift register and the two interrupts are
actions of their own.  A burst of the header is sent with channel 5 alone, so
what the chip sends meanwhile stays in the data register and the overrun flag is
set; `SPI_DMATransmitCplt` clears both.  `SPI_DMAReceiveCplt` is called by the
interrupt of channel 4, when channel 5 may still be marked busy: that the next
transfer finds it ready rests on both interrupts having the same priority
(`dma.c` 45-51), with which the one follows the other before the task runs.  The
handlers' half-transfer calls change nothing and are left out.  The chip's
memory is a ring of cells; registers may change between any two steps, a buffer
does not while it is transferred (`RegisterChanges`).

### The parameters

`Param` has one action per call, except that `param_f_checkEvents` is as many
steps as it calls handlers, and that a handler may set parameters itself before
it returns.  A request is `key=data`, perhaps with `&...` behind it; a character
is its code, so that a text, its terminator and what strcmp finds behind a buffer
without one (anything) are what they are in C.  sscanf answers EOF at the end of
a string, which the code takes for a success; that is `Scans`.

## 3. Runs

| run | bounds | what it shows |
|---|---|---|
| `rtu` | frames of 3 bytes, 2 values, 2 faults of any kind, any damage, fairness | `ReceiverOwned`, `FreshAfterTwoGood`; the HAL receiver under its real caller: no storm, no overflow, no overrun without a byte; `OneAnswer`; the master never stops polling; `RecoversUnlessStale`; the refinement of `PollCycle` |
| `rtu_noerr` | 1 damaged answer | violated: garbage beside error code 0 |
| `gateway` | `GatewaySystem`: frames of 1 byte, a value and a damaged frame, 1 fault (damaged or late); 2 registers of the frame plus count and code, 2 copies, 1 error; reads of registers 1-3 and 2-4, writes of a word no register can have | what one answer and two answers may mix; the refinement of `Gateway` |
| `modbus` | 2 registers at numbers 255 and 256; requests around every limit; 2 values per register | answers as the protocol has them; other requests are harmless |
| `modbus_err` | the same | violated: exceptions without their flag |
| `tcp` | 1 socket, all events; requests of 3 bytes, the parser looks at the second; 6 bytes in the chip's buffer, 5 in the program's; a zero can be read when 4 bytes are there | types, `AtMostOneUnacked`, `StuckOnlyAfterFailure`, `ReceivedIsOwn`, `OnlyNewDataDisturbs` |
| `tcp_own` | 2 sockets, abort, timeout, pipeline, early SYN; a zero can be read when 2 requests are there | no answer from another connection's bytes; the refinement of `RequestServer`; `taskNet` halts only for a peer that vanished, or for one that connected inside `listen` |
| `tcp_live` | 2 sockets, abort, bad, fairness | served unless failed; sockets reopen |
| `tcp_busy` | 1 socket, pipeline | violated: SOCK_BUSY in block mode |
| `wiz` | one direction at a time, a ring of 4 cells, pointers modulo 8, bytes of three values (so the counter needs two), messages of up to 2 bytes, 2 byte values, fairness | a nonzero fill level was there; a zero is wrong in one case only; the refinement of `ByteStream` where ring and pointer wrap; every read of a counter returns |
| `spi` | 3 cells of memory, 2 values, bursts of 1 or 2 bytes at any address, fairness | no transfer is refused, no frame is cut, the refinement of `ChipAccess`, every access returns |
| `param` | a number, a text buffer of 2 characters, 3 events of which 2 have handlers, each set at most twice; texts of up to 3 characters | a text compares equal to what was sent and never to what was there before; every event is handled as often as it was set |

Why the bounds are enough.  Two values tell a stale register from a fresh one.
Three bytes per frame give a first, a middle and a last byte, and a frame that
is shifted by one never has a right CRC.  Two faults let one fall on what the
other left behind, and the error code is only remembered for one poll.  One
socket has all the interleavings of a client with the server; two have all the
sharing there is, since a third differs from the second in nothing.  A request of
three bytes has a byte before and one behind the one the parser looks at, so that a
segment can end on either side of it; two requests are more than the program's buffer
takes in `tcp`, and reach the size at which a zero is read.  In `tcp_live` a client
waits for its answer before it sends again, so a size never grows from one that was
read to that boundary; what a zero costs there is bounded by `OnlyNewDataDisturbs`:
by the time `recv` goes round, the high byte is not 0 any more and the next value it
reads is right.  In `gateway`, a second frame during
the refresh is what can tear an answer; the two reads overlap without one holding
the other and reach the registers of the frame, the count and the code; how a
frame is put together is the business of `rtu`, and the proofs cover every size.  In
`spi`, a burst of two is the shortest with a byte that waits in the data register
while another is shifted; accesses follow one another in any order, so each kind
meets what each other kind leaves on the bus.  In `wiz` a pointer wraps after two
rounds of the ring and a message wraps in the middle; the counter passes from one
high byte to the next with every fill of the ring.  In `param` a text can be
shorter than its buffer, fill it or be too long, and an event can be set again by
its own handler, by one before it and by one behind it.

The two runs with `CHECK_DEADLOCK FALSE` (`tcp`, `tcp_own`) contain the events
that end in `Error_Handler`, where the system really stops.

Fairness.  `RtuMaster` assumes that the scheduler runs the task (it is ready
again after each `osDelay(1)`), that a pending interrupt is taken, and that
bytes that are sent arrive; faults are never obliged to happen, and their
number is bounded because a line that always fails cannot be recovered from.
`TcpServer` assumes that the task runs (equal priorities with time slicing), and
that the TCP peer completes what it has begun: handshake, acknowledgement and
close.  Clients need not send anything.  `WizBuffer` assumes only that the
driver runs (`WizFair`): nobody has to send or to take a byte.  `SpiBus` assumes
that the task runs, that the hardware goes on and that a pending interrupt is
taken.

## 4. What the runs found

* **Registers and error code do not belong together** (`rtu_noerr`).
  `HAL_UART_RxCpltCallback` looks at the error code of the poll *before* to decide
  whether to copy the frame (line 428).  A frame with a wrong CRC after a good
  poll is copied; the next good frame is not, but clears the code.
  `FreshAfterTwoGood` is what is left: after two good frames in a row the
  registers are right.
* **`send` returns an error its header does not promise** (`tcp_busy`):
  SOCK_BUSY on a blocking socket.  The server then disconnects a client that
  asks again before its acknowledgement has arrived.
* **Exceptions at the wrong place** (`modbus_err`): positions in bytes are passed
  to a macro that counts words (`ModbusSS.c` 112 and 125).

Six more things the models show, of which no comment or document speaks:

* One early byte stops the serial side.  A reception is started without reading
  the data register (`freertos.c` 387), so a byte left there shifts every later
  answer, each of which leaves its own last byte behind; nothing ever empties
  the register.  `OneAnswer` and `RecoversUnlessStale` say that this is the only
  way: a poll that began with the register and the line empty gets the bytes of one
  answer, and as long as all begin so, the registers become valid again after any
  faults.
* `exchangeState` survives its connection.  After a request the parser refuses,
  or a failed send, the socket stays in `state_res_inProc` for good: it accepts
  clients and never answers (`Eth.c` 253-291).  `StuckOnlyAfterFailure` and
  `ServedUnlessFailed` state exactly how far the server can be relied on.
* A request that arrives in segments is parsed when the first of them is there:
  neither `Eth_f_recv` (`Eth.c` 134) nor the parser (`ModbusSS.c` 44-64) looks at the
  length.  A segment may end anywhere, also before the unit or the function, and what
  is behind it in the shared buffer, header bytes included, is what another
  connection left there.  `AnswerIsOwn` and the refinement of `RequestServer` fail
  with *fragment*, and are stated without.  `ReceivedIsOwn` is what is left with it:
  the bytes that were received for an answer, and only these, are its connection's.
* More data between the two reads of the size, or more than the buffer holds, costs
  a client its connection (`Eth.c` 135).  `OnlyNewDataDisturbs` says that nothing else
  does, whatever values the two reads return.
* A peer that vanishes after its FIN makes `disconnect` time out, and `taskNet`
  halts for all sockets.
* `listen` reads the status once after its command and expects SOCK_LISTEN
  (`socket.c` 248).  A client that connects in between makes it close the socket
  and answer SOCKERR_SOCKCLOSED, for which `taskNet` halts, too.
  `HaltsOnlyForAPeer` says that nothing but these two makes it halt.

Of the SPI driver the runs and proofs show that it is right, and on what that
hangs: the priorities of the two DMA interrupts, and the overrun that is cleared
after a transmission although nothing was received on purpose.

## 5. Theorems

All for every value of the constants, under the assumptions the modules name.

| theorem | statement | argument |
|---|---|---|
| `UartSafety` | the four invariants of `Uart`, for any caller in any order (the run has the one caller there is) | type and the equivalence of RXNEIE and `BUSY_RX` |
| `RtuTypeCorrect`, `RtuReceiverOwned`, `RtuFresh`, `RtuRoomForNextByte`, `RtuOverrunKeepsByte` | invariants of `RtuMaster` and of `Uart` under it | `RtuInv`: at which `pc` the flag is set and the receiver can run; a good frame leaves code 0, so the next good one is copied |
| `RtuOneAnswer` | invariant of `RtuMaster` | the bytes that are stored, held and on the line are, in this order, constant while a reception runs (`Arriving`), and between request and reception nothing is lost unless a byte is left over (`NothingLost`) |
| `RtuImplementsPollCycle` | refinement, for every set of faults | `InTime`: without *late*, nothing is on its way when the task gives up, so no answer ends the same poll; with it, `Overtaken` says that an answer which ended the poll can be followed by one `LostAfterAll` and no more |
| `GatewayTypeCorrect`, `GatewayTornForward`, `GatewayReplyIsRegular`, `GatewayNeverBackwards` | two invariants, two action properties of `Gateway`, for constants as in `GatewayAssumption` | `GatewayInv`: what was refreshed was seen, lies in order, and is a lower bound of what the registers have now |
| `SystemImplementsGateway` | refinement: `GatewaySystem` implements `Gateway` | `SystemInv`: that of `RtuMaster`; the registers are the last copy; the count is below its bound and has not wrapped; a register asked for was seen as it is now, so that a step which writes none is a stutter |
| `SystemTornForward`, `SystemReplyIsRegular`, `SystemNeverBackwards` | the three properties of `Gateway`, of the whole system | the theorems of `GatewayProofs`, instantiated with the mapping of the refinement |
| `TcpTypeCorrect`, `TcpOneUnacked`, `TcpOnlyNewDataDisturbs`, `TcpStuckOnlyAfterFailure`, `TcpReceivedIsOwn` | invariants and an action property of `TcpServer`, with segments that end anywhere | `TcpInv`: sizes that were read are lower bounds, since only the task takes data out, and `recv` reads a zero only if data came to a buffer whose high byte was 0 before (`SizesAreLowerBounds`); from `recv` to the end of the turn, the bytes received are the connection's, unless it is closed (`ReceivedOwn`); the connection that is served cannot be replaced while it is; SENDOK and `sock_is_sending` account for every answer on its way; the exchange is in process exactly between parse and send |
| `TcpAnswerIsOwn` | the same for whole requests, when `"fragment" \notin Events` | `WholeInv`: every buffer holds whole requests, so what is received is at least one request and covers all that is parsed |
| `TcpImplementsRequestServer` | refinement, when `"fragment" \notin Events` | every step of the task concerns its own socket (`OthersStay`, `OneMoves`); what waits is what is in the chip, in hand or in the parser, in whole requests (`WholeInv`); what the network does is one request, one acknowledgement or the end of one connection |
| `TcpHaltsOnlyForAPeer` | action property of `TcpServer` | `Listened`: between the LISTEN command and the read of the status only a SYN changes the status |
| `ModbusTypeCorrect`, `ModbusReadAnswered`, `ModbusWriteAnswered`, `ModbusFrameFits`, `ModbusOthersHarmless` | four invariants and an action property of `ModbusSS` | not an induction, beyond the types: each answer is followed through the parser (`ParseAnswers`), from the bytes of a word (`WordOfBytes`) over the range check (`TableRange`) to the header (`MbapWritten`) |
| `WizTypeCorrect`, `WizResultWasThere`, `WizZeroOnlyAcrossBoundary` | invariants of `WizBuffer` | `WizInv`: the counter is one that `RegRead16` can have; the pointer register is the oldest byte plus the bytes in the ring, except between the two writes, when only its high half is new |
| `WizImplementsByteStream` | refinement | the queue is what lies between the two pointers (`Queue`); a copied message is its front, or becomes its end, and that is where `CommandMoves` puts it; the arithmetic is that of remainders modulo the ring and modulo the pointer (`RestOfSum`, `RestInjective`) |
| `SpiTypeCorrect`, `SpiNeverRefused`, `SpiFrameWhole` | invariants of `SpiBus` | `SpiInv`: bytes that are written and not yet clocked are on the line (`OnTheLine`); at each label of the task, how far the transfer may be (`Progress`) |
| `SpiImplementsChipAccess` | refinement | a byte that is exchanged behind the header is the next byte of the access, because the data register and the shift register hold the items in order; at `deselect` all are exchanged and a reader has what the chip sent |
| `ParamComparesAsSent`, `ParamEachEventHandledOnce` | invariants of `Param` | `ParamInv`: a buffer holds what was sent last and NUL behind it (`Holding`), so `strcmp` reads it back as long as it is shorter than the buffer (`ReadBack`); what was set before the round began is done for every element the loop has passed (`EventInv`) |
| `RegResultWasThere`, `RegZeroOnlyAcrossBoundary`, `RegReadTypeCorrect` | `RegRead16` | the high byte, which only grows, is the same before and after the low byte was read |

None of the invariants above is inductive by itself, except for the types.  For example
`AtMostOneUnacked` says nothing of `sock_is_sending`: that a new answer is sent
only when the one before is acknowledged needs "unacknowledged data implies
that the bit is set and SENDOK is not" at every place of `send`, and there the
places between the two reads of the status matter.  Or `TornForward`: an answer
is in order because the table is, the table is because each word is not greater
than its register *now*, and that holds because registers only grow.

`GatewayTypeOK` and `ModbusTypeOK` are proved and not in a run.  `SystemHasMaster` carries all
that is proved of `RtuMaster` over to `GatewaySystem`.

Only model-checked: liveness (`PollsForever`, `RecoversUnlessStale`, `ServedUnlessFailed`,
`AlwaysReopens`, `Returns`, `AccessReturns`), which the prover cannot do under fairness.
Where `Param` looks for the first number, blank or terminator in a text, its proof
needs no induction over the text: a set of numbers has a least member because `<` on
them is well-founded (`LeastOf`).

## 6. What is assumed and what is left out

* A byte on the line is served before the next one is complete (87 us).
* `mdb_err_cnt` is not followed past its wrap in `Gateway` and `GatewaySystem`
  (`MaxErr`), since a client then sees it fall; `RtuMaster` has the wrap.
* The SPI bus is used by `taskNet` only, so accesses do not overlap and `TcpServer`
  takes each for one step.
* Channel 4 reads a byte before the next one is shifted (32 cycles of the core),
  BSY covers a byte that waits in the data register, and the waits for BSY do
  not reach their timeout of 100 ms (a byte takes less than 1 us).  DMA does not
  fail: every burst lies in RAM.
* Bursts have at least one byte, as `wiz_send_data` and `wiz_recv_data` return
  before they start an empty one.
* A table has at most 127 registers: the byte count of an answer is a byte
  (`ModbusSSAssumption`; the program has 7).
* The pointer's range is a multiple of the ring (`WizBufferAssumption`; 2 KB and 64 KB).
* A handler of a parameter event does not call `param_f_checkEvents` itself, and
  nothing else runs while a call does.  Values have no sign and no blanks.
* A request has `ReqLen` bytes, 12 for the functions that are served (3 and 6); the
  first byte of a size tells only whether it is below `Radix`.
* `AnswerIsOwn`, `ImplementsRequestServer` and the theorems on them assume that a
  request comes in one segment (`"fragment" \notin Events`), which neither TCP nor the
  code guarantees.  So does the run `tcp_live`.  The other properties of the server do
  not assume it.
* MBAP transaction and protocol numbers are left as they came; nothing in the
  code looks at them.

### Not modelled

* Serial mode of `ModbusSS` (never configured), null tables and several tables
  (there is one).
* `echoMode`, `state_close` and `cbfunc_sendData` of the server (never set),
  `connect`, `sendto`, `recvfrom` and the socket options (never called).
* Network setup (constants, written once), start-up, clocks, LEDs.
* `param_f_setParam`: not declared in `param.h`, so nothing can call it.
* The two CRC functions: functions of a frame, without state.  `RtuMaster` says
  what it relies on, that a damaged frame has no valid CRC; which damage a CRC of
  16 bits misses is a theorem about polynomials.
* The FreeRTOS kernel, the rest of HAL, LL and CMSIS and the other services and
  chips of ioLibrary: vendored, most of it not linked, and used here only through
  what the modules above take from it.  They are almost all the lines of the
  repository, so the share of it that is modelled is small although little is
  left of the program's own logic.

## 7. Order of the work

`Uart`, `RtuMaster` with `PollCycle`, `W5500` and `TcpServer`, `ModbusSS`,
`Gateway`, `RegRead16`, `SpiBus` with `ChipAccess`, `WizBuffer` with `ByteStream`,
`RequestServer`, `Param`, `GatewaySystem`; the proofs beside each.  What could follow:

1. `TcpServer` on top of `WizBuffer`, which it now takes for one step per message.
2. `GatewaySystem` with the whole server in the place of its one reader.
