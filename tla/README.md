# A TLA+ model of qodem

Qodem is a terminal emulator and communications program: it dials hosts from a
phonebook (serial modem, telnet, rlogin, ssh, raw socket, local shell), shows
what they send through one of many terminal emulations, and transfers files
with Xmodem, Ymodem, Zmodem, Kermit and ASCII.  This directory holds TLA+
modules for the parts of `source/` that keep protocol state, TLC
configurations that check them on small instances, and proofs, checked by
TLAPS, for every value of the constants: the safety of Xmodem and of the dialer,
that a telnet connection of two qodems is 8-bit clean, and the inductive
invariants of Zmodem and Kermit.

    tlc -workers 2 -config MCXmodemLossy.cfg MCXmodem      # a run
    tlapm XmodemSafety.tla                                 # the proofs

`PROJECT.json` lists the components, the runs, the source lines of every
definition, the hazards and the theorems.


## 1. Inventory

Qodem is one thread.  `qodem_main()` (qodem.c 3840) repeats for ever:
`refresh_handler()` draws the screen and advances whatever is timed,
`data_handler()` waits at most 20 ms in `select()`, reads the connection and
calls the handler of the current screen, `keyboard_handler()` treats a key.
Which handler that is depends on `q_program_state`.  Concurrency is therefore
that of the program with the remote side, with the clock, with its child
processes (one signal handler, SIGCHLD) and with the user; what makes it hard
is that every handler must be ready for any of them at any of its own states,
and that a few calls (name lookup, dialogs) block the loop.

| component | state it keeps | operations | hard behaviour | what makes it correct |
|---|---|---|---|---|
| Xmodem (xmodem.c) | `state`, `prior_state`, `flavor`, `current_block`, sequence number, timeout and error counts, the file | one call of `xmodem_send()` or `xmodem_receive()` for whatever input there is; timeouts; abort | lost, damaged, delayed and split input; retries; two ends in different flavors; sequence number modulo 256 | the file received is the file sent; success is reported only when true; every transfer ends |
| Ymodem (xmodem.c) | the same, and the list of files | block 0, end of batch | batch steps that fail half way | each file as in Xmodem; names and sizes belong to the right file |
| Zmodem (zmodem.c) | `status.state`, file position, `waiting_for_ack`, block size, escape table, crash recovery offset | `zmodem_send()`, `zmodem_receive()`, ZRPOS recovery, autostart | streaming with errors reported late; resumed files | the file received is the file sent, also when resumed; every transfer ends |
| Kermit (kermit.c) | `status.state`, window of packets both ways, sequence modulo 64, capabilities | `kermit_send()`, `kermit_receive()`, NAKs in the window | reordering, window at its limit, sequence wrap | each packet is taken once and in order |
| Transfer driver (protocols.c) | `q_transfer_stats`, upload/download lists | start, stop, abort, process data | abort and end of file during any state | a stopped transfer stays stopped |
| Dialer, phonebook (dialer.c, phonebook.c) | `q_dial_state`, `q_current_dial_entry`, tagged entries, selected entry, cycle time, `modem_state` | dial, timeout, cycle, kill, extend, abort | timeout against late answer; keys in any order; entries of different methods | the entry shown exists; every tagged entry is tried |
| Connection (netclient.c, modem.c, qodem.c) | `q_child_tty_fd`, `pending`, `connected`, `serial_open`, `online`, `q_child_pid`, `close_function` | open, finish a connect, close, force close, clean up | connection lost at any moment; several flags for one fact | online means a line is open; each connection is cleaned up once |
| Telnet, rlogin (netclient.c) | option flags, parser state, subnegotiation buffer | read, write, negotiate | sequences split over reads; negotiation loops | negotiation ends; both sides agree; data passes unchanged |
| Program states (states.c, qodem.c) | `q_program_state`, `original_state`, screensaver | `switch_state()` | screens that return to one remembered screen | one gets back to the screen one came from |
| Scripts (script.c) | script process, two pipes, print buffer | start, pause, stop, process data | full buffers on both sides, process dies | no deadlock; nothing lost |
| Host mode (host.c) | login state, current user, timeouts | login, menu, chat, transfer | caller hangs up at any state | a new caller starts from the login |
| Emulations (vt100.c, ansi.c, ...) | parser state, cursor, margins, tabs | one character at a time | sequences split over reads, damaged sequences | cursor stays in the screen; parser returns to ground |
| Scrollback (scrollback.c) | list of lines, scroll region | append, scroll, insert, delete | list at its limit | lines of the screen stay in the list |
| Console, keyboard, forms, options, translation, music | tables and screen layout | editing, drawing | none of the above | not modelled |
| lib/ (cryptlib, PDCurses, libupnp) | third-party code | | | not modelled |

Components meet in four places: `q_buffer_raw` and `q_transfer_buffer_raw`,
by which `process_incoming_data()` hands bytes to and from the handler of the
screen; `q_program_state`, by which they hand over to each other;
`q_child_tty_fd` with its flags, which dialer, network, modem and main loop all
set; and `q_current_dial_entry`, which the dialer sets and the main loop clears.


## 2. Modules

| module | part | models |
|---|---|---|
| `XmodemLine` | line | what the two ends send each other, the check of a block (`verify_block()`), faults of the line |
| `XmodemSender` | xmodem.c | `xmodem_send()`, `check_timeout()`, statistics that end a transfer |
| `XmodemReceiver` | xmodem.c | `xmodem_receive()` with the disk |
| `Xmodem` | xmodem.c, protocols.c | the two composed, specification and properties |
| `FileTransfer` | abstract | what a file transfer promises |
| `XmodemInv` | | the inductive invariant |
| `XmodemProofs`, `XmodemSafety` | | proofs |
| `MCXmodem` | | instances for TLC |
| `Connection` | qodem.c, netclient.c, modem.c | descriptor, flags, closing functions |
| `Dialer` | dialer.c, phonebook.c, qodem.c, netclient.c | dialling, redialling, losing a connection; extends `Connection` |
| `DialerProofs` | | proofs |
| `MCDialer` | | instances for TLC |
| `ZmodemLine` | line | headers and data subpackets, what noise does to them, what `parse_packet()` makes of them |
| `ZmodemSender` | zmodem.c | `zmodem_send()` and its handlers |
| `ZmodemReceiver` | zmodem.c | `zmodem_receive()` and its handlers, with the download directory |
| `Zmodem` | zmodem.c, protocols.c, console.c | the two composed, autostart, specification and properties |
| `ZmodemProofs` | | proofs |
| `MCZmodem` | | instances for TLC |
| `KermitLine` | line | packets, `decode_input_bytes()`, noise |
| `KermitSender` | kermit.c | `kermit()` of the sending end, its output window |
| `KermitReceiver` | kermit.c | `kermit()` of the receiving end, its input window, the files |
| `Kermit` | kermit.c, protocols.c, console.c | the two composed, specification and properties |
| `KermitProofs` | | proofs |
| `MCKermit` | | instances for TLC |
| `TelnetNvt` | netclient.c | the parser and the answers of `telnet_read()`, the encoding of `telnet_write()`, as operators on the state of one end |
| `Telnet` | netclient.c, qodem.c | a connection of two ends: reading, writing, full sockets, hanging up |
| `SequenceFacts` | | induction over numbers and sequences, facts on `FlattenSeq`, for the proofs |
| `TelnetProofs`, `TelnetClean` | | proofs |
| `MCTelnet` | | the connections for TLC |

### Xmodem

A block is not its bytes but pieces of them.  `xmodem_receive()` looks at
lengths (is there a whole block yet, or more than one), at the first byte, at
the sequence number and at the check; so a piece is a record of the block's
number, its place in the block (the first is the header), the length of the
whole block and what noise has done to it.  The line delivers pieces in order,
cuts them where it likes, loses or damages them.  A control byte (ACK, NAK, C,
G, CAN) is a record of the byte and, for an ACK, the block it answers; that
number is used by the invariant only, never by a guard.

The lengths are small but keep their order: 132 bytes of a checksum block, 133
of a CRC block and 1029 of a long block are `SumLen` < `CrcLen` < `LongLen`.
A CRC block and EOT together are still shorter than a long block, so that
`LongLen` is 5 with a `CrcLen` of 3, except in `xmodem_lossy`, where it is 4: its
flavors wait for an ACK before they send EOT.
The sequence number is taken modulo `SeqMod` (256 in the code), which is 2 or 3
in the runs so that it wraps within two blocks.

Variables keep the names of the code with `s_` and `r_` in front of them:
`s_state`, `s_prior`, `s_flavor`, `s_timeouts`, `s_errors` and so on; `cur` is
`current_block`; `s_xfer` and `r_xfer` are `q_transfer_stats.state` (RUN, END,
ABORT, and CRASH for a failed `assert()`).  Each action is one pass of the
state machine for some amount of input; counting an error and giving up when
there are too many is part of the action in which it happens.  A timeout is
possible at any moment, because the line may be arbitrarily slow; where
`PromptLine` is set, only when nothing is left on it.

### Dialer

`fd` tells what `q_child_tty_fd` refers to; `elapsed` is the time since
`q_dialer_cycle_start_time`.  One action stands for what one state of
`phonebook_refresh()` does when its time is over (`Refresh`), for one key
(`Key`), for the completion of a connect (`NetConnectFinish`), for lines from
the modem (`ModemData`) and for each way to lose a connection (`Eof`,
`CarrierLost`, `IdleClose`, `ChildReaped`).  `Tick` lets a second pass.  A
failing `assert()` sets `crash` to the function in which it is and stops the
program.  A call of `refresh_handler()` inside another function is a `Refresh`
step before or after it, except in `net_connect_start()`, where it happens
between the lookup and the moment the socket is known, and is part of `DialNet`.

### Zmodem

Both `parse_packet()` and `decode_zdata_bytes()` leave what is not complete in
`packet_buffer` and wait for more.  A header or a data subpacket is therefore one
message, however the line cuts it, and only two effects of a cut remain: a packet
loses its first part where the code empties `packet_buffer` in between (`tail`),
and one whose end is lost stays there (`cut`).  A file is a number of units, a
subpacket a run of them; `got` holds for each file what was written to it, and 0
for a unit of another file that was in the download directory already.

A call of `zmodem()` goes through several states before it returns, and its
output is sent when it does; `SCall` and `RCall` begin a call with some of what
is on the line, each later step is one handler, and `turn` holds the ends that
are in a call.  The two are on different machines, but what one does in a call
can be seen by the other only afterwards, so that calls need not be interleaved;
where two timers expire at once, both ends are in a call.  A failed `assert()`,
a `NULL` stream and a loop without end are the transfer state `CRASH`.

### Kermit

One action is one round of the loop of `kermit()`: decode a packet,
`check_for_repeat()`, `save_input_packet()`, the handler of the state, encode
the answer.  The input window is the ring of the code with `begin`, the free
slot `i` and the number `n` in use; the output window of the receiver is the
last packet it sent.  `handle_timeout()` reads past the end of the window when
the free slot is 0; what it finds there is a choice (`Garbage`).  A packet that
is rejected takes others that are in the buffer with it (`Tossed`).  Sequence
numbers are sent modulo `SeqMod` (64 in the code), and the sizes that the
comparisons need are assumed: more than twice the window.

### Telnet

`telnet_read()` takes all that it has received and parses it byte by byte with a
state that survives between calls, so a step of the model reads one byte.  A
byte is a token (`IAC`, `DO`, an option's number, `CR`, a letter) of the set
`TChars`; a text is a sequence of them, and what is sent of a negotiation is
`Command(verb, option)` or `Subneg(option, data)`.  `telnet_write()` encodes
bytes into `write_buffer` (`OutByte`) and flushes it behind an IAC and behind
some CRs; `Parts` computes the parts that it flushes (`Collected` for the
characters, `Ended` for the last flush), `WriteAll` sends them all and
`WriteSome` as much as a socket takes that is full after `m` bytes.  That
`write_buffer` has a capacity, at which the code flushes as well, changes the
parts and not the bytes, and is left out.  `Telnet` joins two such ends, both qodems, or one qodem and a server
that follows a script; servers are not part of this code.


## 3. Runs

| run | checks | result | states |
|---|---|---|---|
| `xmodem_lossy` | `SafeInv`, `PrefixDelivered`, `SuccessIsReal`, `Termination`, `RefinesFileTransfer` | hold | 755 000 |
| `xmodem_faults` | `GoodBlocksInOrder`, `RetriesBounded`, `Termination` | hold | 504 000 |
| `xmodem_prompt` | `Succeeds` | holds | 236 |
| `xmodem_g` | `NoAssertFails` | violated | |
| `xmodem_crc` | `PrefixDelivered` | violated | |
| `dialer` | `DialerInv`, `DialerHasEntry`, `OnlineHasLine`, `EveryTaggedTried` | hold | 133 000 |
| `dialer_modem` | `DialerAsserts` | violated | |
| `dialer_lookup` | `EveryTaggedTried` | violated | |
| `zmodem` | `ZTypeOK`, `PosIsLength`, `ContentGood`, `DoneIsWhole`, `ZTermination`, `ZSucceeds` | hold | 231 000 |
| `zmodem_resume` | `DoneIsGood` | violated | |
| `kermit` | `KTypeOK`, `KContent`, `KWhole`, `KNoCrash`, `TimeoutFindsPacket`, `KTermination`, `KSucceeds` | hold | 223 000 |
| `telnet` | `TTypeOK`, `TClean`, `TNoGap`, `TSettles`, `TArrives`, `TCloses` | hold | 380 000 |

What the passing runs of the last three protocols show, and what they leave open:

* `zmodem`: on a line without noise what is written is the file sent, and with
  noise a block may be written twice, but none before those that precede it in
  the file; a file that is closed as done has its length, and the position the receiver reports is always the length
  of the file it writes; every transfer ends, except for an end that holds the
  start of a packet whose end never comes, or waits in ZDATA, where the code
  does not look at its timer.  A download that was started by autostart succeeds
  whatever is in the download directory.  One started by hand may meet the
  sender's second ZRQINIT and fail, so `ZSucceeds` does not speak of it.
* `kermit`: no unit is written before those that precede it in the file, whatever
  the noise, in a resumed file too, and wherever the numbers and the window wrap;
  without noise each is written once.  A sender whose timer
  expires always has a packet to send again.  The properties name what
  the code does not give: with noise units are written twice and the sender may
  report a success that is none; a receiver of streaming data has no timeout; a
  sender that took a NAK for the answer to S goes on for ever; files skipped in
  a window, refused text files and an abort in the middle of a window write to a
  `NULL` stream.
* `telnet`: what is written arrives unchanged through a negotiation that is
  still going on, split anywhere; two qodems agree on their options; a
  connection that one end hangs up is closed by both.  Exempt are a socket that
  was full and, in ASCII mode, a CR without LF, which changes places with what
  follows.  Where a socket was full bytes may come twice; `TNoGap` says that they
  come in order and that none is left out.  It exempts what the code does lose: a
  text with an IAC, and in the console one with a CR.  `telnet_write()` sends such a
  text in parts, and when the socket is full between them `qodem_write()` moves
  `begin` by what is left instead of what was sent (qodem.c 720) and writes the
  whole length from there, although with `sync` set it is to "not return until all
  of the bytes have been written" (qodem.h 757).  Without the exemption, and with
  CR LF a CR LF b CR LF c written from the console, TLC finds `b` left out and bytes
  from behind the buffer sent.

**Bounds.** Two blocks with a sequence modulus of 2 or 3 are enough for the
number to wrap, for an old block and an old ACK to meet the next one and for the
last block to be a short one.  One fault of the line at any place is enough for
every retry path; further losses only repeat them, and timeouts, which are
unlimited up to the code's own limits, already make duplicates.  The limits of
timeouts, errors and starting bytes (`TimeoutMax`, `ErrorsMax`, `FirstMax`; 10,
15 and 5 in the code) are 1 to 3; each of them is the one that ends a transfer,
or its first phase, in some run.  `xmodem_faults` has plain Xmodem at both ends
among its flavors: there the errors last long enough for a block whose write was
cut short to be sent again and appended behind its torn part.  The dialer has three entries, of the three
methods that differ (telnet, modem, shell), every set of tagged entries, five
keys, and times of one to three seconds that keep the order of the code's.

Zmodem has two files of three units and one, blocks of two units that shrink to
one, and two faults: enough for an error while streaming, one in its recovery, a
file resumed, skipped, renamed and complete, and the step to the next file.
Kermit has two files of four units and one, a window of three and numbers modulo
8, so that data, EOF and the next file's packets go through the wrap of both,
and two faults, also with a resumable or a complete file at the receiver.  (With
three faults the properties hold as well, in 1 829 000 states.) The limits of errors and timeouts are small, and each ends a transfer
in some behaviour.  Telnet has ten connections: two qodems before and in
binary mode, in the console and in a file transfer, with a window of 255 columns
and 240 lines, whose size contains IAC and SE, and servers that ask for every
option; a socket may be full twice, after any byte.  The one whose socket may be full
in a file transfer sends a CR LF in the middle, so that it is written in parts.

**Fairness.** Both main loops run for ever and call the protocol with or without
input (protocols.c 675), so an end that can take a step takes one: weak fairness
of `SenderStep` and of `ReceiverStep`.  Nothing is assumed of the line.  For the
dialer: weak fairness of `Refresh`, which the main loop calls in every round,
and of `Tick`; none of the remote side, which need not answer, nor of the user.
For Zmodem and Kermit: weak fairness of both ends' steps, since each main loop
calls the protocol again and again, and of `Timeout`, since time goes on; as
`ZPromptLine` and `KPromptLine` are set, a timer expires only on a silent line.
For telnet: weak fairness of reading and of writing at each end, since the main
loop polls the socket and tries again what was not sent, and of the server,
which lives; none of hanging up, of the user, or of a full socket.

**Stopping.** Transfers end, connections fall silent, the user may stop pressing
keys and a crash is final, so that deadlock is not checked.

### Disagreements between the code and what it says

* `xmodem_g`: the receiver of Xmodem-1K/G decides how many bytes it needs before
  it has seen the header.  A short last block that arrives in one read is
  collected but not checked, and at the next call the assertion that "should not
  have happened" (xmodem.c 1571) fails.  It needs no fault of the line.
* `xmodem_crc`: `verify_block()` refuses a block when both CRC bytes are wrong
  (`&&`, xmodem.c 1256, 1275, 1290), so damage that leaves one of them right is
  written to the file.
* `dialer_modem`: keys of the dialer close the serial port and leave
  `q_current_dial_entry` set; leaving the dialer closes it again and fails
  `assert(q_child_tty_fd != -1)` (modem.c 2567).
* `dialer_lookup`: the dialer cycles when the time left is exactly 0
  (phonebook.c 4119).  A lookup that blocks the loop for longer skips that
  second, and an entry that does not answer is never given up.
* `zmodem_resume`: when the receiver's ZCRC is lost, the sender repeats ZFILE, which
  the receiver takes for a sender that knows no ZCRC (zmodem.c 2691); it
  appends the upload to whatever file has that name.  The README says that crash
  recovery or renaming is used "when appropriate".

The model of the dialer contains more such paths (a `connect()` left pending and
finished on another entry's descriptor, `connected` left true after a reset,
an idle timeout during a connect); they end in `crash` and are listed as hazards.


## 4. Proofs

Everything below is proved for every value of the constants that satisfies the
assumptions stated with them (`LineAssumption`, `LimitAssumption`,
`FirstAssumption`, `SetupAssumption`, `DialerAssumption`, `ZLineAssumption`,
`ZSenderAssumption`, `ZSetupAssumption`, `KLineAssumption`, `KSetupAssumption`,
`KTimeoutAssumption`, `TelnetAssumption`).  TLC evaluates each of them
in the runs.

* `XmodemProofs!TypeCorrect`: the types, for all flavors and all faults.
  `Retries`: a transfer that runs has used up neither its timeouts nor its
  errors (`RetriesBounded`), for all flavors and faults, of the disk too.
* `XmodemSafety!Invariance`: `SafeInv` is invariant on a `SoundLine`: the damage
  is of the kind the check sees, and both ends wait for ACKs (all flavors but G).
  `GoodBlocks` follows, whatever the disk does: the blocks written whole are those
  of the file in their order, each once.  If the disks work as well (`Reliable`),
  so do `Delivery`, `Success` and `Refinement`: the file received is a prefix of the
  file sent, success is real, and the protocol implements `FileTransfer`.
* `DialerProofs!DialerInvariance`, `DialerEntry`, `DialerOnline`: the safety of
  the dialer for every phonebook and any number of keys.
* `ZmodemProofs!ZmodemInvariant`, `ZmodemTypes`, `Position`: the inductive invariant
  `ZInv`, the types of both ends, and that the receiver's `file_position` is the
  length of the file it writes, for every list of files, block size, setup,
  number of faults and order of timeouts, on a slow line too.
* `KermitProofs!KermitInvariant`, `KermitTypes`, `SenderTimeout`: the inductive
  invariant `KInv`, the types with both windows, and that the sender's
  `handle_timeout()` never comes to its `abort()`.
* `TelnetClean!TelnetIsClean`: between two qodems a telnet connection is 8-bit
  clean (`TClean`): what an end has read is a prefix of what the other had to
  write, for all texts, buffers and screen sizes, wherever the bytes are split and
  in whichever order the ends read, write, change the size of the screen and hang
  up, until a socket was full or a CR was written in ASCII mode without LF.
  `TelnetAssumption` asks for what the code fixes: that the negotiation's bytes are
  bytes, that a screen's columns and lines have small high bytes, and that the
  text of an end is what the buffers of the other hold.
* `TelnetProofs!TelnetTypes`: the parser of either end waits for one thing at a
  time.  `BinaryByte` and `CommandsSilent` are about the operators of `TelnetNvt`:
  in binary mode the parser undoes the encoding of a byte and is then where it was,
  and it delivers nothing of a command.

**Why `SafeInv`.**  That the file is a prefix is not inductive: it must be known
that no old block can be taken for the next one.  `Window` says that the sender
has sent the block the receiver expects or the one before, so that two numbers,
and thus `SeqMod >= 2`, tell them apart.  To keep it one must know that an ACK
on its way belongs to the block the sender is waiting with, or a later one
(`AcksOK`), and that no two belong to the same one; that pieces on their way and
in `current_block` are of the one block or the other (`PiecesOK`) and come in
order (`InOrder`), so that an old piece cannot complete a new block; and that EOT
is sent after the last ACK only (`EndOK`).  `SenderPosition` ties the state of
the sender to its block number.

**Why `DialerInv`.**  `close_dial_entry()` forgets the descriptor whatever it
was; the program must then not be online by it.  `OnlineWhileDialing` says that
what is online while the dialer goes on, or while an old connect is pending, is
a spawned process; `ModemAnswered` that a modem shown as connected is not waited
for any more.  The one data lemma needed is that the cycle through the tagged
entries finds one (`TaggedFromIn`, by a least element).

**Why `ZInv`.**  That the position is the length of the file depends on which
file is open, and that on the messages that led there.  `Placed` says that a file
is open, in the directory and as long as `pos` in every state that writes or asks,
and that a subpacket is awaited behind ZFILE or ZDATA only; `FilesInv` that a file
that is not in the directory is empty, so that one that is new begins at 0.
`FromSender` says which messages there can be: a name and data belong to a file.
The data of ZSINIT would be the exception, taken for a name of no file; its 16-bit
CRC is wrong behind every binary header, and `HexName` says that a hex header that
is followed by a name comes from a sender that escapes control characters, which
sends no ZSINIT (`InZsinit`: one that did comes no further).  `Blocks` is the set
of sizes that halving and doubling lead to, which `ZSenderAssumption` asks for: it
is what keeps `block_size` above its minimum.  `InFile` keeps the sender within its
list and its file.

**Why `KInv`.**  `IsRing` says that the free slot is `n` places behind `begin` in a
ring of the negotiated size, and that its slots hold sequence numbers; two lemmas on
the remainder (`RingEnd`, `RingBegin`) carry it through every function that moves
one of the three.  `receive_R()` changes the size of the ring, and for streaming
does not reset it: the invariant needs that nothing was negotiated before (`mode` is
`"new"` in INIT and R), when the size was 1.  `IsLine` says that an F packet, however
old, names a file of the list.  For `TimeoutFindsPacket` it must be known that
what is streamed counts as acknowledged (`WinOK`), that a window of which all is
acknowledged is emptied at the next round, and that a round changes something as
long as it is not (`RestingWindow`).  This rests on one assumption of the model:
`kermit()` is called every 20 ms, so that a call that finds its five seconds over
comes after one that had no effect (`SCanTimeout`).  A main loop that was blocked
for that long right after a packet was streamed would meet the `abort()`.

**Why `CleanInv`.**  That what was read is a prefix says nothing of what is on its
way.  `CleanInv` says for each direction that the writer has not begun and nothing
is on its way (`Unstarted`), or that all that is on its way takes the reader's
parser to binary mode, between two commands, with a text `x` delivered which,
followed by what is still to be written, is the whole text (`Flowing`).  Three
things make it inductive.  The options go out before the first byte of data, so that
the reader is in binary mode at every byte of it, while the writer may still be in
ASCII mode; what it writes then differs from binary mode only where there is a CR
without LF (`OptionsPath`, `Written`).  What an end answers, or tells of its screen,
delivers nothing at the other, leaves its parser where it was and never turns its
binary mode off (`Silent`); here the small high bytes are needed, for after an IAC
in a sub-negotiation the parser takes the next SE for its end, whatever is between.
And what `telnet_write()` encodes the parser turns back into the bytes that were
given (`Written`, `ReadStep`).  All this is about sequences of any length:
`SequenceFacts` proves induction over them in the form of sets (a set that contains
the empty sequence and with each sequence the ones longer by one contains all of
them), which the provers can instantiate, from the library's theorem that the
numbers are well-founded.

**Only model-checked.**

* `Termination`, `Succeeds`, `EveryTaggedTried`, `ZTermination`, `ZSucceeds`,
  `KTermination`, `KSucceeds`, `TSettles`, `TArrives` and `TCloses` are liveness
  under fairness, which the prover does not do.
* `ContentGood`, `DoneIsWhole`, `KContent`, `KWhole` and `KNoCrash` relate the two
  ends of a transfer by all that is between them: which ZRPOS, ACK or NAK, repeated
  how often, can still meet which state of the other end.  `ZInv` and `KInv` speak
  of one end and of single messages; an invariant for these would order the
  messages of a whole line, as `SafeInv` does for the much smaller Xmodem.
  `ContentGood`, `DoneIsWhole` and `KContent` moreover hold on a prompt line only
  (`ZPromptLine`, `KPromptLine`; TLC finds counterexamples without), so that their
  invariant must also say what a timer that expires on a silent line excludes.  For
  `DoneIsWhole` that is a sender that repeats ZFILE while the answer to its first
  one is on the way: the receiver, which had skipped that file as complete, opens
  it again.
* `TNoGap`, for sockets that were full: what `WriteSome` leaves in `write_buffer`
  and what is encoded again have to be followed through a second call.  In the
  console, where `qodem_write()` begins again at a wrong place, it is about texts
  without CR only, so that a theorem would be about file transfers.  `TClean` for a
  server is about the meaning of that server's script and stays with TLC too.
* The G flavor of Xmodem, beyond its types and its retries.


## 5. What is left out, and the plan

Left out on purpose: drawing, wording, statistics, logging; the Windows and
PDCurses variants; ssh (cryptlib).

* Xmodem: the contents of a block are its number; Ymodem's block 0 and batch, and
  the padding cut off at the end of the file, are not modelled.  Bytes have no
  values: the code takes any lone byte 4 that it reads at the start of a block for
  EOT (xmodem.c 1655), a data byte that is left over after the input was purged
  too; the model only a real EOT (`IsEOT`).  Likewise noise damages or removes a
  control byte, but never turns one into another.
* Dialer: rlogin is as telnet; the password prompt of ssh and the manual dial
  entry are left out.
* Zmodem: the flavor with 16-bit CRCs (its states are the same), disk errors, the
  abort by four CANs, ZCOMMAND, output left over because the line is slow.  `done`
  are the files closed as complete; the `FILE_DONE` that the statistics show is set
  at every ZEOF (zmodem.c 3022), before its length is looked at.  Noise
  together with a complete or another file in the download directory is
  checked in `zmodem_resume` only, where it fails.
* Kermit: quoting and compression of the data field, what other programs would
  negotiate (stop and wait, other check types), disk errors, the three ^C of a
  server, the limit of the output buffer, file names that begin with X or Z, what a
  second transfer finds of the first one's memory.  Files in the download
  directory are beginnings of the uploads: `RESEND` appends without asking.
* Telnet: rlogin's own handshake, errors of `send()`, a `raw_write()` that sends a
  part and starts again, a server that reacts to what it reads, a line that is
  binary in one direction only.  The buffer of a sub-negotiation has no limit in the
  model; in the code it has 128 bytes, which are not checked (netclient.c 2776 and
  2785), so nothing here is about longer ones.

Not modelled: the emulations (vt100.c and the others), scrollback, scripts, host
mode's login and menu, `switch_state()` with `original_state`, ASCII transfer.
They keep state that could be checked in the same way; they were put behind the
protocols, where the program meets a partner and a line it does not control.
The forms, tables, menus and the vendored libraries hold no protocol.

Next, in this order:

1. `DoneIsWhole` on a prompt line: a ZEOF that meets a file is that file's, because
   names and ZEOFs are in the order of the list on the line, and no name is there
   twice.
2. `KNoCrash` for a transfer without noise: a file is open when its data comes.
3. `TNoGap` for file transfers, from `CleanInv` with a buffer that is sent twice.
4. `ContentGood` on a prompt line without noise: the two file positions and what is
   on the line between them; `KContent` likewise, where the numbers of packets that
   can meet differ by less than half of `SeqMod`.
5. The G flavor of Xmodem on a line without faults.
