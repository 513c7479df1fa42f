# A verification project for MrHakOS

MrHakOS is a small operating system: a terminal on a VGA text screen, an
in-memory file system, a keyboard driver, and a network stack (three network
cards, ARP, IPv4, ICMP, UDP, DHCP, DNS, TCP, SOCKS5, TLS 1.3, Tor) in one
address space, without processes. Paths below are relative to the kernel's
`src/libc/` unless they say otherwise.

The modules here are translated from that code. TLC checks them on small
instances; TLAPS proves the theorems for every value of the constants.

## 1. Inventory

There is one thread of control, `Terminal::run` (terminal.cpp:719-777), plus two
interrupt handlers, IRQ0 (a millisecond counter) and IRQ1 (the keyboard). All
concurrency comes from those handlers, from the network, and from functions that
poll the network card while something else is under way.

| Component | Its state | Operations | Talks to | What is hard | What makes it correct |
|---|---|---|---|---|---|
| Keyboard driver (interrupts.cpp:46-56, 170-303) | key ring, head, tail, prefix and shift flags, "IRQ1 seen" | `isr_keyboard_handler`, `pollKeyboard`, `getLastKey` | i8042; main loop | handler between any two accesses of the main loop; two readers of one port; ring full or wrapping | a bounded FIFO: no byte twice, none skipped, order kept |
| Timer (interrupts.cpp:248-252) | tick counter | IRQ0; `timerMillis` | every deadline | wrap-around; IRQ0 missing on some boots (interrupts.cpp:309-313) | waits end |
| DHCP client (network.cpp:1216-1372) | state 0-4, transaction id, offer, two flags, configuration | `startDhcp`, `tickDhcp`, `handleDhcpResponse`, `configureStatic` | main loop, network, every command that polls | late, lost, duplicate, foreign replies; time-out | only granted addresses, of this exchange; every exchange ends |
| Terminal loop (terminal.cpp:719-777) | line, "command ready", last DHCP state seen | drain keys, tick, report, run a command | keyboard, DHCP client, all commands | typing ahead; a report in the turn of a command | each line runs once, in order, as typed |
| Line editor, history, screen (terminal.cpp:793-969, vga.cpp) | line buffer, caret, list of recent commands, screen cells | `handleChar` and helpers | main loop, VGA | wrapped and scrolled lines; history ring | the screen shows the buffer |
| File system (filesystem.cpp) | tree of entries, current directory, bump allocator | `mkdir`, `cd`, `createHakFile`, `cp`, `mv`, `getCurrentPath` | terminal commands | two allocations in one call; a pool that only empties; a switched current directory | a tree whose names are found; errors lose nothing |
| TCP (network.cpp:914-971, 1462-1674) | receive pointer, 16 KB buffer, consumed offset, flags | `handleTcp`, one-shot request, session and stream calls | SOCKS5, TLS, Tor, HTTP | duplicates, reordering, overlap, wrap-around, a full buffer, offsets left over | the bytes read are a prefix of the bytes sent |
| NIC receive ring (network.cpp:767-833) | ring offset, the register the NIC was told | `pollE1000`, `pollRtl8169`, `pollRtl8139` | NIC, `handleFrame` | the NIC stores frames while one is handled; wrap-around; three ways to say a place is free | the frames stored are the frames handled, in order |
| ARP cache and probes (network.cpp:680-759, 835-912, 973-1214) | eight entries; what was asked last and the flags its answer sets | `rememberArp`, `lookupArp`, `arping`, `ping`, `traceroute`, `dns`, `handleFrame` | everything above IP | late answers meet the next probe; a handler that sends, resolves an address and polls again inside the frame | addresses are the last heard; answers are for the probe that waits |
| SOCKS5 (network.cpp:1676-1825) | phase, consumed offset | `socks5Connect` | TCP | replies of variable length, cut anywhere | the phase named is where it stopped; only the server's bytes are given out |
| TLS 1.3 (tls.cpp) | keys, two record sequence numbers, handshake stage | `handshake`, `read`, `write` | TCP stream | reads that end inside a record, failed sends, one client object for all connections | no nonce twice; data only behind a Finished; the bytes read are the server's |
| Tor (tor.cpp; terminal.cpp:2244-2997) | link, circuit, hops' ciphers and digests; chosen relays | `linkHandshake`, `createCircuit`, `extendCircuit`, `begin*`, `close`; the tor commands | TLS, terminal | state committed before a send succeeds; cells nobody asked for; one client object for four relays | ciphers in step; hops are the relays chosen; nothing open at the prompt |
| Cryptography (crypto.cpp) | none | pure functions | TLS, Tor | arithmetic | test vectors |
| Boot, PCI scan, serial log, memory protection | set once | run once | | | |

## 2. Modules

| Module | What it is |
|---|---|
| `KeyQueue` | abstract: a bounded first-in first-out queue of the keys a stream of scancodes means |
| `Keyboard` | the driver, the handler and the main loop's accesses one by one |
| `KeyboardProofs` | type correctness, the inductive invariant, the refinement of `KeyQueue` |
| `DhcpClient` | the client, its servers and the network between |
| `DhcpProofs` | the client's inductive invariant and its three safety properties; the loop's order of lines, and that the loop uses the client as it is |
| `Shell` | `Terminal::run`, extending `DhcpClient`; its keyboard is the queue `KeyQueue` promises |
| `FileSystem` | the tree, the pool, and the commands' calls |
| `FileSystemProofs` | its type and structure, names and paths, truth of copies, and what errors keep |
| `ByteStream` | abstract: a reader is given the bytes of a stream in order, and its end last |
| `TcpStream` | the receiving side of TCP: `handleTcp`, the buffer, and the calls that open, read and close |
| `TcpProofs` | its inductive invariant and the refinement of `ByteStream` |
| `NicRing` | the receive rings of the three NICs, and the ARP cache |
| `Probes` | extends `NicRing`: what a frame does, and the calls that send and wait |
| `NicProofs` | the ring's order, the cache, the answers, and when a handler calls itself |
| `TlsClient` | the handshake, the record layer, `write` and `read`, over `ByteStream`'s promise |
| `TlsProofs` | nonces, data behind the Finished, the order of records, and the refinement of `ByteStream` |
| `TorCircuit` | the link to the guard, the circuit, its hops, and one stream |
| `Socks5` | `socks5Connect` |
| `TorCommands` | extends both: the consensus, the choice of relays, and the terminal's commands |
| `TorProofs` | the relays chosen are different; the circuit against its relays; SOCKS5 |
| `EditedLine` | abstract: a line, a caret, and recall of nothing but entered lines |
| `LineEditor` | `handleChar`, the history, and the cells of the screen |
| `EditorProofs` | the refinement of `EditedLine`, the history, and what the screen shows |
| `MC*` | small instances for TLC |

### Keyboard

`IsrKeyboard` is one atomic action: the gate disables interrupts. The main loop
is a sequence of actions, one per access to a port or to a volatile variable,
with the program counter `pc`: `PollEnter` (the test of
`g_keyboard_irq_seen`, once per call), `PollStatus`, `PollAux`, `PollData`,
`PollDecode`, then `enqueueKey`'s `EnqueueRoom`, `EnqueueWrite`,
`EnqueuePublish`, and `getLastKey`'s `TakeKey` and `AdvanceTail`. An interrupt
is taken between any two of them. `Terminal::run` stops draining at Enter and
polls again. The controller is external: one output buffer, a byte in it raises
IRQ1 or not according to `delivery`. A scancode is a member of a small set
(plain, navigation, prefix, shift, release); bytes carry a number so that equal
keys can be told apart. `Mouse` says on which machines there is a mouse. Its bytes
share the output buffer and raise IRQ12, which is masked (interrupts.cpp:145), so
only the poller takes them; once an IRQ1 has been taken nobody does, and the byte
stays in front of the keyboard's (section 5).

`OneReader` says that one party alone reads the port: the handler where IRQ1 comes
at once, the poller where it never comes. The driver's promises are made for those
machines: `DriverInv` asks of the others only their types, and the refinement leaves
the abstract queue as it began there. `EveryByteRead` is asked of all of them. The
refinement maps `queue` to the ring's contents and `decoded` to the number
of bytes completely processed, which is the sum of the two counters the driver
keeps less the byte in the poller's hand.

### DhcpClient and Shell

The network is the set of all messages ever sent: any of them may be received at
any time, any number of times or never. Frames are received only where the code
polls: inside `tickDhcp` while an exchange runs, and inside any network command
(`NetCommandBegin` .. `NetCommandEnd`), in whatever state the client is.
`waited` is the time since the last state change, up to the time-out of 5000 ms.
The leased address and the announced router are the server's own name; a
`Silent` server leaves the option out, so both fallbacks of
`handleDhcpResponse` occur. A frame that cannot be sent is the `sent = FALSE`
branch of `StartDhcp` and the second branch of `TickDecide`.

`Shell` composes the client with the terminal: keys are drained until Enter,
DHCP is ticked, a changed state is reported (`Notice`), the ready command runs.
Both limits a typist can meet are there: a key for which the queue has no room is
dropped, Enter too (`TypeKey`, `QueueCap`, 63 in the code), and so is a character
for which the line has none (`Longer`, `MaxLine`, 255). What was entered is what
got into the queue.

### FileSystem

An entry is named by where it starts in the pool; the pool is counted in units
of 16 bytes, the alignment of `operator new`. Each action is a whole call with
all its checks; `last` is the call and the bool it returned. Names are model
values; constants say what the code reads from their characters: whether they
end in ".hak", what is left after 63 characters, where the last '/' splits them.
`EntrySize` is 23 units (368 bytes) in the 64-bit kernel and 14 (216 bytes) in the
32-bit one; a text is at most 256 bytes, the terminal's line. `PathOf` is
getCurrentPath with both its limits, the eight places of `path[]` and the caller's
buffer (`BufferSize`, 256 in the code): names have a `Width`, the path stops one
character before the buffer's last one, and a name that is not whole there is
not among those it gives.

### TcpStream

Each segment is one action, `Segment(off, len, fin)`: bytes off + 1 to off + len
of the peer's stream, at any time after the handshake and any number of times.
That one action is loss, duplication, reordering, retransmission in other
pieces, and a peer that does not look at the window. Its body is `handleTcp`
with the 32-bit comparisons on sequence numbers that wrap (`Plus`, `Minus`,
`Before`), `tcpCompact` (`Shift`, `Store`) and the FIN. The bytes of the stream
are their own numbers, so a byte missing, doubled or out of place shows.

A call that waits is the action at its end: a wait may be cut short by its
deadline at any moment, so every amount that can be there is there in some
behaviour. `Read` (tcpStreamRead) compacts after each read; `Drain`
(tcpSessionDrain, and the replies socks5Connect consumes) does not.
`RequestReturns` is the end of tcpRequestRaw.

`AfterSocks` says whether a one-shot request may follow a session whose reader
has left `tcpConsumed` above 0. TLS and Tor read only through `tcpStreamRead`,
which leaves it at 0; only a SOCKS5 session does not. With `AfterSocks` the
promise fails (section 5); without it, it is proved.

The port check drops segments of an earlier connection, so they are not in the
model; that a port comes back after 4096 connections is left out. A stream is
shorter than half of the sequence numbers (`SeqAssumption`), as it is for every
peer this kernel talks to.

The refinement maps `arrived` to what the acknowledgement alone says, and
`length` to where the FIN is; so a FIN believed before the last byte is in would
not be a step of `ByteStream`. `sendTcpText` is a request whose caller reads
nothing.

### LineEditor

A key is one action, `HandleChar`, with all that `handleChar` does to the line,
the history index and the screen. Cells are numbered row after row, as the code
computes them (`idx % 80, idx / 80`); `PutChar` wraps and scrolls, `Target` is
putCharAt's clamping of rows. Output appears one `putChar` at a time (`PutNext`)
and `ShowPrompt` then takes the place where it ended as the line's beginning.
`Shell` has the same loop with the keyboard and the DHCP client and without the
screen; here a changed DHCP state may be reported whenever the loop is between
two keys. The tests at the head of `handleChar` that put a position out of range
back into it are left out: `EditorTypeOK` says they never fire. The scrollback
keys do nothing in the code.

The refinement maps the buffer's first `inputPosition` characters to `line`, so
each shifting loop must be one insertion or removal at the caret. `Fits` keeps
the lines on the screen; without it the promise fails (section 5). The proof of what the screen shows needs two facts of
the texts, true of the code's: the prompt is one line and leaves a row of the
screen (`PromptAssumption`), and a DHCP report has at least two line ends
(`ReportAssumption`, terminal.cpp:745-753).

### NicRing and Probes

`Store` is the NIC: it puts a frame behind the last one, at any time, wherever
what it has been told leaves room. `Take` is the moment poll hands the frame at
`rxOffset` to `handleFrame`, `GiveBack` the moment the place is returned; frames
may be stored in between. The E1000 and the RTL8169 differ in how the NIC knows of
the room (the tail register, the OWN bits); the RTL8139's frames take as many
units as they are long. `owed` is a history: the frames stored and not done with.

`Probes` adds what a frame does: an ARP packet is remembered, an echo reply or a
time-exceeded sets its flag if its number is the one sent last, a DNS answer if
its id is the one asked last, a TCP segment is acknowledged, and DHCP's ACK clears the
cache and sets the gateway. The ACK is believed by its number alone, so it is
handled in any wait, and again when it is repeated. A command is `Call`
(what is the next hop, and is it known), `Resolved` (arping's wait), `Send`,
`Waited`, and `Ends`, which goes to the next probe or to the prompt. `Far` is an
address outside the subnet, reached by the gateway if there is one
(`RouteNextHop`); the route is looked up anew for each packet, the acknowledgements
of a connection included. `StartDhcp` and `ConfigureStatic` are dhcp and ifconfig;
the rest of an exchange is `DhcpClient`'s. Answers come any number of times
and at any time behind the question. Which hosts are in the subnet stays the same,
and frames for an address that was given up are not dropped, which only lets more
of them through. `since` is a history: the hosts heard since
a host got its entry, which says when it may be forgotten. A handler that would
call poll for the frame in its hand sets `hung`, and nothing happens after it.

### TlsClient

Records carry the key and the number they were sealed with; one opens under no
other. `cut` says that a read ended inside a record: what is read after it is the
rest of that record, taken for a header, until by chance a header is where it is
looked for. A handshake message is two halves, so that a record may end inside
one. The server follows the protocol, but its Finished may be wrong, it may close
anywhere, it may send tickets, and it may change its keys, which the client does
not follow. `Connect(sent)`, `Finish(sent)`, `Write(sent)` have the send that
fails as `sent = FALSE`. `ReadsAreTheStream` is the refinement of `ByteStream`
once more, one layer up.

### TorCircuit, Socks5 and TorCommands

A relay cell says which hop made it and where the ciphers and the digest of the
hops were when it was made; the hop that recognizes it is the one that is at the
same place. `path` is the relays' side. A call (`call`) waits for cells while the
relays send what they were asked, cells of other streams and circuits, or a
DESTROY; a read may fail with a part of a cell taken (`torn`). `CloseTor` ends it.
`link` is "half" where the guard has answered and the ACK could not be sent:
tcpSessionOpen and openTls return false without closing, and the client forgets
the rest (`Forget`).

`TorCommands` is the terminal: a command is the list of steps in `Steps`, and a
failed step ends it. Most commands close then (`Stops`); where openTls has failed
they return without (`Unclosed`), and the descriptors of cmdTorAnon are fetched
without a close of their own. `ParseRelay` is one relay of the
consensus with whatever flags, in any order and any number of times: the parser does
not look whether it has had the relay before, and the exit's test is the only one
that compares two roles. `listed` and `mixed` are histories, the flags each relay
has been listed with and the relays that were listed with different ones and have
two roles. What a consensus gives replaces what was known. `Select` is reset, setGuard and setNtorKey, which cmdTorAnon does four
times on the one client. The proxy commands are `SocksOpen` to `SocksDone`, where
the proxy's bytes come in pieces of any size and a wait may end after any of them.

## 3. Runs

| Run | Module, configuration | What it asks |
|---|---|---|
| `keyboard` | `MCKeyboard`, `KeyboardPort` | on every machine, with a mouse: a byte that raised IRQ1, or that is there before the first IRQ1, is read; where one party reads the port: FIFO refinement, inductive invariant, no key left in the ring |
| `keyboard_late` | `MCKeyboard`, `KeyboardLate` | violation: one scancode, two keys |
| `dhcp` | `MCDhcpClient`, `DhcpExchange` | safety of three exchanges with two servers and ifconfig in between, and that each ends |
| `shell` | `MCShell`, `ShellLoop` | order, completeness and reporting, with five keys typed at any moment, a queue of three and a line of two |
| `shell_lost_line` | `MCShell`, `ShellLostLine` | violation: an entered line is not run |
| `files` | `MCFileSystem`, `Files64` | every sequence of calls until the pool is full, 64-bit proportions |
| `tcp` | `MCTcpStream`, `TcpExact` | two connections, sessions and requests: refinement of `ByteStream`, the inductive invariant, and that each byte arrives |
| `tcp_stale_offset` | `MCTcpStream`, `TcpStale` | violation: a request behind a SOCKS5 session loses the start of its response |
| `editor` | `MCLineEditor`, `EditorFits` | every key at every caret, recall, output and reports, wrapping and scrolling: refinement of `EditedLine`, screen and history |
| `nic` | `MCProbes`, `ProbesRing` | every NIC with a full ring, hosts pushing each other out of the cache, DHCP's ACK in the middle of a connection, answers of any age: frames in order, addresses right, answers to the probe that waits, and when a handler hangs |
| `tls` | `MCTlsClient`, `TlsRecords` | two connections on one client object, reads and sends that fail anywhere: nonces, Finished, numbers in step, refinement of `ByteStream` |
| `tor` | `MCTorCommands`, `TorCircuits` | all tor and proxy commands in any order, relays that fail, lie and speak unasked: cells whole, ciphers in step, hops the chosen relays, no link or circuit left open; SOCKS5's phases and bytes |

Bounds. The keyboard's ring has three slots (two keys) and, where one party
reads the port, four bytes are typed (`MaxBytes`):
it fills, wraps and overflows, and a prefix or a shift can stand before any of
the ring's states; a polling burst is two, so bursts end with bytes waiting. One
mouse byte stands for all of them: its value is never looked at.
On the machines where two parties may read it, of which less is asked, there are
two and the mouse's (`MaxRaced`): one before the first IRQ1, one that meets it, one
behind it. DHCP needs
three exchanges for a message of the first to meet the third, two servers for
offers to cross. The shell's five keys are two lines with a typed-ahead key and a
DHCP exchange under way; the queue of three and the line of two both refuse keys. The file system's pool has room for three entries and
two units of text besides the root, a directory for two files, a path for two
names and six characters: every limit is reached, and the names take every branch of the calls. The TCP buffer holds three bytes of a
stream of up to five, so it fills with read and with unread bytes and is
compacted with a part of a segment refused; there are sixteen sequence numbers,
and one of the two initial ones makes the stream wrap; a segment has up to three
bytes, so it can overlap what is here at its front and reach beyond the buffer.
The editor's screen has three rows of three cells and a prompt of two, so a line
of two characters wraps, output wraps and scrolls, and the prompt stands on any
row; of three commands the history keeps two. Two bounds of that run are
assumptions (`Fits`): a line ends before the screen does, and at a DHCP report it
ends before the prompt that follows; lines of two never reach the second one.
The NIC's ring has three units and four frames come, of one unit and of two: it
fills, wraps, and refuses. There are three hosts for two cache entries, so the
third pushes one out; two commands of up to two probes, so an answer can meet the
next probe of its command and the next command, and an ACK the connection made
during its exchange. TLS has two connections on the one
client, since everything a flag or a number can be taken for is from the
connection before; three application records with three bytes; two records of the
server under way, so a read can lose its place and find the next one. Tor has one
relay for each role, two cells nobody asked for or of a stream's data, and bound
addresses of no and of two characters; any command may follow any other, since
every way back to the prompt is explored and the relays chosen are what stays.
Relays, hosts and addresses are interchangeable, and nothing temporal but action
properties is asked where that is used.
`CHECK_DEADLOCK FALSE` is set where the system stops at a bound on typing or on
exchanges.

Fairness. The processor runs the main loop and takes a raised interrupt
(`WF(Main)`, `WF(IsrKeyboard)`); nobody is obliged to type. For DHCP the loop
goes round, a network command returns (each has a deadline), and IRQ0 ticks. The
last is an assumption: the comment at interrupts.cpp:309-313 says that some
machines do not deliver IRQ0, and there no wait of this system ends. For the
shell only the loop's own turns are fair; no message is ever assumed to arrive.
For TCP the peer sends again from the byte that was acknowledged, as TCP demands
of it, until it resets the connection (`WF(Retransmit)`), and the caller asks
again while bytes are there (`WF(Ask)`), as the TLS reader does. `Probes`,
`TlsClient` and `TorCommands` assume none: what is asked of them is safety, and each
of their waits has a deadline, which ends it like every other wait here once IRQ0
ticks.

## 4. What is proved

All for every value of the constants under the assumptions the modules name.

* `KeyboardProofs`: `TypeCorrect` on every machine. For machines with one reader
  (`OneReader`: IRQ1 at once or never), `OneReaderInvariant` and
  `OneReaderIsFifo`; a machine stays what it is (`SameMachine`). `TypeOK` and the queue's contents are not inductive alone:
  `IInv` adds that every byte is in the output buffer or in one counter
  (`Accounting`), who may read the port when (`Ownership`), that the decoder's
  flags are what the decoded prefix of the stream says (`FlagsMatchStream`), and
  that the main loop's locals are still right when used (`LocalsFresh`). Each
  step of the driver then is a step of `KeyQueue` or a stutter.
* `DhcpProofs`: `DhcpInvariant`, and from it `OnlyGrantedAddresses`,
  `DoneIsConfigured`, `GatewayIsCurrent`. The invariant is needed because an ACK
  is believed by its transaction id alone: it relates the messages under way to
  the requests sent and the flags to the messages received. `LinesStayInOrder` is
  about the loop: `ShellInv` takes what was typed as one stream in which each line
  ends with the Enter at a known place (`Stream`), and says that the queue is the
  rest of it and which part of the line behind those already run the buffer still
  holds (`Reads`): what the line has had room for, all of it or, after a report,
  from some place on (`Keeps`). It is proved for every size of the queue and of the
  line. `ShellUsesDhcp`: each step of
  the loop is one of the client's or leaves it alone, so long as the keys typed
  cannot start more exchanges than the client's bound, so what is proved of the
  client holds in the loop.
* `FileSystemProofs`: `FsTypeCorrect`, `TreeStructure`, `NamesFind`,
  `PathsLeadBack`, `ErrorsKeep`, and, where an entry is at least as large as any
  text (`BigEntries`, the 64-bit kernel), `EmptyMeansFull` and `CopiesAreTrue`.
  Every call has one of four effects (an entry linked, a content filled in, a
  rename, a change of directory) and each effect preserves the invariant.
  `NamesFind` rests on no two entries of a directory having the same name
  (`NamesDiffer`); a name that is stored cut is left out, as in the property.
  `PathsLeadBack` compares the walk up the parents with the walk down the names,
  place by place; where that calls for induction along the path, a least
  counterexample takes its place (`Least`, `WalkExists`). It is proved for every
  buffer: a path that has filled it leads to the current directory or to one above,
  a shorter one to the current directory.
* `TcpProofs`: `TcpInvariant` and `IsByteStream`, for kernels without a request
  behind a SOCKS5 session (`~AfterSocks`). The invariant names two numbers: r
  bytes of the stream have been taken in and d of them given to the caller
  (`Good(r, d)`); the acknowledgement is r + 1 behind the peer's initial number
  (r + 2 with the FIN), the buffer ends with byte r without a gap, and d is where
  `tcpConsumed` points. Each action leads from one such pair to another
  (`StepMoves`), which is a step of `ByteStream` (`MoveIsStep`). The lemmas on
  sequence numbers (`PlusPlus`, `MinusPlus`, `BeforePlus`) say that the code's
  signed differences compare stream positions, wrap or not.
* `TlsProofs`: `NoncesHold` and `NoncesNeverReused`, `FinishedHolds`. That no nonce
  is used twice is not inductive: `NonceInv` adds that the numbers from the
  current one on are unused under the current key, and that the keys of this
  connection still to come, and of all later ones, have sealed nothing.
  `FinishedInv` adds that a server that has not answered yet has not been read
  from, so a Finished of an earlier connection cannot be taken for its own.
  `RecordsOpen`: each record has a place (key, number, position in the
  connection's first flight), and `OrderInv` says that the records on the wire lead
  from the place the client is at to the place the server is at, each from one to
  the next; it holds until a read is cut, and behind a change of the server's keys
  it says no more than that. `ReadsFollowTheStream`, the refinement of `ByteStream`, adds in
  `StreamInv` the offset in the stream at which each application record begins.
* `NicProofs`: `FramesStayInOrder`, `ArpStaysCoherent`, `HangsLate`,
  `AnswersAreForProbes`. `HangsLate` holds with ACKs at any moment: the next hop of
  a connection that has gone out was heard then, and stays the next hop and heard
  until the cache is cleared (`ConnInv`). `RingInv` says that the frames in the ring stand end to
  end from `rxOffset`, each untouched in its place, that the NIC will store the next
  one behind them, and that it has been told of room up to the unit in front of
  `rxOffset`. The cache's
  invariant orders its slots by age (`Older`): the hosts in the slots written since
  a host's own are in `since` of that host (`NewerHeard`), so that when its slot
  is written they are as many as there are slots (`PushedOut`, an injection from
  the slots). The calls' invariant says that a frame in the ring answers
  something that went out (`FramesCame`), that a flag that is set has the number
  sent last (`SeenInv`), and that the numbers of the commands do not overlap
  (`AskedIds`), which is what keeps an answer to a ping from a traceroute.
* `TorProofs`: `RolesAlwaysDiffer`, for every relay that the consensus does not list
  with different flags (`mixed`). What has been chosen so far is of relays already
  listed, with flags that fit the role (`ChosenFor`), and flags fit one role only, but
  for the exit, which is compared. `HopsStayInStep`,
  `CellsStayWhole`, `HopsStayVerified` and `NothingStaysOpen` come from one
  invariant, `CircuitInv`: the step of the command says which call is in progress
  and what is open; the client's hops are the relays' side of the circuit
  (`path`), or one behind it while an answer is on its way; and each counter of a
  cipher or a digest is the one at its other end, less the cells between
  (`Chain`). All of this is said while the command has more to do (`Live`): a call
  that failed or a torn read leaves it nothing but to close. `NothingStaysOpen` is
  about the link, the hops, cells and calls, and it allows for the session that
  could not be opened (`link` = "half").
  `PhasesTellTheStop` and `TunnelOnly` are about SOCKS5:
  `SocksInv` says at which byte of all the proxy sends the dialogue is
  (`Dialogue`), whatever pieces they came in. A length the proxy names is a byte
  (`DomainAssumption`).
* `EditorProofs`: `IsEditedLine`, `EditorTyped`, `HistoryStaysRecent`, and for lines
  that fit (`Fits`) `ScreenAlwaysShowsLine`. `LineInv` says what the buffer holds below
  `inputPosition`, `HistInv` that the history is of entered lines that fit the
  buffer. Each loop over the buffer is compared place by place with one insertion
  or removal (`Inserting`, `Removing`), by what `InsertAt` and `RemoveAt` of a
  sequence have at each place (`InsertAtIs`, `RemoveAtIs`). `ScreenInv` adds the
  cells and the caret: `RowColumn` and `CellIs` say that the code's row and column
  arithmetic stays on the screen (`PutCharIs`, `PlacedIs`, `DrawnIs`). `RecentInv`
  adds to the history's order that the last line entered is its last one
  (`EndsIn`), which is what the test for a repeated line looks at. For the screen,
  `ShowsInv` says at the loop that the cells from the line's beginning hold the
  buffer and nothing behind it (`OnLine`), and while output is printed
  (`Printed`) that it ends with the prompt, that the part of the prompt already
  out is in its cells, and that what is left of an unfinished line reaches no
  further than the prompt will, once the line ends still to come are printed
  (`Covered`); this last part is why the report's two line ends are needed.

Every invariant, action property and refinement that a passing run checks is
stated by a theorem; those with a condition are proved under it: one reader of the
keyboard's port (`OneReader`), large entries (`BigEntries`) for `EmptyOnlyWhenFull`
and `NoJunk`, no request behind a SOCKS5 session (`~AfterSocks`), and lines that
fit (`Fits`) for `ScreenShowsLine`. Outside each of them the code breaks the
promise, and section 5 says how.

Only model-checked: liveness (`EveryByteRead`, `EveryKeyTaken`, `ExchangeEnds`,
`EveryLineRuns`, `OutcomeReported`, `EveryByteArrives`). It needs fairness and
ENABLED, which the prover does not handle.

## 5. Where code and words disagree

The violation runs show these, each against the sentence it quotes.

* The poller and the handler can both read one scancode when the first IRQ1 is
  taken inside `pollKeyboard` (interrupts.cpp:284-294; interrupts.hpp:44-45).
* The DHCP report empties a line whose Enter was read in the same turn; an empty
  command runs (terminal.cpp:750, 753, 1130; terminal.cpp:1646).
* A one-shot request resets `tcpRxLen` but not `tcpConsumed`
  (network.cpp:1475; tcpSessionOpen resets both, 1557-1558). After a SOCKS5
  session the first segment of a response that does not fit the buffer makes
  `tcpCompact` drop the first `tcpConsumed` bytes of the response, where
  handleTcp "keeps the byte stream exact" (network.cpp:939).

In the models, and seen there, but without a run of their own:

* After one IRQ1 the poller does nothing (interrupts.cpp:277). A later byte that
  raises none is never read, though the loop below is there to drain bytes "without
  reliably raising IRQ1" (interrupts.cpp:282-283), and a mouse byte, which the loop
  is there to "ignore" (289), is never taken out of the buffer, since IRQ12 is masked
  (145): in both cases the keyboard is dead from then on.
* A Tor command whose guard has answered the SYN, and whose ACK cannot be sent,
  returns to the prompt with the session open and no FIN sent (network.cpp:1572;
  tor.cpp:194; terminal.cpp:2774-2777, 2903), where terminal.cpp:2732-2734 says that
  "the connection never has to survive idle between prompts".
* A late ACK configures the interface after the terminal has said the network
  remains unconfigured (network.cpp:1293; terminal.cpp:752).
* `cp` reads through a null content pointer; reachable where a small allocation
  can succeed after a larger one failed and an entry still fits, the proportions
  of the 32-bit kernel (filesystem.cpp:310; repository README.md:303). `NoJunk` is
  proved for the others (`BigEntries`).
* A line that fills the screen's last row does not scroll it: the blank behind
  the line, and then its next characters, are drawn over the prompt
  (terminal.cpp:813; vga.cpp:307; repository README.md:57, 286). After the first
  scroll the prompt stands on the last row, so 62 characters are enough. `Fits`
  leaves such lines out.
* handleTcp acknowledges from inside handleFrame, before poll has moved
  `rxOffset`; if the next hop's address is not in the cache, the
  acknowledgement waits in arping, whose poll finds the same segment, and so on
  without end (network.cpp:781, 959, 1042). The address was there when the
  connection began; it is gone when as many other hosts as the cache has entries were
  heard since, or when the cache has been cleared, by ifconfig, by dhcp, or in the
  middle of the connection by an ACK, late or repeated (network.cpp:1302), and the
  next hop has not been heard again. Then one segment of the last connection is
  enough. `HangsOnlyWhenForgotten` says that nothing else does it.
* A relay that the consensus lists more than once, or with two lines of flags, can
  have two roles: only the exit is compared with the others (terminal.cpp:292-330).
  Nothing in the repository says that it cannot. `RolesDiffer` excepts the relays
  listed with different flags (`mixed`), and no others.
* Where IRQ1 is late or unreliable the handler can interrupt `enqueueKey` in the
  poller, and a key is lost or changes places with the next one; `NoScancodeTwice`
  is the sentence the repository has about those machines.
* A path that is longer than its buffer is shown cut (filesystem.cpp:231-243):
  five directories of 63 characters are enough for the 256 of the callers
  (terminal.cpp:1184). `PathLeadsBack` says where it then leads.
* A late reply is taken for an answer to the ping that now waits if it has the
  same number, which every ping's first probe has (network.cpp:876). `AnswersMatch`
  excludes replies to other probes.

Smaller ones, read and not run: a touch that fails in its second allocation
leaves the file and reports that it could not be created (filesystem.cpp:405-418;
terminal.cpp:1349); a DHCP failure reported while the caret is in the first row
of a line of 160 characters leaves the end of that line behind the new prompt
(terminal.cpp:752); the repository README says of `mv` "Rename or
reparent" (364), the code only renames; "Max path depth 8 levels" (348), nothing
limits the depth, only the path shown; a 64 KB pool (366), it is 4096 bytes;
`ls [path]` (298), the argument is ignored; an RTL8139 that has not taken a frame
after 100000 looks is reported to have sent it, and the one buffer is used again
(network.cpp:600-609); a one-shot request whose ACK behind the SYN-ACK cannot be
sent returns without a FIN, as a session does (network.cpp:1477-1500); cells of other streams keep a Tor command waiting as long as
they come, each with a wait of its own (tor.cpp:534-539); the terminal's line
"ready" for circuits stays after the connection is closed (terminal.cpp:2797,
2972).

## 6. Plan

In this order, each with its runs and, where marked, theorems.

1. `Keyboard`, `KeyQueue`, proofs. Done.
2. `DhcpClient`, `Shell`, proofs. Done.
3. `FileSystem`, proofs. Done.
4. `TcpStream` over an abstract `ByteStream`, proofs of the invariant and of the
   refinement. Done.
5. `NicRing`, `Probes`, proofs of the ring, the cache and the answers. Done.
6. `LineEditor` over an abstract `EditedLine`, proofs of the refinement, the
   history and the screen. Done.
7. `TlsClient` (tls.cpp) over the promise of `ByteStream`, proofs of the nonces,
   the Finished, the order of records and the refinement. Done.
8. `TorCircuit` and `TorCommands`, proofs of the choice of relays and of the
   circuit against its relays. Done.
9. `Socks5` over the same promise, proofs. Done.
10. Left: wrap-around of `timerMillis` in the deadlines, and that each tor command
    comes back to the prompt.

## 7. Not modelled

Cryptographic primitives (arithmetic on large numbers and byte blocks; the models
above them say with which key, number and state a record or a cell was made), the
transmit rings (a frame goes out or it does not), checksums and IP options, the
characters of DNS answers, of the Tor consensus and of the lines a command prints,
the flags that only `tor status` and `securechat` print, the boot
assembly and linker scripts, page tables (written once before interrupts), the
PCI scan and the serial log (device I/O without state), the boot animation,
build and test scripts, and
`dhcpDiscover` (network.cpp:1374-1382), which nothing calls.
