# A formal model of the Rabin fingerprinting library and its proxies

The repository holds a C++ library for *value based web caching*: a server cuts
files into blocks where their content says so, numbers each block by a hash, and
sends a block's bytes to its client only if the client does not have them yet.
Around the library there are small programs and several pairs of HTTP/TCP
proxies. This directory holds TLA+ modules of that code, TLC configurations that
check them on small instances, and TLAPS proofs for every size.

## 1. Inventory

| part | code | state | operations | talks to |
|---|---|---|---|---|
| RabinServer | `Server/rabinserver.{h,cc}` | table block number → (bytes, `old`), one client socket | `connect_to_client`, `disconnect_from_client`, `send_file` (with `insert_block`, `write_block_to_client`, `hash_function`, `rabin_func`) | a RabinClient, over TCP |
| RabinClient | `Client/rabinclient.{h,cc}` | table block number → bytes, socket with a 10 s receive timeout | `connect_to_server`, `disconnect_from_server`, `receive_file`, `receive_block`, `insert_block`, `get_block` | a RabinServer |
| command line programs | `Server/main.cc`, `Client/main.cc` | – | loops of `send_file` / `receive_file` | the library |
| hrd ("p1") | `Integration/hrd.cc` | listening socket, a RabinClient, one exchange at a time, the descriptors it leaks | start, accept, forward request, receive response | browsers, psb (TCP for requests, Rabin for responses) |
| psb ("p2") | `Integration/psb.cc` | listening socket, a RabinServer, one exchange at a time | accept, forward request, relay response | hrd, the next proxy |
| asio bridges | `Integration/tcpclient/tcpproxy_client.cpp`, `Integration/tcpproxy/tcpproxy_server.cpp` | many bridges, one shared Rabin object, one `io_service` thread | handlers of asynchronous reads and writes | browsers, each other, the next proxy |
| forking proxy | `Integration/normalproxy.c` | listening socket, a process per connection, descriptors shared by `fork()`, the process table | accept, fork, close; read a GET, connect, send, relay, refuse, close | psb or browsers, web servers |
| copies | `Integration/tcpproxy/rabinserver.*`, `Integration/tcpclient/rabinclient.*` | identical to the library | `send_file`, `receive_file` | the bridges |
| samples | `Files/` | – | – | – |

What is hard in this code, and what makes each part correct:

* **Two caches that never compare notes.** The server says `old` from its own
  table; the client must have the same bytes at the moment it reads that
  descriptor, although numbers collide, writes fail after the table was changed,
  reads are split and time out. Correct: as long as no read fails inside a block,
  `get_block` never throws for the first client and the files are exactly those sent;
  and bytes are not sent twice without need.
* **A byte stream without resynchronisation.** A timeout inside a block drops
  what was read and leaves the rest to be taken for a header: the client goes on with
  whatever that says, and can put wrong bytes into its table and its files, or throw.
  Correct: it happens on a slow network only.
* **Cut points.** The blocks must tile the file, be neither empty (an empty block
  *is* the end of the file) nor longer than 64 bytes, and depend on content only.
* **A response channel without addresses.** hrd and psb pair requests and
  responses by order alone, and hrd takes a timeout for the end of a response.
* **Leaks.** Descriptors in the proxies' loops, up to a failed assertion; zombies in
  the forking proxy, up to a failed `fork()`. Correct: they grow no faster than the
  code's known leaks explain.
* **Shared objects in callbacks** (asio bridges): whichever handler asks first
  gets the next response, and a blocking call stops all other bridges. Correct: nothing
  is lost or sent twice on the way from `receive_file` to a browser, every bridge ends,
  and a browser that is served alone gets its own response.
* **Descriptors shared over `fork()`**: a connection is closed when the *last* process
  that has it open closes it. Correct: no process is left with another's connection,
  a browser that stays gets the whole answer, and none holds up another.
* **Calls that block without a timeout**: hrd's `send()` to a browser, the asio proxies'
  writes to one, and the right asio proxy's `write()` on the Rabin connection, in its only
  thread. Correct: nothing else can hold a process for ever.
* **Ends of processes.** hrd and psb exit on most errors, or die by SIGPIPE; a bridge
  process can be ended by an exception; a child of the forking proxy follows a null
  pointer for an unknown host. What was written is still delivered, the rest is not.

`PROJECT.json` lists every hazard at its line with the properties aimed at it.

## 2. Modules

| module | models | remarks |
|---|---|---|
| `BlockWire` | the TCP connection and its messages | a stream is everything written to it; the outcomes of `write()` |
| `RabinServer` | table, `insert_block`, `write_block_to_client`, sending part of `send_file` | one action per `write()` |
| `RabinClient` | `receive_file`, `receive_block`, `insert_block`, `get_block` | one action per `read()` |
| `FileTransfer` | abstract specification of a connection | items are received once, in order, unchanged |
| `RabinLink` | composition of server, client and connection, reconnection | implements `FileTransfer` of chunks; properties and inductive invariant |
| `FileLink` | `RabinLink` as the callers of `send_file` and `receive_file` see it | implements `FileTransfer` of whole files |
| `Djb2` | `hash_function`, `rabin_func` | signed chars, 32-bit wrap-around, NUL ends the string |
| `Chunker` | the loop of `send_file` that chooses the cut points | window function a parameter |
| `Resync` | two runs of `Chunker` on files with a common end | why content-defined cuts pay |
| `ProxyPair` | `hrd` and `psb`, from their start on | uses what `FileLink` shows of the Rabin connection; implements `NextProxy` until a timeout comes early |
| `BridgePair` | the two asio proxies, a bridge per browser in each | one action per handler; the same use of `FileLink`; implements `NextProxy` in the calm |
| `NextProxy` | abstract specification of a proxy, for those in front of it | answers in order, or one refusal, and silence after the close |
| `NormalProxy` | the forking proxy: parent, children, shared descriptors | one action per blocking call; implements `NextProxy` |
| `MC…` | instances for TLC | |
| `…Proofs` | TLAPS proofs | |

**Chunks.** In `RabinLink` a chunk is a value with a size and a number; `Hash` is
any function, so every collision (including those by the NUL byte, at which
`hash_function` stops) is covered. `Djb2` has the program's own hash, used by
the chunker's runs.

**Server.** `blocks` is the table with its `old` flags, `todo` the chunks still to be
written, `spc` the place in the code. `SendBlock` is `insert_block` together with
`write_block_to_client` up to the header's write (no other process can see what
is between), `SendData` the second write and the assignment of `old`, `SendEof`
the empty descriptor. A `write()` succeeds, or, to a client that has gone,
succeeds in vain, fails once, and then kills the process by SIGPIPE (`WriteOK`,
`WriteError`, `WriteSignal`): nothing in the server ignores that signal. A `write()`
on this blocking socket that succeeds writes everything.

**Client.** `rd` says how many messages of the stream were read to their end and `off` how
many bytes of the next; `got` is the loop's own count (`br`, `bytesRead`) of the bytes of what it
takes for a header or for data. `ReadPart` and `ReadLast` are the turns of the two read loops,
and `ReadFails` is a `read()` that returned -1 (timeout) or 0 (closed). When it fails inside a block
the bytes read so far are dropped with the buffer, and the history `astray` is set. The code
goes on, and so does the model: the next `receive_block` reads as many bytes as it needs,
wherever messages begin (`Take`). If those of a header are one descriptor (`Complete`), it is
read; if not, its fields can have any values (`Headers`), and the client ends its file, answers it
from the table, throws, or reads as much data as it says. The same holds for data: if the bytes are not
those of one block, they can be any chunk of that size, or none (`Contents`, `Junk`), and `insert_block` puts
them into the table under that number and `receive_file` into the file.

**Whole files.** `FileLink` adds two histories to `RabinLink` and nothing else: `outbox`, the
files `send_file` was called with on this connection, and `inbox`, those that
`receive_file` wrote up to their end. `FileSends`, `FileReads` and `FileReconnect` are the
link's actions with these histories, `FileStays` all others.

**Chunker.** `i` and `prev` are the loop's variables as offsets; `Skip`, `Cut` and
`Finish` are a turn without and with a cut, and the lines after the loop.

**Proxies.** `hpc` and `ppc` are the places in the two programs, from the start on, one
action per blocking call. hrd may connect to psb before psb listens; nothing looks
at the result, and `joined` says whether it succeeded. A connection from hrd to psb is
named by the request it was opened for: `backlog` is psb's listening queue, `wrote` and
`shut` what hrd has done with its end. `link` holds the files psb sent, `taken` how many
hrd has received; if psb ends while it sends a part, the blocks written are a `Torn` file.
hrd's `send()` to the browser returns in an action of its own (`HrdSent`), for it may wait for
the browser. When hrd ends (`HrdEnds`) the kernel closes its end of every connection, to browsers too.
`hfds` and `pfds` count the descriptors the loops have open, with the leaks on
`continue` and of `temporary.file`. `cut` and `early` are histories: which exchanges a
timeout ended, and whether psb could still send something then (`UnderWay`).

**Bridges.** A bridge has two chains of handlers, `res` for the response and `req` for the
request; their values say which asynchronous operation is outstanding or has failed. A handler
with an error closes both sockets and starts nothing, so the bridge is destroyed when both
chains are `"done"`. `c` is the file between `receive_file` and the write to the browser (0: the
null pointer). `thread` is the bridge whose handler is inside `receive_file`; no other handler
of that process runs until it returns. On the right, `res = "send"` is a handler inside
`send_file`: `RightUpRead` puts the file on the link, `RightSent` is the return. Between them no
other handler of that process runs (`RightRuns`), for `send_file` can wait in `write()` until
the left process receives. `accepts` is the right process's acceptor, which stops for good after
one error, or the process itself, which may die. `got` is a history: the files each bridge
received. `link` and `taken` are as in `ProxyPair`, each file being marked with the bridge it
was sent for, which the program does not do. Handlers whose only effect is to start the next
read are part of the action before them. What asio does with buffers of 0 bytes (an operation
that succeeds at once on an open socket, without touching it, and fails on a closed one) is
taken from how it is used here and from the library's documented behaviour.

**Forking proxy.** `ppc` is where the parent is, `child[b]` where the child forked for
browser b is. `held[p]` is the set of connections process p has open: `ParentForks` gives
the child all of the parent's, `ParentCloses` and the end of a process take them away,
and b sees its connection closed (`Closed`) when nobody holds it. `lsn` is the set of
processes with the listening socket open: children never close it, so browsers can
still connect, and wait in vain, after the parent has exited. `room` is what is left of
the process table; nothing gives an entry back, for the parent never waits for its
children, and when it is 0 the parent takes -1 for a pid and closes the connection
without an answer. A request is a class (`get`, `nohost`, `part`, `other`): what `sscanf` and
the comparisons tell apart. `ChildReads` is one `recv()` with the parsing that follows.
`SendsBrowser` is a `send()` to a browser, which kills the child by SIGPIPE if the browser
has left.

**What a proxy promises.** `NextProxy` is what a browser, or a proxy, can rely on that has
connected to a proxy of this repository: a connection is accepted, gets the parts of its own
response from the first on or one refusal, and nothing after it was closed. The last thing sent
and the close may be one step: when hrd cannot connect to psb it sends its page and closes at
once. So may be the closes of several connections, when a process ends (`Close(S)`).
`Implements` of `NormalProxy` maps a connection that is accepted to `"open"` and one that
`Closed` to `"closed"`. `KeepsPromise` of `ProxyPair` and `BridgePair` map what their browsers
can see (`SeenState`, `SeenAnswer`): the k-th file psb sent for a request is its part number k,
hrd's error page is the refusal, and file j of the bridges' link is part `Number(j)` of the
bridge it was sent for. These two proxies keep the promise only under a condition, which is part
of the property: hrd and psb up to the first timeout that comes early (`early'`), the bridges in
the calm (`calm'`: one browser at a time and no `receive_file` that gives up on a response under
way).

## 3. Runs

| run | question | bounds |
|---|---|---|
| `link_slow` | up to the first read that fails inside a block: coherence of the caches, no throw at the first client, refinement; always: nothing sent twice; any timeout, any misread bytes, any end of a process | 2 clients, slow network; 3 chunks of which two collide, 2 calls of `send_file` in all, 4 files of at most one chunk |
| `link_reconnect` | the same on a network that is not slow, where no read fails inside a block but at the end; whole files cross, and a part of one only when the server ends; refinement at the level of files | 2 clients, 3 calls of `send_file` in all, 6 files of up to two chunks |
| `link_live` | `receive_file` returns, and everything that was sent, every chunk and every end of file, is delivered (liveness) | 2 calls of `send_file`, files of up to 3 chunks, fast network |
| `link_second_client` | "fishes the block from the local cache" – **violated** | 2 files, 2 clients |
| `chunker` | the blocks tile, are bounded, are cut by content | all files of up to 8 bytes over {-1, 0, 97}, max_bytes 4 |
| `resync` | two versions share their blocks | all pairs of heads up to 2 bytes, tails up to 6 |
| `proxy` | own responses, how far hrd can fall behind, what is passed on once, how fast descriptors run out, who waits for whom, hrd comes back if browsers read (liveness); refinement of `NextProxy` until a timeout comes early | 3 requests, 2 parts each, 7 descriptors; psb may end anywhere |
| `proxy_eof` | "1 block will be used to denote eof" – **violated** | as above |
| `bridge` | what bridges pass on, and that a browser served alone gets its response whole; refinement of `NextProxy` in the calm | 2 browsers, 2 files, all of `Faults`; browsers exchanged by symmetry |
| `bridge_live` | every bridge is destroyed if browsers read (liveness) | 2 browsers, 1 file; failing acceptors and a dying process |
| `bridge_mix` | "'forward' TCP based connections" – **violated** | 2 browsers, 2 files |
| `normal` | who has which connection open, whole answers, silent closes; a queued browser is accepted and nobody is held up (liveness); refinement of `NextProxy` | 2 browsers, 2 parts each, room for 0 to 2 children |

`Faults` of `BridgePair` is the set of what else is considered: `accept` (an error in
either acceptor), `die` (the right process ends), `more` (further pieces of a request).

Why the bounds suffice. The link's invariant speaks of one block number, and of the
last block written for it; two colliding chunks and a third one with a different
number make every case (repeat, collision, collision back, other number), and
headers and blocks of two bytes are split in every way that matters (not at all,
in the middle). A chunk of one byte and number 0 looks most like the
end-of-file descriptor. Three files let a mistake of the first show in the third. On the
slow network each failed read multiplies what can follow, and files of one chunk are enough:
a `receive_file` that has lost its place reads over the ends of files as over anything else, and
two calls of `send_file` make a repeat, a collision or another number, and with a
second client a repeat that it does not have.
The theorems then remove the bounds. In the chunker files of eight bytes hold
several full blocks and several boundaries with max_bytes 4; bytes include a
negative char and NUL. In the proxies, three requests let one go wrong, the next
get what it left and the last show whether the pair recovers; seven
descriptors put the limits of both processes within reach, late enough for whole
exchanges to come before. Two bridges can overlap or follow each other, and one of
them can take the files of both, so that two files are enough for a browser to be
sent several. In `bridge_live` one file is: what matters there is a bridge
that waits for the thread while another is in `receive_file`, with and without
something to receive. In the forking proxy, connections meet only in the queue, the
parent's descriptors and the process table, and two of them do so in every order: the
second accepted before, while and after the first's child runs, with room for both, for
one and for none. Two parts let an answer be cut between parts. For `ProxyPair`,
`BridgePair` and `NormalProxy` the theorems of section 5 remove the bounds.

Deadlock is not checked: every model stops when its bounded files or requests are
used up or a process has ended.

### What the violations show

* A `RabinServer` that accepts a second client crashes it with
  `std::out_of_range` at the first block the first client already had
  (`rabinclient.cc:201`). No program here reconnects, but the library offers it.
* hrd takes a timeout for the end of a response (`hrd.cc:152`). In the trace hrd is connected to psb and has
  passed a part of a response on; psb waits for the next part from the next proxy, hrd's `read()` times
  out, and the loop ends without an empty file. The rest of that response is still to come on the Rabin
  connection, and goes to the browser that is served next. `Lag` bounds how far hrd is behind
  psb by the number of timeouts; it comes nearer again when psb gives up a later request, of which
  it sends no end. By `OwnResponse` this is the only way responses are mixed up.
* With two browsers at a time the left asio proxy sends one of them the response of
  the other (`tcpproxy_client.cpp:154`): the next file goes to whichever bridge's
  handler calls `receive_file` next. `AloneWhole` says when it cannot happen: one
  browser at a time, and no timeout while a response is under way.

Not runs: `Leaks` (in `proxy`) counts the descriptors hrd keeps, one for each call of
`receive_file`; when they are used up `fopen` fails and the assertion in `receive_file`
(`hrd.cc:138`, `rabinclient.cc:73`) aborts hrd. And `receive_file` returns one more than the
blocks it wrote (`rabinclient.cc:83` against the comment at `rabinclient.h:55`). Its
callers have adapted and compare with 1.

## 4. Fairness

* `FairSpec` of `RabinLink` (`link_live`): weak fairness of "a `read()` returns" – the client
  is one thread, while it is in `receive_file` it does nothing else, and SO_RCVTIMEO
  bounds each `read()` – and of `send_file` once it was called: it waits for nothing
  but `write()`, whose buffer such a client empties. Nothing makes an application
  call `send_file`. That a client calls `receive_file` again, as `Client/main.cc` and `hrd.cc`
  do, is a premise inside `Delivered`, not part of the specification.
* `FairSpec` of `ProxyPair` (`proxy`): weak fairness of hrd's own steps after it has
  read a request, but for `HrdSent`; none of them waits for anything but `receive_file`, which
  the timeout ends. That hrd's `send()` returns, because the browser reads or leaves, is a premise inside
  `ComesBack`: a browser that stays and reads nothing holds hrd for ever. Nothing is assumed of who connects
  and asks (hrd's first `read` may wait for ever), of psb or of the next proxy.
* `FairSpec` of `BridgePair` (`bridge_live`): `receive_file` returns, and each process runs the
  handlers of completed operations, as `io_service::run` does. A write to a browser completes by
  itself only if it is of 0 bytes or its socket was closed (`WriteCompletes`); that the others
  do, because browsers read, is a premise inside `BridgesEnd`. `send_file` returns when all it
  wrote was received (`taken = Len(link)`); before, it may return or not. So `BridgesEnd` leaves
  one way out, `RightWaits`: the left bridges are all destroyed, and the right process waits in
  `write()` for a `receive_file` that only a new browser would bring. Nothing is assumed of the
  next proxy. A response is finite (`MaxFiles`): a bridge whose response never ended would not
  end either, and should not. No accept has to fail and no process to die.
* `FairSpec` of `NormalProxy` (`normal`): each process runs when it is not waiting, and
  `accept()` returns when its queue is not empty. Browsers may keep silent, servers may
  never answer, and no server has to close.

## 5. Proofs

`tlapm` checks every proof; section 3's runs show the same properties on small
instances first.

* **Link** (`RabinLinkProofs`, `RabinLinkFileProofs`), for any set of chunks, any hash and
  sizes, any files, fast or slow network, any number of clients. On a slow network what is said
  of the client ends with the first read of it that fails inside a block (`astray`): from there
  on the code keeps no promise to its caller. `OnCourseUnlessSlow` says when that cannot happen,
  and with it `Refinement` is `RefinementOnCourse` without the condition. What is said of the
  server (`SendsOnce`, its part of `IInv`) holds in any case. None of the properties is
  inductive: `NeverMisses` depends on what is still under way. The invariant `IInv` therefore
  relates both tables to *the stream*: `Shows(s, n, j, b)` says that after the first j messages
  of s the last bytes written for number n are b. The server's table is what the whole stream
  shows (`ServerCoherent`, except for the block whose bytes are about to be written), the
  client's table what the part it has read shows (`ClientCoherent`), and each old descriptor was
  true where it stands (`OldCoherent`). `Framed`, `ServerFramed` and `ClientFramed` give the
  stream its shape, `InOrder` compares the histories. For a client after the first, a number may
  also show nothing, which is exactly how `NeverMisses` fails there. `SendsOnce` adds
  `AboutToSend`, `FilesReassembled` and `OnCourseUnlessSlow` add `BetweenFiles`, which says that
  on a network that is not slow, while the server runs, a client has not gone astray.
  Refinement: only `SendBlock`/`SendEof` on an open socket extend `sent` and only a completed
  read extends `recvd`, and by `InOrder` it does so with the next item.
* **Whole files** (`FileLinkProofs`), for the same constants on a network that is not slow. `FilesRefine`
  is a second refinement of `FileTransfer`, one level up, with files for items: `SendFile`
  is `Send`, and the read of an empty descriptor is `Receive`. The invariant `FInv` says that there is
  a function `at` (`Layout`), which gives for each file the place among the items after
  which the next one begins (`Starts`), that the items sent are those of the files, as far
  as they go (`Lies`), that the server, as long as it can be heard, is in the last file and `todo` is
  the rest of it (`ServerAt`), and that the client has `at[Len(inbox)]` items and those in `file`,
  which begin the next file (`ClientAt`), or nothing more will come (`Ended`). It is inductive
  because on such a network `receive_file` gives up only when it has read everything, and a server
  that is idle has ended its file. That `at` rises over any distance is a conjunct of
  `Starts`; to derive it from the single steps would take induction.
  `WholeFiles` says what this means to a caller of `receive_file`. `ProxyPair` and `BridgePair`
  may therefore send and receive a file in one step; a file that psb's end tears is the
  one case in which a part of a file is received, and `ProxyPair` has it.
* **Chunker** (`ChunkerProofs`), for any window function, any max_bytes ≥ 2 and any
  files shorter than `UIntRange` (2^32). The invariant adds `Ahead`: the open block
  begins before `i` and is at most max_bytes long.
* **Resync** (`ResyncProofs`): the invariant `Inv` says that the two runs, once level in
  the common end, stay level (`Level`), and that a boundary puts the start of their
  open blocks at the same byte.

* **Proxy pair** (`ProxyPairProofs`), for any requests, any lengths and any number of
  descriptors. Nothing on the Rabin connection says whose a file is, so the invariant `IInv`
  does: a connection that is still *ahead* of psb (in its queue or in its hands) has sent
  nothing but the parts psb is relaying now (`LinkOK`), was written to, is about to be, or was
  left behind an error page (`KnownOK`), and everything a browser was sent is a page or a file
  received (`RespOK`, `OnceOK`). `PassedOnOnce` and `HeldByAbandoned` follow. `Lag` is a count:
  each request written was answered, cut off or is waited for (`CountOK`), and the ends on the
  link belong to different requests, so there are no more of them than requests written. For
  `OwnResponse` the invariant `InStep` is added, which holds until a timeout comes early: what
  hrd has not taken continues the response it waits for (`WaitingOK`), and no other request that
  was written is ahead of psb, unless psb will never send again (`AloneOK`, `Halted`); that
  `Halted` lasts is why the timeouts excused in `OwnResponse` do no harm. For `Leaks`, `LeakOK`
  adds that a connection ahead of psb behind a page is still open, so psb can lose descriptors
  only to connections that `GivenUp` counts. `StaysInStep` is the theorem that `InStep` holds,
  `FrontPromise` the refinement of `NextProxy`: in step, what hrd takes from the link for a
  browser is that request's next part, so that `HrdReceives` maps to `Answer` (`SeenPart`); a
  page is sent before anything else (`SeenPage`), and hrd's close maps to `Close`, or with a
  page to an `Answer` that closes; when hrd ends, all connections it has open are the set that
  `Close` takes (`HrdHalts`).
* **Bridges** (`BridgePairProofs`), for any number of browsers, files and faults. `PassesOn` is not
  inductive: whether a file was passed on shows only in `c` and in how far the chain
  of handlers is. `IInv` adds `Begins` (a bridge without a partner has received nothing and
  nothing was sent for it), `Ends` (why a chain can fail on an open bridge, and that only
  a bridge whose write succeeded is in `receive_file`), `Passing` (what was received is in
  order, and all but `c` was passed on) and `Apart` (no file went to two). For `AloneWhole`
  the invariant `Alone` is added: while `calm` holds there is one bridge that is not
  over, every file to come is its own (`Single`), each bridge has received its own
  files and none of them is missing (`Own`), and one that was closed on a browser that
  stayed has nothing to come (`Finished`). The argument is that `Single` makes the next
  file that of the thread, and that a new bridge is accepted only when the link is empty.
  `StaysAlone` is the theorem of that invariant, `FrontPromise` the refinement of `NextProxy`:
  by `Own` the files a bridge has passed on are the first of those sent for it, so
  the next one is number (length + 1) among them, which is shown by counting a finite
  set of indices (`NumberOf`).
* **Forking proxy** (`NormalProxyProofs`), for any number of browsers, any room and any
  lengths. `IInv` says who is in the queue and who holds what at each place of the
  parent, and how far each answer is at each place of its child; `OwnOnly`,
  `WholeAnswer` and `SilentClose` follow, and the refinement of `NextProxy`: `ParentAccepts`
  maps to `Accept`, `SendsBrowser` to `Answer`, and the `ProcessEnds` or `ParentCloses` that
  takes the last descriptor to `Close`.

The assumptions are the named ASSUMEs on the constants: chunks are not empty, the end
mark and the mark for no block are not chunks, files are sequences of chunks, the marks
for no bridge and for the parent are not browsers, bounds are numbers.

Only model-checked: the liveness properties (`Delivered`, `ReceiveReturns`, `ComesBack`,
`BridgesEnd`, `QueueMoves`, `NotHeldUp`), since liveness under fairness is beyond the proof
system, and what `Djb2` computes.

## 6. What is left out

* Memory: `delete` of a block without its data, `delete bd` of an array, VLAs on the
  stack (`char c[n]`), the read of an unterminated request by `strlen` in the proxies.
* Files of 4 GiB and more: the loop in `send_file` compares an `unsigned` with a
  `size_t` and would not end; `ChunkerAssumption` excludes them.
* Of a client that has gone astray: how many bytes its wrong header asks for (`data_size` is any member of
  `Length`, in the runs 0 to 2), and that `new char[s]` can fail for a large one. A `read()`
  that returns bytes of two messages is two reads of the model. The first client after the server has accepted
  the second is not followed (nothing is sent to it any more).
* In `ProxyPair`: requests as text, and so their truncation to 1000 bytes; processes whose
  arguments, `gethostbyname` or `bind` fail, which never start.
* In `ProxyPair` psb's `send_file` returns in the step that sends; nothing is said of psb that needs it to
  return, and hrd gets the file or what was written of it.
* In `BridgePair`: the `exit` when `fopen` fails, a `receive_file` that times out inside a
  file (the Rabin connection is that of `FileLink`, on a network that is not slow), the end of the left
  process, and start-up.
* In `NormalProxy`: the text of the request line and the buffers of 500, 300 and 10
  bytes it is parsed in, the length of `listen`'s queue, and the `close` of a variable that
  was never assigned (line 170).
* Prompting and file reading in the two `main.cc`.
* Sample files in `Files/`.

## 7. Plan

1. `ProxyPair` and `BridgePair` on a slow network: `FileLink` shows what they assume of the Rabin
   connection when it is not slow; on a slow one a `receive_file` that times out inside a
   file makes the client go astray under both pairs.
2. Chains of proxies: each of the three implements `NextProxy` (`NormalProxy` always, `ProxyPair` until
   a timeout comes early, `BridgePair` in the calm), and each leaves open what the proxy behind
   it sends and when. What is not stated is a property of a chain as a whole,
   such as how the timeouts of two pairs in a row add up.
