# linux-synchro in TLA+

linux-synchro keeps a folder the same on several machines: a server holds the folder,
clients connect over TCP, watch their copy with inotify, and send each change to the
server, which broadcasts it to the other clients. This directory models that program and
says, for small instances by model checking (TLC) and for all instances by proof (TLAPS),
what its threads and messages guarantee and where they do not keep what the code's own
comments and tests say.

Paths below are relative to `src/`.

## 1. Inventory

| Component | State | Operations | Talks to |
|---|---|---|---|
| `DropboxServer` | `clientVector` of 100 slots (`ClientData`: `sockMutex`, `sock`, `safeQueue`, `isAlive`), the iterator of the accept loop, the list `clients`, `clientsMutex`, `syncMutex` | `run` (accept loop), `clientReceiver` and `clientSender` (two detached threads for each connection), `newClientProcedure`, `broadcast*`, `terminateClientReceiver` | its clients over TCP; its own threads through slots, queues and the folder |
| `Dropbox` (base of both sides) | the folder on disk, modification times | `send*`/`receive*` procedures of the five events NEW_FILE, NEW_DIRECTORY, DELETE, MOVE, COPY; `askIfValid`/`answerIfValid`; coding of integers, strings, paths | socket, disk, `ClientEventReporter`'s sets |
| `DropboxClient` | `serverMutex`, the copy of the folder | `newClientProcedure`, `sender`, `receiver` threads | server; `messageQueue` |
| `ClientEventReporter` | `messageQueue`, `allFilesInfo`, `ignoredPaths`, `permanentlyIgnored` | `chooseRequest` and the `request*` it calls; `isIgnored`, `checkIfCopied` | called by the notifier's thread; the sets are written by `sender` and `receiver` too |
| `Notifier`, `Inotify`, `EventType` | kernel watch descriptors, `mEventQueue`, `mError` | `runOnce`, `getNextEvent`, `determineMoveType`, `catchAllEvents`, `watchFile` | kernel; `chooseRequest` |
| `SafeQueue` | `std::queue`, mutex, condition variable | `enqueue`, `dequeue`, `clear` | all of the above |
| `SafeSet` | `std::set`, mutex | `insert`, `erase`, `find`, unlocked iterators | reporter, `Dropbox` |
| `TcpSocket`, `TcpServer`, `Descriptor` | a descriptor, never closed by a destructor | `doAccept`, `sendData`, `receiveData`, `closeSocket`, comparison by descriptor | kernel |

What is hard here, and what correctness means for each component:

* **Replication.** No thread holds a lock on a file. A broadcast carries a path, and the
  sender thread reads the file when it takes the event off its queue; receiver threads of
  several clients interleave their broadcasts in one queue; a new client is synchronised
  while others edit. Correct: no change is lost, overtaken or left stale; events arrive in
  an order in which they can be applied; folders agree once users stop.
* **Synchronisation.** Folders with a past are merged by modification times alone, which are
  read, sent and set in several steps, while programs are stopped and started. Correct: the
  newest version of each file wins everywhere, and it is a file that a user wrote.
* **The server's table.** Slots and descriptors are reused while threads that used them
  still run; a thread that fails leaves by an exception and cleans up little; the accept
  loop shares slots with them without a lock. Correct: a thread works on its own
  connection; every listed client gets each broadcast once, never its own; a client that
  connects is served, and not before it is synchronised.
* **SafeQueue.** `notify_one` for each push, several consumers in a slot's life, spurious
  wake-ups, `clear` without the lock. Correct: a FIFO queue, no lost wake-up.
* **Reporter and notifier.** Three threads and the kernel race for the sets that tell a
  remote change from the user's own; two loops of the notifier read ahead and drop events.
  Correct: a remote change is not sent back, and a user's change is not swallowed.
* **Socket and wire.** Mutexes held while a full buffer blocks, lengths announced before the
  data is read, end of file. Correct: both ends agree on the position in the stream and do
  not wait for each other for ever.

`PROJECT.json` lists each hazard at its line, with the properties aimed at it, or why none is.

## 2. Modules

| Module | Models |
|---|---|
| `Replication` | One folder and its copies while everybody is connected, end to end: `DropboxServer.cpp` (`clientReceiver`, `broadcast*`, `clientSender`, `newClientProcedure`), `DropboxClient.cpp` (`sender`, `receiver`, `newClientProcedure`) and the procedures of `Dropbox.cpp` |
| `Sync` | How folders with a past are brought together, with modification times, kills and restarts: `newClientProcedure` of both sides, `askIfValid`, `answerIfValid`, `getModificationTime`, `changeModificationTime` |
| `Merge` | What `Sync` promises for the server's folder: its abstract specification |
| `Reporter` | A client's `Inotify`, `Notifier`, `ClientEventReporter`, and what its `sender` and `receiver` do to the folder and to the sets they share |
| `Session` | One connection with both its ends: messages unit by unit, bounded buffers, the mutexes |
| `ServerSlots` | The accept loop, slots, descriptors, threads, mutexes, ends of connections |
| `SafeQueue` | `SafeQueue.h`, statement by statement |
| `Fifo` | What `SafeQueue` promises: its abstract specification |
| `..._proofs` | Theorems (section 4) |
| `MC...` | Small instances |

The modules cut the system along its interfaces. `Reporter` puts requests into the queue from
which `Replication` takes them (`out`); `Replication` takes one connection for two FIFO
sequences, which `Session` takes apart into units, buffers and locks; it takes the table of
clients for a set, which is the subject of `ServerSlots`; `SafeQueue` is what all of them use
as a sequence; `Sync` is the synchronisation that `Replication` has with an empty joiner, for
any folders.

### Replication

`folder` is the server's directory, `copy[c]` that of client `c`; a tree gives each path a
content, which is the number of the edit that wrote it, `Torn` (partial or mixed), `Dir` or
`Absent`. A change goes through `out` (`messageQueue`), `up` (the socket), the receiver
thread `rcv`, `queue` (`safeQueue`), the sender thread `snd`, `down` (the socket). The rigid
variable `plan` says who is connected from the start, who joins, which users edit which paths,
how and how often: one run goes through several plans.

* A receiver thread takes several steps: `StartFile` (mutex taken, file truncated),
  `FinishFile` (last chunk, close, `utime`, unlock), `StartBroadcast` (copy of the list),
  one `Enqueue` for each client, `EndBroadcast`. The other four events have one step for the
  change of the folder (`ReceivePath`). A thread that writes remembers which *file* it has
  open (`ino`), so that a rename or removal under its hands does what the kernel does.
* A sender thread reads a file between `StartSend` and `FinishSend`; when it changed in
  between, the message may carry the old, the new or torn content.
* A client is dropped by the server when its sender thread cannot read the file, exits when
  its own sender cannot, and is stuck when a procedure in its receiver throws: `mode`.
  Before a sender notices that there is no file it has sent the event, the path and a size
  of -1, which leaves an empty file at the server (`StartCutFile`).
* Synchronisation: `Join` (syncMutex), `Visit`/`Offer` for each entry of the walk,
  `TurnAround`, `Return` for each of the client's files, `Register` (`push_back`).
* `missed` is history: the paths that a synchronisation or a cut upload left out of step.

Abstractions: directories are one level deep; a client reads a file it uploads in one step;
`TurnAround` to `Register` compares files of a client that has just received the server's,
so "not older" is "the server still has it" (times are in `Sync`); a joining client
starts with an empty folder; content and time of a file are read in one step
(`Dropbox.cpp:348-363`), so `getModificationTime` does not throw after the content has been sent; a removed
directory that exists again when its event is read is not taken for one removed from outside
(`DropboxClient.cpp:25`); a dropped client is not followed any further; erasing from a set
while iterating over it is taken to go well.

### Sync and Merge

`disk[n]` is the folder of a client or the server with the time of each file. `Join` takes
`syncMutex` and starts the server's walk (`todo`); each entry goes through `Ask`, `Answer`
(which deletes an older file at once), `SendContent`, `SendTime`, and at the other side `Open`
(the file is now `Torn`, of this second), `Fill`, `Stamp`; `TurnAround` starts the client's walk,
`Register` ends. What the server receives is broadcast to the connected clients (`queue`,
`SendQueued`, `down`), which receive with the same actions. `Tick` is the clock, `Save` and
`Remove` the users, at the stages `EditsAt` allows. `KillClient` and `KillServer` take a program
away at the moments `Kills` allows and leave the folders as they are; the thread of a
killed client may notice, or go on holding `syncMutex`, which then nobody gets any more.
Integers on the wire have `Wrap` values.

`Merge` is a register for each file that only ever takes a newer version which some user wrote.
It is mapped to what the server has, or, between the deletion of an older file and the end of
the transfer that replaces it, to what is replacing it (`Shown`).

Abstractions: a path is a file or a directory at all nodes; a user does not write into a file
that is being received; the server reads the content and the time of a file it broadcasts in one
step; directories have no times and are never removed.

### Reporter

A file is an inode (`disk`, `data`), with the folder's watch and perhaps one of its own (`watch`);
`kernel` holds what inotify has for the program, `events` what the last `read` returned, `err`
is `mError`. The notifier's thread is `RunOnce`, or within one of the two loops that read ahead,
`CatchAllEvents` and `DetermineMoveType`. `info`, `ignored`, `perm` are the reporter's three
sets, `queue` its requests. The sender takes a request off, reads the file, and reads and
restores its time, with the path in `perm` in between; the receiver goes through
`receiveNewFileProcedure` or `receiveDeletionPathProcedure`, which touch the folder and so
cause events themselves. `env` chooses, once, one of the `Settings`: which operations the user
has, on which names, which files the server sends, and whether events may lag behind the
other threads. `told` is history: the version that client and server agreed on last.

The inotify facts used (which accesses raise which events, for which watch, and that an event
equal to the last unread one is dropped) are the kernel's, marked external.

Abstractions: one flat folder, so nothing is a copy; no name contains "file"
(`DropboxClient.cpp:23` ignores one such name); `removeWatch` is never called and left out;
programs do not truncate files; the events that `getFileSize` raises by opening and closing a
file are left out; taking a request off the queue and `watchFile` are one step, and so is sending a
move; a remote deletion waits while the user has the file open;
known files at the start are those that the synchronisation brought, since no
`ClientEventReporter` is ever constructed.

### Session

Each end has a queue of messages, a sender and a receiver thread and a mutex; `wire[e]` is what
`e` has written and its peer not yet read, at most `plan.cap` units. The sender locks, writes
unit by unit when there is room and unlocks; the receiver reads an event without the mutex,
locks, reads what the procedure of that event expects and unlocks. The length of a file is
announced by one unit (`SIZE`) and followed by as many chunks, whatever `Resize` has made of it.
`sent` and `got` are history.

Abstractions: the connection is past its synchronisation and does not fail; a unit stands for
what one `sendData` writes and one `receiveData` loop reads; writes are whole (a blocking
`write` is cut short only by a signal handler, and there is none).

### ServerSlots

A client is the script of units it writes (HELLO, then files and directories, END, then
more). `fdt` maps descriptors to connections, `net` is what the kernel makes of a connection
whose peer has gone: reads give zero bytes, the first write succeeds and the next fails, or
both fail after a reset. The actions follow the threads statement by statement where the
threads share something: `Search`, `Clear`, `Assign`, `Start` are the lines 24-38 of
`DropboxServer.cpp`, `CloseSocket` and `ClearAlive` the two lines of
`terminateClientReceiver`. `mutex[s]` is `lost` when a procedure threw between `lock` and
`unlock`. A receiver at the end of file reads zero bytes again and again and makes no
progress: such a thread has no step. `ReadFd` follows the code in using the slot's socket by
reference inside `newClientProcedure` and a copy elsewhere.

Abstractions: the server's half of the synchronisation is one write (`OfferAll`), and the
answers to IS_VALID are not in the scripts; no procedure throws because of what is in the folder
(a sender whose file is gone, a receiver that refuses an event), only because the connection has
failed; a synchronisation reads any of the scripts' units that open a message with a path; a
client writes nothing between HELLO and the END it reads, and HELLO only once
(`GreetingAssumption`), as `DropboxClient` does; a message has two units; buffers are unbounded;
`accept` does not fail; `clear()` meets no concurrent `enqueue`. `got` and `reg` are history.

### SafeQueue and Fifo

Each statement that can be interleaved is an action: lock, push, notify, unlock; lock, test
and sleep, wake, relock, pop, unlock. `wait` releases the mutex and sleeps in one step, and
may return without being notified (`WakeUp`). Consumers come and go as sender threads do on
a slot; `ClearOne` is a round of the loop in `clear`, enabled only while there is no
consumer and nobody is pushing. `Fifo` has `Put`, `Take`, `Drop`, `Attach`, `Detach`; the
refinement maps a consumer in any place but `off` to an attached taker.

## 3. Runs

| Run | Instance | Checks |
|---|---|---|
| `two` | 2 clients: 2+1 files, 3 edits of write, delete, copy; or 2 files and a directory, 4 edits of write, delete, move, mkdir; fair | `TypeOK`, `NothingLostUpwards`, `NothingLostDownwards`, `NoReceiverDies`, `NamesNotLost`, `Converges` |
| `many` | 3 clients, 2 files, 3 edits; or 1 client editing, 2 joining, a file in a directory, 3 edits | `NothingLostDownwards`, `NoReceiverDies` |
| `merge` | 2 clients, a file in a directory, any folders to begin with, times of three seconds, 1 edit while off, 2 stops; fair | `TypeOK`, `SameVersions`, `WholeFilesWin`, `OnlyForward`, `JoinEnds` |
| `reporter` | one client in 8 settings: alone with lagging events, on one file with 3 operations or on two with 2; moves; moves into and out of the folder; beside 2 changes of the server's with a notifier that keeps up, with a name in common (3 operations) or names of their own (2); 2 changes of the server's and events that lag, with no user or one who removes the server's file; fair | `TypeOK`, `NamesReported`, `WritesHidden`, `NoEcho`, `NamesCatchUp` |
| `session` | up to 2 messages each way out of 7 loads, buffers of 1 to 4 units; fair | `TypeOK`, `InStep`, `StopsOnlyWhen`, `Delivered` |
| `table` | 3 connections that stay, 3 slots; fair | `ReachesAll`, `NoDuplicates`, `Served`, `Flushed` |
| `reuse` | 3 connections that leave anywhere, 2 slots, 3 descriptors | `TypeOK`, `SenderOwnsConnection`, `NoEcho`, `NothingBeforeSync` |
| `queue` | 2 producers with 3 elements each, 2 consumers; fair; deadlock checked | `TypeOK`, `MutexHeld`, `NoLostWakeup`, `ImplementsFifo`, `Taken` |
| `test7` | 2 clients; write, make a directory, move | **violates** `StaysConnected` |
| `stuck` | 2 connections, one may leave during its synchronisation; fair | **violates** `Served` |
| `interrupt` | as `merge`, one kill at any moment, no edits | **violates** `WholeFilesWin` |
| `lost` | one client whose notifier keeps up, one file, create and write | **violates** `ContentReported` |

The central properties of `Replication` are not about quiet states. `Delivered(c)` plays
everything that is on the way to `c` (socket, file being sent, queue, broadcasts that have
not reached `c`) over its copy, reading files as they would be read now, and
`NothingLostDownwards` says that this gives the server's folder *in every state*. Similarly
`Uploaded(c)` and the user's own view. They are stated for paths that one user edits: with
two users on one path the protocol has no notion of a winner.

`StopsOnlyWhen` of `Session` is a property of deadlocks: it names the one that exists. Two
ends that each send more than the buffers hold stop all four threads: each sender waits, with
its mutex, for its peer's receiver, and each receiver for the mutex of its own sender.
`Delivered` says that this takes both directions: if what one end has to send fits into a
buffer (and the event that the blocked receiver has already taken), all is delivered. The
bound in `Fits` is tight.

`NoEcho` of `Reporter` says when the client tells the server about the server's own changes. What
the server does raises events like the user's; two sets hide them, `permanentlyIgnored` while a
file is received and `ignoredPaths` for a deletion. The property is about both directions of the
change: a file of the server's is asked for as new, or a name that only the server uses as
deleted, only if its path had left its set while such an event was unread or held back in
`catchAllEvents` (`Exposed`), and a path is exposed only by leaving the set in a setting
where the notifier lags. So with a notifier that keeps up it never happens, and with one that lags
there is no other way to it.

`NothingBeforeSync` of `ServerSlots` says that a sender thread sends to a client only when the
server has read that client's END_OF_SYNC (`EndRead`); the time before NEW_CLIENT is read is
included, when the sender runs already and its slot may still be in `clients`.

### What the runs found

* `test7`: the sequence of test 7 in `test/test.sh` (write a file, make a directory, move the
  file into it) may end the client's process, and leave an empty file on the server.
* `stuck`: a client that leaves during its synchronisation leaves its receiver thread in
  `receiveData`, which takes end of file for a read of zero bytes and tries again, with
  `syncMutex` locked: nobody else is ever synchronised.
* `interrupt`: a program killed while it receives a file leaves part of it with the time of the
  interruption, and that part wins the next synchronisation.
* `lost`: a write that falls between the sender's insert into and erase from
  `permanentlyIgnored` is never sent, and `utime` restores the earlier time, so no later
  synchronisation sends it either.

Facts met while modelling, which no line of the repository contradicts, so that no run
claims them: a file uploaded after the walk of a joining client has passed and before
`push_back` never reaches it (`DropboxServer.cpp:335`); a slot given out again after a failed
send keeps `sockMutex` locked and its client gets nothing (`:32`); the receiver thread of a
closed connection may read the first event of the next connection with the same descriptor
number; versions of the same second are never exchanged (`Dropbox.cpp:604`), and a change
between `sendFile` and `getModificationTime` gives old content the new time; what is removed
while a client is off comes back; with three clients a client stopped while nothing is on the
way *to* it can still be the source of a torn file, if it is stopped in the middle of
another's synchronisation; when the notifier lags, received files and deletions are reported
back, if the path leaves `permanentlyIgnored` or `ignoredPaths` with its events unread
(`Dropbox.cpp:514`, `:597`, `ClientEventReporter.cpp:317`); a deletion by the server of a name that the user
has just opened comes back to it as a DELETE even when the notifier keeps up, since the event of the user's open
uses up the place of the name in `ignoredPaths` (`ClientEventReporter.cpp:294-317`); events of
other files made together with a move are lost; a file that is in the folder at the
start has no watch of its own, and one write to it is not reported; a file that is removed by
the user while it is received ends the receiver thread with `serverMutex` locked; a COPY is
applied to whatever its receiver has at the source when it arrives, so when a second user
writes the source, or a client joins while it is under way, the copy is stale there until the
NEW_FILE that the notifier reports after every copy has arrived too (TLC finds
`NothingLostDownwards` violated for a moment in such plans, which no run has); when one user
removes a file that another is sending, or both remove it, the receiver thread of the server that
comes second finds nothing there and ends (TLC finds `NoReceiverDies` violated in such plans). A
move has no event after it that would bring what it did not find: a client that was synchronised
without its source, and is not sent that file any more, refuses the MOVE and does not get the
destination; and when a second user removes the file that the first is moving, the DELETE comes to
the server before the MOVE, and the destination never exists there (TLC finds `NamesNotLost`
violated in both kinds of plans, which no run has).

### Bounds

* `Replication`: a plan's `edits` (3, or 4 with moves) bound all users together: an edit, its
  overtaking by a second on the same path, and a third on another path or by another user are
  the shapes that the hazards need; with moves a directory has to be made first. Two clients
  have an originator and a recipient, three add two originators for one recipient. Two joiners
  make `syncMutex` matter.
* `Sync`: each file begins as absent or of one of two seconds at each of the three nodes, and an
  edit makes a third, so all orders of ages occur; one edit and two stops allow a client to be
  synchronised, stopped, edited and synchronised again while the other is connected and gets
  the broadcast. `Wrap` is 8 and the clock ends at 4: times fit. A state constraint is not
  used; the clock stops at `MaxClock`.
* `Reporter`: three or four operations make, write and remove or move a file while the events of
  an earlier operation are still on the way; two messages of the server's, which fall anywhere;
  `MaxInode` 4 is never the limit on what the user can do within these.
  The settings with a server (`Served`) are those that `NoEcho` tells apart: names shared or not, events
  read at once or not; two messages of the server's make a file and delete it, or send it twice.
* `Session`: loads of no, one and two messages with and without a file, against buffers from one
  unit to more than a message: one, both or neither direction fits. A file has up to 2 chunks,
  and its length changes once before it is announced and once after.
* `ServerSlots`: three connections on two slots and three descriptors give each of them out
  again; `LeaveAt` says at which points of its script a client may break off: everywhere in
  `reuse`. The three scripts have a client that sends a file after its synchronisation, one that
  sends a directory during it and one that only listens.
* `SafeQueue`: two of each is the least number at which a wake-up can go to the wrong thread.

Deadlock checking is off where the system stops by itself when its users and clients have done
what the bound allows; in `Session` `StopsOnlyWhen` takes its place.

### Fairness

Weak fairness for each thread: the server's threads, the client's and the accept loop are
kernel threads that are scheduled. In `ServerSlots` a connecting client goes on with its
script (`Connect`, `Write`), but no fairness makes it leave; nothing makes users edit
(`Replication`, `Sync`), clients start (`Sync`) or the server send something (`Reporter`). The
one thing a user is made to do is to close a file she has opened (`Reporter`). A thread that
waits for a mutex is not promised to get it; what there is to send is finite, so contention
ends, and with it `WF` of the thread is enough. Consumers of `SafeQueue` run, but neither start
nor stop by fairness: `Taken` excuses the runs in which one has stopped. `JoinEnds` excuses a
client that is killed and nothing else: the clients' receiver threads always come to take
what is broadcast, and no full buffer (see `Session`) is in `Sync`.

In `Reporter` four settings assume more than fairness: the notifier keeps up, that is, the user
and the other threads take their next step when all events have been dealt with. The threads do
not guarantee it. `NamesReported` is about the names that the server does not use, and fails
with lag and remote changes when there are any: it is stated for the settings in which the
program can be expected to work. `NoEcho` is stated with lag and without, and says what lag
adds. The failures are listed above and under the hazards.

## 4. Proofs

`Replication_proofs`, for any clients, files, directories and plans:

* `TypeCorrect`: `TypeOK` is inductive only with what is known of the events on the way
  (`Base`): `EventsOK` says whose paths they are about, what they need of the client's state,
  and that a file is announced with its length before it is sent in full; `Unlisted`, that
  nothing is queued for who is not in the list.
* The module also has what the next two theorems share: the folders are trees (`Trees`: what
  is in a directory goes with it), who has a file open (`Writing`), what a
  synchronisation has passed (`Walked`), and what playing a sequence of events does to the set of
  paths (`Through`) and to a content (`Brings`, `Spares`). These speak of sequences of any
  length. They are proved by induction on a number, as the least counterexample of a set of
  numbers (`LeastNumber`, `AllUpTo`, from `NatLessThanWellFounded` and `WFMin`), which needs
  no theorem with an operator for parameter.

`Replication_up_proofs`, under `Tidy`:

* `UploadsArrive`: `NothingLostUpwards`. The state of a path is split into whether it exists and what it
  contains, because they travel differently: whether a path exists is in the events themselves,
  so all events on the way, in their order, give the user's paths (`UpShape`); a content
  is read only when the event leaves `messageQueue`, so it is right in `up` or at the server
  only when no event for the path is left in the queue (`UpValue`). A COPY is no exception, since the
  NEW_FILE that follows it (`Pairs`) brings the content.

`Replication_down_proofs`, under `Tidy` and `CopiesOwn`:

* `ChangesArrive`: `NothingLostDownwards`. For each client `k` that edits and each client `c` that listens: what
  is in the pipe to `c` (the message being read, the queue, the file being sent), and then the change that
  the receiver of `k` has made and not yet broadcast to `c`, gives `c` the paths of the server that only
  `k` edits (`DnShape`), and a path with no event left in the queue has, or is being sent,
  the server's content (`DnValue`). Broadcasts of other receivers in between are about other paths
  and change nothing on these. `Lasting` says that the folder still shows what the receiver of `k`
  has done to it. A COPY that has no later event behind it is as fresh as the server's: its source
  has the same content at the client, and nothing on the way changes it before the
  COPY is applied (`DnCopying`, `DnCopy`); that takes `Lines`, the pairing of COPY and NEW_FILE all
  the way from the client to the server, and `NoJoins`. The broadcasts that are due at the same moment
  are a set in the model; `SequenceOfSet` puts them in the order the property chooses.

* `EventsApply`, under `Tidy` and `Apart`: `NoReceiverDies`. That a folder ends with the right paths
  (`UpShape`, `DnShape`) does not say that no event on the way is refused: `Applied` skips an event that
  fails, the program throws and its thread ends. So the invariant says of each event
  under way that it finds what it needs (`Fit`) among the paths that the events before it leave:
  a DELETE the path, a new file its directory. `UpFits` says it from the server's folder along
  `up` and `out`, `DnFits` from a client's folder along its pipe and the change that is about to be
  broadcast to it. An edit fits the user's own folder, and `UpShape` makes that the folder
  the server will have when the event comes; what has been applied at the server fits there, and
  `DnShape` makes that the folder the client will have (`FittedTaken`). The property is about clients
  that were there from the start with nothing missed, and `Listed` says that they stay in the list.

* `NamesStay`, under `Tidy`, `CopiesOwn` and `MovesOwn`: `NamesNotLost`. In plans without moves it
  follows from `UploadsArrive` and `ChangesArrive`. With moves the contents cannot be followed, so the
  invariant is about names alone and does not use the others: two folders are `Alike` on a set of
  paths when the same of them exist, and an event that comes to both leaves them so, if it
  is about these paths only or about none of them (`AppliedAlike`, `AppliedOutside`); `Shows` is
  what events make of a folder with one and the same content in all. `UpNames`: what is in
  the line of a client (`up` and `out`) makes the server's folder like hers on her paths;
  `DnNames`: what is in the pipe to a client, and then the change that a receiver has made and not
  yet broadcast to it, makes its folder like the server's on the paths of that receiver's client.
  Both take `Owned`: every event on the way is about paths of the client it comes from, source
  and destination, and a file that is being written still lies under its name, since the
  other receivers' moves are about other files (in plans without moves `Writing` says that). A
  broadcast that is due is among the events the property plays last, once (`ComingOnce`), and the
  others there are about other paths (`ShowsOnce`). An upload that is cut off leaves a file
  nobody is told of, and its path is in `missed` from then on (`Still`).

The four hypotheses are about what users do, not about the program, and all
are `ASSUME`d of the instances in `MCReplication`, so TLC evaluates them for every plan that is run.
`Tidy`: who may edit a directory may edit what is in it. The property speaks of
the paths that only one user edits; without `Tidy` another's removal of the directory takes
such a path away. `CopiesOwn`: in plans with COPY nobody joins and no path has two users; the fact
about copies in section 3 is why. Plans without COPY need neither, and are proved with joiners and
paths edited by several users at once. `Apart`: no path has two users (the last of the facts in
section 3); plans with joiners are included, and COPY. `MovesOwn`: in plans with MOVE nobody joins
and no path has two users, because of the fact about moves in section 3.

`SafeQueue_proofs`, for any sets of producers and consumers:

* `TypeCorrect` and `MutexRight`: `TypeOK` and `MutexHeld`, inductive together (who is in a critical
  section is what makes `m` right).
* `NoWakeupIsLost`: `NoLostWakeup` is inductive relative to these. The cases that matter are
  `Notify`, which trades the unannounced element for an awake thread, `Sleep`, which finds
  the queue empty, and `Pop`, which loses an awake thread and an element. It counts threads
  with `Cardinality`, hence the lemmas on adding and removing one.
* `Implements`: `Spec => ImplementsFifo`, one abstract action or a stutter for each step.

`ServerSlots_proofs`, for any numbers of connections, slots and descriptors, any scripts and
any points at which clients leave (in the last two, nobody leaves); assumed are only the types of the constants
(`SlotsAssumption`) where nothing else is said:

* `TypeCorrect`: `TypeOK` is inductive.
* `Ownership`: `SenderOwnsConnection` is not inductive alone. The strengthening `Owned` adds:
  no connection is behind two descriptors; a thread that has closed its socket but not yet
  cleared `isAlive` keeps its slot; the connection in the hands of the accept loop is behind
  the descriptor it was given and has no threads; the slot it has found is not alive.
  The step that needs them all is `CloseSocket` against `Accept` and `Assign`: the
  descriptor closed is the thread's own because nobody was given the slot before `isAlive`
  was cleared.
* `NoEchoes`: the invariant `Quiet`. A slot is labelled with a connection only from the accept
  loop's assignment on, and as long as it is, the descriptor in it is the one that the
  connection's receiver compares with; so the loop of `broadcast*` skips the slot of the
  originator, whichever other slots have come to hold the same descriptor number.
* `Patience`, from the same and `GreetingAssumption`: `NothingBeforeSync`, from the start of the sender
  until END_OF_SYNC has been read. A new client's slot is normally in nobody's list, so its queue
  is empty and its sender asleep. A slot that is given out again is still in `clients` if its last
  client was; then messages are queued while the new client is being synchronised. What
  saves the protocol is a defect: such a slot has been left by a sender that threw, so its mutex
  is lost and the new sender never gets to write. The invariant `Patient` says so: what the
  server has not read of a client is the end of its script (`Unread`), so that reading END_OF_SYNC means
  something; who has `sockMutex`, and that it is lost when a sender has failed (`MutexRight`); a slot has had nothing
  broadcast to it, or has lost its mutex, or serves a synchronised client (`Reached`); so a sender with
  something to send serves a synchronised client or waits for a lost mutex (`Ready`).
* `ReachesEverybody`, while nobody leaves (`LeaveAt = {}`) and clients write what they should
  (`Obeyed`: NEW_CLIENT first and once, END_OF_SYNC once, the rest of a message after what opens it):
  `ReachesAll`. The invariant `Staying`: what a receiver has read is a prefix of the client's script and says
  what the receiver is doing (`Places`), hence no thread ends; each client that has been
  synchronised is in `clients` (`Registered`), and each one a broadcast is meant for has got it
  or is still in its copy of the list (`Reaching`). A running client's slot is passed over by
  its own broadcast only, because by `Owned` no other has its descriptor. With clients that
  leave it is false, and TLC shows on the constants of `reuse` how: the receiver of a
  client that has gone is still broadcasting when its descriptor is given to a new
  client, which its loop takes for the originator.
* `GivenOnce`, from these and `OneChange` (each client changes one thing, so that what it is
  the originator of is one broadcast): `NoDuplicates`. The invariant `OnlyOnce`: `clients` and
  the copies of it have nobody twice, since a client that is in the list has read END_OF_SYNC and so is not
  the one that reads it now; and who has got a change is not in the rest of the copy. With
  slots that are given out again it is false: the slot is put into the list a second time.

`Sync_proofs`, for any clients, trees, folders to begin with, edits and clocks (`SyncAssumption`):

* `TypeCorrect`: `TypeOK` is inductive.
* `WholeFilesSent`: `Calm /\ Spec => []WholeFilesWin`. `Calm` is that no program is killed during a
  transfer and no folder begins with part of a file; `interrupt` is what happens without it.
  The difficulty is that torn files do exist all the time: while a file is received, and at a
  connected client when the server's sender has read a file that another thread was receiving.
  The invariant `WholeInv` says where: a torn file lies only where a receive procedure has it
  open, or at (or on its way to) a connected client that another message about the same path,
  on its way or still due, will reach (`Replaced`); so nothing torn is at a node whose files
  are being offered.
* `ServerGoesForward`: `Undisturbed /\ Spec => OnlyForward`, that is, the server's folder refines
  `Merge`. `Undisturbed` adds to `Calm` that nobody edits during her own synchronisation, that
  times fit into the 32 bits and that the files there are at the beginning are users' files
  with a date (the instances of `merge` satisfy all of it). The invariant `Rest` says what the side
  that asks has told about an entry (`Walk`) and what the other has written of it (`Copied`), and
  of every file at a node outside the list that it is a user's version or is being received
  (`Own`); a connected client may have a mixture, the time of one version with the contents of
  another, but then a later message replaces it (`Restored`). Otherwise that client, killed and
  edited off line, would offer the mixture to the server at its next start. The answer "no" is
  `Adopt`: the transfer that follows changes nothing that is shown, and `StampCopies` is why
  its end shows what its beginning promised.
* `EverybodyAgrees`: `Settled /\ Spec => []SameVersions`. `Settled` adds to `Undisturbed` that
  users edit only while their client is off and that a directory is a directory everywhere; edits
  of connected clients are the subject of `Replication`. The invariant `Agree` has three parts.
  `Passed`: what the walk of a synchronisation has been at; first the client has nothing older
  than the server, then the server nothing older than the client. `Current`: the last that a
  client in the list hears of a path is what the server has, unless the path is still in its
  queue or on its way to the server. `Kinded`: no file where there is a directory elsewhere.
  A client is accepted into the list with both halves of `Passed` behind it, which is what
  `Current` needs of a client that nothing has been queued for.

`Reporter_proofs`, for any names, settings and bounds:

* `TypeCorrect`: `TypeOK` is inductive.
* `ReceivedHidden`: `WritesHidden`. The sets hold no counts, and two threads insert and erase
  the same path; the invariant adds that `serverMutex` keeps the sender out of
  `getModificationTime` for as long as a file is received.
* `NamesNoticed`: `Spec /\ Orderly(env) => []NamesReported`. `Orderly` says which settings the
  theorem is about: no name is used twice, and either the user, alone, makes, writes and removes files
  and the threads run in any order, or the notifier keeps up in a folder that was empty, with moves or with
  a server beside the user but not both. TLC evaluates it for the settings of the run
  (`FavourableAssumption`). The argument is about what is on its way: `Stream`, the events not yet
  reported (the `modify` in hand, those read, those of the kernel; of each only what it tells of a
  name), and `Work`, the requests not yet done. `Accounted`, the heart of the invariant, says
  that each name comes out right when both have been dealt with: a file the server has not
  heard of has an event or a request that makes it, one that is gone but still known there has one that
  ends it, and nothing ends a file that is there. At rest both are empty, which is
  `NamesReported`. The other parts are what each step needs to keep it. `Guard`: behind a `modify` comes
  nothing that tells of a name, so `catchAllEvents` drops nothing of use, and it waits for a second one
  only if that one comes. `Moves`: a `moved_from` has its `moved_to`, or the end of the events, right behind it,
  and the new name is one that `isIgnored` lets through. `Ordered`: a request to move or
  delete a file comes after all that made it, and no second one after it. `AllWatched`: a notifier that keeps
  up has a watch on every file, or an event or a request that will set it. `Traced`: a name that was not used
  is in no set, event or watch. Parts of this break when the client is bound to end: the
  sender dies of a request for a file that is gone (`Doomed`), and then nothing is promised. What remains
  true in that case too (`Sound`: nobody but the sender keeps a file of the user's hidden, inodes are
  not shared, a file's own watch tells of no name) is apart.
* `NothingEchoed`: `Spec /\ Watchful(env) => NoEcho`, an action property of all the requests, for new
  files and for deletions. `Watchful` asks less than `Orderly`: the server sends nothing, or nothing is
  moved; the notifier may lag, names may be used again and by the server too, and the folder may have
  files in it. A request is traced to the event that made it (`AsksExposed`), and the
  moment a path becomes exposed to the step that uncovered it (`ExposedLost`). The first needs only that a
  file is known by its name: `Located` (an inode has one name, and its own watch tells that name) and
  `Tidy` (nothing is moved; what the user has open is a file whose name she uses). The second is about what each step
  adds to what is unread: `AddsNoise` (of a file of the server's, only while the receiver writes it, with the path
  in `permanentlyIgnored` by `ReceivedHidden`; a deletion only with the path just put into `ignoredPaths`) and `Takes` (a
  file becomes the server's only by that writing). With a notifier that keeps up, `Prompt` shows that no path
  leaves its set too early: what is unread of the server's files is read (`Muted`), or put together by
  `catchAllEvents` (`Gathered`), while the receiver still hides them, a file it writes still
  has its name (`Standing`), and a deletion is the first event its path has unread (`Foremost`),
  so nothing else uses up the place in `ignoredPaths`.

`Session_proofs`, for any messages, file lengths and buffer sizes, and files that change while
they are sent:

* `TypeCorrect`: `TypeOK`, with the bound of the buffers.
* `StaysInStep`: `InStep`. A position (`Pos`) is what is left of a message, what is known of it,
  and how many messages have been announced; `Step` moves a position over a unit. The inductive
  invariant `IInv` says of each direction that the units in the buffer are a chain of steps from
  the receiver's position to the sender's (`Linked`): writing adds a link at one end
  (`LinkedAppend`), reading takes one off at the other (`LinkedTail`), and locking changes
  neither position. A file changes between two links, and no link depends on its length: the
  sender writes as much as the size it has written said. `IInv` also keeps, for each thread,
  what can be left of a message in each of its states (`Shapes`), and that what is received
  agrees with what was announced (`Announced`).

Each of these invariants was first given to TLC as an invariant of a run (`UpInv`, `DnInv` and
`OrderInv` with the constants of `two` and `many`; `Named` with those of `two`, and for some millions
of the states of a plan with three clients that move files; `Unanswered` with the settings of
`reporter` that have a server, and more operations in `Lagging`; `Patient` with those of `reuse`), but for the chains of
`Session_proofs`, which it cannot enumerate. The assumptions on the constants are evaluated by TLC
in every run.

Only model-checked: liveness (`Converges`, `Served`, `Flushed`, `Taken`, `JoinEnds`,
`NamesCatchUp`, `Delivered`) and `ENABLED` (`StopsOnlyWhen`), which are beyond the prover used.

## 5. Possible next steps

1. Composition: `ServerSlots` with `Fifo` in place of its plain sequences; the broadcast of
   `Replication` as an abstraction of that of `ServerSlots` while nobody leaves.
2. Directories in `Reporter` (`watchDirectoryRecursively`, and what happens between a
   directory's creation and its watch) and copies (`checkIfCopied`).
3. `correctPath` as a function on sequences of characters.
4. Proofs: `SameVersions` with edits of connected clients.

## 6. Not modelled

`editor.cpp`, the programs' command lines, `POSIXError`, the names of events for logs and the
test scripts: no state or only input and output. `checkIfCopied` compares contents, which
the models do not have; what follows from its answer is in `Replication`. `correctPath` is about
single characters of paths, which are atoms here. Data races on plain fields (`isAlive`, `sock`)
are taken as reads of the old or the new value; races on containers (`SafeQueue::clear`,
iterators of `SafeSet`) are undefined behaviour, named as hazards and left out.
