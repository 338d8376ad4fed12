# livedl: a verification project

livedl records live broadcasts: niconico (HLS and RTMP), YouTube Live and
TwitCasting. This directory holds TLA+ models of the parts of it whose
correctness depends on the order of concurrent steps, on failures or on
restarts; the TLC configurations that check small instances; and proofs, checked
by TLAPS, for every value of the constants. Paths below are relative to the Go
source root (`src/src/` from the top of the tree that holds `src/` and `tla/`).

## 1. Inventory

| component | state it keeps | operations | what is hard about it |
|---|---|---|---|
| `gorman` goroutine manager (`gorman/gorman.go`) | map of stop channels, WaitGroup, code checker | Go, Cancel, Count, Wait | a goroutine is added, registered, deleted, checked and done in five separate steps, and Cancel, Count and Wait each look at another one |
| HLS session (`niconico/nico_hls.go`: Wait, startMain, startPlaylist, startComment, checkReturnCode, serve) | four managers, quality, restartMain, startDelay, finish, commentDone, commentStarted, nInterrupt | one goroutine per websocket, keep-alive, poller, playlist, write, signal, timer, server; 16 return codes; restart loop | up to a dozen goroutines whose return codes stop and restart each other; flags that are partly unguarded; blocking reads that end only when another goroutine closes the connection |
| chunk recorder (`niconico/nico_hls.go` getPlaylist, saveMedia; `nico_mem_db.go`; `nico_db.go`) | table media, table in memory (memdb), playlist | index, going back until 404, saving, marking, resume | writes are asynchronous and unordered; memdb is ahead of the database; crash and restart |
| comment store (`commentHandler`, the poller of startComment, `dbGetFromWhen`, `WriteComment`) | table comment | insert, ask for what is older, export | deduplication by hash, asynchronous writes; an end that is guessed from how many comments come |
| entry point (`niconico/nico.go`, `NicoRecHls`) | session cookie | login, page data, loop over restarts | mostly text and HTTP |
| RTMP recorder (`niconico/nico_rtmp.go`), protocol (`rtmps`), FLV (`flvs`), AMF (`amf`) | chunk streams, transaction ids, file offsets | connect, commands, receive chunks, record streams in parallel | reassembly of interleaved chunks; replies awaited among media; a semaphore and early returns |
| YouTube (`youtube`) | processes and their pipes, comment table | run streamlink or youtube-dl, comments by continuation | bounded channels between pipe readers, an output goroutine that ends first; number and token of the next comment resumed from the row with the highest number |
| TwitCasting (`twitcas`) and its retry in `livedl.go` | an SQLite file used as a lock, the time of the last end | record until it ends, retry | lock file removed by name before it is closed; a time that only some ends set |
| `httpsub` | semaphore channel, length channel | parallel range requests | nothing: no package of the repository imports it |
| `zip2mp4` and automatic conversion in `livedl.go` | file handles, counters | convert, split, delete | partial failure before a deletion |
| `options`, `cryptoconf`, `httpbase`, `procs`, `objs`, `files`, `log4gui`, `buildno`, `defines`, build tools | settings | parsing, wrappers | sequential; nothing a model would add |

Interactions. `livedl.go` dispatches to `niconico.Record`, `youtube.Record` or
`twitcas`. `NicoRecHls` makes a `NicoHls` and calls `Wait`. `Wait` starts the
interrupt handler, the test timer and the local server in gmMain and the main
websocket in gmPlst; messages from that websocket start the playlist (gmPlst) and
the comment session (gmCmnt); both hand rows to goroutines of gmDB. Every
goroutine ends with a return code, on which its manager calls
`checkReturnCode`, which cancels groups and marks a restart. `Wait` waits for
gmPlst, restarts it if so marked, and otherwise stops everything.

The hazards are listed one by one, with line and property, in `PROJECT.json`.

## 2. Modules

| module | models | proofs |
|---|---|---|
| `TaskGroup` | abstract: what a manager promises (tasks told together, waited for together) | |
| `GoroutineManager` | `gorman.go`, each call in its atomic steps; refines `TaskGroup` | `GoroutineManager_proofs` |
| `NicoHls` | the session, on top of managers as in `TaskGroup` | `NicoHls_proofs` |
| `ChunkRecorder` | getPlaylist, saveMedia, memdb, the asynchronous writes, interrupt, crash, resume | `ChunkRecorder_proofs` |
| `RtmpChunks` | decodeOne and Set Chunk Size against a server that sends chunk by chunk | `RtmpChunks_proofs` |
| `RtmpRecorder` | recAllStreams, recStream, recvChunk on whole messages, the times and tags of FLV | `RtmpRecorder_proofs` |
| `Quality` | the choice of a quality in getPlaylist, and what answers 5xx do to it | `Parts_proofs` |
| `Timeshift` | the position of a timeshift: how it moves, is stored and is resumed from | `Timeshift_proofs`, `Parts_proofs` |
| `TimeshiftComments` | the poller and the reader of a timeshift's comments, the asynchronous inserts, resume | `Parts_proofs` |
| `YoutubeRecorder` | youtube.Record with the programs it runs, their pipes and goroutines | `Parts_proofs` (types) |
| `YoutubeComments` | getComment, its database, resume | `YoutubeComments_proofs`, `Parts_proofs` |
| `Twitcas` | TwitcasRecord and the loop of main, in several processes | `Parts_proofs` |
| `Converter` | ConvertDB, Convert, and main's deletion after them | `Parts_proofs` |
| `Parts` | the last seven side by side | `Parts_proofs` |

`MC...` modules and the `.cfg` files instantiate them for TLC. `Parts`
puts the last seven of the components side by side, which share no state with one
another: it extends `Twitcas` and instantiates the other six with variables of
their own. The initial state picks one of the seven, and that one takes all the
steps, so the run of `MCParts`, which only gives the constants of `Parts` their
values, is the union of seven explorations, and what is proved of `PartsSpec` is
proved of each of the seven.

### GoroutineManager

A goroutine is identified with its stop channel. `pc[g]` is where `Go` and the
function it started are: `GoAdd` is `wg.Add(1)`, `GoStart` is `addChan`, `Return`
the return of `f`, `DelChan`, `Check` and `Done` the three deferred steps.
`channels` is the map, `closed` the channels closed by `Cancel`. `Cancel` and
`addChan`/`delChan` hold the mutex and are one step each.

`GoAdd` has the guard `waiting => wg > 0`: it is what a `sync.WaitGroup` asks of
its callers, and `NicoHls` checks that the session keeps to it
(`ManagersUsedByTheRules`).

### NicoHls

`stage` and `told` are the managers' state as in `TaskGroup`. `at` is the place
inside the function of each running goroutine; `ops` is what the checker still
has to do for the code with which a goroutine returned. `Checker(code)` is the
switch of `checkReturnCode` as a list of atomic steps; a step that reads shared
state (`ifDone`, `ifStarted`, `ifFinish`, `if403`) puts what it decides in its own
place, so every other goroutine may run between the read and the consequence.
`wpc` is the place of the goroutine that called `Wait`.

Data left out: addresses, cookies, comments and the content of requests. The
server is the environment: any message or failure may come at any time. Merged
steps: dialling is one step with its result; stopPCGoroutines is one step; the
read of startDelay and the mark after it are one step; `wg.Done` is one with the
last step of the checker; addChan is one with wg.Add (GoroutineManager has them
apart). A goroutine that ends on a code about which nothing is done leaves in one
step. The counter of repeated error messages is abstracted to a choice between
the two codes it leads to. The keep-alive goroutine (keepSeat) is started only
where `HasSeat` is TRUE, in `nico_signals`: it has one more place to be and no
say in what the other runs ask, and multiplies their states.

### ChunkRecorder

`pc` is the place inside getPlaylist: between passes, going back, or in the loop
over the index. `is200` and `stopback` are the columns of memdb, where INSERT OR
REPLACE clears the other columns; `db` is table media; `writes` are the
statements whose goroutines wait for dbMtx and run in any order. `gone`,
`failed` and `lost` are history variables used by the properties only. The server
answers each request with 200, 404, 500, or with 403 or an error, which end the
pass. `Start` is memdbOpen on the database that the previous process left.

### RtmpChunks

Two ends and a wire between them. `phase` is the place inside decodeOne: before
the header, before the extended time, before the body, and the same again in the
loop over the chunks of one message; `msg`, `got` and `info` are its rtmpMsg, the
length of the body so far and `rtmp.chunkInfo`; `recvSize` is `chunkSizeRecv`. A
part of the wire (a header, an extended time, a body) is read whole, as
`io.ReadFull` does. The server is the reference: it knows the message it sends,
picks any format that is allowed for it, and what the decoder returns is compared
with that message.

What stands for what: times have a `Marker` instead of 0xffffff, so that few
values reach it; the body of Set Chunk Size is one byte, its value is a field.
Where a header of format 3 follows a header with an extended time, the server
sends the time itself there, as decodeOne takes it. Left out: the
wrap of a 32 bit time, what message types mean (except Set Chunk Size), chunk
stream numbers as bytes, and servers that interleave the chunks of two messages
or continue one in another format than 3; decodeOne supports neither.

### RtmpRecorder

`main` and `index` are the place and the loop variable of recAllStreams, `slots`
and `wg` the buffered channel and the wait group. `task[s]` is the goroutine of
recStream for stream s: its place, its attempts, how it ended, and how many of
its deferred calls have run (rtmp.Close, the release of the slot, wg.Done).
`rtmp[s]` holds the fields that outlive an attempt, and the file: for each track
the frames it has with the times they were given. `conn[s]` is the server's end.

`Play` is tryRecord up to the play command; connecting and each command may
fail, which is `Fails`, together with the reads that exceed 300 s and every other
error that makes recStream return. `RecvFrame`, `RecvAggregate`, `RecvMetaData`,
`RecvComplete`, `RecvFailed` and `RecvNothingMore` are the cases of recvChunk that
change something. The server plays a recording frame by frame on two tracks that
are at most `Skew` apart, from the frame it was asked for, with times relative to
it; the time of a status message is that of the last frame. That the tracks are
no more than a second apart (`RtmpRecorderAssumption`) is what the code relies
on when it goes back a second; with a larger skew NoGap fails.

The process can also end in two ways nobody waits for: when a ticket cannot be
had (`NoTicket`), and with a panic when Play.Complete comes before there is a
file (`RecvComplete`). Both are in the model; the first loses what the other
streams' files have buffered.

### Quality

`qualities` is what the master playlist lists, by bandwidth. `Better` is the
condition in the closure `set` of getPlaylist. `Master` receives the list,
`LooksAt(bw)` is the closure called for one of its lines, in whatever order the
server gives them (`unread` are those still to come, `maxBw` is the choice so far),
and `Chosen` goes on with the address. `seqNo500`, `cnt500` and `bw500` are the counters of
startPlaylist, which outlive a restart of the session and a change of the
sequence number; `failures` is a history variable. `IndexCounted`,
`IndexCountedAgain`, `LowerLimit` and `PlaylistError` are the four outcomes of a
5xx for the index; `Master500` puts the limit back, so the bound on `failures`
counts from there.

### Timeshift

Positions count half chunks, so that the margin of 0.49 seconds, which puts
`start` just before the next chunk, is not lost: chunk s plays from 2 s and the
margin is 1. `timeshiftStart` moves on before a chunk is fetched, as in the code;
`marked` are the rows whose column position is set. `Positioned` is
dbSetPosition, an UPDATE that finds nothing while the row is not written;
`Replaces` and `Inserts` are the two statements a goroutine of gmDB may run, and
they run in any order. After an interrupt startDBGoroutine starts nothing, so
`Passed` counts no pass of an interrupted process. What is assumed of the server:
the index it answers begins with the chunk in which `start` lies,
CURRENT-POSITION is the position of that chunk, and without the fast mode it does
not play faster than the client asks. memdbDelete is left out: in a timeshift it
forgets only chunks that no later index holds.

### TimeshiftComments

Comments are numbered by age. The server answers a request with the last `Batch`
comments before `when`, oldest first; the poller asks for `when + 1`, as several
comments may have one time. `fresh` is chatCount less what the poller has seen of
it; `wire` is what has been sent and not been read. `lost` (under way or pending
when a connection or a process ended) and `slow` (a small growth was counted as a
hint of the end while an answer was under way) are history variables and name the
two ways in which a comment may be missing: the poller only goes back, so what is
cut off is never asked for again, and a slow answer looks like the last one. The
bounds leave out more than a whole answer of comments in one second, for which
the poller asks for the same ones for ever.

### YoutubeRecorder

`process[p]`, `pipe[p]` and `left[p]` are a program; `reader`, `chan`, `chEof` and
`outputs` its three goroutines and their channels; `pc` is the place in Record;
`intr` and `waiter` are the other goroutines of gm and `com` the one of gmCom.
`Waited` is cmd.Wait, which closes our ends of the pipes whatever is left in them.
procs.Kill is log.Fatalf on every system but Windows, so an error line of
streamlink either kills streamlink (`OutputsKills`) or ends our process
(`OutputsDies`). `ReaderEof` is the end of the scanner's loop when the program has
ended or cmd.Wait has closed the pipe. `ReaderGivesUp` is its other end, while the
program still runs: the split function asks for more until it sees CR or LF, and at
64 KB the scanner stops with bufio.ErrTooLong (`TooLong` stands for such a piece).
Nobody reads that pipe from then on.

### YoutubeComments

Comment k is the k-th the server has, and token k asks for what follows it.
`Receive` is one answer: a goroutine for each comment, all with the token of the
request; `Insert` is INSERT OR IGNORE under unique indexes on id, time, offset and
number (`Same`); `last` is the row with the highest number, from which the next
run takes its token and its number. The error of dbGetContinuation is ignored: a
run whose query fails (`found` of `Start` is FALSE) takes the page's token and counts
from 0, whatever rows there are. `cutoff`, `firsts`, `recounts` and `recounted` are
history variables; `recounted` is what such a run received.
`firsts` are the first comments of resumed runs: they are given the number of the
row that the run went on from, and are then ignored as duplicates unless they are
that row itself.

### Twitcas

`file` is the inode that has the name of the lock file, `ino[r]` the one that
process r has open; SQLite's lock belongs to the inode. `Removes` is the deferred
os.Remove, by name, while the lock is still held; `RemoveFails` is what Windows
does. `OneRecorder` therefore says less than one would wish: two recorders of one movie
are possible once the lock file of one of them has been removed by name, and the property
says that there is no other way. `DbLocked` is any error of BEGIN EXCLUSIVE, which TwitcasRecord takes for the
lock of another process. `doneTime` is kept as the time since, up to just over the limit.

### Converter

`rest` are the rows of SelMedia, or the keys of a zip, that have not been read; as
both come in order the next one is the smallest; `mp4List` the files
with what has been written to each; `prev` the last index read. `Splits` is the
condition under which a new ffmpeg is begun. An ffmpeg that is given nothing fails
(it has no input to copy), any other may; `Fatal` is every log.Fatalln on the way.
`NextFails` is rows.Next returning false because of an error, which nobody asks for:
`lost` are the rows it kept back. The properties speak of `Read`, the rows without
those; that `Delete` removes the lost ones with the database is what the code does.
A recording counts as in pieces when a number is missing between two rows read, or when
the quality changes there.

## 3. Runs

| run | question | bounds |
|---|---|---|
| `gorman` | all properties of one manager, liveness, refinement of TaskGroup | 3 goroutines: one cancelled, one starting, one returning at a time |
| `nico_live` | one reader, nobody left, no second connection; what has been told to stop ends, and Wait goes on | fairness, 2 comment sessions overlapping, 1 write in flight, 1 error or end, then a restart |
| `nico_timeshift` | the end of the playlist is not missed | poller, 2 ends or errors in any order |
| `nico_signals` | the managers are used by the rules of TaskGroup | timer, server, keep-alive, one signal, interrupt handler restarted by its own checker |
| `nico_waiting` | once the comment session is started, is there somebody to wait for after "waiting comment"? (violated) | as nico_timeshift |
| `chunks` | stored chunks are kept, marks mean stored, no silent gap | 4 chunks, index of 2, windows 1 and 2 instead of 100 and 10, 2 faults, 2 starts, crashes |
| `chunks_resume` | does going back always go on until 404? (violated) | no faults at all, one interrupt, 2 starts |
| `rtmp_chunks` | the decoder returns what was sent, stays in step, waits for nothing that is not coming | 2 chunk streams, 2 message streams, messages of 1 and 3 bytes, chunk sizes 1 and 2, times 0 to 2 of which 2 is extended |
| `rtmp_stream` | no gap, true times, complete means all | 1 stream, 3 attempts, 6 frames per track, skew 2, a second of 2 |
| `rtmp_recorder` | the limit of connections, the barrier, the program ends | 2 streams, 1 connection, 2 attempts, 1 frame per track |
| `parts` | the seven modules of `Parts`, each for itself | below |
| `tcas_retry` | does the time to give up count from the end of a recording? (violated) | 1 process, limit 1 |

The properties of `parts`, by module, with the bounds:

| module | properties | bounds |
|---|---|---|
| `YoutubeRecorder` | `RecordEnds` (liveness) | channels and pipes of 1 line, streamlink writes 1 line and youtube-dl 2, each of which may be too long, three combinations of options and chat |
| `YoutubeComments` | `LossExplained` | 3 comments of which two have one time, 2 runs, replay and live, the query fails or not |
| `Twitcas` | `OneRecorder`, `RetryEnds` (liveness) | 2 processes, one of which never gives up; limit 1 |
| `Converter` | `FilesAreRuns`, `DeletedMeansConverted` | every recording on 3 sequence numbers, every mode, databases and zips |
| `Quality` | `BestWithinLimit`, `FailuresBounded` | every set of 3 qualities in every order, 4 limits, indexes at 3 places |
| `Timeshift` | `GapExplained` | 3 chunks, index of 2, 1 row reloaded, 1 fault, 2 starts, from the beginning or from the middle of a chunk |
| `TimeshiftComments` | `CommentsExplained` | 4 comments of which two have one time, answers of 3, a small growth is less than 2, 3 under way, 2 sessions |

Why the bounds are enough to be interesting. Every action of each module fires
in some passing run. In the session the hard cases need two endings at most (the
one that stops or restarts, and the one that races with it), and two comment
sessions are alive at a time only while the older one is shutting down, as a
third needs a second restart; identifiers are reused, so longer histories are
covered. In the recorder the windows are scaled down so that they are crossed:
memdbDelete forgets chunks that the broadcast still reaches, and memdbOpen loads
fewer rows than there are. In the chunk stream a message takes one, two or three
chunks, the size changes between any two messages, and every format follows every
other on both chunk streams with and without an extended time. A recording of
six frames with a second of two lets an attempt begin in the middle twice, with
one track ahead of the other by as much as a second.
In `parts`: a channel and a pipe of one line fill with two; two comments of one
time are enough for an index to refuse one; two runs are enough to resume, and
resuming twice is resuming from what once resumed left; three processes would
hold three inodes, but the lock is a matter of two; three sequence numbers hold a gap, a change of quality and both side by
side; three qualities give a limit something to be below, between and above;
three chunks with an index of two make a second index begin inside the first.
The proofs remove all these bounds for the safety properties: those of every
passing run are theorems. The bounds remain for the liveness properties.

Deadlock. The session ends (`wpc = "returned"` or `exited`), the recorder
stops, the program of the RTMP recorder ends, and so do the seven of `Parts`, so their runs switch the
deadlock check off. There is a second reason in
the session: a closer that is started after its group was cancelled is never
told, and Wait then waits for it for ever (see the hazards). `gorman` and
`rtmp_chunks` have the check on.

Fairness. In `GoroutineManager` the Go scheduler runs every goroutine that can
take a step, and a function returns once its stop channel is closed; nothing
makes it return before. In `NicoHls` each goroutine's own steps are weakly fair:
a select takes a case that stays ready, a timer fires, a dial or a write ends one
way or the other, a read on a connection that was closed here fails. Nothing is
assumed of the server, the network or the user: no message ever needs to come,
and a read on an open connection may block for ever. That is why the closers
matter. In `RtmpChunks` the decoder reads what has arrived, and a server that has
begun a message sends the rest of it; it need not begin another. In `RtmpRecorder`
recAllStreams and each stream's goroutine are weakly fair as a whole: wait sets a
read deadline of 300 seconds before every message, so a server that sends nothing
makes the read fail; and a recording has an end.
`ProgramEnds` would not follow for a live broadcast, where frames keep coming, and
is not claimed there. In `YoutubeRecorder` the goroutines and Record itself are
weakly fair, as the Go scheduler makes them; a program ends some time, but not
while it is held up by a full pipe, which is what the readers are for; a replay's
comments end, a live broadcast's need not. `RecordEnds` has two exceptions, both in
the code, and is violated without either of them. `Stuck`: outputs leaves at the first
end of a pipe or at an error line, and a reader that then still has more lines than its
channel holds waits for ever, and gm.Wait with it. It takes a program that closes one
pipe and goes on writing to the other, or several lines after an error. `HeldUp`: a
reader whose scanner has met a piece of 64 KB without CR or LF has left, the program
fills the pipe and blocks, and cmd.Wait waits for it. In `Twitcas` every call returns (each
request has a timeout, and each read a deadline of 60 seconds while the server is
silent), a server that has ended the broadcast says so or falls silent, and the
clock ticks.

### What the three violated properties show

* `WaitingForComments`: after the end of a timeshift's playlist the session
  prints "waiting comment" and stays. If the comment websocket fails, its group
  is cancelled, commentDone stays false and nobody looks at finish again: the
  program stays connected until the server ends the connection or sends the room
  message once more. The moment in which commentStarted is set and Main has not yet
  started the reader is not counted: the property leaves out Main at `goComment`.
* `BackUntil404`: the comment on the loop says that it goes back until 404. After
  an interrupt in the middle of that loop and a second start, the rows that
  memdbOpen marks end the loop, and the older chunks are never asked for.
* `RetriesAfterRecording`: the help of -tcas-retry-timeout says that the time
  counts from the first end or from the end of a recording (`options.go:37`).
  main sets doneTime at the end of a recording only if TwitcasRecord returns
  done, which is for code 504 alone. A recording that ends in a read error, a
  write error or another code leaves doneTime where the first call without a
  broadcast set it; if that is longer ago than the timeout, the loop ends there.

## 4. Proofs

`GoroutineManager_proofs`, from `GoroutineFinite` only. The inductive invariant is
`TypeOK /\ ChannelsExact /\ WaitGroupCounts`; `ChannelsExact` says for each place
of a goroutine whether its channel is registered or closed, which NoDoubleClose
and NobodyUnreachable follow from and neither implies by itself. The counter of
the wait group is proved equal to the cardinality of the live goroutines with the
library's facts on finite sets. `Implementation` maps each step to a step of
TaskGroup or a stutter.

`ChunkRecorder_proofs`, from `ChunkRecorderAssumption` only. `NoSilentGap` is not
inductive: while a pass runs, the chunks it has settled are not marked yet. The
strengthening adds `Settling` (going back: everything between `next` and the index
is settled by itself; in the loop over the index: everything below `next` is
settled by itself or by the chunk at which going back ended), the places of the
loop variables, and that a row notfound comes from an answer 404. The lemmas
`FineGrows` and `GrowingKeeps` carry what is settled across steps that only add
to the database; `MarkHidesNothing` is the step where marks appear.

`RtmpRecorder_proofs`, from `RtmpRecorderAssumption` only. Two inductive invariants.
`FileInv` is about one stream's file and the server: the frames of a track in the
file are exactly those up to its last time, each at its own time, and while a
connection plays, the server's next frame of a track is at most one past that
last time (`ServerFollows`). The second part is what NoGap needs: an attempt begins a second
before the largest time of either track, and must not begin past the end of the
track that was behind, which is where the skew of at most a second enters. `IInv` adds `Counts`
(the slots and the wait group are the cardinalities of the sets of goroutines
whose second and third deferred call has not run), `Flushed` and `Waited`;
AtMostMaxConn and ReturnedMeansDone follow from it. `CompleteMeansAll` is proved with
`WholeInv`, as it is about a moment that FileInv does not remember.

`YoutubeComments_proofs`, from `Assumption` of YoutubeComments. An insert is refused
when any of four indexes has the value already; `LossExplained` says nothing of the
numbers, so the invariant adds `Numbered` (no row has a number that is still to be
given, except that a run which went on is about to give its row's again, and that a run
which counts from 0 beside older rows gives what may be in the table), `Bounded` (there
is a highest number) and `Distinct` (a row to be inserted shares its number with no other
comment's row, unless it is the first of a run that went on or was received by a run
that counts from 0). That the row with the highest number exists follows from `Bounded`
by the well-foundedness of < on the differences.

`Timeshift_proofs`, from `Assumption` of Timeshift. `GapExplained` is about the places
between passes. Inside a pass `Reached` ties the position to the loop variable
(`timeshiftStart = 2 * next - 1`) and says that everything below `next` is settled;
`Marks` says the same of every position in the database and of every one that is
still to be written, which is why resuming from the largest leaves nothing behind;
`Memory` is what lets a chunk of memdb be skipped, and holds only until an
interrupt. `TypesKept` adds the types of
the variables that the argument does not need.

`RtmpChunks_proofs`, from `RtmpChunksAssumption` only. Server and decoder each
remember, per chunk stream, what the last header said; both properties follow once the
two memories are known to agree. `Agrees` says so for what is neither on the wire
nor being read. For what is, `Places` describes each place of decodeOne: the wire holds
the parts of one chunk that are still to be read, of the size both ends compute
(`Share`), and what is restored from the header and the decoder's memory is the
message that the server is sending. `Sizes` says that the two chunk sizes differ only
from the last chunk of a Set Chunk Size until the decoder has acted on it.
Each action of either end has a lemma of its own (`BeginsStep` to `RecvStep`).

`NicoHls_proofs`, from `NicoHlsAssumption` only. Neither `OneReader` nor
`PlaylistEndHeeded` is inductive: each is about a moment that several goroutines have to
reach in step. `IInv` is the conjunction of

* `TasksOK`: the place, the stage and the list of checker steps of a task fit each other,
  and each task has only lists that its own return codes give it;
* `ReaderMarked` and `SlotKept`: commentStarted stands for the one reader there is
  or that Main is about to start, and Main finds room for it;
* `QuietAtWait`: which groups have nobody left, and get nobody new, while Wait is at
  each of its places;
* `ConnClosed`: an open websocket has a closer, or Main is about to start it, until
  the user interrupts;
* `PlaylistChecked`: from the end of the playlist until its checker has looked at the
  comments, whichever of playlist and poller ends last sees that the other one
  has.

`Next` has about fifty actions that do only a few kinds of things to the tasks.
`StepKinds` reduces a step to these kinds (a task walks on, returns, starts another, its
checker does one step; Wait does one), and each conjunct is shown to survive
each kind, so that an action that is added needs one more line and not one more
proof. The types of the plain variables are a separate invariant, `SimpleOK`.
`NoTwoConnections` is an action property: the invariant holds before and after the step.
`ManagersAlwaysUsedByTheRules` is the refinement: for gmPlst, gmCmnt and
gmMain the same kinds are mapped to a step of `TaskGroup` or a stutter.

`Parts_proofs`, from `PartsAssumption` (the assumptions of the seven modules). A part
keeps its invariant when it takes a step, and when another one does because its
variables stay as they are.

* Twitcas. `OneRecorder` says nothing of a process that is about to lock. `LockInv`
  says that a lock is held exactly from Locks to CloseDb and that no two processes
  hold the lock of one inode; `OneRecorder` follows, as two recorders cannot both have
  the inode that has the name. That a new file finds an inode nobody has open
  is a count (`SomeUnused`).
* Quality. `QInv` says that the choice so far is right for the lines looked at so far,
  in any order; `QCount` says that `failures`, with what is left to count at this
  quality and with the qualities below the limit, stays within the bound.
* TimeshiftComments. The poller only goes back, so nothing newer than a comment that
  is stored, pending or on the wire is unknown, unless it was lost (`PUpward`); and
  when a hint of the end is counted, either everything is known, or what was asked for
  is still to be seen, or an answer was slow (`PHints`). An answer is characterised
  by what is newest in it and what is older (`NewestBefore`, `AnswerIs`).
* Converter. `VInv` ties the files to the rows read so far: they are cut where the
  code cuts (`Pieces`), each row read is in exactly the file of its piece
  (`Placed`), and nothing was removed before all that was read was written. Rows that
  an error keeps back stay unread for good (`Unread`), so the same invariant holds
  wherever reading stops. With one file, each row read has its successor in that file
  or is the last one read, which is why a recording in pieces has several files.
* YoutubeRecorder. The invariant behind its types: no queue is longer than its
  capacity, and the reader, the channel and the flag of the end go together.
* YoutubeComments and Timeshift. The theorems of their own modules are carried over
  with their definitions renamed (`SameComments`, `SameTimeshift`).

So every safety property of every passing run is a theorem, and so are the two
refinements (gorman and the managers in the session). What stays with TLC: all
liveness, because it rests on fairness and ENABLED (`ToldStops` of gorman,
`NeverStuckOnTold` of the session, `EveryMessageDelivered` of the chunk stream,
`ProgramEnds` of the RTMP recorder, `RecordEnds` and `RetryEnds` of the parts); and the
three violations, which are counterexamples already.

## 5. Plan

Done: `TaskGroup`, `GoroutineManager`, `NicoHls`, `ChunkRecorder`, the RTMP
recorder and chunk stream, the quality and the position of a timeshift, its
comments, YouTube's programs and comments, TwitCasting's lock and retry, the
conversion and the deletion after it; proofs of every safety property of the
passing runs. Left, in order of importance:

1. The safety facts that the liveness properties rest on, as invariants: for the
   session, that whoever is told and reads has a closer that was told with it.
2. The replies that an RTMP command waits for among media, and what wait drops.
3. The loop over restarts in the entry point (`NicoRecHls`).

## 6. Not modelled, and why

* `httpsub`: nothing imports it; it is part of no program.
* AMF (byte formats), options, `httpbase`, helpers, log windows and build tools:
  sequential handling of text and bytes without state that outlives a call.
* Login and the pages of niconico and YouTube: text taken from answers.
* The exports WriteComment, ExtractChunks and YtComment: rows copied to files.
* Of what is modelled in part: the pauses between passes and the ultra fast mode's
  skipping of them, the renaming of youtube-dl's .part file, the writing of FLV
  bytes, and everything an answer holds that no property tells apart.
