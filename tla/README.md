# Verification of goxfer

TLA+ models, TLC runs and TLAPS proofs for goxfer, a command-line file transfer
tool: direct peer-to-peer transfers over a Noise session (`send`, `receive`),
a relay server (`relay`), and uploads over SFTP, SCP and FTPS.  Paths such as
`p2p.go` are below `src/internal/`.

## 1. Inventory

| Part | State | Operations | Interacts with |
|---|---|---|---|
| Single-file transfer, `transfer/p2p.go` | process memory of sender and receiver; on disk: source, temp file, `.goxfer-<id>.state` record, destination | `sendSingleFile`, `sendChunks`, `receiveFiles`, `receiveOneFile`, the record's load, save and delete | the session; the file system |
| Directory transfer, `transfer/p2p.go` | archiving goroutine, pipe, hash | `sendDirectory`, `extractTarGz` | the same messages |
| Session, `session/session.go` | TCP connection, two cipher states (nonces) | handshake, `SendMessage`, `ReceiveMessage`, `Close` | frames; p2p |
| Protocol, `protocol/*.go` | none | message validation, encoding, length-prefixed frames | the session |
| Relay, `tunnel/relay.go` | map of pending codes under a mutex, a channel of capacity one per sender | `handleRelayConn`, `ConnectAsSender`, `WaitForReceiver`, `ConnectAsReceiver` | clients; `pipe` |
| bore.pub client, `tunnel/bore.go` | control connection, message channel (8), error channel (1) | `Start`, `runControlLoop`, `forwardConnection`, `pipe` | the sender's listener |
| SFTP upload, `transfer/sftp.go` | goroutine per file, weighted semaphore, wait group | the walk, the retry loop | a remote server |
| FTPS upload, `transfer/ftps.go` | control connection, attempt counter | `FTPSTransfer`, `transferFileWithRetry` | a remote server |
| SCP upload, `transfer/scp.go` | none | runs `ssh` and `scp` | a remote server |
| Command line, `cmd/main.go` | the exit status | dispatch of `send`, `receive`, `relay` and uploads | all of the above |
| Identity, checksums | none that lasts | | |

What is hard, and what makes each part correct:

- **Single-file transfer.**  A crash between any two writes of chunk, record and
  destination; lost links and lost acks; resuming after the source was edited,
  under an id that depends on path and size only; all four combinations of
  `--resume`.  Correct: nothing unverified completes the destination or is
  reported as sent; hash, temp file and record stay in step; the ends agree on
  the next chunk; no session hangs; retries converge.
- **Relay.**  The ten-minute timer against a receiver that holds the entry;
  receivers racing for one code; clients that quit anywhere.  Correct: one
  receiver per code and the right one; the hand-off never blocks; a waiting
  sender gets a receiver or an end of its connection, and no bridge outlives
  either end; a receiver told `ok` is served.
- **Uploads.**  Goroutines that keep permits across retries (SFTP); a size listed
  once, sizes compared instead of contents, and one connection for all attempts
  (FTPS).  Correct: permits are conserved, the limit holds, retries proceed, every
  mismatch has its own cause, the walk leaves a file behind only with what its
  comparison admits, nothing is skipped before `Transfer complete.`
- **Directory transfer.**  A goroutine that archives a tree while it changes, into
  a pipe the sender reads; extraction after the sender was told of success, over
  what an earlier transfer left.  Correct: only a finished archive is announced
  and unpacked; extraction fails for known reasons; both succeed only with the
  archive unpacked; nothing hangs.
- **bore.pub and session.**  A reader goroutine, a loop and a goroutine per
  connection around two channels; the sender takes the first connection.
  Correct: no announced receiver is lost or doubled, a waiting one is brought to
  the sender, both ends of the session go together, and its keys and nonces stay
  in step.

## 2. Modules

### VerifiedTransfer

What a transfer promises without messages, processes or disk: in an attempt a
digest is announced; data is verified when it has the digest; only verified data
completes the destination or lets the sender report success.

### P2PTransfer (MCP2PTransfer, P2PTransferProofs, P2PResumeProofs)

One action per step of the two processes between which the other can act, a
crash can fall or a system call can fail.

| Code | Model |
|---|---|
| `P2PSend` 105-113, `sendSingleFile`, `sendChunks` | `sPc`: `SenderStat`, `SenderStart`, `SenderAck`, `SenderChunk`, `SenderEOF`, `SenderComplete`, `SenderChecksum`, `SenderVerdict`; error returns in `SenderLinkError`, `SenderFault` |
| `receiveFiles` | `ReceiveStartResume`, `ReceiveStartFresh`, `ReceiveEOF` |
| `receiveOneFile` | `CreateTemp`, `SaveTruncate`/`SaveWrite`, `AckResume`, `ReceiveChunk`, `ReceiveComplete`, `ReceiveChecksum`, `SendSum`, `DeleteState`, `Rename` or `OpenDest`/`WriteDest`, `Cleanup` |
| error returns and the deferred `os.Remove` | `ReceiverLinkError`, `ReceiverFault`, then `Unwind` |
| ignored errors of the record | `StateFault` |
| a kill (`SIGKILL`) | `ReceiverCrash`, `SenderFault`: no deferred call runs |
| the user | `Connect(sr, rr)` runs both commands again, each with or without `--resume`; `EditSource` |
| the system | `LinkLoss`, `ReapTemp` |

Abstractions.  A file is a sequence of bytes from a small set and a chunk is
`FileChunkSize` of them.  SHA-256 is injective (`Digest`).  A connection is two
bounded queues; a message sent on a dead connection may vanish, and a close may
cut what is in flight.  A chunk's two frames are one message: a header without
its data is not a message.  How the ends met (direct, relay, bore.pub) is left
out, as are progress bars and wording.  `os.WriteFile` of the record is two
steps, because it truncates first.  A resume that fails after `Truncate` leaves
the old temp file truncated.  A crash is that of a process: what it wrote before
is on disk.  The code syncs nothing (`p2p.go:540`, `720`), so a loss of power could
lose or reorder its writes; that is not modelled, and no property speaks of it.

### Relay (MCRelay, RelayProofs)

One goroutine per connection (`sh`, `rh`), the map `pending`, the channels `ch`,
the two kinds of clients (`sc`, `rc`) and the lines they have not read.
`ReplyCode`..`PipeEnds` are the branch of a sender, `Lookup`..`Handoff` that of a
receiver; a critical section is one action, and `Timeout` (close the connection)
and `Drop` (lock, delete the code) are two because the code does not hold the
mutex in between.  `Finalize` is the Go runtime closing a connection that only
garbage refers to; no fairness is assumed of it.  Random codes do not collide
(`EnoughCodes`).  The bytes that cross a bridge are left out.

### DirectoryTransfer (MCDirectoryTransfer, DirectoryTransferProofs)

| Code | Model |
|---|---|
| the goroutine of `sendDirectory` | `aPc`: `Visit` and `VisitNext` (Walk, Lstat, `WriteHeader`), `Open` and `OpenFifo`, `CopyIn`, `CopyInEnd`, `ArchiveFault`, `CloseArchive` |
| `io.Pipe` | `pipe`, which holds one item until it is read, and `pipeEnd` |
| `sendChunks`, the rest of `sendDirectory` | `sPc`: `SendStart`, `ReadPipe`, `SendChunk`, `ReadEnd`, `SendComplete`, `SendChecksum`, `SenderVerdict` |
| `receiveFiles`, `receiveOneFile` for archives | `ReceiveStart` .. `SendSum`, `ReceiveEOF` |
| `extractTarGz` | `UnpackHeader` (with `Rejected`, `Unwritable`, `OpenOut`), `UnpackByte`, `UnpackEnd` |
| the world | `Edit` changes or removes a file, `LinkLoss`, `SenderFault`, `ReceiverFault`; `Connect` runs both commands again |

An archive is a sequence of headers and bytes, a file is its size, and a chunk
carries one item: how compression groups them changes nothing the properties
see.  `tar` refuses a header while the file before is short (`Visit`) and a byte
beyond the announced size (`CopyIn`); a short last file is noticed by `tw.Close`
alone, whose error the code drops, so it is archived cut.  A link is archived
with size zero while `Open` follows it.  `filepath.Walk` reads the names in a
directory when it comes to it (`List`, after `Parents`): a file that is gone by then
is merely absent, one that goes later fails the archive.  Opening a FIFO waits for
a writer, who may never come (`OpenFifo`, without fairness).  A directory sent is
not itself a link (it would be archived as one, and reading it fails), a link to a
FIFO counts as a FIFO, and names are not changed.

`Places` says how the directory is named and where it is received, as far as
`extractTarGz` tells them apart: the base name is `plain`, `.`, `/`, or begins with
`..`; the destination is `/` or not (`top`); an entry is read-only or not; and the
destination has, or has not, something of another kind in an entry's place
(`taken`).

### SecureSession and BoreTunnel (MCBoreTunnel, BoreTunnelProofs)

`SecureSession` is one connection between an initiator (the receiver) and a
responder (the sender): the handshake by `WriteHandshake` and `ReadHandshake`,
the swap of the two ciphers in `NewSession`, `SendMessage` and `SendData` for the
two frames of a chunk, `ReceiveMessage` and `ReceiveData`, `ConnError`, `Close`.
A frame is the key and nonce it was sealed with and its text.  A frame cut in
half reads like none at all, so frames are whole.  A closed end's state is
forgotten.  The prologue travels as a payload that neither end compares, hence it
is left out.

`BoreTunnel` extends it with how the connection comes about.

| Code | Model |
|---|---|
| `tunnel.Start` | `StartTunnel` |
| the reader goroutine of `runControlLoop` | `ReaderRecv` (also the error), `ReaderPut` |
| its select loop | `LoopMsg`, `LoopEnds` |
| `forwardConnection` | `ForwardAccept`, `ForwardLocal`, `ForwardFails` |
| `pipe`, or TCP when the sender listens directly | `PipeEnds` |
| `Listener.Accept` and what follows | `Accept`, `SessionStep`, `MainReturns`, `Exit` |
| receivers, strangers, bore.pub | `ReceiverConnects`, `ReceiverConnectsDirectly`, `ReceiverLeaves`, `StrayWrites`, `ServerHello`, `ServerHeartbeat`, `ServerDrops`, `ControlLost` |

Data that `forwardConnection` would find buffered does not exist (nothing was read
from that connection), so that branch is left out.  The two copying goroutines of
`pipe` are the connection itself; when it is cut, any prefix of what was under
way arrives.

### SftpTransfer, FtpsTransfer and Upload (MCSftpTransfer, MCUpload, SftpTransferProofs, UploadProofs, SumProofs)

`SftpTransfer`: the walk (`Spawn`, `WalkEnds`, `WalkFails`), the caller (`Wait`),
and per file the loop `Acquire`, `Sum`, `Create`, `Copy`, `Check`.  `held[f]` counts
the releases that goroutine has deferred; `End` runs them.  `Edit` changes a
source file, `Corrupt` the remote copy.  Connecting, authentication and
directories are left out.

`FtpsTransfer`: `Login`, the walk (`Enter`, `WalkDone`) and the loop of
`transferFileWithRetry`: `Stor`, `StorFails`, `OpenFails`, `CheckSize`,
`SizeUnknown`; `Again` is the next attempt or the error after the last.  The
control connection may die (`alive`), and nothing brings it back.  A stored copy
may be whole, altered at the same size, or cut to any shorter size, also to the
one the walk listed if the source has grown since.  Only sizes are compared, and
when the server does not tell the size (`SizeUnknown`) nothing is.

`Upload` extends the first and instantiates the second: `Dispatch` and `Finish` of
`main`, and `Scp`, which is two commands that succeed or fail.  `Dispatch` refuses
an unknown protocol and missing arguments with status 1.

## 3. Runs

Operators named `<definition>_<what>` are faulty variants of `<definition>`; no
specification uses them.  They document that each property can fail.

| Run | Shows | Bounds |
|---|---|---|
| `P2P_safety` | types, `HashTracksTemp`, `StateNeverAhead`, `NoProtocolError`, `SenderOkImpliesVerified`, `SavedIsVerified`, `CleanUnlessPadded`, `ReceiverOkIsComplete`, `AckedIsStored`, refinement of `VerifiedTransfer` | contents of two and three bytes in chunks of two: a full and a short chunk, two contents of one size (one id); named `.tar.gz` or not, one content unpacks; 2 faults, 1 edit, window 2, 3 temp names |
| `P2P_live` | `SessionEnds`, `RetriesConverge` | named `.tar.gz` or not; 1 fault, 1 edit, window 1 |
| `Relay` | `CodeUsedOnce`, `RightPeer`, `HandoffHasRoom`, `PendingIsLive`, `SessionHasPeer`, `SenderSettles` | 2 senders, 2 receivers, 2 codes |
| `Upload` | `PermitsConserved`, `ParallelLimit`, `PermitLeft`, `MismatchesHaveCauses`, `CompleteIsDecided`, `PassedIsListed`, `UploadEnds` | 3 files, 2 permits, 1 retry, 2 versions of different size, 2 edits or bad copies |
| `Directory` | `AnnouncedIsWhole`, `FailsForAReason`, `DeliveredIsArchive`, `NothingPartial`, `SessionEnds` | a directory with two files, a file and a link, a file and a FIFO, or a directory with a file in it; sizes 0 and 1; plain, named `.` or `..`, received in `/`, with an entry read-only or its place taken; 1 fault, 1 edit, window 1 |
| `Session` | `InStep`, `AnnouncedOnce`, `PeerServed`, `SessionCollapses` | 1 receiver, 1 stranger, channel of 1, 1 fault; 2 messages by the sender, 1 back, 2 frames under way |

Why the bounds are enough.  The interesting cases of a resume are "no chunk, some
chunks, all chunks including a short one" at the time of the crash, and three
bytes in chunks of two have all of them; two faults allow a crash during the
retry of a crash, or a crash together with a reaped temp file or an ignored
error of the record; two contents of one size share an id.  The temp names
exceed the names that records can hold, as `TempAssumption` demands.  Two
receivers race for one code, while the other sender keeps its own, or take one
each; that a third changes nothing is what the theorems add.  Three files and two permits let two goroutines wait on each
other while a third has not started.  In a directory of two entries one file is
followed by another header and one is last; sizes 0 and 1 let a file shrink, grow
and be left longer by an earlier transfer; the number of transfers is not
bounded.  A channel of one place is full when the reader has a second message;
the code's eight only make that rarer.  Two messages with up to two frames each,
against one in the other direction, let every frame follow every other.

Symmetry is used in runs without liveness only, over temp names, which no
definition orders.  The relay, upload and session
runs do not check deadlock: each client, the upload and the sender really end.

Fairness.  `P2P_live`: each process takes its steps while it can (goroutines and
the kernel schedule them), and the user retries.  The code sets no deadlines, but
Go enables TCP keep-alive on both the dialled and the accepted connection, so a
dead link ends a blocked read: that is `ReceiverLinkError` and `SenderLinkError`
under the same weak fairness.  The choice of flags in a retry is not constrained.
`Relay`: goroutines and clients run; a sender's goroutine that waits for a receiver
is served by one or by its timer, whichever is first.  Nothing is assumed of users
quitting, dialling or of `Finalize`.  `Upload`: the walk, the goroutines and
the commands run; a semaphore with FIFO waiters grants at least this.
`Directory`: the archiving goroutine and both processes run; nothing is assumed
of the user, nor that a FIFO finds a writer, so `SessionEnds` excepts the wait at
one.  `Session`: each goroutine of the sender and the receiver's process
run, and a connection closed at one end is noticed at the other.  Nothing is
assumed of bore.pub, which may never answer the hello.

### Divergences

Each of these runs checks one statement of the repository that the code does not
keep; TLC prints the behaviour.

| Run | Statement | What happens |
|---|---|---|
| `P2P_partial_lost` | `p2p.go:688`: the record is "persisted alongside a partial download" | every error return deletes the temp file and keeps the record: only a killed receiver can be resumed |
| `P2P_zero_fill` | `p2p.go:441`, README 99: "resume cleanly" | a receiver killed after the last, short chunk was recorded resumes at an offset beyond the file; `Truncate` pads it with zeros and the transfer ends in a mismatch (the next retry starts afresh) |
| `Directory_dot` | README 162: directories are "extracted on receipt" | `goxfer send .` reports success, and the receiver rejects the first entry, `.`, because its target is the destination itself; so it does every entry of a directory whose name begins with `..` (`..data`, too) or is `/`, and, with `--dest=/`, of any directory, because no path begins with `//` |
| `Ftps_unverified` | README 197: compares "local and remote files and retries on mismatch"; README 194: SHA256 | when the server does not tell the size of a copy, FTPS warns, compares nothing and goes on to `Transfer complete.`; otherwise it compares sizes only, and an altered copy passes |
| `Relay_parked` | `relay.go:165`: "ready for a Noise handshake" | a receiver that presents the code as the timer fires is told `ok` and never bridged |
| `Sftp_retry_stuck` | README 197: retries on mismatch | a goroutine waits for a permit it holds itself; with `--parallel=1` one mismatch hangs the upload |

`PermitLeft` is the exact condition under which the last cannot happen: fewer
mismatches than permits; by `MismatchesHaveCauses` fewer incidents (edits, bad
copies) than permits are enough.  `FailsForAReason` lists when the
receiver of a directory fails although the sender succeeded: a fault; a name or a
destination as in `Directory_dot`; a last file that shrank while it was archived;
and an entry whose place is taken, by something of another kind or by a read-only
file, which an earlier transfer may have left.

More that the models make visible, and that contradicts no statement outright: a
connection lost before `file_start` ends the receiver with status 0 and no file
(`ReceiveEOF`; README 196 speaks of comparing checksums before a transfer counts
as successful), and a single file named `*.tar.gz` is never resumable
(`Resumable`; README 161).  The ack is sent before the file is stored: if the
receiver fails in between, the sender's success stands (`AckedIsStored` holds only
without faults), and a kill while `copyFile` runs leaves a torn destination.  A FIFO in
a directory may hold up a transfer for ever (`AtFifo`).  In `BoreTunnel` any first
connection, also that of a receiver that has left, uses up the sender, and when
the control connection to bore.pub is lost the sender waits on; `PeerServed` says
so by its exceptions.

## 4. Proofs

Every invariant and every safety action property of the passing runs, and the
refinement of `VerifiedTransfer`, is also a theorem of its specification: for all
values of the constants, where a run has one small instance.  The only
assumptions are the modules' named `ASSUME`s.  They say that bounds are numbers,
that special values (`None`, `NoFile`, `NoCode`) are not ordinary ones, that the
trees and sets of files are finite, and that fresh temp names and codes do not
run out; TLC evaluates them in every run.

| Component | Theorems | Inductive invariant |
|---|---|---|
| Single-file transfer (`P2PTransferProofs`) | `TypeCorrect`, `HashCorrect`, `SenderOkCorrect`, `SavedCorrect`, `Implementation` | `VerifiedInv` |
| Resume (`P2PResumeProofs`) | `InProtocol`, `RecordsBehind`, `ResumeFits`, `OkIsStored`, `AckedFilesAreStored` | `FlowInv`, `DataInv`, `Stored`, `AckKept` |
| Relay (`RelayProofs`) | `RelayTypes`, `CodeAdmitsOne`, `PeerIsRight`, `HandoffNeverBlocks`, `PendingLeadsToLive`, `SessionsHavePeers` | `RelayInv` |
| Directory transfer (`DirectoryTransferProofs`) | `DirectoryTypes`, `AnnouncedArchives`, `FailuresHaveReasons`, `ArchivesAreDelivered`, `NothingPartialUnpacked` | `DirInv` |
| Session and bore.pub (`BoreTunnelProofs`) | `TunnelTypes`, `KeysInStep`, `AnnouncedStaysOnce` | `SessionInv`, `TunnelInv` |
| SFTP upload (`SftpTransferProofs`, with `SumProofs`) | `SftpTypes`, `PermitsReturn`, `LimitKept`, `MismatchesCaused`, `OnlyMismatchesPin` | `SftpInv`, `CausesLeft` |
| Upload command, FTPS (`UploadProofs`) | `UploadTypes`, `CompleteMeansDecided`, `LeftAccounted`, `UploadKeepsSftp` | `UploadInv`, `FtpsInv` |

Each module has the same layout: the parts of the invariant, lemmas about its
operators, `Init` implies it, one lemma per actor saying that its actions keep it,
and the theorems.

### Verified transfers (P2PTransferProofs)

The invariant is `VerifiedInv`.  That a sender which reports success had its data
verified cannot be shown from the two processes' variables alone: the ack lies in
a queue meanwhile, the receiver may fail after it, and a new session resets
everything.  So the invariant says

- `Typed`: types, and which of the receiver's locals are set at which program
  counter;
- `HashTracksTemp`: the running hash is that of the temp file;
- `BeforeStart`: before the sender announces a file both queues are empty and the
  receiver is in no file of this session;
- `ChecksumIsLast`: a checksum under way is the announced one and the sender's
  last message;
- `VerifiedIsLast`: once it verified, the receiver gets no other message;
- `VerifiedHash`, `AckedHash`: what was verified, and what any ack under way or
  taken was sent for, is the receiver's hash, and equals the announced checksum.

`VerifiedStep` shows that it is inductive: `VerifiedSender`, `VerifiedReceiver` and
`VerifiedEnvironment` take the actions one by one, and `ShrinkSafe`, `TailSafe`
and `SendSafe` say what cutting, taking and sending do to the queues.
`SavedCorrect` needs in addition only that the destination is written from the
temp file after verification.  For `Implementation` the mapping calls data
verified while the receiver is past its comparison or an ack is under way or
taken (`HasVerified`); each step is then announcing, verifying, confirming,
storing, forgetting, retrying or stuttering.

### Resume (P2PResumeProofs)

| Theorem | States |
|---|---|
| `InProtocol` | `NoProtocolError`: no end ever gets a message it does not expect |
| `RecordsBehind` | `StateNeverAhead` |
| `ResumeFits` | `CleanUnlessPadded`: the zero fill above is the only way a resume goes wrong |
| `OkIsStored` | `ReceiverOkIsComplete` |
| `AckedFilesAreStored` | `AckedIsStored`: a file whose sender was told of success is stored, with the acked data, if nothing fails |

What a receiver expects next is determined by what the sender has in the queue,
and the number of chunks each has counted differs by the chunks under way;
neither is in the properties, so

- `FlowInv` adds to `VerifiedInv` the *order of messages*: the queue holds at most a
  `file_start`, then consecutively numbered chunks, `file_complete`, the checksum
  (`Queue`, `SumNext`); the sender's count is the receiver's plus the chunks under
  way (`Counters`); both speak of one file (`SameFile`); who has to speak during
  the exchange at the start (`Handshake`).
- `DataInv` adds the *data*: a record and the temp file it names belong to one file
  and are no other's (`Owned`, `Records`), the chunks under way are those of the
  source at their numbers (`Chunks`, `SenderAt`), and what the receiver holds
  agrees with the source as far as both go (`Held`), as long as nobody edits it.  That the receiver's count
  and the length of its temp file fit is only true up to a short last chunk, which
  is where the zero fill comes from.
- `Stored` covers the time from the complete destination to the next session.
- `AckKept` follows an ack from the receiver's hand to the sender's success: meanwhile
  a receiver in a session without faults has not failed, unless what it unpacks is
  no archive, and does not end before it has taken a file.

### Relay (RelayProofs)

`RightPeer` and `CodeUsedOnce` are about clients that never meet: between the
look-up and the bridge a sender's connection is in a goroutine's local variable,
then in a channel.  `RelayInv` follows it: a goroutine has a code from its
registration on and no two have the same (`Started`, `CodesDiffer`); a code that a
receiver took is out of the map, and was of the sender it found (`TakenIsGone`);
whatever lies in a channel or is bridged is a receiver that found this sender and
was told `ok` (`HandedOver`, `Bridged`); each line a client has not read was written
by its own goroutine (`LinesSent`).  `HandoffNeverBlocks` follows, since a code can be
taken once: the channel's one place is free.

### Directory transfers (DirectoryTransferProofs)

The receiver unpacks a file it knows by its hash only.  That it is a finished
archive depends on a goroutine that may have failed long before, so `DirInv`
relates all three parties:

- `Archiving`: what has been written, hashed or waiting in the pipe, is the
  beginning of an archive whose last file has as much as was copied so far, and it
  is complete once the goroutine closed the pipe without an error;
- `Untouched`: while nobody edits the tree, no file is missing from it;
- `Messages`: the chunks under way continue what the receiver has up to what the
  sender has hashed; the checksum is of all of it and comes last;
- `Announced`: whoever holds a checksum of this session holds that of a whole
  archive;
- `Begun`, `Verified`, `Fresh`: the temp file is a beginning of the stream, and all
  of it once verified; a new session starts with nothing;
- `Unpacking`: the destination is what the entries read so far make of it;
- `Acknowledged`: the sender succeeds only after the receiver verified.

`FailuresHaveReasons` is the most useful of the theorems: it lists every way in
which a verified archive is not unpacked, for any tree, names and destination
that `Places` can describe.

### Session and bore.pub (BoreTunnelProofs)

`InStep` is about the next frame; it holds because of all frames under way.
`SessionInv` says that those form a `Stream`, sealed with the key the other end
reads with and with consecutive nonces from its counter on, in which each
`file_chunk` is followed by its data (`Under`); that counters and keys of the two
ends are linked in every pair of stages of the handshake (`Together`, `Linked`);
and what an end knows before and after its peer is gone (`Knows`, `Alone`,
`Unopened`).  `TunnelInv` says that
while the tunnel is up every receiver is in exactly one place from its
announcement on (under way, in the reader's hand, in the channel, or with a
goroutine of its own), that the goroutines run meanwhile (`Tunnelled`, `InHand`), and
that nobody gets to the listener otherwise (`Forwarded`); that gives
`AnnouncedOnce`.

### Uploads (SftpTransferProofs, UploadProofs, SumProofs)

That permits are conserved is about a sum over all files, defined by
`MapThenSumSet`, for which the library has no theorem.  `SumProofs` derives what is
needed for any finite set: a sum changes as one term does, is monotone, and
counts.  The library's induction theorems take an operator and cannot be used;
the induction there is on a *set* of numbers or subsets, by a minimal element of
its complement.

`SftpInv` states the leak exactly: a goroutine in its n-th attempt holds n permits,
one deferred release per attempt (`HeldByAttempt`), and those beyond the one it
works with were each pinned by a mismatch (`MismatchesPin`).  From it `PermitLeft`
follows for any number of files and permits.  That mismatches have causes is not
inductive: an edit comes first and is noticed later.  `CausesLeft` counts, with the
mismatches seen, the files bound to mismatch at the end of their attempt (`Due`);
together they never exceed the incidents, because an attempt hashes the source it
then copies.

`UploadInv` puts both inside the command: one transfer at most has started
(`OneTransfer`).  `FtpsInv` says that the FTPS walk has one file at hand (`AtHand`), whose
size differs from the listing only by an edit and whose cut copy has the listed
size only if the source had grown, which takes two incidents (`CopyAtHand`); and that
what the walk left behind stays accounted for (`LeftBehind`).

### Only model-checked

- Liveness: `SessionEnds` (of files and of directories), `RetriesConverge`,
  `SenderSettles`, `UploadEnds`, `PeerServed`, `SessionCollapses`.  They need fairness, hence `ENABLED`, which the provers do not
  handle.
- The six divergences: they are counterexamples, which TLC prints.

## 5. Plan

1. Refinements: the queues of `P2PTransfer` implemented by `SecureSession`; abstract
   specifications of the relay (a code, one receiver, a bridge) and of a directory
   transfer (announced, verified, unpacked), each with the step-by-step proof that
   `RelayInv` and `DirInv` already prepare.
2. Action properties from the same invariants: a record's count only grows within a
   session; a permit is returned by the goroutine that took it.
3. A composition of `Relay` with the start of a session.

Their theorems belong in the existing proof modules, next to the invariants they
use.

## 6. Not modelled

- Identity and fingerprints: key generation and formatting, no state that changes.
- The building of `scp` and `ssh` command lines, the parsing of flags, host keys and
  authentication: their outcome is a choice (`Scp`, `Login`, `Dispatch`).
- Validation of message fields and the frame size limit: no message the program
  builds violates them, and decoding JSON keeps no state.
- Containers and build files.
