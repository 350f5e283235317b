# radminpro: verification

radminpro is a remote-desktop program for Windows on a local network: a server
that shares the screen of its host, takes mouse and keyboard input and files
from clients, and writes what they do to an audit log; a tray program that
configures and runs that server; and a client with a viewer window.  This
directory holds TLA+ models of it, what TLC checks about them on small
instances, and proofs, checked by TLAPS, of what holds for instances of any
size.

The models are made from the code, function by function; `map` in
`PROJECT.json` gives for every definition the lines it stands for.

## 1. The system

| Part | State | Operations | Talks to |
|---|---|---|---|
| **ServerApp** (`server/ServerApp`) | `running_`, `activeSessions_`, the listener's `fd_`; per session: rights, mode, flags, uploads | `run()` (accept loop), `stop()` from another thread, `session()` on a detached thread per connection, `handle()` per message | SecurityManager, AuditLogger, SessionOverlay, ScreenCapture, VideoStreamer by call; the client by messages; sessions share `running_`, `activeSessions_` and the three managers |
| **SecurityManager** (`security/`) | `users_`, `lockouts_`, one mutex | `addUser`, `isPeerAllowed`, `authenticate` (test the lock, release the mutex, Argon2, take it again, record) | PasswordStore, SubnetFilter |
| **AuditLogger** (`audit/`) | the CSV file, `prevChainHex_`, one mutex | constructor (header or `resumeChain`), `log` | the file system; called by every session thread and by the accept loop |
| **File transfers** (in `ServerApp::session`) | `uploads`, `nextTransferId`; the directory `file_root`, shared | `FileUploadReq`, `FileBlock`, `FileComplete`, `FileDownloadReq`, `FileDelete`, `FileMove`, clean-up at the session's end | the file system |
| **SessionOverlay** (`overlay/`) | `hwnd_`, `running_`, a mutex, a UI thread per banner | `show`, `hide`, `updateText` | the session thread, the window's message queue, the screen |
| **Video** (`video/`, `common/FrameDiff`, reader loop of `client/ClientApp`) | the duplication, `prevFrame_`, `sentKeyframe_`; on the client `pending`, `front`, `remoteW/H` | `acquire`, `streamOnce`, `sendKeyframe`, `sendDelta`, reinitialise; FrameInfo, FrameData, FrameRect, FrameEnd | the desktop, the connection |
| **Viewer** (`client/ClientApp::runViewer`) | `ViewerState`, the SSL object, the window's queue | UI thread: input, close, join; reader thread: read until it fails | one `SocketTransport` shared by two threads |
| **TrayApp** (`ui/TrayApp`, Options and Users dialogs) | `cfg_`, `cfgLoaded_`, the configuration file, `server_`, `serverThread_`, `running_`, tooltip | commands of the icon, dialogs (modal, but the icon answers), save, `stopServer`, `startServer` | ServerApp, the file system |
| **Client command** (`client/main`, `ClientApp` without the viewer) | the connection, the local file | connect, log in, `uploadFile`, `downloadFile`, `deleteRemote`, `moveRemote`, the exit code | a session of the server, by messages |
| **Configuration** (`ServerConfig::parse`, `serialize`, the dialogs) | the text of the file, `cfg_` | an administrator's editor, `loadConfig`, OK in a dialog, `saveConfig` | SubnetFilter and SecurityManager, which `run()` fills from it |
| **SubnetFilter** (`security/`) | the list of rules | `addCidr`, `addList`, `isAllowed` | the accept loop |
| **SocketTransport** (`net/`) | `fd_`, `ssl_`, a write mutex | `readMessage`, `readMessageTimed`, `writeMessage`, `close`; the listener | OpenSSL, Winsock |
| Protocol, PasswordStore, DpapiSecret, TlsContext, PrivilegeManager, Logger, dialogs | none, or set once | conversions and calls into libraries | |

What is hard in this code:

* **Threads that share.** Detached session threads share the slot counter, the
  lockout table, the audit log, one directory and the screen; `stop()` and
  `run()` share a plain `fd_`; the viewer's two threads share an SSL object; the
  tray program's UI thread makes and destroys the object the sessions work on.
* **Checks and effects that are apart.** The lockout test and the recording of
  a failure are two critical sections with a slow hash between them; a window
  handle is read under a mutex and used after it; a file is closed and then
  renamed.
* **Ends.** Sessions end because of `Bye`, a lost client, `stop()`, an
  undecodable frame, the return of `main()`; banners, slots, temporary files and
  audit rows must be dealt with on each of these ways.
* **Failures that nobody looks at.** Writes of the audit log, of uploads and of
  the configuration; a window that cannot be made; a capture that cannot be
  reinitialised.
* **Answers that are lost.**  A file operation, its audit row and the answer to
  the client are three steps, in an order that differs from message to message;
  the connection, the client or the server may go between any two.
* **Texts that go round.**  What a hand edits, `parse()` reads, a dialog takes
  apart and puts together and `serialize()` writes must serve the same.
* **Order.** Rows against the chain they carry; key frames, deltas and resizes;
  a restart's new listener after the old one; dialogs above dialogs.

`hazards` in `PROJECT.json` lists 40 such places, each at its line, with the
properties that look after it or the reason why none does yet.

## 2. The modules

Each component has a module with its variables, one action per operation or per
step of an operation that another thread can come between, and its properties at
the end.  `MC<Module>` gives its instances for TLC what a configuration cannot
(symmetry, records, sets of sets); `<Module>Proofs` holds its theorems, ViewerProofs
those of VideoStreamer and ClientViewer, SecurityManagerProofs those of SubnetFilter
and ServerConfig too.  Three modules say what is promised and leave out how:
RemoteAccess (ServerApp implements it), AuditTrail (AuditLogger) and FileRequest
(FileClient).  A definition named in a comment "A mutant of X" is X as a plausible mistake would
have it: replacing X by it must break a property.  Nothing else uses it.

### SecurityManager

`authenticate()` is `Enter` (the clock is read), `Check` (first critical
section), and `Succeed` or `Fail` (second critical section, with the clock value
of `Enter`).  `AfterIsLocked` and `RecordFailure` are the table operations.
`AddUser` and `Serve` are the start of `ServerApp::run`; `Tick` is the steady
clock.  The Argon2 verification is a Boolean chosen at the call; an unknown user
is verified against a decoy and fails whatever it is.  `failed` and `overrun` are
history variables.

* `OverrunBounded` (safety): sessions that passed the test before the account
  was locked may record after it, but of those there are fewer than there are
  session threads.
* `CountExact` (safety): the counter of an entry counts exactly the latest
  recorded failures, all at most one window after the first of them - although
  their clock values come in another order than their records.
* `LockJustified` (action property): no step sets or moves a lock without
  `maxFailedAttempts` failures within a window.
* `LockExpires` (liveness): trying again does not keep an account locked.

### ServerApp

The accept loop is `Boot`/`BootFails`, `LoopTest`, `Accept`, `RejectPeer`,
`TakeSlot`, `RejectOver`, `Admit`/`WrapFails`, `RunClose`; `Stop` has the four
steps of `running_ = false` and `TcpListener::close()`.  A session goes through
`phase`: handshake, hello, login, grant or refuse, mode, banner, record, open,
midframe, ending, hide, perhaps joining, leaving, done.  `ShowOverlay` leaves a
banner that is up, that could not be made, or that is still to come
(`BannerComes`); the session goes on whichever it is, as the code does.
`HideOverlay` returns when there was a window to close or a thread that has ended;
`HideFindsNothing` came before the window, and joins a thread nobody has told to
end.  `Die` is the end of the process, by `Exit` (main returns after `run()`) or by
`Throw` (an exception no thread catches).  `rows` are the audit rows a connection
has caused.

* `SlotsKept` (safety): `activeSessions_` counts the session threads, on every
  way out of a session, and the cap holds although it is a `fetch_add`, a
  comparison and sometimes a `fetch_sub`.
* `RecordTrue` (safety) has two parts.  `AuditTrail`: the rows of one connection are
  the beginning of one of four full stories, and the whole of it once its thread has
  returned, so that whoever is on record as having started is on record as having
  ended.  `ActedByRight`: whose input was injected, or who was sent the screen, was
  inside the allow-list (`allowed`, any set of peers), had logged in, had the right for
  the mode, and is on record as having started.
* `PromiseKept`: ServerApp implements **RemoteAccess**, which says in thirteen actions
  and without threads, phases, frames or counters what the person at the screen and
  the auditor may rely on: nobody enters from outside the list or beyond the cap,
  nobody sees or moves anything unless a banner was ordered, the start is on
  record and the account on record has the right, a banner that is on the screen
  stays until the end is on record, and no session that started is left before that
  (the end of the process excepted).  That every banner which was ordered comes is not
  among the promises, because the code does not keep it: section 4.  `served` is the
  set of sessions that hold a slot (`Holding`), `record` the rows; the rights and the mode of a session count from the row that puts
  them on record (`Account`, `Purpose`); `Announced` are the sessions between their `show()`
  and the return of their `hide()`, `Shown` those of them whose window is up.
* `PortFreeOnReturn` (safety): when `run()` has returned the listening socket is
  closed, although `run()` and `stop()` close it through one plain field.
* `HandshakeBounded`, `SlotReleased`, `StopReturns` (liveness).  A slot whose client
  is gone is given back, unless the session's `hide()` came before its window
  (`Stuck`).

### AuditTrail and AuditLogger

`AuditTrail` is what callers are promised: a call appends its event, once,
before it returns.  `AuditLogger` is the code: `Probe`, `Create` or `Resume`
(constructor), `Call`, `Lock`, `Write`/`WriteFails`/`WriteIgnored`, `Return`
(`log`), `Close` and `Crash`.  A crash leaves the file as it is, since every
completed write was flushed, or takes a write that was under way with it, of which
then any part may be on the disk.  The file is its complete lines and an
unterminated tail; a write that fails or is cut short leaves nothing, a part, or
all but the end of the line, and what is written next lands behind it (`Glue`).
A SHA-256 value is the sequence of the rows hashed into it.

* `TrailSpec`: AuditLogger implements AuditTrail, with the file's rows as the
  trail, in every step until something fails (a refinement, checked and proved).
* `TamperEvident` (safety): an auditor's recomputation succeeds at every moment
  until a write fails or the process dies, and fails when a row other than the
  last is removed, one is changed or two are exchanged.
* `NeighboursChained` (safety): after any failures and crashes, of two whole
  rows on consecutive lines the second is chained to the first.

### FileTransfer

The handlers of one `file_root`, every call on the file system a step:
`UploadReq`, `Block`, `Complete` then `Install` or `Discard`, `Delete`, `Move`,
`DownloadReq` then `Sent`, and `LoopEnds`, `CloseUpload`, `RemoveUpload`,
`NextSession` for a session's end; `Exit` ends the process.  Files follow the
sharing rules of Windows for handles of C++ streams: any number of readers and
writers, but no rename, replacement or removal of an open file.  `vouched` is a
history of what the server answered `FileVerify(Ok)` about, `meddled` of whether a client ever asked
for a temporary file by its name.

* `VerifiedWhenAlone` (safety): a file that was vouched for is the declared one,
  whatever other sessions do between any two steps, as long as nobody else took
  its temporary file and no write failed.  Run `file_mixed` shows what happens
  without the first condition; section 4 says what without the second.
* `NothingUnverified` (safety): as long as nobody asks for a temporary file by
  name, nothing unverified appears under a name clients use, and no temporary
  file is without its transfer while the server runs.

### SessionOverlay

`Show`, `ShowReturns`, `Hide`, `Post`, `Join` are the session thread's part;
`Create`/`CreateFails`, `Appear`, `Publish`, `Start`, `Blink`, `Destroy`,
`Withdraw`, `Finish` that of the banner's UI thread.  `screen` is the set of
the banners on it.

* `BannersOfSessions` (safety): no banner is on the screen without its session,
  and `hide()` posts to a window that is there.
* `HideReturns` (liveness): a `hide()` that found its window, or whose window
  could not be made, returns.

### VideoStreamer

From the desktop (`Draw`, `Lose`, `Unlock`) over `Acquire`/`AcquireLost`, `Send`,
`SendFails`, `SessionEnds` and a connection that holds `LinkSize` messages, to
the client's reader (`ReadInfo`, `ReadTile`, `ReadEnd`, `ReadClosed`,
`CloseViewer`).  A picture is a sequence of tiles and its length its geometry.

* `PicturesTrue` (safety): the picture shown is the one the screen showed when
  the frame of that number was taken, never a mixture; and when nothing is on its
  way, `prevFrame_` is the client's buffer.
* `CatchesUp` (liveness): when the screen rests, the viewer shows it.

### ClientViewer

UI thread: `Input`, `Written`, `LoopEnds`, `StopReader`, `Shutdown`, `Free`,
`CloseSocket`, `Join`; reader: `TestTrue`/`TestFalse`, `CallRead`, `ReadFrame`,
`ReadBye`, `ReadFails`, `ReaderEnds`.  Two threads inside one SSL object, or the
use of a freed one, is undefined behaviour: from then on a call may work, fail
(`ReadDamaged`) or end the process (`Crash`).  So does a message that does not
decode, whoever is where (`DecodeThrows`): nothing catches what the reader throws.

* `DamageNeedsUser` (safety): as long as the
  user only watches, the two threads never meet inside the SSL object;
  `ViewerReturns` (liveness).

### TrayApp

`OpenOptions`, `OpenUsers`, `AnswerOk`, `Dismiss`, `Exit` are the user's;
`ReturnFromModal`, `SaveAfterOk`, `SaveFails` what follows a dialog;
`StopNothing`, `StopServer`, `JoinServer`, `StartServer`, `Started` the restart and,
at the start of the program, the first server, which no message box follows;
`Listen`, `RunReturns` the thread of a ServerApp and `SessionStarts`,
`SessionEnds` its sessions.  `modal` is the stack of dialogs, each with the copy
it was opened on.  A configuration is one that `serialize()` keeps whole: users
have a name and a hash, and no two the same name.

* `OneServerRuns` (safety): never two `ServerApp`s at a time, however deep the
  restart is nested in dialogs.
* `ServesWhatWasSaved` (safety): what is served is what is in memory and, as long
  as every save succeeds, on disk.
* `EditsStay` (safety): as long as one dialog is up at a time and saves succeed,
  nothing undoes an edit.
* `ExitCompletes` (liveness).

### SubnetFilter and ServerConfig

SubnetFilter is operators only: `Mask`, `MatchPrefix`, `AddCidr`, `AddList`,
`IsAllowed` on addresses that are bytes that are bits, and `Covers`, which says what
an entry of the list means: the first bits are equal.

ServerConfig is the text around it.  A line is a sequence of atoms (`Atoms`): the
characters `parse()` looks for and the words between them; a port and an unsigned int
have `Ports` and `Ints` values.  `Parse`, `Serialize`, `Split`, `Join`, `Trim`, `Atoi`
and the rights' names are operators, those that go through a text or a list as
recursive functions, one loop iteration of the code for each step.  The steps are
`WriteLine` (by hand), `Load`, `Propose` (no file yet), `Exit`, and those of the two
dialogs.  Each dialog works on a copy: `OpenOptions` fills the edit controls
(`controls`) and the list box of the filter page (`ranges`), `Type`, `AddRange` and
`RemoveRange` change them, and `OptionsOk` reads every field of every page back;
`OpenUsers` copies the users (`working`), `ClickAdd`, `ClickRemove` and `ClickRight`
edit the copy, and `UsersOk` puts it in their place.  Any number of edits come before
an OK, which saves, or a `Cancel`.  `touched` is the history of what was edited since
the dialog opened.  `Rules`, `Accounts` and `Refusal` are what `run()` makes of a
configuration.

* `FilterExact` (safety): whoever the filter lets in is covered by a well-formed
  entry of the list, and everyone who is covered is let in.
* `RestartServesTheSame` (safety): while the program runs, a server started from
  the file would serve what the one in memory serves - the same rules, accounts,
  rights, settings and refusals - as far as names fit into a line.
* `OkChangesWhatWasEdited` (action property): an OK commits the edits made since the
  dialog opened and nothing else.  A name nobody touched has the account it had, or
  none as before; a setting nobody typed over is served as it was; the Users dialog
  leaves the filter alone; and after the Options dialog the filter lets in whom the
  ranges on its list cover, among them everyone covered by a range that was there and
  was not taken off.

### FileRequest and FileClient

`FileRequest` is what a command promises to whoever ran it: it is carried out at
most once, and exit code 0 is only given when it was.  `FileClient` is one
command with the session that answers it.  The client: `Connect`, `Greeted`,
`Login`, `LoggedIn`, `Start`, `Request` or `NoLocalFile`, then by command
`UploadAccepted`, `SendBlock`, `SendComplete`; `DownloadAccepted`,
`ReceiveBlock`, `ReceiveComplete`, `Receipt`, `Leave`; `LastAnswer`; and
`Unexpected`, `SendFails`, `CannotCreate` for what goes wrong.  The session: one
action for each handler, whose effect is taken at once and whose answers and
audit rows are then done one by one in the order of the code (`todo`, `Do`); a
mode the account has no right to is answered, logged and the connection closed.
Around them: a connection that breaks (`Break`), a client that is killed, a
server that stops or whose process ends, timeouts of the session, and other
sessions that change the file (`Meddle`).

* `RequestSpec`: FileClient implements FileRequest (a refinement).
* `AuditTells` (safety): between two messages, as long as the process lives, the log has a
  row OK for every upload, deletion and move that was carried out and for no
  other, and for a download that the client calls done.
* `ClientReturns` (liveness): a command ends, whatever refuses it or goes away.

TrayApp stands on ServerApp's `StopReturns` (that `run()` returns after
`stop()`), ServerApp on SecurityManager (`AuthOk`/`AuthFails` are the outcomes of
`authenticate()`), AuditLogger (a row is one step, as `AuditTrail` allows),
FileTransfer (the file messages), SubnetFilter (`allowed`) and SessionOverlay
(`ShowOverlay`, `BannerComes`, `HideOverlay` and `HideFindsNothing` are the outcomes
of `show()` and `hide()` there); FileClient on ServerApp and FileTransfer for what
a session does besides answering it, and TrayApp on ServerConfig for what a saved
text is worth.  They are kept apart because their common state is small and
their product is far beyond a model checker.

## 3. The runs

`tlc -config <run>.cfg MC<Module>`.  One passing run for each module, which asks
everything the project asks of it; the longest takes about two minutes with
two workers.

| Run | Properties | Instance | States |
|---|---|---|---|
| lockout | TypeOK, OverrunBounded, CountExact, LockJustified, LockExpires | 2 sessions, 1 user, 2 attempts, window 1, duration 2, clock to 4 | 120 000 |
| server | TypeOK, SlotsKept, PortFreeOnReturn, RecordTrue, PromiseKept, HandshakeBounded, SlotReleased, StopReturns | 2 connections for 1 slot, either of them perhaps outside the allow-list, a user who may control and one who may view, 4 modes, undecodable frames of one, banners that come, come late or fail, `stop()` at any time | 348 000 |
| audit | TypeOK, TamperEvident, NeighboursChained, TrailSpec | 3 threads, 2 row texts, 3 rows, 2 failures or crashes, restarts | 1 260 000 |
| file_shared | TypeOK, VerifiedWhenAlone, NothingUnverified | 2 sessions on one name that may also ask for the name of its temporary file, honest and false claims, one failing write, the process may end | 1 789 000 |
| overlay | TypeOK, BannersOfSessions, HideReturns | 3 banners, windows that fail, polls that give up | 43 000 |
| video | TypeOK, PicturesTrue, CatchesUp | 1 or 2 tiles, 2 colours, 3 changes, 1 loss, the secure desktop, 2 messages in flight | 2 986 000 |
| viewer | ViewerTypeOK, DamageNeedsUser, ViewerReturns | control, the user may close, 4 messages | 1 100 |
| tray | TypeOK, OneServerRuns, ServesWhatWasSaved, EditsStay, ExitCompletes | 3 servers, 2 dialogs up, refused boots, one save that fails | 724 000 |
| config | FilterExact, RestartServesTheSame, OkChangesWhatWasEdited | files of up to 3 of 9 hand-written lines, 2 edits and 2 saves in any number of dialogs; bytes of 2 bits, addresses of 1 and 2 bytes, an int of 4 bits and a port of 3 | 155 000 |
| client | AuditTells, RequestSpec, ClientReturns | the 4 commands, files of 0 to 2 blocks, 1 message under way each way, 1 change by others | 65 000 |

Two more runs each refute a statement of the repository; they are in section 4.

**Why the bounds are enough.**  A lockout needs `maxFailedAttempts` = 2 to tell
"first" from "one too many", and a second session that is verifying when the
first sets the lock; a window and a duration that differ tell the two apart; four
ticks are a lock and the time after it.  Usernames have entries of their own, so
that one user shows what there is.  One slot and two connections are the cap, one
beyond it, and a session that ends meanwhile: the proofs of section 5 say the
same for any number.  Three threads at the audit log are a holder, a waiter, and
one that calls after; three rows behind the header are a middle one to remove and
a pair to exchange; two faults are a failure in the aftermath of another.  Two
sessions on one path with two blocks each interleave opening, writing, closing
and renaming in every order; one failing write is enough because a failed stream
stays failed.  Banners share only the screen, so the third adds nothing but
room.  Two tiles tell a mixture of frames from a frame, two sizes a resize, a
connection of two messages keeps frames, their ends and the next key frame in
flight together, three changes are a frame being sent, one that is overtaken and
one after both.  Three ServerApp objects are one from the start and two restarts,
two dialogs the smallest nesting.  Of the texts, three lines are an account made
in two of them and a third that interferes; two edits are two of one OK, or one
each of two dialogs, and two saves an edit of what an edit has written; two bytes of
two bits have a prefix that ends inside each byte, one
that ends between them, none and all, and the filter's theorem holds for bytes
and addresses of any length.  A file of two blocks breaks off before, between and
after its blocks; one message under way makes both sides wait for room; one
change by others comes at every moment.  Every bound is a constant, and is used in the
guard of the environment's or the caller's action only.

**Where CHECK_DEADLOCK is off** the system really stops: after `Exit` of the
server process (FileTransfer), of the tray program (TrayApp), after the viewer
has returned (ClientViewer), when a command has (FileClient), and once both ends of a video stream are closed
(VideoStreamer).

**Fairness.**  Weak fairness of the steps a thread takes by itself, nothing else:

* SecurityManager: a session inside `authenticate()` gets on with it - the mutex
  is never held across a call that blocks - and time passes.
* ServerApp: the accept loop, a `stop()` that was called, the return of `main()`,
  and of each session the steps it takes whether or not its client goes on.
  `GiveUp` and `HandshakeFails` are among them because `SO_RCVTIMEO` is set on
  the socket before the handshake and only cleared when a session has been
  authorized, and frames have a maximum size.  Nothing is assumed of clients:
  `FrameEnds` is not fair, and `SlotReleased` speaks of clients that are gone.  The
  thread of a banner is scheduled (`BannerComes`); a `hide()` is only taken to return
  where there is a window to close or no thread left, never where it came too early.
* SessionOverlay: the UI threads and a session thread inside `show()` or
  `hide()`; not when a session ends.
* VideoStreamer: the session thread and the reader thread; not the desktop.
* ClientViewer: both threads; not input, the user or the server.
* FileClient: the client's steps and the session's; not the session's timeouts,
  the break of the connection, `stop()` or the end of a process.  A connection
  that breaks is noticed by both ends: the client's reads have no timeout, and one
  whose host vanishes without a word would wait for ever.
* TrayApp: the UI thread's own steps and the server threads; not the user.

## 4. What the code does otherwise than it says

Two runs check one statement of a comment each and find a behaviour of the code
that contradicts it (`findings` in `PROJECT.json` quotes both).

| Run | Statement | Behaviour |
|---|---|---|
| audit_crash | the chain is resumed from the last row | the process dies while it writes a row; the next one starts a new chain and writes its first row onto the torn line |
| file_mixed | only a match is renamed into place | two uploads to one path mix in one temporary file, and the mixture is installed |

Three more were met while modelling and have no run.  `src/README.md:188` promises
"A mandatory always-on-top, click-through session overlay" for "the entire session";
but the window may not be made (`SessionOverlay.cpp:122-125`), `show()` waits a second
at most (166-168), and `ServerApp.cpp:363` goes on without looking: in ServerApp a
session whose banner is "failed" or "coming" moves the mouse and sees the screen.
RemoteAccess therefore only promises that the banner was ordered.  The banner's
`hide()` (`SessionOverlay.h:33`, "Hide and tear down the banner.") waits for ever for
a window published after `show()` gave up, and the session's slot is lost with it:
`HideReturns` and `SlotReleased` leave this `hide()` out, and say so.  A session with
control uses its SSL object from the reader and from the UI thread at once, although
`src/README.md:205` says it never is used concurrently; ClientViewer allows it, and
`DamageNeedsUser` says who has to do something first.

The properties of section 2 carry conditions where the code needs them.  What
lies outside of these conditions, and was seen while they were found:

* a verification in flight that succeeds unlocks an account another one has just
  locked; failures are forgotten together, when the first of them is a window old;
* sessions that are open when the server process ends write no end row and leave
  their `.part` files; an undecodable frame ends the process;
* `stop()` and `run()` may both close the socket behind the listener;
* after one failed write the audit log loses every row without a word; the
  deletion of its last row does not show; a second process on the file forks the
  chain;
* an upload whose write fails is vouched for, since the digest is that of the
  bytes received; a client may ask for another's temporary file by its name;
* the file operation, the answer and the audit row come in different orders: an
  upload is answered before its row is written, so that the end of the process
  between them loses the row; a download is logged OK although its sending
  failed; a command whose answer is lost exits as failed although it was done;
* a download truncates the local file before the first block has come, so that a
  failed one leaves a part of it; a local write that fails is not noticed, since
  the digest is that of the bytes received;
* a save drops accounts without a name or a hash and cuts a name at its first
  "="; a number no int can hold (a `max_sessions` of -1) comes back as the
  largest int;
* rights with blanks around the "|" are ignored, although the comment in
  `server.config.example` lists them so;
* banners of one place cover one another;
* a message that does not decode ends the viewer's process, from the reader thread;
* a capture lost to the secure desktop is reinitialised once; if that fails, the
  video has ended;
* closing the viewer frees the SSL object while the reader is in it;
* the tray program reports a save whose write failed and a server that refused to
  start as "Settings saved and server restarted.", its tooltip does not follow a
  server that returns, it destroys a ServerApp its sessions still use, and of two
  dialogs that are up the one confirmed last undoes the other's edits.

## 5. What is proved

For all values of the constants that satisfy the modules' ASSUMEs.  The theorems
are in eight modules; a theorem and the property it is about have similar names.

**SecurityManagerProofs**: `TypeCorrect`, `OverrunSafe`, `CountCorrect`,
`LocksJustified`.  Assumed: a finite set of session threads, at least one
attempt, a lock of at least one tick.  `OverrunBounded` is not inductive, since
it does not say when the verifications in flight read the clock: the invariant
adds that no clock value is later than now.  Then `Check` adds a verification
only when the account is not locked by that clock value; `Fail` turns one
verification into at most one overrun, so their sum does not grow; and the
`Fail` that sets the lock is itself one of the session threads, hence
"fewer than".  `CountExact` follows by cases on whether `RecordFailure` opens a
window; `LocksJustified` is an action property from `CountExact`: the counter
that reaches `maxFailedAttempts` names the failures.

The second part of the module is about the allow-list and the configuration it is
read from: `EntryLetsInItsRange`, `ListLetsInItsRanges`, `FilterCorrect`.  One more
entry lets in exactly the addresses that share its first bits if it is well formed,
nobody if it is not, and still everyone the rules before it let in; for bytes of any
width, families with addresses of any length and every prefix.  This rests on what
division by the width of a byte says of the byte a prefix ends in.  A list of any
length lets in whom one of its entries lets in, by induction over it.  The library's
induction theorems cannot be used here, so the module has its own, about the elements
of a set instead of a predicate: `Counting` (a set that holds 0, and n + 1 whenever it
holds n, holds every number; from the well-foundedness of <), `StepsExist` and
`StepsStay` (the function that the loop's recursion defines exists, and every value of
it is in a set the first is in and no step leaves).  `FilterCorrect` states
`FilterExact` of ServerConfig for files with any number of lines and users, and any
sequence of loads, dialogs and saves.  `FilterExact` does not say that there is a
configuration to filter with: the invariant is `ConfigTypeOK` - the file is a sequence
of texts, `cfg_` has every setting, each within the width of its field, and a list of
users, and so have the dialogs' copies - and what keeps it are lemmas that `Parse` makes
a configuration of any file (`ParseType`, by `LineStays` for each line), `Serialize` a
file of any configuration (`SerializeType`), and the dialogs one configuration of another
(`OptionsStay`, and `WorkingStays` with `UserEdits` for each edit of the users).
Assumed: the constants are texts, different numbers have different numerals, no range is
what stands for an unreadable one, and nothing is typed over the ranges or the client CA,
which have no edit control.

`DialogsCareful` states `OkChangesWhatWasEdited` for the same files, any number of edits
in a dialog, and any number of dialogs and saves.  What an OK commits was put together
step by step before, so the property needs an invariant about the copies,
`WorkingCopies`: while the Options dialog is open, a control nobody typed into holds the
text of its setting, and the list box holds every range of the configuration that nobody
took off; while the Users dialog is open, the copy gives every name nobody touched the
account it has in `cfg_`.  `CopiesKept` is that every step keeps it, and one OK then
follows from three facts.  A setting read back from the text it was written as is itself,
or the largest int (`ReadBack`).  The dialog joins the texts of its list box with commas
and `run()` takes them apart again: a text splits at a separator into the pieces before
it and those behind it (`SplitAt`), so that a joined list has the pieces of its texts
(`JoinPieces`), and the filter is that of these pieces (`ListServed`, from `FilterOf`,
which `FilterCorrect` rests on too).  The account of a name is that of the last user of
this name with a hash (`AccountsOf`), so when the users of a name are the same in both
lists and in the same order, so is its account (`SameUsersAgree`); adding, removing or
changing one user leaves every other name's users as they were (`AddedAgrees`,
`RemovedAgrees`, `ChangedAgrees`).  Two loops are compared by `StepsAgree`: functions
that begin alike and take the same steps are one.

**ServerAppProofs**: `TypeCorrect`, `SlotsCorrect`, `PortFreed`, `RecordCorrect` (from
`TrailsCorrect` and `RightsRespected`), `ImplementsRemoteAccess`.
Assumed: a finite set of connections.  The inductive invariant joins the shape of
the variables, what the accept loop holds (`InHand`: the connection it decides
about is in the phase "held", so admitting it adds one to the session threads),
the exact count, the cap - the latter with the fact that at `admit` the count
without the connection was below the cap - and the listener (`ListenerInv`).
That `active` is never negative is not inductive without the count: a decrement
is only safe because the session that makes it is counted.

`TrailsCorrect` and `RightsRespected` need that invariant too.  Neither property says
which rows are there in which phase of
a session, so neither is inductive; `StoryInv` does (`Trails`), and adds that
whoever holds a slot was let through by the filter, that a session which has
acted is past its start, and that its rights and its mode, set before that, still
permit what it did.  Then each step moves one connection from one place of its
story to the next.

`ImplementsRemoteAccess` is the refinement.  The promise asks more of a step than the
record does: that there was room when a connection was let in, that the banner was
ordered when the start is put on record, that the right is there already then and not
only when somebody acts, and that a banner goes from the screen only behind the end
row.  `GrantInv` adds to the invariants above in which phases a session's banner is
ordered and not yet taken down, and that from `banner` on the rights and the mode fit.  Then
every action is one action of RemoteAccess or leaves what it sees alone (`Unseen`): a
step that sets rights or a mode not yet on record, a frame, a flag, the accept loop.
`Die` is its `Shutdown`, because banners and sessions go together.

**AuditLoggerProofs**: `TypeCorrect`; `NeighboursAlwaysChained`, with one server
process and any failures and crashes; `TamperingShows` and
`ImplementsTrail`, with one server process.  The invariant `ChainInv` says of a
thread that holds the mutex that the row it carries continues `prevChainHex_`,
and of an open logger that `prevChainHex_` is the chain of the last whole line
whenever the stream is good; `Sound` adds that until the first fault the file is
a header and whole rows only.  That edits show needs in addition that no two
lines have the same chain value (`Counted`: the value of line i has i - 1 rows in
it).  `ImplementsTrail` is the refinement: with `ChainInv` and `Sound` every step
before the first fault is a step of AuditTrail or leaves what callers see as it
is.  With two processes none of this holds, and run `audit_crash` shows what one
fault does to the chain.

**SessionOverlayProofs**: `TypeCorrect`, `BannersCorrect`, for any set of banners, with or
without windows that fail and polls that give up.  The invariant `Together` says
where the two threads of a banner can be at a time: its window goes only after a
`hide()` has asked it to, and from then until it is gone the session thread waits
in `join()`; `Flags` says what that makes of `hwnd_`, `running_` and the screen.

**FileTransferProofs**: `TypeCorrect`, `PromisesKept`, `NothingUnverifiedSeen`, for
any number of sessions, names, blocks and faults; assumed is that no path is its own
temporary file.  The invariant `TypeInv` says who may write what: a file an upload
has open exists and is not yet vouched for (`Handles`), and a handler that judges a
transfer has closed that file and no other (`AtHand`).  `VerifiedWhenAlone` is not
inductive, since it speaks of a file only when it has been vouched for:
`AloneIsExact` says of every upload under way that, as long as nobody came near its
temporary file and no write failed, that file holds what was hashed and no other
upload is on it; the rename then carries this over.  `NothingUnverified` needs that
without a request for a temporary file's name no transfer has one as its final path
or reads one (`Unnamed`).

**TrayAppProofs**: `TypeCorrect`, `OneServer`, `ServesTheSaved`, `EditsSurvive`, for any
configurations, depth of nested dialogs, number of restarts and failed saves.  `OneServerRuns`
holds because only the object `server_` points to is ever in `run()`, and whoever
waits in `join()` has one to wait for (`OnlyServerRuns`).  `ServesWhatWasSaved` says
nothing while a restart is under way, so `RestartServesCfg` adds what a restart is
made from, at each of its stages.  `EditsStay` rests on the copies: with one dialog at
a time the copy of one that is not confirmed equals `cfg_` (`CopiesAreFresh`), and
without a configuration `cfg_` holds the defaults until a dialog is confirmed
(`DefaultsUntilOk`).

**FileClientProofs**: `PromiseToTheUser`, the refinement of FileRequest, and
`LogTells`, for every command, file content, capacity of the connection and
number of changes by others, and wherever the connection, either program or a disk
fails.  Contents are assumed to be sequences of blocks, none of which is "no file".
The invariant `Inv` follows the request through the queues: it is not yet handled
(`Asking`: at most one request is under way, behind the login's messages, and
nothing has been done; the log is empty, or has the row of a refused session, which
then only closes: `Refusing`), an upload is arriving (`Uploading`: what is under way is
the next part of the file, and as long as the connection holds all of what was
sent), a download of some content is being sent (`Offered`: client, connection and
the handler's list hold consecutive pieces of it, unless a stale greeting is about to end the
command), or the session is done with it (`Settled`: the row is logged or the next
on the list, and "Ok" is only said of what was carried out).  A step that leaves a
phase leaves it for `Settled` or for one of the two transfers, never back, which is
"at most once".

**ViewerProofs**: `TypeCorrect` and `PicturesCorrect` of VideoStreamer, for any set of
colours, any geometries and any number of messages on their way; `ThreadsTypeCorrect`
and `UndamagedWithoutUser` of ClientViewer.  `PicturesTrue` speaks of a frame when it is shown, and of the streamer's
`prevFrame_` when nothing is on its way, and is not inductive: a delta read today was
cut several messages ago.  `Ahead` says of every moment that the viewer's buffer after
each message still to come is determined already (`Foretold`: a function from the
number of messages read to buffers), that it is the captured frame wherever one of
these messages ends a frame, and that after the last of them it is what the streamer
mirrors (`Mirrored`).  Reading a message shifts that function by one; sending one
leaves it as it is, and so does a session that ends with messages still to send; a
new frame extends it, for a key frame whatever the buffer was (`KeyframeTells`), for a
delta because the buffer will be the picture its tiles were compared with and no
changed tile is left out (`DeltaTells`, `EveryTile`).  `DamageNeedsUser` needs that
without the user only the reader thread closes the window, and that it has left the
SSL object for good by then (`Quiet`).

Only model-checked: every liveness property (fairness and ENABLED are outside
the prover's reach), and of ServerConfig `RestartServesTheSame`.  That a configuration
comes back from the file as what it was needs facts about operators that none of the
backends can expand: that `SelectInSeq` and `SelectLastInSeq` find the first and the
last mark, that `SetToSeq` lists each right once.  The community modules define these by
CHOOSE and by recursion.

## 6. What is not modelled

The byte loops and headers of SocketTransport, Protocol's encodings,
PasswordStore, DpapiSecret, TlsContext, PrivilegeManager, Logger, the connect
dialog and window helpers: no state of their own, or single calls into a library;
their outcomes are choices in the models (`BootFails`, `WrapFails`,
`HandshakeFails`, `Throw`, `passOk`, `Unusable`).  In the modelled parts:
`updateText()` of the overlay, which nobody calls; painting; scaling of mouse
coordinates; the text of audit rows, with the consequence that a field holding a
line break (`hazards`) is not seen.

## 7. The plan

Modules in the order of their importance for what the program promises, and
what follows for each:

1. SecurityManager, ServerApp, AuditLogger with AuditTrail: modelled, checked,
   safety proved.
2. FileTransfer, SessionOverlay, TrayApp, VideoStreamer, ClientViewer: modelled,
   checked, safety proved.
3. SubnetFilter, ServerConfig, FileClient with FileRequest: modelled and checked;
   the filter from the file to the peer, what one OK of a dialog may change, and what
   a command promises its user, proved.
4. RemoteAccess, what the server promises as a whole: modelled, checked and proved of
   ServerApp.

Left: the round trip of a configuration (`RestartServesTheSame`) beyond the instance
of its run, and the four hazards of `PROJECT.json` that have no property.
