# Verification of the cURL plug-in for 4D

The plug-in gives 4D methods the commands `cURL`, `cURL_FTP_*`, `cURL Escape`, ...;
nearly all of its own logic is in `4DPlugin-cURL.cpp`, and the rest in
`include/ftpparse.c` and `support/4DPlugin-JSON.cpp`. This directory holds TLA+
modules of that logic, the configurations TLC checks them with, and proofs for
the TLA+ proof system. Line numbers are those of `src/4DPlugin-cURL.cpp` unless
another file is named.

1. Inventory  2. Modules  3. Runs  4. Fairness  5. Proofs
6. What the checks found  7. Not modelled  8. Plan

## 1. Inventory

A command runs in a 4D process. It creates an easy handle, turns the options
object into settings of it, hands libcurl four callbacks, drives the transfer,
stores what came out of it in the returned object, and releases everything. All
state belongs to the call, except the proxy factory, files, and the static
variables of `ftpparse` and of the C library's time functions.

| Component | State | Operations | Talks to | What is hard | Correct if |
|---|---|---|---|---|---|
| Transfer loop: `curl_perform_atomic` 443-454, `curl_perform_non_atomic` 456-698 | multi handle, `result`, `running_handles`, `startTime` | perform; wait; offer progress; look at *Process aborted*; settle; detach; clean up | libcurl, 4D scheduler, callback method | an abort, a True, a failing call and the end of the transfer in the same round; a network that stalls; an aborted process | the status is the transfer's own result if it has one; the end is told once and last; nothing leaks; an abort is obeyed |
| Download callback: `curl_write_function` 286-325 | `http_ctx`: stream, `size`; response blob | append to the blob; open, write, give up and reopen a stream; close at cleanup | libcurl, C streams | a write that fails in part; buffered data; a reopen in the middle of a body; the status is fixed before `fclose` | the file is always a beginning of the body, and all of it under status 0 |
| Upload callback: `curl_read_function` 112-152, lengths 2119-2133 and 2622-2636 | `http_ctx`: stream, `pos`, `size`; cursor of the blob | measure the file; read it, or the blob; reopen at `pos` | libcurl, C streams, other programs | the file changes between being measured and being read; empty and unseekable files; a read that fails half way | one source, in order, and all of it under status 0 |
| Debug log: `curl_debug_function` 203-284, `curl_set_debug_option` 1944-2003 | `http_debug_ctx`: seven streams and sizes | open or create; write; give up and reopen; close at cleanup | libcurl, C streams, other calls with the same folder | calls of several processes write to one file through streams of their own; a stream breaks | entries in order, once, in the right log; a call alone in its folder loses nothing but what failed |
| Option mapper: `curl_set_options` 1056-1942, getters of `support/4DPlugin-JSON.cpp` | easy handle settings, `stringValue`, paths, `userInfo` | one `if` per property | 4D objects, libproxy, the lock `mutexPf` | one variable for all texts; several properties for one setting; any property may hold a value of another type | each setting is what its own property asks for |
| `_cURL` 2005-2222 | contexts, slists, blobs of the call | the sequence of a call | all of the above | a callback fails in the round in which the loop is left; the order of release | the status is what the callbacks know; everything is freed, after its last use |
| FTP commands: `cURL_FTP` 2493-3059, `curl_set_options_for_ftp` 2224-2344, encodings 2346-2458 | in addition one slist, text encodings, path | ten commands | libcurl, an FTP or SFTP server | commands as slists against the caller's own; absolute and relative paths; conversions that fail silently | the server has done what the command says under status 0, and nothing else ever |
| Directory listings: 2461-2492, 2824-2954, `include/ftpparse.c` | none of its own | split lines, parse MLSD, EPLF, UNIX, VMS and MSDOS, store elements | C library, 4D objects | any bytes a server sends; bodies cut short by an abort; names that look like other words | every line has its element at its place, with the name, size, kind and date of the file |
| Clock of `ftpparse` 27-116 | static `now`, `currentyear`, `flagneedcurrentyear` | guess the year of a date without one | C library, other calls | static variables without a lock; a year kept for ever; leap days and centuries | the day is right |
| Plug-in lifecycle: `OnStartup`, `OnExit`, `PluginMain` 13-110 | `pf`, `mutexPf`, libcurl's global state | start, stop, dispatch | calls under way | stopping while calls run; exceptions that are swallowed | nothing is used after it was freed; nobody waits for ever |
| Small commands 760-960; `curl_get_info` 329-441; `curl_header_function` 154-163 | none | one libcurl call each | libcurl | narrow integers | – |
| 4D values: `4D Plugin API/Classes` | blob bytes and cursor, texts | copy in and out, convert | SDK | 32-bit lengths | – |

## 2. Modules

| Module | Models | Correspondence |
|---|---|---|
| `TransferContract` | what a call promises the 4D method, in six variables and five actions | abstract; not tied to lines |
| `TransferLoop` | both drivers of a transfer | `pc` is the place in the loop (`wait` 512, `select` 571, `perform` 579, `offer` and `answer` 591-627, `poll` 629, `settle` 646, `notify` 663, `report` 677, `cleanup` 696); `result`, `running`, `due` are `result`, `running_handles` and the test of `startTime`; `info` and `told` are the counts in `transferInfo` objects; `goto curl_abort_transfer` is the step to `settle` |
| `Download` | a download as its caller sees it: the variables of the callback, and what it promises of them | shared by the next two modules |
| `DownloadWriter` | one body through the callback; instantiated by `DownloadCall` only | a body is `1 .. length`, so that a unit knows its place; `size`, `open` are `ctx->size` and `ctx->download_file`; each C library call is a step of its own |
| `DownloadCall` | a whole download: `TransferLoop` with `DownloadWriter` inside its performs, and the close after it | `EXTENDS TransferLoop, Download`, `W == INSTANCE DownloadWriter`; the callback steps happen while the loop is inside a perform (`InPerform`), and what a perform reports is what the writer has seen (`Committed`); the clock, an abort and the stream's own flushes may fall between any two steps |
| `UploadReader` | one upload through the callback, and the choice of its source | units of the file are positive, of the blob negative; `pos`, `size`, `cursor` are `ctx->pos`, `ctx->size` and the cursor of `CBytes`; `declared` is `INFILESIZE_LARGE` |
| `DebugLog` | several calls that log | `handle`, `size` per call and category are the fields of `http_debug_ctx`; the file is a sequence of entries, of which each knows its call and number |
| `OptionMapper` | one pass over an options object | a slot per `if`, in the order of the source, of every kind one member and all that share a setting; `text` is `stringValue` |
| `FtpCommands` | one call of a `cURL_FTP_*` command and the server it talks to | `path`, `h` and `slists` are the variables of `cURL_FTP`; `Quotes`, `PhaseOf` are the switch 2690-2804, `Results` and `Cleanup` 2982-3036; the server is a set of places, a current directory and the file of RNFR |
| `DirListing` | the body of a listing, from bytes to elements | `ReadLine` is `safeGetline` 2461-2492 and the loop around it, `Mlsd` the object made from a line (2832-2854; `Put` is `ob_set_s`, which replaces a property that is there), `FtpParse` has one operator per format of `ftpparse.c` 148-447, `Stored` the test of the date (2913) |
| `ListingClock` | the static clock of `ftpparse` | `now`, `currentyear`, `flagneedcurrentyear` are the statics; each read and each store of them is a step; `totai` and `YearAt` are the arithmetic of `ftpparse.c` 27-97 |
| `PluginLifecycle` | the plug-in from start to unload, with the commands that run meanwhile | `pf`, `owner` are `pf` and `mutexPf`; per command its easy handle, slists and files; `Throw` is an exception that reaches `PluginMain` |
| `...Proofs` | theorems about the module of that name; `TransferProofs`: about `TransferLoop`, `DownloadCall` and, through its instance `W`, `DownloadWriter` | section 5 |
| `MC...` | instances | sets, faults, symmetry |

External parts are modelled by what the plug-in can observe of them: libcurl moves
any number of pieces at a time, may stall for ever, may end with any code, and
queues one DONE message; a C stream accepts all of what it is given, or less when
it fails, and writes its buffer out whenever it likes, and when it is closed; an
"ab" stream writes at the end of the file, a "wb" stream where it has got to; an
FTP server may refuse any command; 4D schedules the process, or aborts it at any
time. Which calls may fail in a run is the constant `Faults` (`FileFaults` for the C
library in `DownloadCall`).

`DownloadCall` is the composition of the loop and a callback. The upload and
debug callbacks join the loop in the same way, by the return value of the callback:
`Return` of `UploadReader` gives libcurl a count that may be short, and
`curl_debug_function` returns 0 whatever happens. `PluginLifecycle` takes the
transfer as one step, `FtpCommands` as the places at which libcurl sends commands.

## 3. Runs

| Run | Configuration | Question | Bounds, and why they are enough |
|---|---|---|---|
| `loop_safety` | `DownloadCall.cfg` | for the whole download, the loop: `TypeOK`, `StatusIsOutcome`, `ProgressOnlyGrows`, and that it implements `TransferContract` (`ImplementsContract`); the callback inside it: `WriterTypeOK`, `FileIsPrefix`, `NeverTruncated`; both: `OKIsComplete`, `OKHasAll`, `WriteErrorIsReported` | a body of up to 4 units in chunks of up to 3: none, some and all moved, several chunks, and partial writes in the first, the middle and the last; two error codes, one of them the callback's; every fault of the loop but that of `curl_multi_add_handle`, and any number of failing opens and writes |
| `loop_any_fault` | `LoopLiveness.cfg` | `EndIsTold`, `HandlesReleased`, `AbortIsPrompt` with every fault, and that the call ends (`CallEnds`) | `Chunks` = 2; the loop may go round without end, since neither the network nor the clock is assumed to move |
| `upload` | `UploadReader.cfg` | `SentInOrder`, `OKSentAll`, `TypeOK` | files up to 3 units, blobs up to 4, so that either is the longer; the file changes at any moment, any number of times |
| `debug_log` | `DebugLog.cfg` | `OrderKept`, `LostAlone`, `CategoriesApart`, `TypeOK` | two calls, two folders, two categories, three entries in all and any number of empty ones: two of a call with one of another between them; calls and folders are symmetric; every log file starts with an entry left by an earlier call (`Leftovers`) |
| `options` | `OptionMapper.cfg` | `AsAskedFor`, `TypeOfProxy` | every object of at most two properties: any stale text has one source, and no setting has more than two properties for which the other one matters; the theorems are about objects of every size |
| `ftp_commands` | `FtpCommands.cfg` | `SuccessIsDone`, `CommandsInOrder`, `SlistsFreed`, `TouchesOnlyTarget` | all ten commands, both protocols, every subset of the three slists of the caller, encodings that work or fail, a home directory that is the root or not, every file the command's names could meet, also under the other spelling of the name |
| `listing` | `DirListing.cfg` | `OneElementPerLine`, `EplfLinesUnderstood`, `MlsdLinesKept`, `FormatsUnderstood` | every body of up to 5 symbols of EPLF or of MLSD, which is a line with a fact, a separator, a name and any line end; MLSD lines of up to three facts, where keys come twice or are "path", with and without a name (`MlsdBodies`); and one file in every documented UNIX, NetPresenz, NetWare, VMS and MSDOS form, whole or cut at every place, with names, groups and link targets that look like other words of a line (`MCDirListing`) |
| `listing_clock` | `ListingClock.cfg` | `DayIsRight`, `YearIsOneOfOurs`, `TypeOK` | two processes, three listings, pauses of 366 or 426 days that take up to 792 together (`MaxDays`) and one midnight; starts around New Year and 29 February, in 2000, 2024 and 2100 |
| `lifecycle` | `PluginLifecycle.cfg` | `LookupIsSafe`, `GlobalsOutliveCalls`, `AllReleased`, `TypeOK`, `LookupIsGranted`, `ExitEnds` | three commands: one that holds the lock, one that waits, one that throws, while the host unloads the plug-in |
| `options_private` | `OptionPrivate.cfg` | refutes `PrivateIsNotSent` | as `options` |
| `options_socks5` | `OptionSocks.cfg` | refutes `Socks5IsTyped` | as `options`; libproxy may find any of the schemes the code asks for, or another |
| `ftp_remove_dir` | `FtpRemoveDir.cfg` | refutes `RemovedMeansSuccess` | one command, without faults |

`AbortIsPrompt` bounds the `curl_multi_perform` calls made after the process is
aborted by two: one may be the call just before the check, the other the first
one of a call that starts in an aborted process. `SentInOrder` holds although another
program may cut or grow the file at any moment; `OKSentAll` then says that a call
that still reports success did send what it declared. `OrderKept` is all that is
left of a log that two calls write to: entries are lost and files truncated, but no
stream writes out of order or twice. `DayIsRight` leaves out the call that
meets an initialisation another call has half done (`half`): there the code has a
data race, and the day may be undefined. It also is about files of the last 350 days and
at most 15 days ahead only (`RecentAssumption`): of NetWare's twelve months the last two
weeks, and dates further in the future, which the comment at `ftpparse.c`:99-100 names,
are guessed a year off.

Where the code does not do what the plug-in's README says and the property would have to
take a side, it takes none; section 6 lists these as left open. `OneElementPerLine` bounds
the collection from below and lets only Null follow the lines. `MlsdLinesKept` is about
bodies of plain lines (`IsPlain`): facts have keys and no spaces, a name has no semicolon
and does not end with a space; the path may have the space before the name or not.
`OKSentAll` leaves open which source an empty file stands for, `LostAlone` what becomes of
an earlier log, `SuccessIsDone` the place of a bare RENAME_TO and a RemoveDir that is
undone.

The deadlock check is on, and a call that is over steps in place (`Finished`),
except in two runs: in `listing_clock` the bounds on listings, pauses and midnights
stop the system, and in `lifecycle` the plug-in is unloaded for good.

## 4. Fairness

Safety runs assume none.

`LiveSpec` of `TransferLoop`:

* weak fairness of `LoopStep`, the plug-in's own steps. 4D keeps scheduling a
  process; `select` has a timeout of at most a second; a callback method comes
  back. Weak fairness of the disjunction does not choose between `Delay` and
  `Watch`, nor make the network move, nor let the transfer end.
* strong fairness of `SelectReturns`: a `select` that is called again and again
  does not fail every time. Without it `CallEnds` is false: after -1 the loop goes
  round without looking at *Process aborted* (576-578). The code does nothing to make
  this so; it rests on the sockets libcurl hands out being valid.

Nothing is assumed of `Tick`, `Kill`, of faults, or of answers of the callback
method. `CallEnds` starts from what has happened, an abort, a True or the end of the
transfer, not from what must.

`LiveSpec` of `PluginLifecycle`: weak fairness of `OnExit`, and per command of taking
the lock or going on (`CallLocks` or `Work`). A thread that runs goes on, and comes back
from libproxy and libcurl; a lookup that waits for a proxy script does end. Weak
fairness is enough for the lock because each command takes it once, so that nobody is
passed over for ever. Nothing is assumed of commands being started, of exceptions, or
of the host unloading the plug-in.

## 5. Proofs

Eight modules hold theorems; they hold for every value of the constants that the
`ASSUME`s of the component's module allow. The theorems about `DownloadWriter` are stated
of the instance `W` of `DownloadCall`, which renames its constants and gives none of them
a value, so that they are as general as the module. The `ASSUME`s are written into the
modules next to the constants: that a success is not an error code, that faults are faults of the code,
that bounds are numbers, that the lock's owners differ. Five say more. Of `ListingClock`:
a server leaves the year out of a date of the last 350 days only, or of one at most 15
days ahead (`RecentAssumption`; these are the 350 days of `guesstai`), and the host is
restarted within 99 years (`RestartAssumption`; the loop of `guesstai` ends 100 years
after the year that is cached). Of `DirListing`: names and targets are not empty and have
no line end, and those of VMS and MSDOS are ones that `ftpparse` tells from the other
formats (`NamesAssumption`, see section 6); a group has no month among its words after the
first (`GroupsAssumption`), for `ftpparse` takes such a word for the month of the date; an
MLSD body has no symbols but those of facts, names and line ends (`MlsdAssumption`).

| Module | Theorems | Beyond the `ASSUME`s |
|---|---|---|
| `TransferProofs` (the loop) | `TypeCorrect`, `HandlesAreReleased`, `AbortPrompt`, `EndAlwaysTold`, `ProgressGrows`, `StatusCorrect`, `LoopImplementsContract` | the last two: `AddWorks`, `curl_multi_add_handle` does not fail |
| `TransferProofs` (the call) | `CallIsLoop`, `CallIsWriter`, `WriteErrorReported`, `SuccessHasAll` | `WriteErrorReported`: `AddWorks`; `SuccessHasAll`: both |
| `TransferProofs` (the download callback) | `DownloadTypes`, `SizeCounts`, `PrefixKept`, `SuccessIsComplete`, `NothingTruncated` | `CloseWorks`, `fclose` does not fail |
| `UploadReaderProofs` | `UploadTypes`, `StreamInOrder`, `PosCounts`, `SuccessSentAll` | none |
| `DebugLogProofs` | `Invariance`, `Apart`, `Ordered`, `LosesOnlyFailed`, `Typed` | `LosesOnlyFailed`: `CloseWorks` |
| `PluginLifecycleProofs` | `TypeCorrect`, `LookupsAreSafe`, `GlobalsAreThere`, `ReturnedReleased` | none |
| `FtpCommandsProofs` | `ListsFreed`, `OnlyTarget`, `InOrder`, `Done` | none |
| `OptionMapperProofs` | `Settings`, `ProxyType` | none |
| `ListingClockProofs` | `Invariance`, `Typed`, `OwnYear`, `RightDay` | none |
| `DirListingProofs` | `ReadsEveryLine`, `ListingElementPerLine`, `ListingEplfUnderstood`, `ListingMlsdKept`, `ListingFormatsUnderstood` | none |

The two hypotheses are needed: the code looks at neither result (section 6), and
with these faults allowed TLC refutes the properties.

### The transfer loop

None of the properties is inductive. `StatusIsOutcome` and the others speak of
`pc = "returned"`, so that a step to it must know what the places before it
guarantee: that a DONE message is unread exactly from the end of the transfer to
`settle`, that the easy handle is attached wherever libcurl is driven, that `why`
names a cause only if it put the cause's code into `result`, and that `told` equals
`moved` once the end has been told. `IInv` collects these facts place by place; it
contains `TypeOK`, which is split into `FlagsOK` and `DataOK` because Booleans and
arithmetic go to different provers. `ResultInv` adds what needs the handle to be
attached. Each has a lemma for the initial states, one for the steps with a case
per action, and one for the property that follows; the step lemmas are also what
the action property and the refinement are proved from: every action of the loop
is mapped to the one action of the contract it implements, or to a stutter.

### The download callback, and the whole download

That the file is a beginning of the body is not inductive: what is written next
comes from the buffer of the stream and from the chunk in hand. `WriterInv` says that the
file, the buffer and the chunk are three consecutive stretches of the body
(`WriterData`), that `ctx->size` counts the first two and that nothing but the chunk is
missing of what libcurl has handed over (`WriterCount`), where a stream is open
(`WriterPlace`), and that a status is 0 only after the whole body (`WriterStatus`). A
stretch is a condition on each unit, so that cutting a stretch (`PartIs`, `RestIs`)
and joining two (`JoinIs`) are lemmas without induction; `FWriteKeeps`,
`WriteOutKeeps` and `FCloseKeeps` say of each C library call that it moves units from
one stretch to the next and loses none. The last one needs `CloseWorks`.

The second part of `TransferProofs` shows that a step of the whole call is a step or a stutter of
each of its parts (`CallIsLoop`, `CallIsWriter`), so that all theorems about either hold
of it. `Agree` joins the two: what the loop knows of the transfer is what the writer has
seen. From it, and the theorems of both, follow what neither could say alone.

### The upload callback

`SentInv` ties what has been sent to the place of the stream or of the cursor,
whatever the file becomes meanwhile; `LengthInv` says which source goes with which
declared length; `AskInv` that libcurl never asks for more than was declared.

### The debug log

The argument follows one call and one category, a slot. `SlotOK` says that the file,
the buffer and the stream of a slot agree: the entries of the call in the file are in
order and before those in the buffer, and a "wb" stream stands behind all of them.
The entry in hand is newer than both (`HandInv`), and a stream that is written to is open
(`OpenInv`). Of a step in another call's slot all that matters is `Kept`: it may remove
entries of this call from the file, but adds or moves none. So every action comes down
to one lemma, `SlotStep`, whose premises are facts about one file and one buffer
(`PartOut`, `Buffered`, `Opened`, `Dropped`). `HomeInv` (an entry is in the folder of
its call) is what then makes the two properties follow for every entry in a file.

`LostAlone` is about what is *there*, so that it takes a count. For a call with a folder
of its own `LoneInv` says that `size` is what the file and the buffer hold together, and
that every entry of the call is in one of them, lost, or in hand; that a file nothing has
been counted for is empty once it has been opened, and that a "wb" stream stands at the
end of its file, so that both modes append (`StreamOK`). `Moved`, `Counts` and `LoneOpen`
say what the C library calls do to the count; a step elsewhere is settled by
`UntouchedStep`. `DoneInv`, that the streams are closed at the end, empties the buffers.

That `size` never exceeds the number of entries (`TypeOK`) follows from a count per call and
category (`CountInv`): what has been counted and what is in hand are different entries
of `log`. The guard of `Debug` names the bound for each call; it is implied by the bound on
all of them, which is a sum over a set, out of the provers' reach.

### The option mapper

`AsAskedFor` speaks of the end of the pass. Half way through, a setting is what the last
slot passed so far asks for (`AskedInv`, over `Done(o)`, the slots of setting `o` that
have a property and lie behind `next`). A step of the pass adds one slot to one `Done`
(`OneAsked`) or none (`NotAsked`), so that each kind of property only has to show that it
sets what `Wish` says; SSH_AUTH_TYPES, which is set without a property, and AUTOPROXY,
which sets a type on behalf of another property, are the two cases where that needs the
order of the slots (`SlotFacts`). `ProxyInv` says the same of a proxy and its type: the
last proxy that counts is the last one that has a type, of those that are not SOCKS 5. Where a collection has no line of
text nothing is set, and `Wish` asks for nothing.

### The lifecycle

`LookupIsSafe` needs that exactly the owner of the lock is inside libproxy, or OnExit
between the free and the unlock (`LockInv`), and that `pf` points to a live factory
outside of that (`FactoryInv`, `UsesInv`). `GlobalsOutliveCalls` needs in addition
that no command is under way once a host that waits has begun to unload (`PlaceInv`),
`AllReleased` what is still held at each place of the release (`HoldsInv`).

### The FTP commands

`ListsInv` says at each place which slists are live, and that an option points only to such
a one. `ServerInv` says what libcurl has in its options when it is driven: in the phase
of the plug-in's command that command, in the others the caller's (`QuotesInv`), with the
path encoded as the URL is (`PathInv`); and which directory the server is in by then, which
is what makes a relative MKD and an absolute RMD speak of different places (`PlaceInv`).
From it, as an action property, no step touches another place (`OnlyTarget`). `OrderInv`
says that what is done and what is to do are together what was asked for, phase by
phase; `EffectInv` that a command that is done has had its effect, that RNFR has
left its file on the server before RNTO is sent, and that nothing after the command undoes it,
but for the one case `SuccessIsDone` names. A slist that could not be appended to (`lost`)
ends all of this.

The proof found that two alternatives of `Expected` overlapped: for a caller's slist in the
plug-in's own phase its value was left to the choice of CASE, and nothing could be proved
of it. They are exclusive now.

### The clock of the listings

`RightDay` rests on the calendar, which is proved for all days since 1970 first:
`YearOfIs` (a day is in one year, and the bounds of the search for it are right), `LineIs`
(the month and the day of a line), `YearAtIs` (`initnow` finds the year of a day),
`TotaiIs` (`totai` gives the day of a date; for the 29th of February of a year that has
none it gives an earlier day, which only makes a wrong guess older), `YearsApart` and `DatesApart` (the same date in another year is at least 365 days
away, hence outside the 350 days `guesstai` accepts). `GuessIs` puts these together: if
the clock and the file are less than a year apart and the guess starts no later than the
year of the file, the first year that fits is that of the file. The solver does not decide
these divisions as they stand; each quotient is given to it by its bounds, one at a time.

The rest is the race. A call compares with `now`, which any other call may store in
between, so that `NowInv` says not that it is the call's own but that it is recent: since
the call met its file no pause can have passed, only midnights. `YearInv` says that
whatever is cached, or about to be, is a year the host has run in, and that a call that saw
the flag cleared finds a year there unless it met a half-done initialisation (`half`).

### The directory listings

What a parser returns for a line of any length takes an induction over the line. The
library's induction theorems cannot be used here, but two things can. That a set of
numbers has a least one (`LeastIs`, from the well-foundedness of the numbers) gives
induction for a set (`Induction`): the least place at which a claim fails follows a place
at which it holds. And that the recursive functions of `DirListing` have the values their
definitions say (`EplfLoopIs`, `UnixLoopIs`, `MlsdLoopIs`) follows by building the function
up place by place.

`EplfInv` then says what the loop of `ftpparse` knows after each place: where the fact it is
in starts, and that the entry says what the facts that have ended say (`SaysFacts`). A place
ends no fact (`NoFactEnds`) or one (`OneFactEnds`, `FactSaid`). `MlsdInv` says the same of the
facts of MLSD, of an object now, in which the last fact with a key counts: a round that ends
no fact leaves the last ones as they are, and one that ends a fact makes it the last with
its key (`LastIs`, `PutFactIs`). `UnixInv` is about lines the code must not understand: without the name of a
month it stays at the size. The outcome is `ListLine` and `MlsdIs`: a line is
understood as `EplfAgrees` and `MlsdAgrees` say, which quantify over the places of
separators and know no loop.

`LineIs` does for `safeGetline` what these do for a line: from the start of a line (`StartsOf`,
by where line ends are) it reads just that line (`LineAt`), and goes on where the next one
starts, or where the body ends. So the collection has, at every moment, the
elements of the lines that start before the place of the stream, each at the number of its
line among those that get one (`ElementsInv`, with `CountsOne` and `NumberIsBelow` for the
counting), and eofbit comes only at the end, after an empty line (`IInv`). The three
properties follow where the loop stops.

The formats without facts (`ListingFormatsUnderstood`) have a layout each, which says what is
at which place of a line: `UnixLayout`, `VmsLayout`, `MsDosLayout`. A layout speaks of the
places a text has, so that it holds of every beginning of a line as well, and a cut line is
no case of its own. The argument has two halves. The line a server writes has the layout
(`UnixLineLayout`, `VmsHeadHolds`, `MsDosLineLayout`), part by part, since its names may have
any length. And from the layout alone it follows where the loops stop and what is returned:
for UNIX the state of the loop at every word (`Reached`, `UnixReads`), that a line
that ends before the space after its date does not get to state 8 (`UnixCut`), and that any
other one is in it from there on (`UnixWhole`), then `UnixIs`; for VMS and MSDOS the places
their searches find (`VmsPlaces`, `MsDosPlaces`), then `VmsIs` and `MsDosIs`. `LineSaid` is both halves together: a
file's line, and every beginning of it, gives the entry of the file. `StoredSays` takes the
date away where it is before 1970, as `FormatsUnderstood` asks. That it is this
line which becomes the second element is `BodyOfTwo` and `SecondLine`, with `ReadsEveryLine`.

Three definitions had to change for these proofs: the loops are recursive functions, lines
are given by the places where they start, and names, targets and groups, once fixed sets,
are constants.

### What is only model-checked

Liveness and fairness: the prover has no ENABLED. `CallEnds`, `LookupIsGranted` and
`ExitEnds` stay with TLC. All the other properties of the passing runs, 37 of 40, are
stated by theorems. No module declares a RECURSIVE operator.

## 6. What the checks found

Runs that refute what a text of the repository says:

| Run | The code | The text |
|---|---|---|
| `options_private` | a property that is not a text takes over the text before it (`ob_get_a`, `support/4DPlugin-JSON.cpp`:448); USERAGENT:=1 sends the text of PRIVATE | README.md:286 |
| `options_socks5` | `strncmp` compares five characters of "socks4" (1145), so that a proxy `socks5://...` gets the type SOCKS 4, and the branch for it (1148) is never taken | README.md:289 |
| `ftp_remove_dir` | RMD is sent before libcurl changes to the directory of the URL, the one just removed (2743, 2327): status 9, or the directory is made again | README.md:735 |

Seen while modelling, from the same models, without a run of their own. The transfer:

* The results of `curl_multi_add_handle` (509) and of `fclose` (2216, 307) are dropped: a
  transfer that never started, or whose last bytes were lost, has status 0 (README.md:732).
* A True that the callback method answers in the round in which the transfer ends
  does not give `CURLE_ABORTED_BY_CALLBACK` (655 against README.md:367). The contract
  and `StatusIsOutcome` say what the code does.
* While `select` fails, nobody looks at *Process aborted* (576 against README.md:61);
  see section 4.
* When `curl_multi_init` fails there is no `transferInfo` (463 against README.md:340).

Stopping:

* A command that looks up a proxy after `OnExit` uses `pf`, which is NULL then, without a
  test (1128), and `curl_global_cleanup` runs outside the lock (34). Only a host that waits
  for its commands before it unloads the plug-in prevents either; `GlobalsOutliveCalls` is
  stated for such a host.
* A lookup that does not return, as for a PAC file that cannot be fetched, holds up every
  other one and `OnExit`; the fairness of section 4 assumes that each returns.

Files:

* For an empty READDATA file the declared length becomes 0 (2127), so that nothing is
  sent, and the blob is read by nobody (README.md:70, 737). `OKSentAll` leaves open which of
  the two a call is to send. One whose length cannot be told is
  sent up to the length of the unused blob (2125 against README.md:287); hence the case
  in `OKSentAll`.
* A download of an empty body leaves an earlier WRITEDATA file as it was (296 against
  README.md:288); hence the condition `fresh` in `OKIsComplete`.
* The first entry of a call empties the log an earlier call has left (265 against
  README.md:739). The model does so, too; `LostAlone` counts the call's own entries and
  leaves the earlier ones open.

Options:

* The branch that reads an enum given as a number is never taken (1843 against
  README.md:314); an enum name that is not known sets the option to 0 (1018 against
  README.md:326); CERTINFO ignores a Boolean (1658 against README.md:292).
  `AsAskedFor` leaves these open (`Wish`).

FTP:

* MKD is sent relative to the directory after login, RMD, DELE and RNFR from the root:
  where a user logs in elsewhere, they speak of different places. A bare RENAME_TO over SFTP, or
  over FTP away from the root, moves the file (README.md:647, "rename in place"): where to,
  `SuccessIsDone` leaves open; that nothing else is touched is `TouchesOnlyTarget`, for which
  the place the code names is the target.
* A RemoveDir with FTP_CREATE_MISSING_DIRS makes the directory again and returns 0;
  `SuccessIsDone` leaves it open, since `RemovedMeansSuccess` speaks of the same command.
* A command whose `curl_slist_append` fails is not sent, and nothing says so (`lost`).
* The QUOTE, PREQUOTE or POSTQUOTE of the caller is replaced where the command uses the
  same one; `CommandsInOrder` says so.
* ENCODING_IN is not applied to the URL itself, has no effect on a percent-encoded name,
  and is ignored without notice when the conversion fails.
* `system` never holds the answer to SYST (README.md:705-721).
* A LIST body gives one element more than it has lines, Null (2485 against README.md:419);
  `OneElementPerLine` allows it, and does not ask for it.
* The path of an MLSD element keeps its leading space, and a name with a semicolon is cut
  (README.md:422); the first is open in `MlsdAgrees`, the second outside of `IsPlain`. A
  fact called "path" is lost, and so are all but the last of those with one key.
* `dirList` is empty with WRITEDATA.
* A file from before 1970 has no `mtime` (2913), nor has one whose number is negative.
* `fileInfo.date` is made from -1 when the server gives no time (README.md:477).
* In `ftpparse`, an MSDOS name with a semicolon is taken for VMS, a VMS name that starts
  with one of b, c, d, l, p, s in lower case for UNIX, and an MSDOS time without AM or PM
  is searched for one further on in the line. A month among the words of a group, but for
  the first, is taken for that of the date. The listings of `FormatsUnderstood` leave
  them out.
* A call that finds `flagneedcurrentyear` cleared before the year is stored guesses from
  year 0 and finds none (`half`).
* `GetDate` returns 32 bits (941); `gmtime` may share one buffer (2938).

## 7. Not modelled

* `curl_header_function`, `cURL Escape`, `Unescape`, `VersionInfo`, `GetDate`: no state
  and no interaction; wrappers of one library function each. `curl_get_info` copies
  forty-odd values; what matters of it, when it is called, is in `TransferLoop`.
* `create_folder`, `create_parent_folder`: whether a folder could be made shows as an
  `fopen` that succeeds or fails.
* The 150 single properties of `curl_set_options`: they repeat the kinds in
  `OptionMapper`; a wrong constant in one of them is for a test to find. The list options
  only allocate slists, of which `PluginLifecycle` follows the release.
* Partial writes of one log entry: an entry is one unit. Two streams that write
  inside each other's entries are not told from ones that replace them.
* The contents of a file sent or received by an FTP command: the callbacks are those of
  `DownloadWriter` and `UploadReader`.
* Time zones of a listing, and in `ListingClock` hours and minutes: they are added to the
  day without a branch.
* Conversions of texts and parameters in `4D Plugin API/Classes`; `ARRAY_TEXT` is not
  used.
* `ufopen.c` (not called), build files, the 4D test database.
* Everything vendored: the 4D SDK (`4DPluginAPI.c`), the headers of libcurl, OpenSSL,
  nghttp, ngtcp, zstd, brotli, jsoncpp and libproxy. They are nearly all of the source
  lines of the repository (some 110000 of 115000), declare interfaces and hold no logic
  of the plug-in. The modules cover the plug-in's own few thousand lines; of the
  rest there is nothing to model but what the plug-in observes.

## 8. Plan

Done: all components with state, in the modules of section 2. What would be next, in
this order:

| Module | What |
|---|---|
| `UploadCall` | `UploadReader` inside the performs of the loop, as `DownloadCall`: what status an abort of the read callback gives |
| `PluginLifecycleProofs` | that a command that holds the lock is the only one between `pf` being read and used, as a refinement of a mutual exclusion |
