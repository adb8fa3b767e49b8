# A formal model of PiThermostatCPP

TLA+ specifications of the thermostat program under `src/`, the TLC runs that
check them on small instances, and proofs, checked by TLAPS, that hold for all
instances.  The program is a controller thread that reads a sensor and drives a
relay, a multithreaded web server through which users set the operating band,
and a few helpers (display, database, login cookies), in one process under
systemd.

Everything below refers to files by their path in the repository; line numbers
without a directory are in `src/src/`.

## 1. Inventory

| Component | State | Operations | What is hard |
|---|---|---|---|
| **Controller** (`controller.h`, `controller.cpp:21-119`) | `minTemp`, `maxTemp`, `temp` (plain floats), `parametersMutex`, settings, `parameters.json` | `getParameters`, `setParameters`, `setMinTemp`, `setMaxTemp`, `toDisk`, `checkTemp` | called by all web workers and by the loop; `toDisk()` ignores the mutex, `checkTemp()` writes `temp` without it; the file is truncated before it is written, so a crash or a second writer in between ruins it |
| **HardwareController** and **Relay** (`controller.cpp:121-186`, `relay.cpp`) | pin mode and level, the atomic flag `state`, `lastSave`, start of the current period | constructor, `run()`: read, decide, switch, log, save | pin and flag change one after the other; the pin outlives the process; hysteresis; rows of table `States` are written for the period that ends |
| **HardwarelessController** (`controller.cpp:188-242`) | an atomic flag instead of the relay | the same loop | both branches assign `true` |
| **checkTemp** (`controller.cpp:102-119`) | `sum`, `t`, `numOfReads`, `readDelay` | a round of reads and sleeps, the average | signed sum, unsigned divisor that can wrap to zero; a file that cannot be opened; settings that were checked after conversion to unsigned |
| **Cookie** (`cookie.h`, `cookie.cpp`) | the vector `cookies`, `cookiesMutex`, `lifetime` | `generateCookie`, `verifyCookie`, `cookieCleaner` | logins, middleware and the cleaning thread interleave; a `weak_ptr` is locked after the mutex was released; the clock can be corrected |
| **Site**, **Authentificator** (`site.h`, `site.cpp`) | password hash, the cleaning thread, one request for each worker | routes, the middleware, `auth`, `getParams`, `setParams`, history queries, `shutdown` | a session that ends between middleware and handler; JSON that lacks a key; dates that are none; nine queries to choose from; a login whose cookie is gone; saving, then a minute until the power-off, which comes whether or not the process is still there |
| **Display** (`display.h`, `display.cpp`) | `number`, `numberMutex`, segment and digit pins | `show()`, `pinsInit()`, `run()` | `run()` copies `number` without the mutex while `show()` assigns it twice; text longer than there are digits; the decimal point is carried over; pins outlive the process |
| **DataBase** (`database.h`) | the tables, one SQLite connection shared by all threads | two inserts, `queryDB` and its nine queries | inserts that fail are only logged; a query that fails half-way has filled half of the answer; rows arrive while it steps; days and durations are measured with a clock that can be set |
| **App**, `main` (`app.cpp`, `main.cpp`) | configuration | parse, construct, start two threads | a file that does not parse ends the process, at every restart |
| **systemd unit** (`src/build/additional_files/RPIThermostat.service`) | - | `Restart=on-failure` | - |
| Web pages, vendored libraries | - | - | used through their interface only |

How they interact.  `App` builds one controller and one site and runs each on
a thread of its own; the site's server adds its workers, `Site::run` the
cleaning thread, and each controller a thread that stores a temperature every
ten minutes.  Workers call the controller (`getParameters`, the setters,
`toDisk`) and the cookie store; the loop calls the same `getParameters` and
`toDisk`.  Threads share memory under two mutexes and meet, besides, in three
places that no mutex guards: `temp`, the reads of `toDisk()`, and the file.
State that survives the process: `parameters.json`, the rows of the database,
the level of the relay's pin.

What makes each component correct.
*Controller*: nobody ever sees, or decides by, one bound of the old band and
one of the new; the band in memory reaches the disk; the disk can be read back.
*HardwareController*: the pin is what the flag says, after any crash; the
heater changes only by a decision about one sample, the right way, and does not
chatter; it heats when it is cold; the log tells what happened.
*checkTemp*: the reading is the average.
*Cookie*: a token names one session; a session lasts its lifetime; old cookies
go away; a login is answered.
*Display*: every digit shows what it should on its own pin.
*DataBase*: an answer is complete or says that it is not.
*Site*: every route but `/auth` is guarded; every request is answered, or ends with the
process.

`PROJECT.json` lists what can go wrong at which line ("hazards") and which
property watches it.

## 2. The modules

| Module | What it is |
|---|---|
| `Controller` | the base class: band, mutex, `toDisk()`, requests, life and death of the process |
| `HardwareController` | EXTENDS `Controller`: relay, loop, log; the specification of one thermostat |
| `HardwarelessController` | EXTENDS `Controller`: the loop without a relay |
| `Thermostat` | abstract: what a thermostat promises, without threads, locks or pins |
| `CheckTemp` | `checkTemp()` and the `numOfReads` the constructor leaves it |
| `CookieStore` | the login cookies with workers, cleaner and clock |
| `Sessions` | abstract: what login sessions promise |
| `Display` | the display's thread, and `show()`, byte by byte |
| `DataBase` | the tables, the threads that write to them, and `queryDB` step by step |
| `Site` | EXTENDS `DataBase`, uses `Sessions`: middleware, every route, the process around them |
| `MC...` | the constants of the runs |
| `Controller_proofs`, `HardwareController_proofs`, `HardwarelessController_proofs`, `CookieStore_proofs`, `CheckTemp_proofs`, `Display_proofs`, `DataBase_proofs`, `Site_proofs` | the proofs |

How they compose.  `Site` uses the sessions through `Sessions`, the
specification that `CookieStore` is proved to implement, and reads or sets the
band in one step, which is what `HardwareController` is proved to guarantee
(`Refinement`: a setter takes effect, and an answer is taken, at one moment of the
call).  So the server's specification stays small
and does not repeat the mutexes and the scan of the cleaner.  `toDisk()`, which
takes no mutex, is step by step in both.  The loop's steps
that matter to the database (switch, insert, restart of the period) are in
`DataBase` again, at the grain the durations need.

### Controller, HardwareController, HardwarelessController

A thread's place in the code is `pc[t]`, its `Parameters` record `local[t]`.
One action is one access that another thread can tell apart.  What a thread does
under `parametersMutex` is split only where something outside the mutex can see
the difference:

| Action | Code |
|---|---|
| `BeginGetParameters`, `EndGetParameters` | `getParameters()`: lock and copy of `temp` (which its lock does not protect); copies of the band and of `getState()`, unlock |
| `BeginSetParameters`, `EndSetParameters` | `setParameters()`: two assignments; `toDisk()` may run between them |
| `SetOneBound` | `setMinTemp()`, `setMaxTemp()`: what `/setParams` calls when the other key is null |
| `ToDiskReadMin`, `ToDiskReadMax`, `ToDiskOpen`, `ToDiskWrite` | `toDisk()`: two unlocked reads, the truncating `ofstream`, the write when the stream is destroyed.  `ToDiskReadMin` is part of the step of its caller (`Save`, `Shutdown`) |
| `Start`, `SetupPinMode`, `SetupPinLevel` | `App::App`, the constructors, `Relay::setup()` |
| `StartFails` | `json::parse` throws out of `main` |
| `ReadSensor` | `checkTemp()` as the loop sees it: one assignment of `temp` |
| `TakeParameters` | end of `getParameters()` and `display.show()` |
| `Decide`, `SetRelayState`, `LogSwitch` | the two conditions; the pin; then the flag; then the INSERT, which may fail |
| `SaveIfDue`, `CtlToDisk` | the end of the iteration |
| `Crash` | death at any step; the pin keeps its level, or, if the board lost power, becomes an input |

Data that the properties do not tell apart is abstracted: temperatures are a
set of integers (tenths of a degree), the text of a band is its length, and the
clock behind `saveInterval` is what it has advanced since `lastSave`
(`sinceSave`): an iteration adds one, up to where more makes no difference, and
`ClockIsSet` moves it to any value, back behind `lastSave` too.  The file keeps
the band written last and its size: a text that is written over a longer one
leaves the longer one's tail, and then does not parse.  The history variable
`disturbed` has the threads inside `toDisk()` that a setter or another `toDisk()`
has overlapped; it is what `UndisturbedSavesAreWhole` needs to tell a save that was
left alone from one that was not.

In `Thermostat` there are no threads, pins or locks: a band, a heater, the reading
just made, the sample taken of both, and what is shown.  `Read`, `TakeSample` and
`Decide` follow each other; only `SetBand` changes the band, and only to bounds a
client chose, both or one of them; `Answer` gives a client the band as it is at that
moment; a sample is the band as it is and the reading as it was made, and it is what
is shown.  That is more than `SnapshotConsistent`, which allows a band that was in
force at any time before.

`HardwarelessController` differs where the code does: no pin, `state` is set
in one step, and both branches of the decision set it.

### CheckTemp

One round is `ReadSensor`, `numOfReads` times, then `AssignTemp`.  The sleep of
`readDelay / numOfReads` behind each read changes no state, and no step stands for
it.  Integers wrap as `int` and `unsigned int` do (`WordSize`; TLC's own integers
have 32 bits, so the run uses a word of 30).  A read that fails adds 0 (text that
is not a number) or garbage (`t` is not initialised when the file cannot be
opened).  The rounding of `float` is left out.

### CookieStore

`cookiesMutex` is a variable.  What a thread does under it is one step, except
where something outside can come in between: `generateCookie()` draws a token that
is no copy (`BeginGenerateCookie`), then looks at the clock and stores the cookie
(`EndGenerateCookie`); the cleaner's scan looks at the clock once per cookie
(`BeginClean`, `Scan`, `Erase`).  Without the mutex two workers could draw the same
token, each before the other has stored it.  `Site::auth` has a third step,
`AnswerLogin`, because the `weak_ptr` is locked after the mutex is released; if the
cookie is gone by then, `Segfault`.  The clock is `high_resolution_clock`, which is
the system clock in libstdc++, so `StepBack` and `StepForth` correct it.  The
characters of a token are abstracted: the loop of `generateToken` that draws
another token while one is in use becomes the guard `~IsCopy(tok)`.

In `Sessions` there is no vector: each token has the time since which its
session is open, or none.  A session is good while its age on the system clock is
within `Lifetime`, and may be forgotten only when it is beyond.  The mapping
takes a cookie that the scan has passed for forgotten already; it is erased
whatever the clock says by then.

### Display

`number` is a `std::string`, and both threads touch it without agreement:
`show()` holds `numberMutex`, `run()` does not take it.  The string is modelled
as what libstdc++ makes of it, an inline buffer and a length.

| Action | Code |
|---|---|
| `BeginShow`, `CopyByteIn`, `EndAssign` | `number = std::to_string(temp)`: the bytes, then the length and the NUL behind them |
| `Cut` | `number = number.substr(0, number.find('.') + 2)`: the bytes are the same, the length shrinks |
| `InitDigits`, `InitSegments` | `pinsInit()`, both loops over the pins |
| `ReadLength`, `CopyByteOut` | `std::string temperature = number`: the length first, then the bytes |
| `Dot`, `Clear`, `Light`, `Enable`, `Disable`, `EndPass` | the loop over the characters from the last to the first: clear the segments, remember a dot, set the segments of the glyph, pull the digit's pin low, push it high again |
| `Abort` | `numberConstructor.at()` throws out of a thread, which ends the process |
| `Crash`, `Restart` | the pins keep their levels; the initial text is `00.0` |

`digitPins[posShift]` behind the end of the vector is any number the heap holds
there: a digit's, a segment's or some other pin.  What is left out is the nap
between two digits.

### DataBase and Site

A row is its table, its state, the moment of its `DATE()` and `TIME()`, and for
`States` its duration; the other columns are abstracted.  A moment is a tick of the
clock, and a day is `DayLength` of them, so a date may be a day or a time of a day.
A statement is `Prepare`, then `StepRow` (one row of the answer), `StepAverage` (the
one row of an average) or `StepFails` (any of the error exits), then `StepDone`.
Inserts come in between, on the same connection; SQLite leaves open whether a
statement sees rows that arrive after it has begun, and so does the model.
`InsertTemp` is the ten-minute thread; `SwitchRelay`, `InsertState` and
`RestartPeriod` are the loop's switch, its INSERT, and `stateTime = now()` behind
it.  `Tick` and `Correct` move the clock.

A worker of `Site` goes through `Receive`, `BeforeHandle` (the middleware), one of
the handlers, and `Reply`; Crow sends no response that nobody has ended, so `Reply`
waits for one.  `/auth` has no middleware.

| Action | Code |
|---|---|
| `BeginAuth`, `EndAuth` | `auth()`: `generateCookie()`, then `lock()`, before which the cleaner may have erased the cookie |
| `SetParams` | a JSON value is a number, a null, a text or missing: a text throws where it is converted, a missing key trips the assertion in the `const operator[]` |
| `History`, the steps of `queryDB`, `AnswerHistory` | the four history handlers; `Range` is their choice between the nine queries.  `startDate` and `endDate` are any texts: absent or empty, `24h`, a date, or something of which `julianday()` makes NULL |
| `BeginShutdown`, `BeginLoopSave`, `ReadOtherBound`, `OpenFile`, `WriteFile`, `EndShutdown` | `toDisk()` by a worker and by the loop: two reads, the truncating open, the write |
| `Abort` | the process dies of a missing key, of a multipart body without parts, or of a `weak_ptr` that has expired |
| `PowerOff` | `shutdown +1` is the system's: it comes to a process that serves on, to one that has been restarted, or to none |
| `Restart`, `StartThrows` | `App::App` parses `parameters.json`, or throws |

The file is `"none"` (opened, not yet written), `"whole"`, or `"mixed"` (possibly:
one of two writers at once may have left the tail of a longer text); only a whole one
lets the program start.  `setParameters()` is one step here, so the two reads of
`toDisk()` may come in either order: a read before and one after a new band give
both mixtures, as the reads around a single assignment do in the code.

What a client wants is said by the meaning of its words (`Wanted`), not by the
queries: `24h`, or no date at all, means the past 24 hours.  `Kept` names the two
places where less is returned than that, each of them a disagreement listed below.

### Conventions

An operator `X_<Bug>` is `X` as a plausible mistake would have it.  No
specification uses these; each property of a passing run has one that breaks it
(`PROJECT.json`, "mutants"), which shows that the property depends on the code.
Variables marked *history* in their declaration exist only for properties.

## 3. The runs

Passing runs:

| Run | What it shows |
|---|---|
| `hw_safety` | two workers, two requests, one crash: `TypeOK`; `SnapshotConsistent` (no torn band in any snapshot); `RelayAgreesWithPin`; `LogMatchesRelay`; `SwitchesCrossTheBand` (hysteresis: of two switches about one band, one is below its minimum and the other above its maximum); `Inv` (the inductive invariant of the proofs); `ImplementsThermostat` (refinement of `Thermostat`) |
| `hw_live` | with fairness: `HeatsWhenCold`, `BandReachesDisk`, `RestartReleasesHeater`; and, with a request to shut down beside the loop's saves, `UndisturbedSavesAreWhole` (a save that no setter and no other save overlaps leaves a file that parses and has the band in memory, whatever was in the file) |
| `hwless` | the same questions for the loop without hardware, as far as it has the parts |
| `checktemp` | `AveragesWarmReadings` (right to a tenth of a degree, unless a read failed or the sum is below zero) |
| `cookie` | two workers, and the clock set back and forth: `TokensUnique`, `SessionsLastTheLifetime`, the inductive invariant `Inv`; `ImplementsSessions` (refinement of `Sessions`); `PassErasesExpired` and, with fairness, `ExpiredAreErased` |
| `display` | `NoGhosting` (no two digits at once, nothing left over from another digit) whatever `show()` does in the meantime; `QuietPassIsSafe` and `FrameIsNumber` for passes that no `show()` overlapped; with fairness, `ShowsTheNumber` |
| `site` | `NothingWithoutASession`; `AnswersAreComplete` (status 0 means: everything that was asked for and is kept, in order, and nothing else); `DurationsAreReal`; `SetsWhatWasAsked`; with fairness, `EveryRequestIsAnswered` (logins, shutdowns and queries too) |

Runs that TLC must find violated; each is a statement of the documentation that
the program does not keep, with the quotation in `PROJECT.json`, "findings":

| Run | What happens |
|---|---|
| `doc_restart` | the process dies between the truncating open and the write of `parameters.json`; the empty file does not parse, no restart succeeds, and a relay that was on stays on |
| `doc_saved_band` | `toDisk()` reads one bound before and one after `setParameters()` and saves a band nobody asked for |
| `doc_24h` | a temperature stored yesterday, less than 24 hours ago, is missing from the answer to a request for the past 24 hours: the query compares days |
| `doc_average` | a negative sum is divided as an unsigned number |
| `doc_login` | the clock is set forward after `generateCookie()`; the cleaner erases the cookie; `lock()` returns null |

### Bounds

In `hw_safety` temperatures are 1 to 4, and the bands that clients post `<2,2>` and
`<3,3>`; one-sided changes make of them the band `<2,3>`, which has a temperature
below, two inside and one above it, so that a loop that switched off inside its
band would be seen, and the empty band `<3,2>`.  A change of band changes what a
temperature means.  The long behaviours of the other two runs have temperatures 1
to 3, below, inside and above `<2,2>`.  The texts of different bands
differ in length.  Two requests suffice for two workers to meet in the mutex;
one crash suffices because everything but the file and the pin is reset by the
restart, and both are free in the initial states or written before the crash.
`SaveInterval` 1, in `hw_safety` and `hwless`, makes the loop save in some iterations
and not in others; 0, in `hw_live`, in every iteration unless the clock was set back.
The clock is set once in the runs with liveness, up to `MaxBack` behind `lastSave`.
A session's `Lifetime` of 1 gives cookies that are fresh, at the limit and
expired; two tokens give the cleaner a prefix of nought to two cookies to erase, and
two workers a token to draw twice; the second tick ends a session that the first
found at its limit, and a correction, back or forth, puts the clock on either side of
every comparison.
The numbers of reads of `checktemp` are one, an odd one, the default of the
documentation, and the zero that is replaced by 4; the readings lie on both sides of
zero and of a tenth of a degree.
The display of `display` has three digits and the texts `-12.300` and
`-4.500`: before the cut both are too long for it; after the cut one fills it, and
the other, shorter one leaves a digit dark and bytes of the longer one in the
buffer.  Two calls of `show()` let the second overlap with a pass that began
during the first; one crash leaves every combination of pins to the next process.

`site` spends a budget of events instead of having one bound for each: two
requests with an insert of a temperature and a correction of the clock; two
requests with a switch; two requests with a save of the loop and a death, which is
enough for a login and a guarded request, for two saves that overlap, and for a
band to be set, lost and reloaded, or a file that no start can parse; two requests
with two ticks, enough for a session (`Lifetime` 1) to expire between middleware and
handler and for a cookie to be erased under its login; and no request, but two
switches, three ticks, a correction and a death for the durations.  A day is two
ticks, and the clock begins at 2.  The old rows are of both tables and both states,
at 0, 1 and 2: a day ago, yesterday but within a day, and today.  The spans of the
requests make every case of `Range`, with a last day of `24h`, texts that are no date
and a first date with a time of day among them.  The requests include each
combination of number, null, text and missing key that takes another path, and the
logins a right password, a wrong one, and none.  There are as many tokens as logins
in flight, so none waits for a free one.

`MaxRequests`, `MaxShutdowns`, `MaxClockSets`, `MaxBack`, `MaxCrashes`, `MaxUptime`,
`MaxCorrections`, `MaxShows` and `Budgets` only cut off the state space; the proofs hold for all
their values.

The runs with liveness properties use no symmetry, since symmetry reduction is not
sound for them.  Deadlock is checked in every run: a loop, a cleaner or a display
can always go on, or a start can fail again.

### Fairness

`Fairness` in the two controller modules: weak fairness of starting
(`Restart=on-failure` in the service file), of the loop's own steps and of
finishing a request that was begun, which is no more than a scheduler that runs
every runnable thread.  The loop's wait for `parametersMutex` is an action of its
own (`AskParameters`) with weak fairness.  `std::mutex` promises no more than
that, and it suffices because the requests in front of it are bounded; with an
unbounded stream of requests the loop could wait for ever, and the model does
not claim otherwise.  Requests, crashes and shutdowns are not fair: they need
not happen.  In `CookieStore` the cleaner, a `generateCookie()` that has begun and the restart are
weakly fair (`sleep_for` returns; no thread is stopped); `Tick` is not.  In `Display`
both threads' own steps and the restart are weakly fair; `show()` need not be
called.  In `Site` every worker that has a request is scheduled (`Serve`), and that
includes the steps of its login, its save and its query, but not `QueryFails`: no
statement need fail.  A worker that can do nothing itself, because nobody ended its
response, is not helped by that.

`ExpiredAreErased` and `BandReachesDisk` therefore say nothing of how long it
takes.

## 4. The proofs

All theorems hold for every set of temperatures, bands, workers and tokens, and
all bounds, under the assumptions in the modules: the loop's thread is not a
worker, `None` is nothing else, temperatures are integers, a text has a positive
length, a band of the file is of the temperatures.

`HardwareController_proofs`: `InvHolds` proves `Spec => []Inv`.  `Inv` is
inductive and has these parts:

- `LockInv`: the mutex is held exactly by the thread that is between its lock and
  its unlock, and a process that is not up has no busy worker.  Without it,
  nothing excludes a setter from the middle of a snapshot.
- `BandInForce`: when no setter is half-way, the pair in memory is a band that
  was in force as a whole; with `LockInv` this makes `EndGetParameters` keep
  `SnapshotConsistent`.
- `RelayInv`: at which labels of the loop the flag is about to be or has just
  been changed.  `RelayAgreesWithPin` alone is not inductive, as it says nothing
  of the pin before `setup()` has run.
- `SaveInv`: a thread in `toDisk()` that nothing has disturbed is alone there, no
  worker is inside `setParameters()`, and what it has read so far is what is still
  in memory; once it has opened the file, the file is empty.
- `ReadingInv`: while the loop holds the mutex, the `temp` it has copied is the one
  `checkTemp()` made, since no worker writes `temp`; and nothing is shown before
  the loop begins.
- `LogInv`, and `LastSwitchInv`: the last switch left its sample on the side of
  the band that the pin shows: a pin that is low was pulled below `minTemp`, one
  that is high was released above `maxTemp`.  A step of `Decide` that switches back is
  on the other side by its own condition, so the two samples have the whole band
  between them, which is `NoChatter`; it needs no assumption on the band.

From it follow `TypeCorrect`, `SnapshotsAreConsistent`, `RelayAgrees`,
`LogMatches`, `NoChatter` and `SavesAreWhole`.  `SavesAreWhole` is the positive
side of `doc_saved_band` and `doc_restart`: it says how far `toDisk()` can be relied
upon without a lock, namely whenever nobody gets in its way, and that it then
repairs what races and crashes have left.  The base class's part is proved in
`Controller_proofs`, one lemma per action, and used for both controllers.

`Refinement` proves `Spec => ImplementsThermostat`.  The refinement mapping
lets a band be in force from the first of the two assignments on, so its
`maxTemp` is the one that a worker inside `setParameters()` is about to assign;
the reading is what `checkTemp()` left in `temp` until the loop has taken it from
there; the sample is what `getParameters()` gave the loop, while it decides; what is
shown is what the display was told; an answer is what `getParameters()` returned to
a worker, until its request is finished.  The steps map as follows, and no step has a
choice:

| Step | of `Thermostat` |
|---|---|
| `SetupPinLevel` | `Start` |
| `ReadSensor` | `Read` |
| `TakeParameters` | `TakeSample`: the loop holds the mutex, so no worker is half-way (`LockInv`), and the copy of `temp` is the reading (`ReadingInv`) |
| `Decide` | `Decide`, with the heater for the flag by `RelayInv` |
| `BeginSetParameters`, `SetOneBound` | `SetBand`: the mutex was free, so the band in force was the one in memory |
| `EndSetParameters` | nothing: what was about to be assigned is |
| `EndGet` | `Answer`: the worker holds the mutex, so no other worker is half-way |
| `Reply` | `Leave` |
| every other step of the loop and the workers | nothing (`Unobserved`, from `InForceKept` and `AnswersKept`) |
| `Crash` | `Stop`, or `Stopped` if it was not up yet |
| `Start`, `SetupPinMode` | `Stopped` |

`HardwarelessController_proofs`: `TypeCorrect`, `SnapshotsAreConsistent`,
`SavesAreWhole`, from the same lemmas about the base class.

`CookieStore_proofs`: `InvHolds`, `TypeCorrect`, `UniqueTokens`,
`SessionsLast`.  The inductive invariant adds `LockInv` (the mutex belongs to the one
worker that has drawn a token and not yet stored its cookie, and no cookie has that
token: without it `TokensUnique` is not inductive), `AgesInv` (the age of a cookie by
the clock is off from its real age by no more than the corrections), `ErasedInv`
(a token that was issued and is not in the vector was old enough) and `ScanInv`
(so is what the scan has passed and is about to be erased, although the clock may
go back before the erasure).  `Refinement` proves `Spec => ImplementsSessions`
for any corrections of the clock: the end of `generateCookie` maps to `Login`, its
beginning and the answer to nothing, a verification to
`Verify`, one step of the scan to `Forget`, the erasure to nothing.  `PassesErase`
proves `PassErasesExpired` from `OrderInv`: as long as nobody sets the clock back,
the vector is in the order of creation and the scan began no later than now, so
that the first fresh cookie ends the expired ones.

`CheckTemp_proofs`: `TypeCorrect`; `AveragesAreRight` for every number of reads, under the assumption `Fits(m)` that no sum of `m`-bounded
readings leaves the `int`: then no step wraps, and `sum` is what the sensor held.

`Display_proofs`: `TypeCorrect`, `NeverGhosts`, `QuietPassesAreSafe`,
`FramesAreNumbers`, for any texts that `std::to_string` can return, any number of
digits and any number of shows and deaths.  The invariant follows the bytes:
`BufferInv` says what `number` holds while `show()` is and is not at work,
`CopiedInv` that a copy no `show()` overlapped is the text, `ShiftInv` and
`ShownInv` how far the pass has come with it; `PassInv` and `PinsInv`, which need
none of these and hold for every copy however torn, give `NoGhosting`.

`DataBase_proofs` and `Site_proofs`: `TypeCorrect`, `Access`, `SetsBounds`, `Durations`,
`CompleteAnswers`, for any requests, workers, tokens, old rows and clock.

- `AccessInv` follows the workers: who is not idle has a request and a living
  process, and what is in a handler or was served has its own positive verdict.
  A verdict is reset by a restart, which only happens when all workers are idle.
- `SetParams` is compared with what was asked by the kinds of the two values; the
  only other step that takes a worker out of that handler is the death of the
  process, which does not touch the band.
- `PeriodsInv` bounds what the loop would take for the current period by the slack
  that INSERTs and corrections have caused, at each of its three places.
- `QueriesInv` says that an answer so far has all known selected rows up to the
  cursor, in order, and none that is not selected; a row that arrives has an index
  beyond all known ones.  `RangesAreRight` compares the WHERE clause of each
  route with what the words of the request mean, for every text that may be given as
  a date; `DayOrder` has the arithmetic of days it needs.
- The saves of `toDisk()` by workers and loop, and the file, have types of their own
  (`SaveTypes`, `FileTypes`), from which the band that a restart loads is a band.

- `TypeCorrect` needs more than the types: that the current period began
  no later than now (`PeriodTypes`), and that a query has read no further than
  the rows there are (`WithinRows`).

They assume of requests only what the parsers can return, which for the dates is any
text (`RequestsAssumption`), of `parameters.json` that it begins with a band
(`BandsAssumption`), and of the old rows that their durations are taken at their word.

Only model-checked: all liveness (`HeatsWhenCold`, `BandReachesDisk`,
`RestartReleasesHeater`, `ExpiredAreErased`, `ShowsTheNumber`,
`EveryRequestIsAnswered`), which TLAPS cannot prove under fairness.  Every
invariant and action property of the passing runs, and both refinements, are
theorems.

## 5. Disagreements without a run

Found while modelling, kept here because no property of a module states them:

- The sample `parameters.json` (`src/README.md:97-98`) has `minTemp` 29 and
  `maxTemp` 0.3, an empty band: both conditions of the loop can hold, and the
  relay switches in every iteration.  `SwitchesCrossTheBand` holds of such a band, too,
  and says little of it: every temperature between its bounds is on both sides.
- The loop and `/shutdown` can save at the same time; the shorter text is written
  over the longer one, whose tail stays, and the file does not parse any more.
  The loop's next save repairs it (`BandReachesDisk`), unless the power goes first.
- `Display::run` copies `number` without `numberMutex` (`display.cpp:34`).  The copy
  can be the long text of `std::to_string` before the cut: `digitPins` is indexed
  behind its end, and stray pins are driven; or end in the NUL of a shorter text,
  on which `numberConstructor.at()` throws and the process dies.  `NoGhosting` and
  `QuietPassIsSafe` confine the harm, `ShowsTheNumber` says that it passes.
- A temperature with more digits than the display has pins does the same without
  any race (`display.cpp:57`); `README.md:88` lists "pins responsible for each digit
  segment", and nothing bounds the text.
- `refresh.js:4-9` reads `data["temp"]`, while `/getParams` puts its values under the key
  `data`; the bundled pages never send the `Authorization` header that the
  middleware reads, and `/auth` sets no cookie in the browser; the dashboard's
  form posts to `/shutdown`, which is a GET route.
- The loop without hardware assigns `true` in both branches (`controller.cpp:214`),
  logs "switch turned off" (`controller.cpp:215`) and inserts a row for a switch that did
  not happen.
- A `startDate` or `endDate` of which `julianday()` makes NULL, `endDate=24h` among
  them, is answered by an empty list with status 0 (`site.cpp:166-183`); a `startDate`
  with a time of day leaves out the rows of that day, because a row is compared by the
  beginning of its day (`database.h:65`).  The latter is in `Kept`.
- `stateTime` restarts after the INSERT of a period, so the time the INSERT takes
  is in no period (`slack` in `DurationsAreReal`).
- A `numOfReads` of 2^30 makes the unsigned divisor 0 (`DivisorAssumption` excludes
  it from the model; the program would die of the division).
- `README.md:83` calls `readDelay` "the delay between temperature readings";
  `controller.cpp:113` divides it by `numOfReads`, so that it is the delay of all
  readings of a round together.
- `readDelay < 0` and `numOfReads < 0` (`controller.cpp:33,38`) can never be true of an
  unsigned: the default of 2000 (`controller.cpp:40`) is never taken, a negative delay
  becomes a sleep of weeks, and a negative number of reads a round without end.
- `temp` is returned and stored before the first `checkTemp()` assigns it.
- After the clock is set back, a pass can leave an expired cookie behind a fresh
  one: the scan stops at the first that is not expired.
- `/dashboard` without a cookie answers 401 instead of redirecting; `/shutdown`
  is `+1`, not `-P now`; the documented `config.json` lacks the keys
  `hardwareless` and `refreshRate`, which the program needs.

## 6. Not modelled

- `App`: which keys `config.json` has and which controller it selects is settled
  before any state exists, so the two controllers are two specifications, and a
  missing key is an end, not a behaviour.  Construction, the start of the threads,
  the failure to parse `parameters.json`, and the restart are modelled.
- The systemd unit beyond `Restart=on-failure`: start limits and delays.
- The text of HTTP: parsing of headers, multipart bodies and query strings,
  rendering of JSON and pages, comparison of password hashes.
- Values of columns in the database; how long anything but a period takes; the rounding of `float`; the
  display's refresh delay; the letters of a token.
- Browser code (`build/additional_files/static`), which keeps no protocol state.
- Vendored code (`src/dependencies`: SQLite, nlohmann::json, Crow, WiringPi), which
  is nearly all of the repository's text.  It enters through its documented
  behaviour: `sqlite3_exec` and `sqlite3_step` that may fail, `json::parse` that
  throws, `digitalWrite`, `std::mutex`.  Of the program's own 1,400 lines in
  `src/src`, two thirds are mapped to a definition; the rest is includes,
  declarations, log lines and configuration.

Data races beyond those listed (`temp`, `minTemp` and `maxTemp` are plain floats)
are modelled as one access each, which is what an aligned float is on the target.

## 7. Order of work, and what is left

1. `Controller`, `HardwareController`, `Thermostat`, `HardwarelessController`,
   `CheckTemp`, `CookieStore`, with the proofs of safety and the first refinement.
2. `Sessions` for any clock and the refinement by `CookieStore`; proofs of
   `CheckTemp`.
3. `Display`, byte by byte, with its proofs.
4. `DataBase` and `Site`, over `Sessions`, with their proofs.
5. The type invariant of `Site`; what `toDisk()` can be relied upon for; a
   `Thermostat` that also has the reading, the setters, the answers and what is
   shown, and the refinement of it.
6. Dates of any form and moments instead of days in `DataBase`; `toDisk()`, the
   login's two steps, starts that fail and a power-off that outlives the process in
   `Site`; `cookiesMutex` with two workers in `CookieStore`; a clock that can be set
   behind `saveInterval`.

Left: a composition of `CheckTemp` with the decision of `HardwareController`, which
would carry the wrapped average of frost into a relay that switches off in the cold;
and one process in which the loop's `show()` is the caller of `Display`, which today
is any caller.
