# Formal models of the neumo blindscan tools

This directory holds TLA+ models of the programs in `src/`: which transponders
they look for, how they point the dish, how their threads share the work, and
what ends up in their output files. Every module is translated from the code;
line numbers of the code a definition stands for are in `PROJECT.json`, `map`.
`stid135-blindscan.cc` is abbreviated *SB* below, `neumo-blindscan.cc` *NB*,
`neumo-tune.cc` *NT*, `neumo-dmx.cc` *ND*.

Run a configuration with `tlc -config X.cfg M`, a proof with `tlapm M.tla`.

## 1. The system

Four command line programs drive a DVB tuner through the kernel interface of
`neumo-frontend.h`. Only one of them is concurrent.

**stid135-blindscan** (SB) scans with several tuners in parallel.

| component | state | operations |
|---|---|---|
| `scanner_t`, `frontend_t::task` | list of frontends, `spectral_peaks`, `next_to_scan`, two mutexes, output file, totals | `scan`, `scan_band`, `reserve_peak_to_scan`, `bs_printf`, spawn and join |
| plan of passes | the options; nothing changes after parsing | defaults of `parse_options`, double loop of `scan` |
| LNB arithmetic | none | `driver_freq_for_freq`, `freq_for_driver_freq`, `band_for_freq` |
| one peak | `timedout`, `locked`, `count`, counters of the frontend; the event queue of the kernel | `scan_peak`, `flush_events`, `tune_it`, `save_info` |
| dish control | nothing of its own: voltage, tone, switch position live in the equipment | `set_rf_input`, `do_lnb_and_diseqc`, `diseqc`, `tone_off`, `send_diseqc_message` |
| spectrum, candidates | spectrum and candidate buffers | `spectrum_band`, `driver_start_spectrum`, `get_spectrum`, `save_spectrum` |
| opening and closing | file descriptors, epoll | `open`, `init`, `create_poll`, `close` |

The main thread goes through the passes (polarisation × band). In each it
points the dish with the *spectrum frontend*, acquires the spectrum, which
yields candidate peaks, starts one thread per frontend and joins them. All
frontends hang on one cable: the spectrum frontend is its master, the others
are slaves. The threads share the vector of peaks, the output file and nothing
else; they speak to the main thread only by being spawned and joined, and to
the kernel by `ioctl` and `epoll_wait`. Any of them may call `exit(1)`.

**neumo-blindscan** (NB) is sequential. Its fft method leaves the search to the
driver (`main_blindscan_fft`, `scan_band`): it starts the driver's scan of a
band, is told of each transponder by an event, saves it and tells the driver to
continue. Its sweep method (`main_blindscan_sweep`, `scan_freq`) steps through
the range itself. A third command (`main_spectrum`, `spectrum_band`,
`get_spectrum`) saves the spectrum of each band into the file of its
polarisation, and marks where the driver suspects a transponder.

**neumo-tune** (NT) is one pass through a straight line: open the frontend,
flush its events, set the dish, send the tuning request, wait for at most three
events, read the status, save a constellation. It then sleeps or ends.

**neumo-dmx** (ND) selects a stream and pids of a demultiplexer, starts it, and
copies what it reads to standard output until something kills it.

Common to all, with small differences in each:

| component | state | operations |
|---|---|---|
| command line: `parse_options`, `parse_pls`, the vendored parser `CLI11` | the tokens not looked at, the results of each option; `options_t` | `CLI::App::parse`, callbacks and conversions, defaults and completion of the options |
| requests: `cmdseq_t` | up to 15 properties; the driver keeps what it is given until `DTV_CLEAR` | `clear`, `add`, `tune`, `scan` and the functions that fill a request |
| `main`, logging, `driver_info_t` | appenders of the root logger, version and kind of the driver, descriptors | `set_logconfig`, `show_api_version`, `set_console_logging`, opening, `force_close` |

`main` configures the logging, parses the command line, asks which driver is
there, opens the devices, runs one command and returns. The logging library
starts a thread that looks at its configuration file again and again; this is
the only concurrency of the sequential programs.

### What is hard, and what makes each part correct

* **Threads on one vector.** No peak is scanned twice or left out, a vector is
  not replaced under a running thread, no lock is lost on its way to the file.
* **One cable, many tuners.** The LNB is switched only when nobody listens, each
  thread knows what it is set to, and one frontend is master.
* **Edge-triggered waiting.** `create_poll` asks for `EPOLLET`, but one event is
  read for each wakeup. Events that come together, the overflow of the kernel's
  queue (`FE_GET_EVENT` then fails once), a signal, and events of the previous
  peak or pass all meet here. A lock must belong to the peak it is counted for;
  every wait must end.
* **A DiSEqC conversation.** Message, tone and pause must come in an order that
  switches understand, across repetitions, skipped letters, and passes; at the
  end the equipment must be where the program believes it to be.
* **Boundaries.** The switching frequency of the universal LNB ends one pass and
  starts the next; assertions, range conversion and the mirrored C band meet.
* **A loop driven by measurements.** The sweep continues from where the driver
  found something; it must go up and skip nothing.
* **A stream that must not stop.** The demultiplexer's ring overflows when the
  reader is slow, signals interrupt, and writes may be short; the output must
  be what was asked for, in order, and nothing else.
* **Numbers that change hands.** The kernel gives out the lowest free descriptor.
  A number that is closed twice, or used after it was closed, may be another
  file by then: that of the watchdog thread, or the epoll made in between.
* **Between the user and the driver.** A line of tokens becomes options, and
  options become properties. A value must not end up with another option, nor a
  token be passed over; options parsed twice must be the same as options parsed
  once; a request must have room, and must not meet what the driver still keeps
  of a request it refused half way.
* **Failures half way.** Most errors end the program; the interesting ones are
  those that do not, because a result is ignored.

`PROJECT.json`, `hazards`, lists each of these at its line.

## 2. The modules

```
ScanPlan (EXTENDS Lnb)  which passes; frequency conversions
 |- ParallelScan         the threads of SB           implements ScanContract
 |- FrequencyPath        a frequency through SB
 |- BlindscanSession     the fft blindscan of NB
 |- SpectrumCommand      the spectrum command of NB
 |- ProgramOptions (EXTENDS PlsCodes too)   option tables, defaults, completion
     |- CommandLine      the parser and parse_options
         |- DriverRequest    from the options to the driver
Startup                  main of all four, from logging to closing
PeakTuning               one peak in SB              implements PeakContract
SecControl               dish control of SB
SweepScan                the sweep of NB
NeumoTune (EXTENDS Lnb)  the whole of NT
NeumoDmx                 the whole of ND
```

| proofs | about |
|---|---|
| `ParallelScan_proofs` | `ParallelScan` |
| `PeakTuning_proofs` | `PeakTuning` |
| `SecControl_proofs` | `SecControl` |
| `FrequencyPath_proofs` | `FrequencyPath`, `NeumoTune` |
| `BlindscanSession_proofs` | `BlindscanSession` |
| `Commands_proofs` | `Startup`, `SpectrumCommand`, `SweepScan` |
| `DriverRequest_proofs` | `DriverRequest`, `CommandLine` |
| `NeumoDmx_proofs` | `NeumoDmx` |

Each `MC*` module only defines constants for the model checker. A decision of
the code that is easy to get wrong has a definition of its own; the comment
`mutant` marks the faulty variants next to it, which the properties are tested
with. They are used nowhere else.

**How the modules fit.** `ParallelScan` takes a whole call of `scan_peak` for two
or three steps (begin, outcome, save); `PeakContract` says which outcomes that
may be, and `PeakTuning` implements it, liveness included. `ParallelScan` takes
a whole call of `do_lnb_and_diseqc` for the step `SelectBand`; `SecControl` is
that call, and tells when it does what `SelectBand` says. The plan that
`ParallelScan` and `FrequencyPath` walk is the same operator `Plan`.
`DriverRequest` extends `CommandLine`, so a request is one that some command line
leads to; in which order requests come is the matter of the other modules, here it
is any. `ProgramOptions` completes the range of frequencies with the `ScanRange`
of `ScanPlan`, from which `Plan` starts. `Startup` ends where the command
begins, with the pool of open frontends that `ParallelScan` takes for granted,
and goes on where it returns.

### ParallelScan

State: the variables keep their names from the code (`next_to_scan`,
`spectrum_fft_fe`, ...). `mpc` and `tpc[f]` are the places of the main thread
and of the threads; `num_spectral_peaks` is the size of the vector, whose
entries matter only by position. `selected` and `rf_input` are external: what the
LNB was last asked for, and how the driver connects each tuner. `scans` counts
calls of `scan_peak` in a pass (history). `OpenFrontends` takes for one step what
`Startup` does one by one. `spectrum_file` says which bands the file of each polarisation
holds. Whether a spectrum is to be saved at all is an option, `fopen` may be refused and a
timeout yields a spectrum without samples; none of this stops the scan (SB:392), so
`save_spectrum` may write the band or not, or leave the file as it was.

| action | code |
|---|---|
| `OpenFrontends`, `OpenFails` | `open_frontends` |
| `SelectBand` | `scan_band` up to the spectrum, `select_band` |
| `AcquireSpectrum` | `spectrum_band`, `get_spectrum`, `save_spectrum` |
| `ConnectOthers` | `set_rf_input(false)` and `open_output` |
| `Spawn`, `Join`, `CountBand` | the rest of `scan_band`, the sums in `scan` |
| `TaskStart`, `ReservePeak`, `TaskReturn` | `task`, `reserve_peak_to_scan` |
| `PeakSkipped`, `PeakNotLocked`, `PeakLocked`, `SaveInfo` | `scan_peak` |
| `BandFails`, `TaskFails` | every `exit(1)` |

Each section under a mutex is one step, as are the parts of a thread that touch
only its own frontend.

### PeakTuning

One thread and one frontend. The queue has `QueueSize` places and drops the
oldest event when it is full, after which one read fails; `edge` is what
`epoll_wait` waits for. `DriverStatus` and `DriverVerdict` may happen at any time
after the tuning request. `result` and `verdict` record, for each peak, what the
program made of it and what the tuner did.

*Assumptions about the driver.* The constant `ClearsOnTune` says that a tuning
request discards unread events; all runs set it, since `dvb_frontend` does so.
The program itself flushes before the request, not after it. `epoll_wait` has a
timeout of 5000 s and is modelled to expire only after the tuner has finished.

### SecControl

One call of `do_lnb_and_diseqc` after another, each `ioctl` a step. The state
of the equipment (voltage, tone, what each switch was last told, and for how
long the cable has been silent) persists from call to call; the initial voltage
and tone are arbitrary. `ret` is read uninitialised in the code, hence it starts
with either sign in every call. Silence is measured up to `QuietCap`, which is at
least the longest pause of the code, so that this pause is measured in full.

### Lnb, ScanPlan, FrequencyPath

`Lnb` has the three conversions with the assertions they make; `ScanPlan` the
defaults and passes. `FrequencyPath` sends transponders (`sky`) through them:
command line → range for the driver (`AskSpectrum`) → candidate, possibly off by
some kHz (`FindCandidate`) → tuning request (`TuneCandidate`) → saved frequency
(`SaveInfo`).

### BlindscanSession

The passes, the LNB control in front of each, the driver's search, its events
and the wait for them. `lines` holds which transponder of which pass was
written. The driver stops at each transponder until it is told to continue and
reports the end of the band with the timeout bit. *Assumption:* `ClearsOnScan`,
as above: a scan command discards unread events; without it events of one pass
could be written as transponders of the next.

### SpectrumCommand

The same event loop as in `BlindscanSession` (and in the `spectrum_band` of SB),
around a driver that acquires one spectrum for each request. `held` is
the spectrum it holds; what `get_spectrum` appends to the file of a polarisation is
a block that says which pass it came from, which samples are marked, and
which candidate's symbol rate stands there (`MetUpTo` is the walk over samples and
candidates). `acquired` collects the passes in which no read failed and no event
was left behind (history). Setting the LNB, which can fail unnoticed as in
`BlindscanSession`, is left out. *Assumption:* `ClearsOnScan` again.

### PlsCodes, ProgramOptions, CommandLine

`PlsCodes` packs scrambling codes and has `parse_pls`; `ProgramOptions` has the
option tables of the four programs, their defaults, and what `parse_options` does
after the parser. `CommandLine` is the parser, as far as these tables use
it. A token is its text; the constant `Lexicon` says how texts split and read
(`--name=value`, `-xvalue`, numbers, `[16,17]`). A vector of no
items, `[]`, is left out by an assumption: the parser takes the words behind it instead.
What the proofs use of the tables is an assumption too (`TableAssumption`): no name and
no variable belongs to two options, which `add_option` refuses for names; what a callback
sets outside of `options_t` is no member of it; and the ends of the range are whole numbers. TLC
evaluates it on the tables as they are.

| action | code |
|---|---|
| `ParseMark`, `ParseFlag`, `ParseOption`, `ParseUnknown`, `ParsePositional`, `EndOfLine` | one token in `_parse_single`, `_parse_arg`, `_parse_positional` |
| `RunCallback` | one option in `_process_callbacks`, with validation, reduction and conversion |
| `EndOfCallbacks` | `_process_help_flags`, `_process_extras`, the rest of `parse_options` |
| `ParseAgain`, `Parsed` | `main`; NB parses twice, with fresh results but the same options |

### DriverRequest

`Properties` writes down each request of each program as a sequence of
properties, from the options. `Clear` is `DTV_CLEAR` and the building of the
request; `Send` and `Refuse` are what the driver makes of it: it keeps one property
after the other (`cache`) and acts on all it has kept (`executed`), or stops half
way. A thread of SB then goes on, everyone else ends. Frequencies of passes and peaks
are one value, `Asked`.

### Startup

`fds` are the open descriptors and what is behind them; a new one is the lowest
free number. `Watchdog` opens and closes a file at any time. The devices are opened
one after the other (`OpenDevice`, `GetInfo`, `CreatePoll`, `AddFrontend`), every
query may be refused (`GetInfoFails`, after which `AfterRefusal` is what each
program does), and on the way back `close_frontends` and `ForceClose` close them.
A frontend is opened for writing by one at a time, so the same adapter twice
fails; `epoll_ctl` refuses a closed number, the epoll itself, and plain files.

### SweepScan

The loop of one polarisation after the other; a call of `scan_freq` is one step
with its five results. `reach` is how far the range has been searched without a
hole. `misread` notes that `check_lock_status` has failed and its -1 was taken
for a lock: then the sweep goes on from the frequency of an earlier carrier,
and `NoGap` promises nothing. *Assumption:* a step is not longer than a search
window (the defaults are 6 and 10 MHz); the program does not check this.

### NeumoTune

The whole program, with each `ioctl` of the dish a step (`SetVoltage` to
`SetTone`), then `Request` and the wait. The tuner has a `level`: 1 for a
signal, 2 for `FE_HAS_VITERBI`, 3 for `FE_HAS_LOCK`. It may change before the
request too, and an earlier program may have left it locked. `TunerSettles` is
the end of the tuner's search. `ret` is uninitialised as in SB; a string that
begins with a pause or a tone burst is among the command lines.
*Assumption:* a tuning request discards the unread events and resets the
status. Of the time the program sleeps between messages nothing is kept.

### NeumoDmx

Packets are numbered as they arrive and kept in a `ring` until they are read.
`out` is standard output: packet numbers, and 0 for a line of text; `lost`
records what an overflow or a short write has cost. `StreamIsWhole` speaks of the
order of the packets and of the set of them, written, read and unread. *Assumptions about the
demultiplexer*: it refuses `DMX_ADD_PID` on a filter that was not set (on this
`StreamAsRequested` rests, since the program overwrites the result of the first
pid); an overflow throws the ring away; a read of a filter that was never
started returns 0, upon which the program reads again without waiting. The
program is usually ended by a signal, so its safety properties are claimed of
every state and not only of the last.

## 3. Checks

`PROJECT.json` lists, for every property of a run that passes, a mutant of the code
that violates it.

| run | instance | shows |
|---|---|---|
| `two_frontends` | 2 frontends, ≤ 2 peaks, ≤ 2 passes, three command lines | the pool: no peak twice or forgotten, nobody works while the LNB moves, no lock lost, no spectrum wiped out by a later pass; every scan ends; `ScanContract` is implemented, so every peak is tried |
| `peak_tuning` | 2 peaks, 3 reads, queue of 3, ≤ 5 status changes | no lock of an earlier peak is counted, a timeout of the wait never races the answer; `PeakContract` is implemented, so the call returns |
| `sec_control` | 4 passes, 8 command lines, all answers, 3 attempts | tone off before messages, 200 ms after a first transmission (80 where the string has a pause), the same setting on voltage, tone and switch, every command sent, nothing touched without mastership |
| `frequency_path` | 10 command lines, pairs of transponders on and next to each boundary, ±1 kHz | no assertion fails, what is saved is true, the whole range is covered |
| `blindscan_session` | ≤ 2 passes, ≤ 2 transponders each, 2 more status changes, queue of 2, one interruption | lines belong to the transponder they name, all read locks are saved, the session ends |
| `spectrum` | 3 command lines, ≤ 2 passes, 4 spectra, 2 more status changes, queue of 2, one interruption | a file holds spectra of its polarisation, in order and once, marked exactly at the candidates; none is lost whose event is read |
| `sweep` | 2 polarisations, 40 MHz, 15 kinds of carriers | the sweep comes to its end and leaves no hole |
| `neumo_tune` | 7 command lines, all answers and failures, 3 reads, queue of 2, 3 status changes before the request and 3 after, 1 fault | when the dish could be set, the tuner receives what was asked for and the switches agree; a lock and a constellation belong to this request; the program sleeps, ends or fails, and never hangs |
| `neumo_dmx` | 6 command lines, ring of 2, 5 packets, 1 short write | only a completely selected stream is copied, in order and once; each packet is written, waiting or lost for a known reason; an overflow does not stop the stream |
| `startup` | 4 programs, adapters `0`, `0 1`, `1 1`, `2` (without the RF input) and none, 6 kinds of version file | a scan starts with devices that are open, each watched by its own epoll, although refused queries are overlooked; SB and NT close no file of the watchdog |
| `command_line` | for each program every line of ≤ 3 tokens out of 12, and 27 longer ones; 2 requests | an accepted line is read as written and wholly; the options depend on nothing else; a request fits; the driver acts on nothing old |

**Why the bounds are enough.** Two threads and two peaks give every order of two
reservations, of a reservation and a return, and of two saves; two passes give
everything that is carried from one to the next. Proofs remove both bounds. Three reads
against a queue of three with five status changes reach each end of
the loop of `scan_peak` and the overflow; in the code both numbers are larger but
only their order with respect to the events matters. Three attempts replace ten
in `set_rf_input`, whose loop does nothing with the count but compare it.
Silence is measured up to 250 ms since the longest pause is 200. Frequencies
are real, in kHz; the interesting ones are within 2 kHz of a bound. In `NeumoTune`
the number of reads is that of the code, and three status changes are enough to
use them up. In `NeumoDmx` five packets fill a ring of two, overflow it and fill
it again. In `SpectrumCommand` three events (the spectrum and two more) overflow a
queue of two; the spectra have no sample, no candidate, two candidates on samples,
and one off the samples in front of another. In `CommandLine` the parser remembers of
the tokens behind it only the results, the mark `--` and what is left over, and
looks ahead only as far as the words after a vector: three tokens put every kind in
every place, and the longer lines add values for what needs several. Two requests
are a refused one and the next. In `Startup` two frontends, the epoll of each and one
file of the watchdog compete for the numbers.

**Fairness.** `ParallelScan`: each thread is scheduled (weak fairness of the main
thread and of each task), and the wait of `scan_peak` has a timeout, so a scan
ends. `PeakTuning`, `BlindscanSession`, `SpectrumCommand`: the program is scheduled, and
a tuning attempt, a search or an acquisition comes to a result, which is what the
driver is for; its other status changes need not happen. `NeumoTune`: the same.
`SweepScan`, `NeumoDmx`: the program is scheduled; packets need not arrive.
Nothing is assumed strongly fair. `SecControl`, `FrequencyPath`, `DriverRequest` and
`Startup` state no liveness: but for the watchdog and the retry of `close` they are
loops with a fixed number of rounds.

### Where the code does not do what is said of it

The run `pls_modes` ends in a counterexample for `CodesAreAdded`: each entry of
`--pls-modes` throws away the built-in codes and the entries before it (NB:281, the
same in SB and NT), while doc/tuning_scanning.md:99-100 says that codes can be added.

More such statements are written down in the modules. To see one, put it in the place
of the properties of the named configuration; those that end in `_said` list what
they are for, and show it one at a time.

| configuration | property | what happens |
|---|---|---|
| `MCParallelScan_two` | `TotalLockedIsTotal` | low band results are ignored, high band sums are counted again: the printed total is not the number of locks (SB:1724) |
| `MCPeakTuning_lock` | `LockIsSaved` | two events that arrive together wake the thread once; the second, with the lock, is never read (SB:1606), though doc/tuning_scanning.md:117 says "If the transponder locks, the output is saved." |
| `MCSecControl_said` | `ToneIsBand` | with no switch command the tone is never set, whatever the band (SB:1130, comment SB:1127) |
| `MCSecControl_said` | `EveryCommandSent` | a string that starts with a pause reads `ret` uninitialised; a negative value ends the call (SB:1082) |
| `MCSecControl_said` | `ReturnTellsSent` | for a tone burst `diseqc` says that it sent a command and sent none (SB:998-1000, 1089) |
| `MCSecControl_said` | `RetriesLater` | `FE_UNICABLE_DISEQC_RETRY:` is a label without `case`: asked again at once (SB:288) |
| `MCFrequencyPath_said` | `RangeIsCovered` | the bounds of a cable scan are shifted by an LNB's oscillator (SB:889) |
| `MCFrequencyPath_said` | `OnlyRangeScanned` | the start given for a wideband LNB is overwritten (SB:675) |
| `MCBlindscanSession_said` | `LnbAlwaysOnPass` | the answer "unchanged" of the driver counts as a failure, is ignored, and the pass is scanned on the setting of the one before (NB:1319) |
| `MCBlindscanSession_said` | `OnlyRangeScanned` | the high band starts at the switching frequency even if the range starts above (NB:1621) |
| `MCBlindscanSession_said` | `LockIsSaved` | after a failed read `found` is stale, the driver is sent on, and a lock is not written (NB:1487) |
| `MCBlindscanSession_said` | `BandScannedToEnd` | an event that stays unread stalls a band until the wait times out (NB:1459) |
| `MCSpectrumCommand` | `RatesAreTheirs` | the symbol rate printed beside a candidate is that of the next, since the index is advanced in between (NB:766-776) |
| `MCSpectrumCommand` | `OneOffGridIsHarmless` | a candidate that no sample meets is waited for to the end, and no later one is marked (NB:766) |
| `MCSpectrumCommand` | `AcquiredIsAlwaysWritten` | the event of the spectrum stays unread behind another, and the band is left out (NB:1534) |
| `MCPeakTuning`, `ClearsOnTune = FALSE` | `NoStaleLock` | with a driver that keeps unread events, a lock that arrives between the flush and the request is counted for the next peak (SB:1578) |
| `MCBlindscanSession`, `ClearsOnScan = FALSE` | `LinesAreFound` | with such a driver, an event of an earlier transponder is written as one that does not exist (NB:1429) |
| `MCSpectrumCommand`, `ClearsOnScan = FALSE` | `FilesHoldTheirPasses` | with a driver that keeps unread events, the spectrum of the band before is saved again |
| `MCSweepScan_range` | `WholeRangeSearched` | the loop ends below `end_freq` with up to a part of a step unsearched (NB:1567) |
| `MCNeumoTune_said` | `EndsAfterTuner` | three events end the wait before the tuner has settled, and the program ends without the samples (NT:1259; doc/tuning_scanning.md:182 "obtain 8000 IQ samples") |
| `MCNeumoTune_said` | `LockIsReported` | `getinfo` is given the band as the oscillator's frequency and finds every carrier too low to report (NT:1288) |
| `MCNeumoDmx` | `OnlyDataOnStdout` | the line printed for every further pid ends up in the stream (ND:290) |
| `MCStartup` | `ConsoleIsOff` | without Neumo drivers `show_api_version` adds a console appender that `set_console_logging` does not know (ND:341 "console logging must be off, or messages will be mixed with data") |
| `MCStartup` | `NeverClosesAnothers` | `force_close` calls `close` again after a signal, which its own comment (util.cc:40-46) warns of |
| `MCStartup` | `ClosedOnce` | after a refused query NB closes the descriptor twice (NB:844-845) |
| `MCDriverRequest` | `StrayWordsAreRefused` | the name `L` in `--lnb-type,L` makes a positional argument: a stray word sets the type of the LNB |
| `MCDriverRequest` | `OptionsAreNoValues` | `-d -e` gives `-d` the value `-e` |
| `MCDriverRequest` | `HelpIsAnswered` | a mistake elsewhere on the line is reported instead of the help |

In the same way these can be seen to hold: `TypeOK` of every module with its
configuration; `SpectrumReadOnce` with `MCBlindscanSession`, `AllClosed` with `MCStartup`, and under `FairSpec` `SpectrumEnds` with
`MCSpectrumCommand`.
`MCParallelScan_three` checks `IInv`, the inductive invariant of the proofs, and
`OneMaster` with three threads and three peaks.

## 4. Proofs

The proofs hold for all values of the constants that satisfy the assumptions in
the modules: positive numbers of frontends, any number of peaks, any command
lines and any lexicon, any list of adapters, any sky, any spectrum, any carriers
inside their window.

**ParallelScan_proofs.** The safety properties are not inductive: that a peak
is not handed out twice needs that a peak in a thread's hands is at most
`next_to_scan`; that all were scanned when all are joined needs that whoever returned
found `next_to_scan` at the end, and that no thread exists outside of spawn and
join; that the LNB is not switched under a thread needs the same. `IInv` is
`TypeOK` and four parts: `PassInv` (the pass exists), `ThreadInv` (which threads
exist, from the loop variable), `PoolInv` (which peaks are handed out, to whom)
and `DishInv` (who is connected, who is master, what is selected). One lemma for
each part shows that every step keeps it. From `IInv` follow `ScannedOnce`,
`JoinComplete`, `LnbAgreement`, `SingleMaster` and the action property
`LnbSwitching`. `Refinement` shows that the pool implements the safety part of
`ScanContract`: `ReservePeak` is a claim, the end of a peak's scan a finish, the
end of `AcquireSpectrum` an announcement, `exit(1)` an abort, and every other
step a stutter.

**FrequencyPath_proofs.** `RoundTrip`: the two conversions are inverse. The
invariant says that passes lie on one side of the switching frequency, that the
asked range is the image of the pass, and that a candidate lies in the pass
(for the C band LNB, whose conversion has no assertion, nothing is needed). So
`NoAssertionFails`, for candidates however far off their transponder, and
`FileIsTrue`: what is saved is true, except for a low band candidate exactly on
the switching frequency, which `scan_peak` counts to the high band.

**FrequencyPath_proofs, NeumoTune.** `LockIsOfThisRequest`: the wait ends with a lock
only if the tuner had one since the request. So until the request nothing is locked,
and after it neither the tuner's level nor that of any unread event is above the best
since then (`LevelReached`); this is why the assumption that a request discards unread
events is needed. `TunedToRequest` follows the voltage, the tone and what each switch was
told through the steps of the dish (`DishAgrees`). Its second half had to be strengthened:
that the tone was turned off says nothing of a switch, but that a switch was sent
something implies that the tone was off, and only a failed call leaves it off.

**Commands_proofs, Startup.** `PoolIsOpen` is about the end of a loop in which every
query may be refused while the watchdog takes and returns numbers. The
invariant has for each phase how many frontends are in the pool (`Counted`), that
each of them which was not closed yet watches its own device and no two share a number
(`PoolWatches`), what is known of the frontend at work, whose number may
by now be a file of the watchdog (`AtWork`), and that whoever is to acquire the spectrum is in the
pool (`Acquire`). A new number is one that is not in use since some number up to the
size of the table is free (`LowestIsFree`, by counting). `ClosesOwn`, that SB and NT
close no file of the watchdog, is the action property that comes with it.

**Commands_proofs, SpectrumCommand.** `FilesHoldTheirPasses`: in each file the passes
ascend (`PassesAscend`), which needs that the spectrum the driver holds is of this
pass when an event says that there is one. Under `ClearsOnScan` such events are of this
pass (`EventsAreOfThisPass`); the theorem has it as hypothesis, and without it the
property is false (section 3). `AcquiredIsWritten` needs no such hypothesis: the event of
the spectrum is the last of the queue until it is read, also when the queue
overflows (`EventIsLast`); hence a pass that left no event behind has read it and
written (`AcquiredHeld`), and no later pass opens a file anew that holds something
(`OpenWhileItsPol`). `MarksAreCandidates` is about the walk over samples and candidates, a recursive
function. That it exists is proved for every length, and that a sample is marked exactly when it is
a candidate by the least sample for which it would not be (see *Induction* below).

**Commands_proofs, SweepScan.** `GoOnStep` shows once, for every result of a search, that
the loop moves up and leaves no hole if the frequency it moves to leaves none;
each action then only shows the latter. `FinitelyManySearches` is the part of
`SweepEnds` that needs no fairness: what is left of the range, and the ranges of the
polarisations to come, are added up to a natural number that every step makes smaller
(`LeftToSweep`) as long as the sweep goes on, also when the driver answers with a frequency below the present one or
a failed status is taken for a lock.

**DriverRequest_proofs.** `NothingStale` compares what the driver acts on with the
request alone; it needs that while a request is under way the driver keeps nothing
of those before (`NothingKept`), which `Clear` establishes whatever became of the
request before it. `AlwaysFits`: each request is a concatenation of parts whose
lengths and names are known (`Fits`); joined parts have room for both, and no name
twice if they share none (`Joined`). The longest request has at most 13 properties,
against room for 15. This holds for every command line, since a list of codes
is one property however long it is.

**DriverRequest_proofs, CommandLine.** `ReadAsWritten` and `NothingIgnored` compare, at the end,
the results with the line. The invariant `LineInv` has where the parser is
(`Place`): at the end, or at some token, or at what a flag in that token has put back (`-dv` becomes
`-v`); and every token before that is treated: each piece of it has given a result to
the option it names, or it stands in the results of some option, or something is left
over, on which the program ends. Every result of an option stands at its name
(`ResultsSaid`), and once the callbacks have gone past an option they have looked at all it
has (`Looked`). Both theorems are about a `PlainLine`: a token of short options stands
for two of them at most, as `-dv` does. `-dev` is a line of the
program too, but the properties' notion of the pieces of a token stops at two. All lines of
the run `command_line` are plain, and `PlainLine /\ LineInv` was checked in all
its states.

`OptionsAreOfTheLine` says for NB, which parses its line twice into the same options, that
this makes no difference. Three things are needed. The second parse gives every option the results of
the first: the next token, mode and results follow from the present ones
(`ReadingIsAfter`), and of the configurations reached from the start of the line only one
has no token left (`OneEnd`). A callback sets the member of its option and no other
(`CallbackSets`), so that after all of them each member is what the results say, or what it was before
the parse (`OptsInv`). And what was completed may be completed again
(`CompletedTwice`): the type of the LNB, the ends of the range, and the codes, of which each
entry that matches starts a new list (`PlsAgain`). For the range it is needed that a value was converted
to a number, hence that the callbacks have accepted it.

**PeakTuning_proofs.** That no lock of an earlier peak is counted is carried by the
queue: every event in it is about the peak the frontend is tuned to, and a lock it
tells was one (`HonestQueue`). A tuning request brings this about only if it discards
unread events, so `NoLockIsStale` has `ClearsOnTune` as its hypothesis; this is what the
driver does (section 2), and without it the property is false. `LostLockIsUnread` needs no
hypothesis: a lock that the thread has not read is in the queue, since an overflow drops
the oldest event only when another that tells the lock has arrived (`LockKept`). For
this a lock must not be read as a timeout, which the first form of the invariant
left out: no event tells both (`OneVerdict`). `RefinesContract` shows the safety half of
`ImplementsContract`: `Reserve`, the decision of the loop and the end of `save_info`
are the steps of `PeakContract`, all others stutter.

**SecControl_proofs.** The invariant follows one call through its loop: the
frontend is master from the reservation to the tone (`MasterHeld`), the voltage
stays (`VoltageHeld`), the tone stays off once `tone_off` was called (`ToneHeld`), each
command sent is what its switch was told last (`SentHeld`), the commands
that both loops have passed were sent (`LoopsSent`), and after a first transmission a
pause is due or over (`PauseDue`). From it follow `DiseqcWithToneOff`,
`LongPauseAfterFirst`, `LnbOnSetting`, `OnlyMasterControls`, and that a call that
reports success has sent every command (`CompletedCalls`). That *every* call sends them,
`AllSent`, is false for strings in which a pause, a tone burst or an unknown letter
comes before the first command that is sent (section 3); the theorem is for `Orderly` strings, in which any such letter
stands behind a command that was sent. The default `UC` has no such letter, and
all requests of the run `sec_control` are orderly.

**BlindscanSession_proofs.** `ReadMeansSaved` and `LinesAreFound` need, as in
`PeakTuning`, that an event which tells a lock is about the transponder at which the
driver stands, and so have the hypothesis `ClearsOnScan`; `ReadMeansSaved` also
needs that the driver is told to continue only from a transponder that was saved
(`SavedFirst`), as long as no read has failed. `SpectrumReadOnce` needs neither: as long as
the first result has not come the pass has written no line, and the end of the band is seen
only by an event that ends the loop (`SpectrumInv`).

**NeumoDmx_proofs.** `StreamAsRequested`: a refused source ends the program, hence
the sources selected are those asked for up to the present request
(`SourcesHeld`); the pids are the first `next_pid` or none, and none only before the
second (`PidsHeld`), since the demultiplexer refuses further ones then.
`StreamIsWhole` is taken apart: standard output, buffer and ring are each in order,
and one before the other (`InOrder`), and together they hold all but what was lost
(`NoneMissing`). Lemmas say what concatenation, cutting and appending do to
both.

**ParallelScan_proofs, files.** `SpectrumKept`: the file of a polarisation holds no bands
but those of the passes acquired so far (`FileInv`), so a pass that creates the file finds
nothing in it to lose: within one plan a pass appends whenever an
earlier one is of its polarisation (`PlanAppends`). `Appends` asks whether the range
starts in the low band, and that is also when there is a low pass. Nothing is said of
what was written, since the program goes on whether or not it could.

**More about the two scans.** `LocksAreSaved` (ParallelScan): a step of `save_info`
writes a line that is not yet in the file, because a line of the present pass is about a
peak that was handed out and that no thread holds (`LineInv`), and the file stays open
while there are threads. The locks counted are the set `Counted` of pairs, whose size
needs no sum. `NothingLeftOut` (FrequencyPath): a pass is left only when all that is
audible in it was saved (`CoverInv`), and by a lemma about `PlanOf` and the conversions
every transponder in the range is audible in some pass (`PlanIsCovered`). Its
hypothesis `Convertible` is a dish, and for a C band LNB a range below 11.7 GHz, where the
whole C band is; for cable the property is false (section 3).

**Induction.** Theorems of induction take a predicate as parameter, which none of the
provers can instantiate. What is inductive over data is therefore proved by a least
counterexample: a set of natural numbers that is not empty has a least member
(`LeastNumber`, from the well-foundedness of `<`), and the set is that of the numbers for
which the claim fails. So for the marks of a spectrum, for the lists of results that
`FlattenSeq` joins (that there is such a list, and what is in it), and for the fold over the entries of
`--pls-modes`. What the parser comes to is defined without numbers, as what
is in every set that holds the start and is closed under its steps.

**Only model-checked.** Everything about liveness (`ScanEnds`, the fair parts of both
contracts, `SessionEnds`, `SpectrumEnds`, `SweepEnds`, `ComesToAnEnd`, `StreamGoesOn`),
since the proof system does not reason about fairness; of `SweepEnds` the safety half is
proved.

## 5. What is not modelled

* Contents of spectra, constellations, candidate levels and tuning parameters
  other than frequencies; display, sorting and formatting of output.
* The merge of candidates into the spectrum that SB saves: it walks like that of
  `SpectrumCommand`. SB's choice of the spectrum frontend ignores
  `--spectrum-method` (SB:386), and `rf_in`, -1 unless given, is an
  input no frontend has; `Startup` takes the input as a constant.
* Overflow: satellite frequencies in kHz stay far below 2^31, but
  `1000 * search_range` of an absurd option, and flag values of more digits than a
  number has, are not followed; nor is the factor 1000 that SB:889 applies to cable
  frequencies. `mode` and `code` in `parse_pls`, uninitialised for an entry that does
  not match, are only logged.
* How many candidates a driver returns against the size that SB:1262 announces
  for its buffer: the program cannot know it.
* Of the parser `CLI11`: subcommands, option groups, configuration files,
  environment variables, required, excluded and needed options, and the text of help
  and errors; the programs use none but the last. How a text splits into name,
  value and items is the `Lexicon`, not the splitting code.
* Ends of a range of codes: NT packs them as it does single codes, NB and SB send
  them as they are; the model follows each, but says nothing of what the driver
  makes of them. The same holds for the code that NT puts on top of a stream.
* Names of modulations and code rates (`dvb_strings.cc`), layout of log lines, the
  Python scripts: output only. The kernel driver is external and modelled by what
  the programs rely on.
* Two programs at a time on one adapter, except that a device may be busy.

## 6. Plan

In order of importance; done: items 1 to 11.

1. `ParallelScan`, `ScanContract`, `ScanPlan`, and their proofs.
2. `PeakTuning` with `PeakContract`.
3. `SecControl`.
4. `FrequencyPath` and its proofs.
5. `BlindscanSession`.
6. `SweepScan` and its proofs.
7. `NeumoTune`.
8. `NeumoDmx`.
9. `SpectrumCommand`: the event loop of `spectrum_band`, the walk over samples and
   candidates against a set-based definition.
10. `PlsCodes`, `ProgramOptions`, `CommandLine`, `DriverRequest` and its proofs.
11. `Startup`: opening and closing with the epoll wrapper, failure half way.
12. A composition of `SecControl` with the passes of `ParallelScan`: `SelectBand`
    as a refinement of the whole call.

Theorems next: that refinement, and the parser on lines that are not plain.
