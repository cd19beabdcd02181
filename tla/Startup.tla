--------------------------------- MODULE Startup ---------------------------------
(***************************************************************************)
(* The main functions of the four programs, up to the point where a        *)
(* command begins its work, and back: logging is configured, the command   *)
(* line parsed, the driver's version looked up, the devices are opened.    *)
(* stid135-blindscan opens a pool of frontends here, each with an epoll of *)
(* its own; the other programs open one device.                            *)
(*                                                                         *)
(* What goes wrong here goes wrong in the descriptors: the kernel hands    *)
(* out the lowest free number, so that a closed number soon means another  *)
(* file.  A second thread of the process, the watchdog of the logging      *)
(* library that looks at the configuration file every second, opens and    *)
(* closes a file at any time.                                              *)
(***************************************************************************)
EXTENDS Integers, Sequences, FiniteSets, FiniteSetsExt, SequencesExt

CONSTANTS
  Programs,     \* which of the programs to start
  AdapterLists, \* external: values of -a (a single adapter but in stid135-blindscan,
                \* which takes a list, empty when -a is not given)
  RfInputs,     \* external: the inputs of the frontend of each adapter
  RfIn,         \* the option --rf-in
  VersionFiles, \* external: what /sys/module/dvb_core/info/version may hold
  FirstFd       \* external: the lowest number that is free

NB == "neumo-blindscan"
SB == "stid135-blindscan"
NT == "neumo-tune"
ND == "neumo-dmx"

ASSUME StartupAssumption ==
  /\ Programs \subseteq {NB, SB, NT, ND}
  /\ \A list \in AdapterLists : list \in Seq(DOMAIN RfInputs)
  /\ VersionFiles \subseteq {"absent", "unreadable", "foreign", "untyped", "unnumbered", "neumo"}
  /\ FirstFd \in Nat

VARIABLES
  prog, adapters, show,  \* the program and its options
  phase,
  parses,       \* how often the command line was parsed
  appenders,    \* the appenders of the root logger
  api_type, valid,       \* driver_info
  has_blindscan,
  fds,          \* external: the open descriptors and what they are
  at,           \* how many frontends were tried
  fefd, efd,    \* the descriptors of the frontend at work
  caps,         \* what the driver says of it
  frontends,    \* the pool
  spectrum_fft_fe, spectrum_sweep_fe,
  tidied        \* how many frontends close_frontends has closed

optionVars == <<prog, adapters, show>>
logVars    == <<parses, appenders>>
versionVars == <<api_type, valid, has_blindscan>>
poolVars   == <<at, fefd, efd, caps, frontends, spectrum_fft_fe, spectrum_sweep_fe, tidied>>
mainVars == <<optionVars, phase, logVars, versionVars, fds, poolVars>>

None == -1
NoCaps == [fft |-> FALSE, sweep |-> FALSE, rf_inputs |-> {}]

-------------------------------------------------------------------------------
(* Descriptors.                                                            *)

Opened(kind, n)  == [kind |-> kind, adapter |-> n, watches |-> None]
Epoll(fd)        == [kind |-> "epoll", adapter |-> None, watches |-> fd]
Watched          == [kind |-> "watchdog", adapter |-> None, watches |-> None]

LowestFree(t) == Min((FirstFd .. FirstFd + Cardinality(DOMAIN t)) \ DOMAIN t)

With(t, file) == [fd \in DOMAIN t \cup {LowestFree(t)} |->
                    IF fd \in DOMAIN t THEN t[fd] ELSE file]

(* close() of a number that is not open fails and changes nothing.         *)
Without(t, set) == [fd \in DOMAIN t \ set |-> t[fd]]

IsOpen(kind, n) == \E fd \in DOMAIN fds : fds[fd].kind = kind /\ fds[fd].adapter = n

-------------------------------------------------------------------------------
(* The single decisions of the code, each next to the faulty variants that *)
(* the mutation runs put in its place.                                     *)

(* epoll_ctl(efd, EPOLL_CTL_ADD, fefd): refused for a number that is not   *)
(* open, for the epoll itself, and for a plain file.                       *)
CanWatch(t, e, f) == f \in DOMAIN t /\ f # e /\ t[f].kind = "frontend"

(* frontend_t::close closes both descriptors.                              *)
Descriptors(fe)  == {fe.fefd, fe.efd}

(* After a refused query the descriptor is closed.  frontend_t::open tells *)
(* so and returns 0.  In neumo-blindscan get_frontend_info, asked instead, *)
(* may have closed it when get_extended_frontend_info closes it.           *)
ClosesAgain(p) == {"close_again"}                                 \* mutant
AfterRefusal(p) ==
  CASE p = SB                   -> {"poll"}
    [] p = NB /\ has_blindscan -> {"close_again", "failed"}
    [] OTHER                    -> {"failed"}

(* open_frontends wants a frontend that can acquire a spectrum.            *)
AnyFrontend == spectrum_fft_fe # None \/ spectrum_sweep_fe = None  \* mutant
HasSpectrum == spectrum_fft_fe # None \/ spectrum_sweep_fe # None

-------------------------------------------------------------------------------
(* create_log has run before main: it logs to the console.                 *)
MainInit ==
  /\ prog \in Programs
  /\ adapters \in AdapterLists /\ (prog # SB => Len(adapters) = 1)
  /\ show \in BOOLEAN
  /\ phase = "logconfig" /\ parses = 0 /\ appenders = {"initial"}
  /\ api_type = "UNDEFINED" /\ valid = FALSE /\ has_blindscan = FALSE
  /\ fds = <<>>
  /\ at = 0 /\ fefd = None /\ efd = None /\ caps = NoCaps
  /\ frontends = <<>> /\ spectrum_fft_fe = None /\ spectrum_sweep_fe = None /\ tidied = 0

(* exit(1), or return from main: the kernel closes what is open.           *)
Exit == phase' = "exit" /\ fds' = <<>>

-------------------------------------------------------------------------------
(* Logging and the driver's version.                                       *)

(* set_logconfig(name): the configuration is looked for beside the build   *)
(* tree.  When it is found, its root logger, which has no appender,        *)
(* replaces the one of create_log; otherwise all stays as it was.          *)
set_logconfig ==
  /\ phase = "logconfig"
  /\ \E found \in BOOLEAN : appenders' = IF found THEN {} ELSE appenders
  /\ phase' = "parse"
  /\ UNCHANGED <<optionVars, parses, versionVars, fds, poolVars>>

(* neumo-blindscan parses its command line twice.                          *)
ParseOptions ==
  /\ phase = "parse"
  /\ parses' = parses + 1
  /\ phase' = IF prog = NB /\ parses = 0 THEN "parse" ELSE "version"
  /\ UNCHANGED <<optionVars, appenders, versionVars, fds, poolVars>>

ParseFails ==
  /\ phase = "parse"
  /\ Exit
  /\ UNCHANGED <<optionVars, logVars, versionVars, poolVars>>

(* driver_info_t::update: only a missing file and a missing setting are    *)
(* caught; a file that cannot be parsed ends the program.                  *)
ApiType(file) == CASE file = "absent" -> "DVBAPI"
                   [] file \in {"unnumbered", "neumo"} -> "NEUMO"
                   [] OTHER -> "UNDEFINED"

(* show_api_version: without Neumo drivers it insists on telling so, and   *)
(* adds a console appender to do it.                                       *)
show_api_version ==
  /\ phase = "version"
  /\ \E file \in VersionFiles \ {"unreadable"} :
       /\ valid' = TRUE /\ api_type' = ApiType(file)
       /\ has_blindscan' = (ApiType(file) = "NEUMO")
       /\ appenders' = IF show \/ ApiType(file) # "NEUMO" THEN appenders \cup {"plain"} ELSE appenders
  /\ IF show THEN Exit ELSE phase' = "console" /\ UNCHANGED fds
  /\ UNCHANGED <<optionVars, parses, poolVars>>

VersionUnreadable ==
  /\ phase = "version" /\ "unreadable" \in VersionFiles
  /\ valid' = TRUE
  /\ Exit
  /\ UNCHANGED <<optionVars, logVars, api_type, has_blindscan, poolVars>>

(* set_console_logging knows only the appender it has added itself.  Before*)
(* it, stid135-blindscan wants blindscan drivers.  Its list of adapters is *)
(* empty when -a is not given: then there is nothing to open.              *)
set_console_logging ==
  /\ phase = "console" /\ ~(prog = SB /\ ~has_blindscan)
  /\ appenders' = IF prog = ND THEN appenders \ {"DynamicConsole"}
                               ELSE appenders \cup {"DynamicConsole"}
  /\ phase' = IF adapters = <<>> THEN "opened" ELSE "open"
  /\ UNCHANGED <<optionVars, parses, versionVars, fds, poolVars>>

DriversMissing ==
  /\ phase = "console" /\ prog = SB /\ ~has_blindscan
  /\ Exit
  /\ UNCHANGED <<optionVars, logVars, versionVars, poolVars>>

-------------------------------------------------------------------------------
(* Opening the devices.                                                    *)

Kind == IF prog = ND THEN "demux" ELSE "frontend"
Adapter == adapters[at]

(* open_frontend, open_demux: a device can be opened once for writing.     *)
OpenDevice ==
  /\ phase = "open" /\ ~IsOpen(Kind, adapters[at + 1])
  /\ at' = at + 1
  /\ fefd' = LowestFree(fds) /\ fds' = With(fds, Opened(Kind, adapters[at + 1]))
  /\ efd' = None /\ caps' = NoCaps
  /\ phase' = IF prog = ND THEN "poll" ELSE "info"
  /\ UNCHANGED <<optionVars, logVars, versionVars, frontends, spectrum_fft_fe, spectrum_sweep_fe, tidied>>

OpenFails ==
  /\ phase = "open"
  /\ Exit
  /\ UNCHANGED <<optionVars, logVars, versionVars, poolVars>>

(* get_extended_frontend_info or, without Neumo drivers, get_frontend_info.*)
(* The other programs leave the epoll to their command.                    *)
GetInfo ==
  /\ phase = "info"
  /\ \E c \in [fft: BOOLEAN, sweep: BOOLEAN, rf_inputs: {RfInputs[Adapter]}] :
       caps' = IF has_blindscan THEN c ELSE NoCaps
  /\ phase' = IF prog = SB THEN "poll" ELSE "run"
  /\ UNCHANGED <<optionVars, logVars, versionVars, fds, at, fefd, efd, frontends, spectrum_fft_fe,
                 spectrum_sweep_fe, tidied>>

GetInfoFails ==
  /\ phase = "info"
  /\ fds' = Without(fds, {fefd})
  /\ phase' \in AfterRefusal(prog)
  /\ UNCHANGED <<optionVars, logVars, versionVars, poolVars>>

CloseAgain ==
  /\ phase = "close_again"
  /\ fds' = Without(fds, {fefd})
  /\ phase' = "failed"
  /\ UNCHANGED <<optionVars, logVars, versionVars, poolVars>>

InfoFailed ==
  /\ phase = "failed"
  /\ Exit
  /\ UNCHANGED <<optionVars, logVars, versionVars, poolVars>>

(* create_poll: epoll_create1, and the frontend is added; neumo-dmx does   *)
(* so in main_dmx.                                                         *)
CreatePoll ==
  /\ phase = "poll"
  /\ LET e == LowestFree(fds)
         t == With(fds, Epoll(fefd)) IN
       /\ prog = SB => CanWatch(t, e, fefd)
       /\ efd' = e /\ fds' = t
  /\ phase' = IF prog = SB THEN "rf_in" ELSE "run"
  /\ UNCHANGED <<optionVars, logVars, versionVars, at, fefd, caps, frontends, spectrum_fft_fe,
                 spectrum_sweep_fe, tidied>>

PollRefused ==
  /\ phase = "poll" /\ prog = SB
  /\ ~CanWatch(With(fds, Epoll(fefd)), LowestFree(fds), fefd)
  /\ Exit
  /\ UNCHANGED <<optionVars, logVars, versionVars, poolVars>>

(* open_frontends goes through the adapters, and ends the program on the   *)
(* first that cannot be used or when none can acquire a spectrum.          *)
AddFrontend ==
  /\ phase = "rf_in" /\ RfIn \in caps.rf_inputs
  /\ frontends' = Append(frontends, [adapter |-> Adapter, fefd |-> fefd, efd |-> efd])
  /\ spectrum_fft_fe' = IF caps.fft /\ spectrum_fft_fe = None THEN Adapter ELSE spectrum_fft_fe
  /\ spectrum_sweep_fe' = IF caps.sweep /\ spectrum_sweep_fe = None THEN Adapter
                                                                    ELSE spectrum_sweep_fe
  /\ phase' = IF at < Len(adapters) THEN "open" ELSE "opened"
  /\ UNCHANGED <<optionVars, logVars, versionVars, fds, at, fefd, efd, caps, tidied>>

CannotUseRfIn ==
  /\ phase = "rf_in" /\ RfIn \notin caps.rf_inputs
  /\ Exit
  /\ UNCHANGED <<optionVars, logVars, versionVars, poolVars>>

open_frontends ==
  /\ phase = "opened"
  /\ IF HasSpectrum THEN phase' = "run" /\ UNCHANGED fds ELSE Exit
  /\ UNCHANGED <<optionVars, logVars, versionVars, poolVars>>

-------------------------------------------------------------------------------
(* The command runs, which the other modules show, and main returns.       *)

CommandReturns ==
  /\ phase = "run"
  /\ phase' = CASE prog = SB -> "tidy" [] prog = ND -> "force_close" [] OTHER -> "done"
  /\ UNCHANGED <<optionVars, logVars, versionVars, fds, poolVars>>

close_frontends ==
  /\ phase = "tidy" /\ tidied < Len(frontends)
  /\ fds' = Without(fds, Descriptors(frontends[tidied + 1]))
  /\ tidied' = tidied + 1
  /\ UNCHANGED <<optionVars, phase, logVars, versionVars, at, fefd, efd, caps, frontends,
                 spectrum_fft_fe, spectrum_sweep_fe>>

FrontendsClosed ==
  /\ phase = "tidy" /\ tidied >= Len(frontends)
  /\ phase' = "done"
  /\ UNCHANGED <<optionVars, logVars, versionVars, fds, poolVars>>

(* force_close of the epoll of neumo-dmx: when a signal interrupts close,  *)
(* the descriptor is gone, and close is called again.                      *)
ForceClose ==
  /\ phase = "force_close"
  /\ fds' = Without(fds, {efd})
  /\ \E interrupted \in BOOLEAN : phase' = IF interrupted THEN "force_close" ELSE "done"
  /\ UNCHANGED <<optionVars, logVars, versionVars, poolVars>>

-------------------------------------------------------------------------------
(* The watchdog thread of the logging library.                             *)
WatchdogFds == {fd \in DOMAIN fds : fds[fd].kind = "watchdog"}

Watchdog ==
  /\ phase \notin {"logconfig", "exit", "done"}
  /\ fds' = IF WatchdogFds = {} THEN With(fds, Watched) ELSE Without(fds, WatchdogFds)
  /\ UNCHANGED <<optionVars, phase, logVars, versionVars, poolVars>>

-------------------------------------------------------------------------------
MainProgram ==
  \/ set_logconfig \/ ParseOptions \/ ParseFails \/ show_api_version \/ VersionUnreadable
  \/ set_console_logging \/ DriversMissing \/ OpenDevice \/ OpenFails \/ GetInfo \/ GetInfoFails
  \/ CloseAgain \/ InfoFailed \/ CreatePoll \/ PollRefused \/ AddFrontend \/ CannotUseRfIn
  \/ open_frontends \/ CommandReturns \/ close_frontends \/ FrontendsClosed \/ ForceClose

MainFinished == phase \in {"exit", "done"} /\ UNCHANGED mainVars

MainNext == MainProgram \/ Watchdog \/ MainFinished

MainSpec == MainInit /\ [][MainNext]_mainVars

-------------------------------------------------------------------------------
(* Correctness.                                                            *)

MainTypeOK ==
  /\ prog \in Programs /\ adapters \in AdapterLists /\ show \in BOOLEAN
  /\ parses \in 0 .. 2 /\ appenders \subseteq {"initial", "plain", "DynamicConsole"}
  /\ api_type \in {"UNDEFINED", "DVBAPI", "NEUMO"} /\ valid \in BOOLEAN /\ has_blindscan \in BOOLEAN
  /\ \A fd \in DOMAIN fds : fds[fd].kind \in {"frontend", "demux", "epoll", "watchdog"}
  /\ at \in 0 .. Len(adapters) /\ Len(frontends) <= at /\ tidied \in 0 .. Len(frontends)
  /\ fefd \in Nat \cup {None} /\ efd \in Nat \cup {None}

Watches(fe) ==
  /\ fe.fefd \in DOMAIN fds /\ fds[fe.fefd] = Opened("frontend", fe.adapter)
  /\ fe.efd \in DOMAIN fds /\ fds[fe.efd] = Epoll(fe.fefd)

(* open returns 0 although the driver has refused a frontend and its       *)
(* descriptor is closed.  Nevertheless, whatever number the watchdog or    *)
(* the epoll takes over meanwhile, every frontend the scan starts with has *)
(* its device open and an epoll that watches this device and no other, and *)
(* one of them can acquire the spectrum.                                   *)
PoolIsOpen ==
  phase = "run" /\ prog = SB =>
    /\ Len(frontends) = Len(adapters) /\ \A i \in DOMAIN frontends : Watches(frontends[i])
    /\ \A i, j \in DOMAIN frontends :
         i # j => Descriptors(frontends[i]) \cap Descriptors(frontends[j]) = {}
    /\ \E i \in DOMAIN frontends : frontends[i].adapter \in {spectrum_fft_fe, spectrum_sweep_fe}

(* When stid135-blindscan returns it holds no device and no epoll.         *)
AllClosed ==
  phase = "done" /\ prog = SB => DOMAIN fds = WatchdogFds

(* No close of the program hits a file of the watchdog: a number is not    *)
(* closed again once it was given back.                                    *)
ClosesAnothers(programs) ==
  /\ prog \in programs /\ phase' # "exit"
  /\ WatchdogFds' # WatchdogFds /\ ~Watchdog

ClosesOwn == [][~ClosesAnothers({SB, NT})]_mainVars

(* "close() should not be retried after an EINTR since this may cause a    *)
(* reused descriptor from another thread to be closed."                    *)
NeverClosesAnothers == [][~ClosesAnothers({ND})]_mainVars

(* get_extended_frontend_info of neumo-blindscan closes twice.             *)
ClosedOnce == [][~ClosesAnothers({NB})]_mainVars

(* "Console logging must be off, or messages will be mixed with data."     *)
ConsoleIsOff == phase = "run" /\ prog = ND => appenders = {}
================================================================================
