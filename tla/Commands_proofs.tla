---------------------------- MODULE Commands_proofs ----------------------------
(***************************************************************************)
(* The main functions of the programs and two commands of neumo-blindscan. *)
(*                                                                         *)
(* Startup, for every list of adapters and whatever the watchdog thread    *)
(* opens and closes meanwhile: the frontends a scan starts with are open   *)
(* and watched, and no file of another thread is closed.                   *)
(*                                                                         *)
(* The spectrum command, for every command line, spectrum and queue: the   *)
(* files hold what was acquired, in its place, and its candidates marked.  *)
(*                                                                         *)
(* The sweep, for every range, step, search range and whatever the driver  *)
(* finds: it leaves no gap and never goes back.                            *)
(***************************************************************************)
EXTENDS Startup, SpectrumCommand, SweepScan, FiniteSetTheorems, SequenceTheorems,
        WellFoundedInduction, TLAPS

(* The order of the natural numbers is well founded; hence each non-empty  *)
(* set of them has a least element.                                        *)
NatOrder == {pair \in Nat \X Nat : pair[1] < pair[2]}

LEMMA LeastNumber ==
  ASSUME NEW T, T \subseteq Nat, T # {}
  PROVE  \E x \in T : \A y \in T : x <= y
<1>1. IsWellFoundedOn(NatOrder, Nat)
  <2>1. NatOrder = OpToRel(<, Nat)
    BY DEF NatOrder, OpToRel
  <2> QED BY <2>1, NatLessThanWellFounded, Zenon
<1>2. PICK x \in T : \A y \in T : <<y, x>> \notin NatOrder
  BY <1>1, WFMin, Zenon
<1>3. ASSUME NEW y \in T
      PROVE  x <= y
  <2>1. x \in Nat /\ y \in Nat
    BY Zenon
  <2>2. <<y, x>> \notin NatOrder
    BY <1>2, Zenon
  <2> QED BY <2>1, <2>2 DEF NatOrder
<1> QED BY <1>3

-------------------------------------------------------------------------------
(***************************************************************************)
(* The main functions.                                                     *)
(***************************************************************************)

(* A table of descriptors, each a number.                                  *)
Table(t) ==
  t = [fd \in DOMAIN t |-> t[fd]] /\ IsFiniteSet(DOMAIN t) /\ DOMAIN t \subseteq Nat

(* The types of the variables before the devices, and of the others.       *)
LogTypes ==
  /\ prog \in Programs /\ adapters \in AdapterLists /\ show \in BOOLEAN
  /\ parses \in 0 .. 2 /\ appenders \subseteq {"initial", "plain", "DynamicConsole"}
  /\ api_type \in {"UNDEFINED", "DVBAPI", "NEUMO"} /\ valid \in BOOLEAN /\ has_blindscan \in BOOLEAN

PoolTypes ==
  /\ \A fd \in DOMAIN fds : fds[fd].kind \in {"frontend", "demux", "epoll", "watchdog"}
  /\ at \in 0 .. Len(adapters) /\ Len(frontends) <= at /\ tidied \in 0 .. Len(frontends)
  /\ fefd \in Nat \cup {None} /\ efd \in Nat \cup {None}

Prelude == {"logconfig", "parse", "version", "console"}

(* What each phase knows of the program, and how far the adapters are.     *)
Counted ==
  /\ at \in 0 .. Len(adapters) /\ tidied \in 0 .. Len(frontends)
  /\ prog # SB => Len(adapters) = 1 /\ frontends = <<>>
  /\ phase = "logconfig" => parses = 0
  /\ phase = "parse" => parses \in 0 .. 1
  /\ phase \in Prelude => at = 0 /\ frontends = <<>>
  /\ phase = "open" => at = Len(frontends) /\ at < Len(adapters)
  /\ phase \in {"info", "poll", "rf_in", "close_again"} => at = Len(frontends) + 1
  /\ phase = "opened" => at = Len(adapters) /\ at = Len(frontends) /\ prog = SB
  /\ phase \in {"run", "tidy"} /\ prog = SB => at = Len(frontends) /\ at = Len(adapters)
  /\ phase = "info" => prog # ND
  /\ phase = "poll" => prog \in {SB, ND}
  /\ phase = "rf_in" => prog = SB
  /\ phase = "close_again" => prog = NB
  /\ phase = "force_close" => prog = ND
  /\ phase \notin {"tidy", "exit", "done"} => tidied = 0

(* The pool: what was not closed yet watches its device, and no descriptor *)
(* is two frontends'.                                                      *)
PoolWatches ==
  /\ frontends \in Seq([adapter : DOMAIN RfInputs, fefd : Nat, efd : Nat])
  /\ \A i \in DOMAIN frontends :
       phase \notin {"exit", "done"} /\ i > tidied => Watches(frontends[i])
  /\ \A i, j \in DOMAIN frontends :
       i # j => Descriptors(frontends[i]) \cap Descriptors(frontends[j]) = {}

(* The frontend at work is none of the pool's; the number of a refused one *)
(* may have been taken over by the watchdog.                               *)
AtWork ==
  /\ phase = "info" => fefd \in DOMAIN fds /\ fds[fefd] = Opened("frontend", Adapter)
  /\ phase = "poll" /\ prog = SB /\ fefd \in DOMAIN fds =>
       fds[fefd] \in {Opened("frontend", Adapter), Watched}
  /\ phase = "rf_in" => Watches([adapter |-> Adapter, fefd |-> fefd, efd |-> efd])
  /\ phase = "rf_in" => \A i \in DOMAIN frontends :
       Descriptors(frontends[i]) \cap {fefd, efd} = {}
  /\ phase \in {"info", "poll"} => \A i \in DOMAIN frontends : fefd \notin Descriptors(frontends[i])

(* The frontends that acquire the spectrum are of the pool.                *)
Acquire ==
  /\ \A number \in {spectrum_fft_fe, spectrum_sweep_fe} \ {None} :
       \E i \in DOMAIN frontends : frontends[i].adapter = number
  /\ phase = "run" /\ prog = SB => HasSpectrum

PoolInv == PoolTypes /\ Table(fds) /\ Counted /\ PoolWatches /\ AtWork /\ Acquire

StartInv == MainTypeOK /\ PoolInv
(* The kernel finds a number that is not in use among the first            *)
(* Cardinality(DOMAIN t) + 1.                                              *)
LEMMA LowestIsFree ==
  ASSUME NEW t, IsFiniteSet(DOMAIN t)
  PROVE  LowestFree(t) \in Nat /\ LowestFree(t) \notin DOMAIN t
<1> DEFINE D == DOMAIN t
           c == Cardinality(D)
           I == FirstFd .. FirstFd + c
           S == I \ D
<1>1. c \in Nat /\ FirstFd \in Nat
  BY FS_CardinalityType, StartupAssumption
<1>2. IsFiniteSet(I) /\ Cardinality(I) = c + 1
  <2>1. PICK b \in Int : b = FirstFd + c
    BY <1>1
  <2>2. IsFiniteSet(FirstFd .. b)
        /\ Cardinality(FirstFd .. b) = IF FirstFd > b THEN 0 ELSE b - FirstFd + 1
    BY <1>1, FS_Interval
  <2> HIDE DEF c
  <2> QED BY <1>1, <2>1, <2>2
<1>3. S # {}
  <2>1. SUFFICES ASSUME I \subseteq D
                 PROVE  FALSE
    OBVIOUS
  <2>2. Cardinality(I) <= c
    <3> HIDE DEF I
    <3> QED BY <2>1, FS_Subset
  <2> QED BY <1>1, <1>2, <2>2
<1>4. S \subseteq Nat
  BY <1>1
<1>5. \E x \in S : \A y \in S : x <= y
  <2> HIDE DEF S
  <2> QED BY <1>3, <1>4, LeastNumber
<1>6. LowestFree(t) \in S
  <2> HIDE DEF S
  <2>1. Min(S) \in S
    BY <1>5 DEF Min
  <2> QED BY <2>1 DEF LowestFree, S
<1> QED BY <1>4, <1>6

(* What open adds to a table of descriptors.                               *)
LEMMA WithAdds ==
  ASSUME NEW t, NEW file, Table(t)
  PROVE  /\ Table(With(t, file))
         /\ LowestFree(t) \in Nat /\ LowestFree(t) \notin DOMAIN t
         /\ DOMAIN With(t, file) = DOMAIN t \cup {LowestFree(t)}
         /\ With(t, file)[LowestFree(t)] = file
         /\ \A fd \in DOMAIN t : With(t, file)[fd] = t[fd]
<1> DEFINE e == LowestFree(t)
<1>1. e \in Nat /\ e \notin DOMAIN t
  BY LowestIsFree DEF Table
<1> HIDE DEF e
<1>2. With(t, file) = [fd \in DOMAIN t \cup {e} |-> IF fd \in DOMAIN t THEN t[fd] ELSE file]
  BY DEF With, e
<1>3. IsFiniteSet(DOMAIN t \cup {e})
  BY FS_AddElement DEF Table
<1>4. DOMAIN With(t, file) = DOMAIN t \cup {e} /\ With(t, file)[e] = file
      /\ \A fd \in DOMAIN t : With(t, file)[fd] = t[fd]
  BY <1>1, <1>2
<1>5. With(t, file) = [fd \in DOMAIN With(t, file) |-> With(t, file)[fd]]
  BY <1>2
<1> QED BY <1>1, <1>3, <1>4, <1>5 DEF Table, e

(* What close takes away.                                                  *)
LEMMA WithoutTakes ==
  ASSUME NEW t, NEW set, Table(t)
  PROVE  /\ Table(Without(t, set))
         /\ DOMAIN Without(t, set) = DOMAIN t \ set
         /\ \A fd \in DOMAIN t \ set : Without(t, set)[fd] = t[fd]
<1>1. IsFiniteSet(DOMAIN t \ set)
  BY FS_Difference DEF Table
<1> QED BY <1>1 DEF Table, Without
(* The kinds of files do not meet: a file of the watchdog is no device.    *)
LEMMA Kinds ==
  /\ \A kind, n : Opened(kind, n).kind = kind
  /\ \A fd : Epoll(fd).kind = "epoll"
  /\ Watched.kind = "watchdog"
BY DEF Opened, Epoll, Watched

(* The names of the programs differ.                                       *)
LEMMA ProgramNames ==
  SB # NB /\ SB # NT /\ SB # ND /\ NB # NT /\ NB # ND /\ NT # ND
BY DEF SB, NB, NT, ND

(* The list of adapters is a sequence.                                     *)
LEMMA AdaptersType ==
  ASSUME MainTypeOK
  PROVE  /\ adapters \in Seq(DOMAIN RfInputs) /\ Len(adapters) \in Nat
         /\ \A i \in 1 .. Len(adapters) : adapters[i] \in DOMAIN RfInputs
<1>1. adapters \in Seq(DOMAIN RfInputs)
  BY StartupAssumption DEF MainTypeOK
<1> QED BY <1>1

(* The invariant holds before main.                                        *)
LEMMA StartInit ==
  ASSUME MainInit
  PROVE  StartInv
<1>1. adapters \in Seq(DOMAIN RfInputs)
  BY StartupAssumption DEF MainInit
<1>2. frontends = <<>> /\ Len(frontends) = 0 /\ DOMAIN frontends = {} /\ DOMAIN fds = {}
      /\ frontends \in Seq([adapter : DOMAIN RfInputs, fefd : Nat, efd : Nat])
      /\ phase = "logconfig" /\ at = 0 /\ tidied = 0
      /\ spectrum_fft_fe = None /\ spectrum_sweep_fe = None
  BY DEF MainInit
<1>3. MainTypeOK
  <2>1. prog \in Programs /\ adapters \in AdapterLists /\ show \in BOOLEAN
        /\ valid \in BOOLEAN /\ has_blindscan \in BOOLEAN
    BY Zenon DEF MainInit
  <2>2. parses \in 0 .. 2 /\ appenders \subseteq {"initial", "plain", "DynamicConsole"}
        /\ api_type \in {"UNDEFINED", "DVBAPI", "NEUMO"}
        /\ fefd \in Nat \cup {None} /\ efd \in Nat \cup {None}
    BY DEF MainInit
  <2>3. \A fd \in DOMAIN fds : fds[fd].kind \in {"frontend", "demux", "epoll", "watchdog"}
    BY <1>2
  <2>4. at \in 0 .. Len(adapters) /\ Len(frontends) <= at /\ tidied \in 0 .. Len(frontends)
    BY <1>1, <1>2
  <2> QED BY <2>1, <2>2, <2>3, <2>4 DEF MainTypeOK
<1>4. PoolTypes
  BY <1>3 DEF MainTypeOK, PoolTypes
<1>5. Table(fds)
  <2>1. fds = [fd \in DOMAIN fds |-> fds[fd]]
    BY DEF MainInit
  <2> QED BY <1>2, <2>1, FS_EmptySet DEF Table
<1>6. Counted
  <2>1. at \in 0 .. Len(adapters) /\ tidied \in 0 .. Len(frontends)
    BY <1>1, <1>2
  <2> QED BY <1>2, <2>1 DEF MainInit, Counted, Prelude
<1>7. PoolWatches
  BY <1>2 DEF PoolWatches
<1>8. AtWork
  BY <1>2 DEF AtWork
<1>9. Acquire
  BY <1>2 DEF Acquire
<1> QED BY <1>3, <1>5, <1>6, <1>7, <1>8, <1>9, <1>4 DEF StartInv, PoolInv

(* Before the devices are opened, only the types of the log and of the     *)
(* driver's version change; after it nothing of them does.                 *)
LEMMA LogStep ==
  ASSUME StartInv, [MainNext]_mainVars
  PROVE  LogTypes'
<1> USE DEF optionVars, logVars, versionVars
<1>1. LogTypes /\ Counted
  BY DEF StartInv, PoolInv, MainTypeOK, LogTypes
<1>2. CASE set_logconfig
  BY <1>1, <1>2, Zenon DEF LogTypes, set_logconfig
<1>3. CASE ParseOptions
  <2>1. parses' \in 0 .. 2
    BY <1>1, <1>3 DEF ParseOptions, Counted
  <2> QED BY <1>1, <1>3, <2>1, Zenon DEF LogTypes, ParseOptions
<1>4. CASE show_api_version
  <2>1. PICK file \in VersionFiles \ {"unreadable"} :
          /\ valid' = TRUE /\ api_type' = ApiType(file)
          /\ has_blindscan' = (ApiType(file) = "NEUMO")
          /\ appenders' = IF show \/ ApiType(file) # "NEUMO" THEN appenders \cup {"plain"}
                                                           ELSE appenders
    BY <1>4 DEF show_api_version
  <2>2. api_type' \in {"UNDEFINED", "DVBAPI", "NEUMO"}
    BY <2>1 DEF ApiType
  <2>3. valid' \in BOOLEAN /\ has_blindscan' \in BOOLEAN
    BY <2>1, Zenon
  <2>4. appenders' \subseteq {"initial", "plain", "DynamicConsole"}
    BY <1>1, <2>1, Zenon DEF LogTypes
  <2> QED BY <1>1, <1>4, <2>2, <2>3, <2>4, Zenon DEF LogTypes, show_api_version
<1>5. CASE VersionUnreadable
  BY <1>1, <1>5, Zenon DEF LogTypes, VersionUnreadable
<1>6. CASE set_console_logging
  <2>1. appenders' \subseteq {"initial", "plain", "DynamicConsole"}
    BY <1>1, <1>6, Zenon DEF LogTypes, set_console_logging
  <2> QED BY <1>1, <1>6, <2>1, Zenon DEF LogTypes, set_console_logging
<1>7. CASE UNCHANGED <<optionVars, logVars, versionVars>>
  BY <1>1, <1>7, Zenon DEF LogTypes
<1>8. set_logconfig \/ ParseOptions \/ show_api_version \/ VersionUnreadable
      \/ set_console_logging \/ UNCHANGED <<optionVars, logVars, versionVars>>
  BY Zenon DEF MainNext, MainProgram, MainFinished, mainVars, ParseFails, DriversMissing, OpenDevice,
     OpenFails, GetInfo, GetInfoFails, CloseAgain, InfoFailed, CreatePoll, PollRefused, AddFrontend,
     CannotUseRfIn, open_frontends, CommandReturns, close_frontends, FrontendsClosed, ForceClose,
     Watchdog
<1> QED BY <1>2, <1>3, <1>4, <1>5, <1>6, <1>7, <1>8


(* The program ends: nothing is open, and nothing is watched any more.     *)
LEMMA ExitStep ==
  ASSUME PoolInv, Exit, UNCHANGED <<optionVars, poolVars>>
  PROVE  PoolInv'
<1> USE DEF optionVars, poolVars
<1>1. phase' = "exit" /\ fds' = <<>> /\ DOMAIN fds' = {}
  BY DEF Exit
<1>2. PoolTypes'
  BY <1>1 DEF PoolInv, PoolTypes
<1>3. Table(fds)'
  <2>1. fds' = [fd \in DOMAIN fds' |-> fds'[fd]]
    BY <1>1
  <2> QED BY <1>1, <2>1, FS_EmptySet DEF Table
<1>4. Counted'
  BY <1>1 DEF PoolInv, Counted, Prelude
<1>5. PoolWatches'
  BY <1>1 DEF PoolInv, PoolWatches, Descriptors
<1>6. AtWork' /\ Acquire'
  BY <1>1 DEF PoolInv, AtWork, Acquire
<1> QED BY <1>2, <1>3, <1>4, <1>5, <1>6 DEF PoolInv

(* Nothing is opened before the devices are.                               *)
LEMMA PreludeStep ==
  ASSUME PoolInv, MainTypeOK, UNCHANGED <<optionVars, fds, poolVars>>,
         phase \in Prelude, phase' \in Prelude \cup {"open", "opened"},
         phase' = "open" => adapters # <<>>,
         phase' = "opened" => adapters = <<>>,
         phase' # "logconfig",
         phase' = "parse" => parses' \in 0 .. 1
  PROVE  PoolInv'
<1> USE DEF optionVars, poolVars
<1>1. at = 0 /\ frontends = <<>> /\ Len(frontends) = 0 /\ DOMAIN frontends = {}
  BY DEF PoolInv, Counted
<1>2. PoolTypes' /\ Table(fds)'
  BY DEF PoolInv, PoolTypes, Table
<1>3. Counted'
  <2>1. adapters # <<>> => Len(adapters) > 0
    BY AdaptersType
  <2>2. adapters = <<>> => Len(adapters) = 0 /\ prog = SB
    BY DEF PoolInv, Counted
  <2> QED BY <1>1, <2>1, <2>2 DEF PoolInv, Counted, Prelude
<1>4. PoolWatches'
  BY <1>1 DEF PoolInv, PoolWatches
<1>5. AtWork' /\ Acquire'
  BY <1>1 DEF PoolInv, AtWork, Acquire, Prelude
<1> QED BY <1>2, <1>3, <1>4, <1>5 DEF PoolInv

(* What the phase alone changes, from the first device on.                 *)
LEMMA OpenDeviceStep ==
  ASSUME PoolInv, MainTypeOK, OpenDevice
  PROVE  PoolInv'
<1> USE DEF optionVars
<1> DEFINE file == Opened(Kind, adapters[at + 1])
<1>1. /\ phase = "open" /\ at' = at + 1 /\ fefd' = LowestFree(fds) /\ fds' = With(fds, file)
      /\ phase' = IF prog = ND THEN "poll" ELSE "info"
      /\ UNCHANGED <<prog, adapters, frontends, spectrum_fft_fe, spectrum_sweep_fe, tidied>>
  BY DEF OpenDevice
<1>2. /\ Table(fds)' /\ fefd' \in Nat /\ fefd' \notin DOMAIN fds
      /\ DOMAIN fds' = DOMAIN fds \cup {fefd'} /\ fds'[fefd'] = file
      /\ \A fd \in DOMAIN fds : fds'[fd] = fds[fd]
  <2> HIDE DEF file
  <2> QED BY <1>1, WithAdds DEF PoolInv, Table
<1>3. Len(adapters) \in Nat /\ Len(frontends) \in Nat /\ DOMAIN frontends = 1 .. Len(frontends)
      /\ at = Len(frontends) /\ at < Len(adapters) /\ tidied = 0 /\ tidied' = 0
      /\ (prog # SB => Len(adapters) = 1 /\ frontends = <<>>)
  BY <1>1, AdaptersType DEF PoolInv, Counted, PoolWatches
<1>4. PoolTypes'
  <2>1. file.kind \in {"frontend", "demux"}
    BY Kinds DEF Kind
  <2>2. \A fd \in DOMAIN fds' : fds'[fd].kind \in {"frontend", "demux", "epoll", "watchdog"}
    <3> HIDE DEF file
    <3> QED BY <1>2, <2>1 DEF PoolInv, PoolTypes
  <2>3. efd' \in Nat \cup {None}
    BY DEF OpenDevice
  <2> QED BY <1>1, <1>2, <1>3, <2>2, <2>3 DEF PoolTypes
<1>5. Counted'
  BY <1>1, <1>3, ProgramNames DEF Counted, Prelude
<1>6. ASSUME NEW i \in DOMAIN frontends
      PROVE  Watches(frontends[i])' /\ fefd' \notin Descriptors(frontends[i])
  <2>1. Watches(frontends[i])
    BY <1>1, <1>3 DEF PoolInv, PoolWatches
  <2> QED BY <1>1, <1>2, <2>1 DEF Watches, Descriptors
<1>7. PoolWatches'
  BY <1>1, <1>6 DEF PoolInv, PoolWatches, Descriptors
<1>8. AtWork'
  <2>1. adapters'[at'] = adapters[at + 1]
    BY <1>1
  <2>2. phase' = "info" => fds'[fefd'] = Opened("frontend", Adapter)'
    BY <1>1, <1>2, <2>1 DEF Kind, Adapter
  <2>3. phase' # "rf_in" /\ (phase' = "poll" => prog' # SB)
    BY <1>1, ProgramNames
  <2> HIDE DEF file
  <2>4. \A i \in DOMAIN frontends' : fefd' \notin Descriptors(frontends[i])'
    BY <1>1, <1>6 DEF Descriptors
  <2> QED BY <1>2, <2>2, <2>3, <2>4 DEF AtWork
<1>9. Acquire'
  BY <1>1, ProgramNames DEF PoolInv, Acquire
<1> QED BY <1>2, <1>4, <1>5, <1>7, <1>8, <1>9 DEF PoolInv

(* A step of the phase alone, or of the capabilities.                      *)
LEMMA GetInfoStep ==
  ASSUME PoolInv, MainTypeOK, GetInfo
  PROVE  PoolInv'
<1> USE DEF optionVars
<1>1. /\ phase = "info" /\ phase' = IF prog = SB THEN "poll" ELSE "run"
      /\ UNCHANGED <<prog, adapters, fds, at, fefd, efd, frontends, spectrum_fft_fe,
                     spectrum_sweep_fe, tidied>>
  BY DEF GetInfo
<1>2. PoolTypes' /\ Table(fds)'
  BY <1>1 DEF PoolInv, PoolTypes, Table
<1>3. Counted'
  BY <1>1, ProgramNames DEF PoolInv, Counted, Prelude
<1>4. PoolWatches'
  BY <1>1 DEF PoolInv, PoolWatches, Descriptors, Watches
<1>5. AtWork'
  BY <1>1 DEF PoolInv, AtWork, Descriptors, Adapter
<1>6. Acquire'
  BY <1>1 DEF PoolInv, Acquire
<1> QED BY <1>2, <1>3, <1>4, <1>5, <1>6 DEF PoolInv

(* The descriptor of the refused frontend is none of the pool's.           *)
LEMMA RefusedStep ==
  ASSUME PoolInv, MainTypeOK, GetInfoFails \/ CloseAgain
  PROVE  PoolInv'
<1> USE DEF optionVars, poolVars
<1>1. /\ phase \in {"info", "close_again"} /\ fds' = Without(fds, {fefd})
      /\ phase' \in {"poll", "close_again", "failed"}
      /\ phase' = "poll" => prog = SB /\ phase = "info"
      /\ phase' = "close_again" => prog = NB /\ phase = "info"
      /\ UNCHANGED <<prog, adapters, at, fefd, efd, frontends, spectrum_fft_fe, spectrum_sweep_fe,
                     tidied>>
  BY DEF GetInfoFails, CloseAgain, AfterRefusal
<1>2. /\ Table(fds)' /\ DOMAIN fds' = DOMAIN fds \ {fefd}
      /\ \A fd \in DOMAIN fds \ {fefd} : fds'[fd] = fds[fd]
  <2>1. Table(fds)
    BY DEF PoolInv
  <2>2. /\ Table(Without(fds, {fefd})) /\ DOMAIN Without(fds, {fefd}) = DOMAIN fds \ {fefd}
        /\ \A fd \in DOMAIN fds \ {fefd} : Without(fds, {fefd})[fd] = fds[fd]
    BY <2>1, WithoutTakes
  <2> QED BY <1>1, <2>2 DEF Table
<1>3. PoolTypes'
  BY <1>1, <1>2 DEF PoolInv, PoolTypes
<1>4. Counted'
  BY <1>1, ProgramNames DEF PoolInv, Counted, Prelude
<1>5. \A i \in DOMAIN frontends : fefd \notin Descriptors(frontends[i])
  BY <1>1, ProgramNames DEF PoolInv, AtWork, Counted
<1>6. ASSUME NEW i \in DOMAIN frontends, i > tidied
      PROVE  Watches(frontends[i])'
  <2>1. Watches(frontends[i])
    BY <1>1, <1>6 DEF PoolInv, PoolWatches
  <2> QED BY <1>1, <1>2, <1>5, <2>1 DEF Watches, Descriptors
<1>7. PoolWatches'
  BY <1>1, <1>6 DEF PoolInv, PoolWatches, Descriptors
<1>8. AtWork'
  BY <1>1, <1>2, <1>5 DEF AtWork, Descriptors
<1>9. Acquire'
  BY <1>1 DEF PoolInv, Acquire
<1> QED BY <1>2, <1>3, <1>4, <1>7, <1>8, <1>9 DEF PoolInv

(* The new epoll has a number of its own; it watches the device only when  *)
(* the device's number is still the device's.                              *)
LEMMA CreatePollStep ==
  ASSUME PoolInv, MainTypeOK, CreatePoll
  PROVE  PoolInv'
<1> USE DEF optionVars
<1> DEFINE e == LowestFree(fds)
           t == With(fds, Epoll(fefd))
<1>1. /\ phase = "poll" /\ phase' = IF prog = SB THEN "rf_in" ELSE "run"
      /\ efd' = e /\ fds' = t /\ (prog = SB => CanWatch(t, e, fefd))
      /\ UNCHANGED <<prog, adapters, at, fefd, frontends, spectrum_fft_fe, spectrum_sweep_fe, tidied>>
  BY DEF CreatePoll
<1>2. /\ Table(fds)' /\ efd' \in Nat /\ efd' \notin DOMAIN fds
      /\ DOMAIN fds' = DOMAIN fds \cup {efd'} /\ fds'[efd'] = Epoll(fefd)
      /\ \A fd \in DOMAIN fds : fds'[fd] = fds[fd]
  <2>1. Table(fds)
    BY DEF PoolInv
  <2>2. /\ Table(t) /\ e \in Nat /\ e \notin DOMAIN fds
        /\ DOMAIN t = DOMAIN fds \cup {e} /\ t[e] = Epoll(fefd)
        /\ \A fd \in DOMAIN fds : t[fd] = fds[fd]
    BY <2>1, WithAdds
  <2> HIDE DEF e, t
  <2> QED BY <1>1, <2>2 DEF Table
<1>3. PoolTypes'
  BY <1>1, <1>2, Kinds DEF PoolInv, PoolTypes
<1>4. Counted'
  BY <1>1, ProgramNames DEF PoolInv, Counted, Prelude
<1>5. ASSUME NEW i \in DOMAIN frontends
      PROVE  Watches(frontends[i])' /\ Descriptors(frontends[i]) \cap {fefd, efd'} = {}
  <2>1. Watches(frontends[i])
    <3>1. i \in Nat \ {0} /\ tidied = 0
      BY <1>1 DEF PoolInv, PoolWatches, Counted
    <3> QED BY <1>1, <3>1 DEF PoolInv, PoolWatches
  <2>2. fefd \notin Descriptors(frontends[i])
    BY <1>1 DEF PoolInv, AtWork
  <2> QED BY <1>1, <1>2, <2>1, <2>2 DEF Watches, Descriptors
<1>6. PoolWatches'
  BY <1>1, <1>5 DEF PoolInv, PoolWatches, Descriptors
<1>7. AtWork'
  <2>1. CASE prog = SB
    <3>1. fefd \in DOMAIN fds' /\ fefd # efd' /\ fds'[fefd].kind = "frontend"
      <4> HIDE DEF e, t
      <4> QED BY <1>1, <2>1 DEF CanWatch
    <3>2. fefd \in DOMAIN fds /\ fds[fefd].kind = "frontend"
      BY <1>2, <3>1
    <3>3. fds[fefd] = Opened("frontend", Adapter)
      BY <1>1, <2>1, <3>2, Kinds DEF PoolInv, AtWork
    <3>4. fds'[fefd] = Opened("frontend", Adapter)
      BY <1>2, <3>2, <3>3
    <3>5. phase' = "rf_in" /\ Adapter' = Adapter /\ fefd' = fefd
      BY <1>1, <2>1 DEF Adapter
    <3>6. Watches([adapter |-> Adapter, fefd |-> fefd, efd |-> efd])'
      BY <1>2, <3>1, <3>4, <3>5 DEF Watches
    <3>7. \A i \in DOMAIN frontends' : Descriptors(frontends[i])' \cap {fefd', efd'} = {}
      BY <1>1, <1>5 DEF Descriptors
    <3> QED BY <3>5, <3>6, <3>7 DEF AtWork
  <2>2. CASE prog # SB
    BY <1>1, <2>2 DEF AtWork
  <2> QED BY <2>1, <2>2
<1>8. Acquire'
  BY <1>1 DEF PoolInv, Acquire
<1> QED BY <1>2, <1>3, <1>4, <1>6, <1>7, <1>8 DEF PoolInv

(* The frontend at work joins the pool.                                    *)
LEMMA AddFrontendStep ==
  ASSUME PoolInv, MainTypeOK, AddFrontend
  PROVE  PoolInv'
<1> USE DEF optionVars
<1> DEFINE fe == [adapter |-> Adapter, fefd |-> fefd, efd |-> efd]
           n == Len(frontends)
<1>1. /\ phase = "rf_in" /\ phase' = IF at < Len(adapters) THEN "open" ELSE "opened"
      /\ frontends' = Append(frontends, fe)
      /\ spectrum_fft_fe' \in {Adapter, spectrum_fft_fe}
      /\ spectrum_sweep_fe' \in {Adapter, spectrum_sweep_fe}
      /\ UNCHANGED <<prog, adapters, fds, at, fefd, efd, tidied>>
  BY DEF AddFrontend
<1>2. /\ prog = SB /\ tidied = 0 /\ at = n + 1 /\ n \in Nat /\ at \in 1 .. Len(adapters)
      /\ Len(adapters) \in Nat /\ Table(fds)
  BY <1>1, AdaptersType, ProgramNames DEF PoolInv, Counted, PoolWatches
<1>3. Watches(fe) /\ fe.fefd = fefd /\ fe.efd = efd /\ fe.adapter = Adapter
      /\ \A i \in DOMAIN frontends : Descriptors(frontends[i]) \cap {fefd, efd} = {}
  BY <1>1 DEF PoolInv, AtWork
<1>4. fe \in [adapter : DOMAIN RfInputs, fefd : Nat, efd : Nat]
  <2>1. fefd \in Nat /\ efd \in Nat
    BY <1>2, <1>3 DEF Watches, Table
  <2>2. Adapter \in DOMAIN RfInputs
    BY <1>2, AdaptersType DEF Adapter
  <2> QED BY <2>1, <2>2
<1> HIDE DEF fe
<1>5. /\ frontends' \in Seq([adapter : DOMAIN RfInputs, fefd : Nat, efd : Nat])
      /\ Len(frontends') = n + 1 /\ DOMAIN frontends' = 1 .. n + 1
      /\ DOMAIN frontends = 1 .. n
      /\ frontends'[n + 1] = fe /\ \A i \in 1 .. n : frontends'[i] = frontends[i]
  <2>1. frontends \in Seq([adapter : DOMAIN RfInputs, fefd : Nat, efd : Nat])
    BY DEF PoolInv, PoolWatches
  <2> QED BY <1>1, <1>4, <2>1
<1>6. PoolTypes' /\ Table(fds)'
  BY <1>1, <1>2, <1>5 DEF PoolInv, PoolTypes, Table
<1>7. Counted'
  BY <1>1, <1>2, <1>5, ProgramNames DEF Counted, Prelude
<1>8. PoolWatches'
  <2>1. \A i \in DOMAIN frontends : Watches(frontends[i])
    BY <1>1, <1>2, <1>5 DEF PoolInv, PoolWatches
  <2>2. \A i \in DOMAIN frontends' : Watches(frontends'[i])
    BY <1>2, <1>3, <1>5, <2>1
  <2>3. \A i \in DOMAIN frontends' : Watches(frontends[i])'
    BY <1>1, <2>2 DEF Watches
  <2>4. ASSUME NEW i \in DOMAIN frontends', NEW j \in DOMAIN frontends', i # j
        PROVE  Descriptors(frontends'[i]) \cap Descriptors(frontends'[j]) = {}
    <3>1. CASE i \in 1 .. n /\ j \in 1 .. n
      <4>1. Descriptors(frontends[i]) \cap Descriptors(frontends[j]) = {}
        BY <1>5, <2>4, <3>1 DEF PoolInv, PoolWatches
      <4>2. frontends'[i] = frontends[i] /\ frontends'[j] = frontends[j]
        BY <1>5, <3>1
      <4> QED BY <4>1, <4>2
    <3>2. CASE i \in 1 .. n /\ j = n + 1
      BY <1>3, <1>5, <3>2 DEF Descriptors
    <3>3. CASE i = n + 1 /\ j \in 1 .. n
      BY <1>3, <1>5, <3>3 DEF Descriptors
    <3>4. (i \in 1 .. n \/ i = n + 1) /\ (j \in 1 .. n \/ j = n + 1)
      BY <1>2, <1>5
    <3> QED BY <2>4, <3>1, <3>2, <3>3, <3>4, Zenon
  <2> QED BY <1>5, <2>3, <2>4 DEF PoolWatches, Descriptors
<1>9. AtWork'
  BY <1>1 DEF AtWork
<1>10. Acquire'
  <2>1. ASSUME NEW number \in {spectrum_fft_fe', spectrum_sweep_fe'} \ {None}
        PROVE  \E i \in DOMAIN frontends' : frontends'[i].adapter = number
    <3>1. CASE number = Adapter
      BY <1>2, <1>3, <1>5, <3>1
    <3>2. CASE number \in {spectrum_fft_fe, spectrum_sweep_fe}
      <4>1. PICK i \in DOMAIN frontends : frontends[i].adapter = number
        BY <2>1, <3>2 DEF PoolInv, Acquire
      <4> QED BY <1>2, <1>5, <4>1
    <3> QED BY <1>1, <2>1, <3>1, <3>2
  <2> QED BY <1>1, <2>1 DEF Acquire
<1> QED BY <1>6, <1>7, <1>8, <1>9, <1>10 DEF PoolInv

(* Only a pool that can acquire a spectrum starts the command.             *)
LEMMA OpenFrontendsStep ==
  ASSUME PoolInv, MainTypeOK, open_frontends
  PROVE  PoolInv'
<1>1. CASE HasSpectrum
  <2> USE DEF optionVars, poolVars
  <2>1. phase = "opened" /\ phase' = "run" /\ UNCHANGED <<optionVars, fds, poolVars>>
    BY <1>1 DEF open_frontends
  <2>2. PoolTypes' /\ Table(fds)'
    BY <2>1 DEF PoolInv, PoolTypes, Table
  <2>3. Counted'
    BY <2>1, ProgramNames DEF PoolInv, Counted, Prelude
  <2>4. PoolWatches'
    BY <2>1 DEF PoolInv, PoolWatches, Watches, Descriptors
  <2>5. AtWork'
    BY <2>1 DEF AtWork
  <2>6. Acquire'
    BY <1>1, <2>1 DEF PoolInv, Acquire, HasSpectrum
  <2> QED BY <2>2, <2>3, <2>4, <2>5, <2>6 DEF PoolInv
<1>2. CASE ~HasSpectrum
  BY <1>2, ExitStep DEF open_frontends
<1> QED BY <1>1, <1>2

(* Back from the command: what only moves the phase.                       *)
LEMMA ReturnStep ==
  ASSUME PoolInv, MainTypeOK, CommandReturns \/ FrontendsClosed
  PROVE  PoolInv'
<1> USE DEF optionVars, poolVars
<1>1. /\ phase \in {"run", "tidy"} /\ phase' \in {"tidy", "force_close", "done"}
      /\ phase' = "tidy" => phase = "run" /\ prog = SB
      /\ phase' = "force_close" => prog = ND
      /\ UNCHANGED <<optionVars, fds, poolVars>>
  BY ProgramNames DEF CommandReturns, FrontendsClosed
<1>2. PoolTypes' /\ Table(fds)'
  BY <1>1 DEF PoolInv, PoolTypes, Table
<1>3. Counted'
  BY <1>1, ProgramNames DEF PoolInv, Counted, Prelude
<1>4. PoolWatches'
  BY <1>1 DEF PoolInv, PoolWatches, Watches, Descriptors
<1>5. AtWork'
  BY <1>1 DEF AtWork
<1>6. Acquire'
  BY <1>1 DEF PoolInv, Acquire
<1> QED BY <1>2, <1>3, <1>4, <1>5, <1>6 DEF PoolInv

(* Closing a frontend leaves the later ones open: no descriptor is shared. *)
LEMMA CloseStep ==
  ASSUME PoolInv, MainTypeOK, close_frontends
  PROVE  PoolInv'
<1> USE DEF optionVars
<1> DEFINE k == tidied + 1
           own == Descriptors(frontends[k])
<1>1. /\ phase = "tidy" /\ tidied < Len(frontends) /\ tidied' = k
      /\ fds' = Without(fds, own)
      /\ UNCHANGED <<prog, adapters, phase, at, fefd, efd, frontends, spectrum_fft_fe,
                     spectrum_sweep_fe>>
  BY DEF close_frontends
<1>2. /\ Table(fds)' /\ DOMAIN fds' = DOMAIN fds \ own
      /\ \A fd \in DOMAIN fds \ own : fds'[fd] = fds[fd]
  <2>1. Table(fds)
    BY DEF PoolInv
  <2>2. /\ Table(Without(fds, own)) /\ DOMAIN Without(fds, own) = DOMAIN fds \ own
        /\ \A fd \in DOMAIN fds \ own : Without(fds, own)[fd] = fds[fd]
    <3> HIDE DEF own
    <3> QED BY <2>1, WithoutTakes
  <2> QED BY <1>1, <2>2 DEF Table
<1>3. tidied \in Nat /\ Len(frontends) \in Nat /\ DOMAIN frontends = 1 .. Len(frontends)
      /\ k \in DOMAIN frontends
  BY <1>1 DEF PoolInv, Counted, PoolWatches
<1>4. PoolTypes'
  BY <1>1, <1>2, <1>3 DEF PoolInv, PoolTypes
<1>5. Counted'
  <2>1. tidied' \in 0 .. Len(frontends')
    BY <1>1, <1>3
  <2>2. phase' = "tidy"
    BY <1>1
  <2> HIDE DEF k, own
  <2> QED BY <1>1, <2>1, <2>2 DEF PoolInv, Counted, Prelude
<1>6. ASSUME NEW i \in DOMAIN frontends, i > k
      PROVE  Watches(frontends[i])'
  <2>1. Watches(frontends[i])
    BY <1>1, <1>3, <1>6 DEF PoolInv, PoolWatches
  <2>2. Descriptors(frontends[i]) \cap own = {}
    BY <1>3, <1>6 DEF PoolInv, PoolWatches
  <2> QED BY <1>1, <1>2, <2>1, <2>2 DEF Watches, Descriptors
<1>7. PoolWatches'
  BY <1>1, <1>6 DEF PoolInv, PoolWatches, Descriptors
<1>8. AtWork'
  BY <1>1 DEF AtWork
<1>9. Acquire'
  BY <1>1 DEF PoolInv, Acquire
<1> QED BY <1>2, <1>4, <1>5, <1>7, <1>8, <1>9 DEF PoolInv

(* neumo-dmx has no pool: what force_close closes disturbs nothing here.   *)
LEMMA ForceCloseStep ==
  ASSUME PoolInv, MainTypeOK, ForceClose
  PROVE  PoolInv'
<1> USE DEF optionVars, poolVars
<1>1. /\ phase = "force_close" /\ phase' \in {"force_close", "done"} /\ fds' = Without(fds, {efd})
      /\ UNCHANGED <<optionVars, poolVars>>
  BY DEF ForceClose
<1>2. frontends = <<>> /\ DOMAIN frontends = {}
  BY <1>1, ProgramNames DEF PoolInv, Counted
<1>3. /\ Table(fds)' /\ DOMAIN fds' = DOMAIN fds \ {efd}
      /\ \A fd \in DOMAIN fds \ {efd} : fds'[fd] = fds[fd]
  <2>1. Table(fds)
    BY DEF PoolInv
  <2>2. /\ Table(Without(fds, {efd})) /\ DOMAIN Without(fds, {efd}) = DOMAIN fds \ {efd}
        /\ \A fd \in DOMAIN fds \ {efd} : Without(fds, {efd})[fd] = fds[fd]
    BY <2>1, WithoutTakes
  <2> QED BY <1>1, <2>2 DEF Table
<1>4. PoolTypes'
  BY <1>1, <1>3 DEF PoolInv, PoolTypes
<1>5. Counted'
  BY <1>1, ProgramNames DEF PoolInv, Counted, Prelude
<1>6. PoolWatches' /\ AtWork' /\ Acquire'
  BY <1>1, <1>2 DEF PoolInv, PoolWatches, AtWork, Acquire
<1> QED BY <1>3, <1>4, <1>5, <1>6 DEF PoolInv

(* The watchdog takes numbers that are free and gives back its own.        *)
LEMMA WatchdogStep ==
  ASSUME PoolInv, MainTypeOK, Watchdog
  PROVE  PoolInv'
<1> USE DEF optionVars, poolVars
<1>1. /\ UNCHANGED <<optionVars, phase, parses, poolVars>>
      /\ fds' = IF WatchdogFds = {} THEN With(fds, Watched) ELSE Without(fds, WatchdogFds)
  BY DEF Watchdog, logVars
<1>2. /\ Table(fds)'
      /\ \A fd \in DOMAIN fds : fds[fd].kind # "watchdog" => fd \in DOMAIN fds' /\ fds'[fd] = fds[fd]
      /\ \A fd \in DOMAIN fds' : \/ fd \in DOMAIN fds /\ fds'[fd] = fds[fd]
                                 \/ fd \notin DOMAIN fds /\ fds'[fd] = Watched
  <2>1. Table(fds)
    BY DEF PoolInv
  <2>2. CASE WatchdogFds = {}
    <3> DEFINE e == LowestFree(fds)
               t == With(fds, Watched)
    <3>1. /\ Table(t) /\ e \notin DOMAIN fds /\ DOMAIN t = DOMAIN fds \cup {e} /\ t[e] = Watched
          /\ \A fd \in DOMAIN fds : t[fd] = fds[fd]
      BY <2>1, WithAdds
    <3>2. fds' = t
      BY <1>1, <2>2
    <3> HIDE DEF e, t
    <3> QED BY <3>1, <3>2 DEF Table
  <2>3. CASE WatchdogFds # {}
    <3> DEFINE t == Without(fds, WatchdogFds)
    <3>1. /\ Table(t) /\ DOMAIN t = DOMAIN fds \ WatchdogFds
          /\ \A fd \in DOMAIN fds \ WatchdogFds : t[fd] = fds[fd]
      BY <2>1, WithoutTakes
    <3>2. fds' = t
      BY <1>1, <2>3
    <3> HIDE DEF t
    <3>3. \A fd \in DOMAIN fds : fds[fd].kind # "watchdog" => fd \notin WatchdogFds
      BY DEF WatchdogFds
    <3> QED BY <3>1, <3>2, <3>3 DEF Table
  <2> QED BY <2>2, <2>3
<1>3. PoolTypes'
  BY <1>1, <1>2, Kinds DEF PoolInv, PoolTypes
<1>4. Counted'
  BY <1>1 DEF PoolInv, Counted, Prelude
<1>5. ASSUME NEW fe, Watches(fe)
      PROVE  fe.fefd \in DOMAIN fds' /\ fds'[fe.fefd] = Opened("frontend", fe.adapter)
             /\ fe.efd \in DOMAIN fds' /\ fds'[fe.efd] = Epoll(fe.fefd)
  BY <1>2, <1>5, Kinds DEF Watches
<1>6. PoolWatches'
  <2>1. ASSUME NEW i \in DOMAIN frontends, phase \notin {"exit", "done"}, i > tidied
        PROVE  Watches(frontends[i])'
    <3>1. Watches(frontends[i])
      BY <2>1 DEF PoolInv, PoolWatches
    <3> QED BY <1>1, <1>5, <3>1 DEF Watches
  <2> QED BY <1>1, <2>1 DEF PoolInv, PoolWatches, Descriptors
<1>7. AtWork'
  <2>1. phase = "info" => fefd \in DOMAIN fds' /\ fds'[fefd] = Opened("frontend", Adapter)
    BY <1>2, Kinds DEF PoolInv, AtWork
  <2>2. phase = "poll" /\ prog = SB /\ fefd \in DOMAIN fds' =>
          fds'[fefd] \in {Opened("frontend", Adapter), Watched}
    BY <1>2 DEF PoolInv, AtWork
  <2>3. ASSUME phase = "rf_in"
        PROVE  Watches([adapter |-> Adapter, fefd |-> fefd, efd |-> efd])'
    <3> DEFINE fe == [adapter |-> Adapter, fefd |-> fefd, efd |-> efd]
    <3>1. Watches(fe)
      BY <2>3 DEF PoolInv, AtWork
    <3>2. fe.fefd = fefd /\ fe.efd = efd /\ fe.adapter = Adapter /\ Adapter' = Adapter
      BY <1>1 DEF Adapter
    <3> HIDE DEF fe
    <3>3. fefd \in DOMAIN fds' /\ fds'[fefd] = Opened("frontend", Adapter)
          /\ efd \in DOMAIN fds' /\ fds'[efd] = Epoll(fefd)
      BY <1>5, <3>1, <3>2
    <3> QED BY <1>1, <3>2, <3>3 DEF Watches
  <2> QED BY <1>1, <2>1, <2>2, <2>3 DEF PoolInv, AtWork, Descriptors, Adapter
<1>8. Acquire'
  BY <1>1 DEF PoolInv, Acquire, HasSpectrum
<1> QED BY <1>2, <1>3, <1>4, <1>6, <1>7, <1>8 DEF PoolInv

(* The steps before the devices are opened.                                *)
LEMMA PreludeSteps ==
  ASSUME PoolInv, MainTypeOK,
         set_logconfig \/ ParseOptions \/ show_api_version \/ set_console_logging
  PROVE  PoolInv'
<1>1. CASE set_logconfig
  <2>1. UNCHANGED <<optionVars, fds, poolVars>> /\ phase = "logconfig" /\ phase' = "parse"
        /\ parses' = parses
    BY <1>1 DEF set_logconfig
  <2>2. parses' \in 0 .. 1
    BY <2>1 DEF PoolInv, Counted
  <2> QED BY <2>1, <2>2, PreludeStep DEF Prelude
<1>2. CASE ParseOptions
  <2>1. UNCHANGED <<optionVars, fds, poolVars>> /\ phase = "parse" /\ phase' \in {"parse", "version"}
        /\ (phase' = "parse" => parses' = 1)
    BY <1>2 DEF ParseOptions
  <2> QED BY <2>1, PreludeStep DEF Prelude
<1>3. CASE show_api_version
  <2>1. CASE show
    BY <1>3, <2>1, ExitStep DEF show_api_version
  <2>2. CASE ~show
    <3>1. UNCHANGED <<optionVars, fds, poolVars>> /\ phase = "version" /\ phase' = "console"
      BY <1>3, <2>2 DEF show_api_version
    <3> QED BY <3>1, PreludeStep DEF Prelude
  <2> QED BY <2>1, <2>2
<1>4. CASE set_console_logging
  <2>1. UNCHANGED <<optionVars, fds, poolVars>> /\ phase = "console"
        /\ phase' = IF adapters = <<>> THEN "opened" ELSE "open"
    BY <1>4 DEF set_console_logging
  <2> QED BY <2>1, PreludeStep DEF Prelude
<1> QED BY <1>1, <1>2, <1>3, <1>4

(* The invariant is inductive.                                             *)
LEMMA StartStep ==
  ASSUME StartInv, [MainNext]_mainVars
  PROVE  StartInv'
<1>1. PoolInv /\ MainTypeOK
  BY DEF StartInv
<1>2. SUFFICES PoolInv'
  BY LogStep DEF StartInv, PoolInv, PoolTypes, LogTypes, MainTypeOK
<1>3. CASE set_logconfig \/ ParseOptions \/ show_api_version \/ set_console_logging
  BY <1>1, <1>3, PreludeSteps
<1>4. CASE ParseFails \/ VersionUnreadable \/ DriversMissing \/ OpenFails \/ InfoFailed \/ PollRefused
           \/ CannotUseRfIn
  <2>1. Exit /\ UNCHANGED <<optionVars, poolVars>>
    BY <1>4, Zenon DEF ParseFails, VersionUnreadable, DriversMissing, OpenFails, InfoFailed,
       PollRefused, CannotUseRfIn
  <2> QED BY <1>1, <2>1, ExitStep
<1>5. CASE OpenDevice
  BY <1>1, <1>5, OpenDeviceStep
<1>6. CASE GetInfo
  BY <1>1, <1>6, GetInfoStep
<1>7. CASE GetInfoFails \/ CloseAgain
  BY <1>1, <1>7, RefusedStep
<1>8. CASE CreatePoll
  BY <1>1, <1>8, CreatePollStep
<1>9. CASE AddFrontend
  BY <1>1, <1>9, AddFrontendStep
<1>10. CASE open_frontends
  BY <1>1, <1>10, OpenFrontendsStep
<1>11. CASE CommandReturns \/ FrontendsClosed
  BY <1>1, <1>11, ReturnStep
<1>12. CASE close_frontends
  BY <1>1, <1>12, CloseStep
<1>13. CASE ForceClose
  BY <1>1, <1>13, ForceCloseStep
<1>14. CASE Watchdog
  BY <1>1, <1>14, WatchdogStep
<1>15. CASE UNCHANGED mainVars
  BY <1>1, <1>15 DEF mainVars, optionVars, poolVars, logVars, PoolInv, PoolTypes, Table, Counted, Prelude,
     PoolWatches, AtWork, Acquire, Watches, Descriptors, Adapter, HasSpectrum
<1> QED
  BY <1>3, <1>4, <1>5, <1>6, <1>7, <1>8, <1>9, <1>10, <1>11, <1>12, <1>13, <1>14, <1>15, Zenon
  DEF MainNext, MainProgram, MainFinished

(* The inductive invariant of the main functions: the table of descriptors,*)
(* the phases, the pool and the frontend at work.                          *)
THEOREM StartInvariance == MainSpec => []StartInv
<1>1. MainInit => StartInv
  BY StartInit
<1>2. StartInv /\ [MainNext]_mainVars => StartInv'
  BY StartStep
<1> QED BY <1>1, <1>2, PTL DEF MainSpec

(* Every frontend that stid135-blindscan starts its scan with has its      *)
(* device open and an epoll that watches this device; no two share a       *)
(* descriptor, and one of them can acquire the spectrum: for every list of *)
(* adapters, and whatever numbers the watchdog thread takes meanwhile.     *)
THEOREM PoolIsOpenEver == MainSpec => []PoolIsOpen
<1>1. ASSUME StartInv
      PROVE  PoolIsOpen
  <2> SUFFICES ASSUME phase = "run", prog = SB
               PROVE  /\ Len(frontends) = Len(adapters)
                      /\ \A i \in DOMAIN frontends : Watches(frontends[i])
                      /\ \A i, j \in DOMAIN frontends :
                           i # j => Descriptors(frontends[i]) \cap Descriptors(frontends[j]) = {}
                      /\ \E i \in DOMAIN frontends :
                           frontends[i].adapter \in {spectrum_fft_fe, spectrum_sweep_fe}
    BY DEF PoolIsOpen
  <2>1. Counted /\ PoolWatches /\ Acquire
    BY <1>1 DEF StartInv, PoolInv
  <2>2. Len(frontends) = Len(adapters) /\ tidied = 0
    BY <2>1 DEF Counted
  <2>3. \A i \in DOMAIN frontends : Watches(frontends[i])
    <3>1. \A i \in DOMAIN frontends : i > tidied
      BY <2>1, <2>2 DEF PoolWatches
    <3> QED BY <2>1, <3>1 DEF PoolWatches
  <2>4. \E i \in DOMAIN frontends : frontends[i].adapter \in {spectrum_fft_fe, spectrum_sweep_fe}
    BY <2>1 DEF Acquire, HasSpectrum
  <2> QED BY <2>1, <2>2, <2>3, <2>4 DEF PoolWatches
<1> QED BY <1>1, StartInvariance, PTL

(* The program's own steps, in stid135-blindscan and neumo-tune, neither   *)
(* close nor replace a file of the watchdog.                               *)
LEMMA OwnStep ==
  ASSUME StartInv, MainProgram, prog \in {SB, NT}, phase' # "exit"
  PROVE  WatchdogFds' = WatchdogFds
<1>1. PoolInv /\ MainTypeOK /\ Table(fds)
  BY DEF StartInv, PoolInv
<1>2. CASE UNCHANGED fds
  BY <1>2 DEF WatchdogFds
<1>3. ASSUME NEW file, file.kind # "watchdog", fds' = With(fds, file)
      PROVE  WatchdogFds' = WatchdogFds
  <2> DEFINE e == LowestFree(fds)
             t == With(fds, file)
  <2>1. /\ e \notin DOMAIN fds /\ DOMAIN t = DOMAIN fds \cup {e} /\ t[e] = file
        /\ \A fd \in DOMAIN fds : t[fd] = fds[fd]
    BY <1>1, WithAdds
  <2>2. fds' = t
    BY <1>3
  <2> HIDE DEF e, t
  <2> QED BY <1>3, <2>1, <2>2 DEF WatchdogFds
<1>4. ASSUME NEW set, fds' = Without(fds, set),
             \A fd \in set : fd \in DOMAIN fds => fds[fd].kind # "watchdog"
      PROVE  WatchdogFds' = WatchdogFds
  <2> DEFINE t == Without(fds, set)
  <2>1. DOMAIN t = DOMAIN fds \ set /\ \A fd \in DOMAIN fds \ set : t[fd] = fds[fd]
    BY <1>1, WithoutTakes
  <2>2. fds' = t
    BY <1>4
  <2> HIDE DEF t
  <2> QED BY <1>4, <2>1, <2>2 DEF WatchdogFds
<1>5. CASE OpenDevice
  <2>1. fds' = With(fds, Opened(Kind, adapters[at + 1]))
        /\ Opened(Kind, adapters[at + 1]).kind # "watchdog"
    BY <1>5, Kinds DEF OpenDevice, Kind
  <2> QED BY <1>3, <2>1
<1>6. CASE GetInfoFails
  <2>1. fds' = Without(fds, {fefd}) /\ \A fd \in {fefd} : fd \in DOMAIN fds => fds[fd].kind # "watchdog"
    BY <1>1, <1>6, Kinds DEF GetInfoFails, PoolInv, AtWork
  <2> QED BY <1>4, <2>1
<1>7. CASE CloseAgain \/ ForceClose
  BY <1>1, <1>7, ProgramNames DEF CloseAgain, ForceClose, PoolInv, Counted
<1>8. CASE CreatePoll
  <2>1. fds' = With(fds, Epoll(fefd)) /\ Epoll(fefd).kind # "watchdog"
    BY <1>8, Kinds DEF CreatePoll
  <2> QED BY <1>3, <2>1
<1>9. CASE close_frontends
  <2> DEFINE k == tidied + 1
             own == Descriptors(frontends[k])
  <2>1. fds' = Without(fds, own) /\ phase = "tidy" /\ k > tidied /\ k \in DOMAIN frontends
    BY <1>1, <1>9 DEF close_frontends, PoolInv, Counted, PoolWatches
  <2>2. Watches(frontends[k])
    <3> HIDE DEF k
    <3> QED BY <1>1, <2>1 DEF PoolInv, PoolWatches
  <2>3. \A fd \in own : fd \in DOMAIN fds => fds[fd].kind # "watchdog"
    BY <2>2, Kinds DEF Watches, Descriptors
  <2> QED BY <1>4, <2>1, <2>3
<1> QED BY <1>2, <1>5, <1>6, <1>7, <1>8, <1>9, Zenon
  DEF MainProgram, set_logconfig, ParseOptions, ParseFails, show_api_version, VersionUnreadable,
      set_console_logging, DriversMissing, OpenFails, GetInfo, InfoFailed, PollRefused, AddFrontend,
      CannotUseRfIn, open_frontends, CommandReturns, FrontendsClosed, Exit, poolVars

(* stid135-blindscan and neumo-tune never close a file of the watchdog: a  *)
(* number is not closed again once it was given back.                      *)
THEOREM ClosesOwnEver == MainSpec => ClosesOwn
<1>1. ASSUME StartInv, [MainNext]_mainVars
      PROVE  [~ClosesAnothers({SB, NT})]_mainVars
  <2> SUFFICES ASSUME MainNext, ClosesAnothers({SB, NT})
               PROVE  FALSE
    BY <1>1
  <2>1. prog \in {SB, NT} /\ phase' # "exit" /\ WatchdogFds' # WatchdogFds /\ ~Watchdog
    BY DEF ClosesAnothers
  <2>2. CASE MainProgram
    BY <1>1, <2>1, <2>2, OwnStep
  <2>3. CASE MainFinished
    BY <2>1, <2>3 DEF MainFinished, mainVars, WatchdogFds
  <2> QED BY <2>1, <2>2, <2>3 DEF MainNext
<1> QED BY <1>1, StartInvariance, PTL DEF MainSpec, ClosesOwn

-------------------------------------------------------------------------------
(***************************************************************************)
(* The spectrum command.                                                   *)
(***************************************************************************)

(* The spectrum the driver holds; a file is a sequence of blocks, each     *)
(* with the marks that get_spectrum has computed from its spectrum.        *)
Spectrum(s) == s.n \in Nat /\ s.candidates \in Seq([at : Nat])

HeldType == Spectrum(held) /\ (driver # "idle" => pass <= Len(plan))

IsBlock(b) == Spectrum(b.of) /\ b.marks = [i \in Marked(b.of) |-> RateAt(b.of, i)]

FileType ==
  \A p \in {H, V} :
    /\ files[p] \in Seq(ToSet(files[p]))
    /\ \A k \in DOMAIN files[p] : IsBlock(files[p][k])

(* Once the driver is ready, its event is the last of the queue until the  *)
(* program has read it, and what it holds was acquired in this pass.       *)
Running == {"flush", "start", "wait", "get", "read", "next"}
Since   == {"wait", "get", "read", "next"}

EventIsLast ==
  pc \in {"wait", "get"} /\ driver = "ready" => queue # <<>> /\ queue[Len(queue)] = "sync"

HeldIsOfThisPass == pc \in Since /\ driver = "ready" => held.pass = pass

(* An event that tells of a spectrum is of this pass when the command has  *)
(* discarded the earlier ones.                                             *)
EventsAreOfThisPass ==
  ClearsOnScan =>
    /\ pc \in {"wait", "get"} => \A i \in DOMAIN queue : queue[i] = "sync" => driver = "ready"
    /\ pc = "read" => driver = "ready"

(* The file of the present polarisation is open if something is in it, and *)
(* the files of later polarisations are empty.                             *)
OpenWhileItsPol ==
  /\ \A p \in {H, V} : files[p] # <<>> => \E i \in 1 .. pass : plan[i].pol = p
  /\ pc \in Running /\ files[Present.pol] # <<>> => fpout = Present.pol

Holds(i) == \E k \in DOMAIN files[plan[i].pol] : files[plan[i].pol][k].pass = i

AcquiredHeld ==
  /\ \A i \in acquired : Holds(i)
  /\ pc = "next" /\ driver = "ready" /\ held.n > 0 /\ queue = <<>> => Holds(pass)

(* Each block is of a pass of its file's polarisation, converted with this *)
(* pass's band, and the passes ascend.                                     *)
PassesAscend ==
  ClearsOnScan =>
    \A p \in {H, V} : \A k \in DOMAIN files[p] :
      /\ files[p][k].pass \in 1 .. Len(plan) /\ plan[files[p][k].pass].pol = p
      /\ plan[files[p][k].pass].band = files[p][k].band
      /\ files[p][k].pass <= pass /\ (files[p][k].pass = pass => pc \in {"next", "done"})
      /\ k > 1 => files[p][k - 1].pass < files[p][k].pass

SpectrumInv ==
  /\ TypeOK /\ HeldType /\ FileType
  /\ EventIsLast /\ HeldIsOfThisPass /\ EventsAreOfThisPass
  /\ OpenWhileItsPol /\ AcquiredHeld /\ PassesAscend

-------------------------------------------------------------------------------
(* The passes.                                                             *)

PassType == [pol : {H, V}, band : 0 .. 1, start : Int, end : Int]

(* What is concatenated stands in its order.                               *)
LEMMA Concatenated ==
  ASSUME NEW T, NEW s \in Seq(T), NEW t \in Seq(T)
  PROVE  /\ s \o t \in Seq(T) /\ Len(s \o t) = Len(s) + Len(t)
         /\ Len(s) \in Nat /\ Len(t) \in Nat
         /\ \A i \in 1 .. Len(s \o t) :
              (s \o t)[i] = IF i <= Len(s) THEN s[i] ELSE t[i - Len(s)]
BY ConcatProperties, LenProperties

(* The one or two bands of a polarisation.                                 *)
LEMMA BandsType ==
  ASSUME NEW p \in {H, V}, NEW start \in Int, NEW end \in Int
  PROVE  /\ SpectrumBands(p, start, end) \in Seq(PassType)
         /\ \A i \in 1 .. Len(SpectrumBands(p, start, end)) :
              SpectrumBands(p, start, end)[i].pol = p
<1> DEFINE low == << [pol |-> p, band |-> 0, start |-> start,
                      end |-> IF end < lnb_universal_slof THEN end ELSE lnb_universal_slof] >>
           high == << [pol |-> p, band |-> 1, start |-> lnb_universal_slof, end |-> end] >>
           first == IF start < lnb_universal_slof THEN low ELSE << >>
           second == IF end > lnb_universal_slof THEN high ELSE << >>
<1>1. lnb_universal_slof \in Int
  BY DEF lnb_universal_slof
<1>2. low \in Seq(PassType) /\ Len(low) = 1 /\ low[1].pol = p
  BY <1>1 DEF PassType
<1>3. high \in Seq(PassType) /\ Len(high) = 1 /\ high[1].pol = p
  BY <1>1 DEF PassType
<1>4. << >> \in Seq(PassType) /\ Len(<< >>) = 0
  OBVIOUS
<1> HIDE DEF low, high
<1>5. /\ first \in Seq(PassType) /\ second \in Seq(PassType)
      /\ Len(first) \in 0 .. 1 /\ Len(second) \in 0 .. 1
      /\ \A i \in 1 .. Len(first) : first[i].pol = p
      /\ \A i \in 1 .. Len(second) : second[i].pol = p
  BY <1>2, <1>3, <1>4
<1>6. SpectrumBands(p, start, end) = first \o second
  BY Zenon DEF SpectrumBands, low, high
<1> HIDE DEF first, second
<1>7. /\ first \o second \in Seq(PassType) /\ Len(first \o second) = Len(first) + Len(second)
      /\ \A i \in 1 .. Len(first \o second) :
           (first \o second)[i] = IF i <= Len(first) THEN first[i] ELSE second[i - Len(first)]
  BY <1>5, Concatenated
<1>8. ASSUME NEW i \in 1 .. Len(first \o second)
      PROVE  (first \o second)[i].pol = p
  BY <1>5, <1>7
<1> QED BY <1>6, <1>7, <1>8

(* The horizontal passes come before the vertical ones.                    *)
LEMMA PlanShape ==
  ASSUME NEW r \in Requests
  PROVE  /\ Passes(r) \in Seq(PassType)
         /\ \A i, j \in 1 .. Len(Passes(r)) :
              i <= j /\ Passes(r)[i].pol = V => Passes(r)[j].pol = V
<1> DEFINE Of(p) == IF p \in r.pols THEN SpectrumBands(p, r.start, r.end) ELSE << >>
           a == Of(H)
           b == Of(V)
<1>1. Passes(r) = a \o b
  BY DEF Passes
<1>2. ASSUME NEW p \in {H, V}
      PROVE  Of(p) \in Seq(PassType) /\ \A i \in 1 .. Len(Of(p)) : Of(p)[i].pol = p
  <2>1. r.start \in Int /\ r.end \in Int
    BY SpectrumAssumption
  <2>2. CASE p \in r.pols
    BY <2>1, <2>2, BandsType
  <2>3. CASE p \notin r.pols
    BY <2>3
  <2> QED BY <2>2, <2>3
<1> HIDE DEF Of
<1>3. /\ a \in Seq(PassType) /\ \A i \in 1 .. Len(a) : a[i].pol = H
      /\ b \in Seq(PassType) /\ \A i \in 1 .. Len(b) : b[i].pol = V
  BY <1>2
<1> HIDE DEF a, b
<1>4. /\ a \o b \in Seq(PassType) /\ Len(a \o b) = Len(a) + Len(b)
      /\ Len(a) \in Nat /\ Len(b) \in Nat
      /\ \A i \in 1 .. Len(a \o b) : (a \o b)[i] = IF i <= Len(a) THEN a[i] ELSE b[i - Len(a)]
  BY <1>3, Concatenated
<1>5. ASSUME NEW i \in 1 .. Len(a \o b), NEW j \in 1 .. Len(a \o b), i <= j, (a \o b)[i].pol = V
      PROVE  (a \o b)[j].pol = V
  <2>1. H # V
    BY DEF H, V
  <2>2. ~(i <= Len(a))
    BY <1>3, <1>4, <1>5, <2>1
  <2>3. ~(j <= Len(a)) /\ j - Len(a) \in 1 .. Len(b)
    BY <1>4, <1>5, <2>2
  <2> QED BY <1>3, <1>4, <2>3
<1> QED BY <1>1, <1>4, <1>5

(* What the invariant says of the passes of this command line.             *)
LEMMA PlanFacts ==
  ASSUME TypeOK
  PROVE  /\ plan \in Seq(PassType) /\ Len(plan) \in Nat
         /\ \A i \in 1 .. Len(plan) : plan[i] \in PassType /\ plan[i].pol \in {H, V}
         /\ \A i, j \in 1 .. Len(plan) : i <= j /\ plan[i].pol = V => plan[j].pol = V
<1>1. plan = Passes(request) /\ request \in Requests
  BY DEF TypeOK
<1>2. /\ plan \in Seq(PassType)
      /\ \A i, j \in 1 .. Len(plan) : i <= j /\ plan[i].pol = V => plan[j].pol = V
  BY <1>1, PlanShape
<1>3. \A pass1 \in PassType : pass1.pol \in {H, V}
  BY DEF PassType
<1> QED BY <1>2, <1>3

-------------------------------------------------------------------------------
(* The walk over samples and candidates.                                   *)

(* One sample further.                                                     *)
Meet(s, k, i) ==
  IF k \in DOMAIN s.candidates /\ s.candidates[k].at = i THEN NextCandidate(k) ELSE k

IsWalk(s, met, n) == met = [i \in 0 .. n |-> IF i = 0 THEN 1 ELSE Meet(s, met[i - 1], i)]

(* The recursive function exists, for every number of samples.             *)
LEMMA WalkExists ==
  ASSUME NEW s, NEW n \in Nat
  PROVE  \E met : IsWalk(s, met, n)
<1> DEFINE Good(m) == \E met : IsWalk(s, met, m)
           Bad == {m \in Nat : ~Good(m)}
<1>1. Good(0)
  <2> DEFINE met == [i \in 0 .. 0 |-> 1]
  <2>1. met = [i \in 0 .. 0 |-> IF i = 0 THEN 1 ELSE Meet(s, met[i - 1], i)]
    OBVIOUS
  <2> HIDE DEF met
  <2> QED BY <2>1 DEF IsWalk
<1>2. ASSUME NEW m \in Nat, Good(m)
      PROVE  Good(m + 1)
  <2>1. PICK met : met = [i \in 0 .. m |-> IF i = 0 THEN 1 ELSE Meet(s, met[i - 1], i)]
    BY <1>2 DEF IsWalk
  <2> DEFINE more == [i \in 0 .. m + 1 |-> IF i = m + 1 THEN Meet(s, met[m], m + 1) ELSE met[i]]
  <2>2. ASSUME NEW i \in 0 .. m + 1
        PROVE  more[i] = IF i = 0 THEN 1 ELSE Meet(s, more[i - 1], i)
    BY <2>1
  <2>3. more = [i \in 0 .. m + 1 |-> IF i = 0 THEN 1 ELSE Meet(s, more[i - 1], i)]
    BY <2>2
  <2> HIDE DEF more
  <2> QED BY <2>3 DEF IsWalk
<1>3. Bad = {}
  <2>1. SUFFICES ASSUME Bad # {}
                 PROVE  FALSE
    OBVIOUS
  <2>2. PICK x \in Bad : \A y \in Bad : x <= y
    <3>1. Bad \subseteq Nat
      OBVIOUS
    <3> HIDE DEF Bad
    <3> QED BY <2>1, <3>1, LeastNumber
  <2> HIDE DEF Good
  <2>3. x # 0
    BY <1>1
  <2>4. x - 1 \in Nat /\ x - 1 \notin Bad
    BY <2>2, <2>3
  <2>5. Good(x - 1)
    BY <2>4
  <2>6. Good(x - 1 + 1)
    BY <1>2, <2>4, <2>5
  <2>7. x - 1 + 1 = x
    OBVIOUS
  <2> QED BY <2>6, <2>7
<1> QED BY <1>3

(* Hence each sample is reached from the one before.                       *)
LEMMA WalkSteps ==
  ASSUME NEW s, s.n \in Nat
  PROVE  /\ MetUpTo(s)[0] = 1
         /\ \A i \in 1 .. s.n : MetUpTo(s)[i] = Meet(s, MetUpTo(s)[i - 1], i)
<1>1. PICK met : met = [i \in 0 .. s.n |-> IF i = 0 THEN 1 ELSE Meet(s, met[i - 1], i)]
  BY WalkExists DEF IsWalk
<1>2. MetUpTo(s) = [i \in 0 .. s.n |-> IF i = 0 THEN 1 ELSE Meet(s, MetUpTo(s)[i - 1], i)]
  BY <1>1, Zenon DEF MetUpTo, Meet
<1> QED BY <1>2

(* The candidate looked for after sample i is the first behind it.         *)
Behind(s, i) ==
  /\ MetUpTo(s)[i] \in 1 .. Len(s.candidates) + 1
  /\ \A k \in 1 .. Len(s.candidates) : k < MetUpTo(s)[i] <=> s.candidates[k].at <= i

(* So it is after every sample of a spectrum on the grid.                  *)
LEMMA WalkMeets ==
  ASSUME NEW s, Spectrum(s), OnGrid(s)
  PROVE  \A i \in 0 .. s.n : Behind(s, i)
<1> DEFINE c == s.candidates
           n == Len(c)
           met == MetUpTo(s)
<1>1. /\ s.n \in Nat /\ n \in Nat /\ DOMAIN c = 1 .. n
      /\ \A k \in 1 .. n : c[k].at \in Nat /\ c[k].at \in 1 .. s.n
      /\ \A j, k \in 1 .. n : j < k => c[j].at < c[k].at
  <2>1. c \in Seq([at : Nat])
    BY DEF Spectrum
  <2>2. n \in Nat /\ DOMAIN c = 1 .. n
    BY <2>1
  <2>3. /\ \A k \in 1 .. n : c[k].at \in 1 .. s.n
        /\ \A j, k \in 1 .. n : j < k => c[j].at < c[k].at
    <3> HIDE DEF n
    <3> QED BY <2>2 DEF OnGrid
  <2>4. \A k \in 1 .. n : c[k].at \in Nat
    <3> HIDE DEF n, c
    <3> QED BY <2>3
  <2>5. s.n \in Nat
    BY DEF Spectrum
  <2> QED BY <2>2, <2>3, <2>4, <2>5, Zenon
<1>2. met[0] = 1 /\ \A i \in 1 .. s.n : met[i] = Meet(s, met[i - 1], i)
  BY <1>1, WalkSteps
<1>3. Behind(s, 0)
  BY <1>1, <1>2 DEF Behind
<1>4. ASSUME NEW i \in 1 .. s.n, Behind(s, i - 1)
      PROVE  Behind(s, i)
  <2> DEFINE m == met[i - 1]
  <2>1. /\ m \in 1 .. n + 1
        /\ \A k \in 1 .. n : k < m <=> c[k].at <= i - 1
    BY <1>4 DEF Behind
  <2>2. met[i] = IF m \in 1 .. n /\ c[m].at = i THEN m + 1 ELSE m
    BY <1>1, <1>2 DEF Meet, NextCandidate
  <2>3. met[i] \in 1 .. n + 1
    <3> HIDE DEF m, n, c, met
    <3> QED BY <1>1, <2>1, <2>2
  <2>4. ASSUME NEW k \in 1 .. n
        PROVE  k < met[i] <=> c[k].at <= i
    <3> HIDE DEF n, c, met
    <3>1. CASE m \in 1 .. n /\ c[m].at = i
      <4>1. met[i] = m + 1
        BY <2>2, <3>1
      <4>2. CASE k < m
        BY <1>1, <2>1, <4>1, <4>2
      <4>3. CASE k = m
        BY <1>1, <2>1, <3>1, <4>1, <4>3
      <4>4. CASE k > m
        BY <1>1, <2>1, <3>1, <4>1, <4>4
      <4> HIDE DEF m
      <4> QED BY <2>1, <4>2, <4>3, <4>4
    <3>2. CASE ~(m \in 1 .. n /\ c[m].at = i)
      <4>1. met[i] = m
        BY <2>2, <3>2
      <4> HIDE DEF m
      <4>2. CASE k < m
        BY <1>1, <2>1, <4>1, <4>2
      <4>3. CASE ~(k < m)
        <5>1. m \in 1 .. n /\ c[m].at > i
          BY <1>1, <2>1, <3>2, <4>3
        <5>2. c[m].at <= c[k].at
          BY <1>1, <2>1, <4>3, <5>1
        <5> QED BY <1>1, <4>1, <4>3, <5>1, <5>2
      <4> QED BY <4>2, <4>3
    <3> QED BY <3>1, <3>2
  <2> QED BY <2>3, <2>4 DEF Behind
<1> HIDE DEF met, n, c
<1> DEFINE Bad == {i \in 0 .. s.n : ~Behind(s, i)}
<1>5. Bad = {}
  <2>1. SUFFICES ASSUME Bad # {}
                 PROVE  FALSE
    OBVIOUS
  <2>2. PICK x \in Bad : \A y \in Bad : x <= y
    <3>1. Bad \subseteq Nat
      BY <1>1
    <3> HIDE DEF Bad
    <3> QED BY <2>1, <3>1, LeastNumber
  <2>3. x \in 1 .. s.n /\ x - 1 \in 0 .. s.n
    BY <1>1, <1>3, <2>2
  <2>4. x - 1 \notin Bad
    BY <1>1, <2>2, <2>3
  <2> QED BY <1>4, <2>2, <2>3, <2>4
<1> QED BY <1>5

(* A sample is marked if and only if it is a candidate.                    *)
LEMMA CandidatesAreMarked ==
  ASSUME NEW s, Spectrum(s), OnGrid(s)
  PROVE  Marked(s) = {s.candidates[k].at : k \in DOMAIN s.candidates}
<1> DEFINE c == s.candidates
           n == Len(c)
           met == MetUpTo(s)
<1>1. s.n \in Nat /\ n \in Nat /\ DOMAIN c = 1 .. n /\ \A k \in 1 .. n : c[k].at \in 1 .. s.n
  <2>1. c \in Seq([at : Nat])
    BY DEF Spectrum
  <2>2. n \in Nat /\ DOMAIN c = 1 .. n
    BY <2>1
  <2> QED BY <2>2 DEF Spectrum, OnGrid
<1>2. \A i \in 0 .. s.n : /\ met[i] \in 1 .. n + 1
                          /\ \A k \in 1 .. n : k < met[i] <=> c[k].at <= i
  BY WalkMeets DEF Behind
<1>3. \A i \in 1 .. s.n : met[i] = IF met[i - 1] \in 1 .. n /\ c[met[i - 1]].at = i
                                   THEN met[i - 1] + 1 ELSE met[i - 1]
  BY <1>1, WalkSteps DEF Meet, NextCandidate
<1> HIDE DEF met, n, c
<1>4. ASSUME NEW i \in 1 .. s.n, met[i] # met[i - 1]
      PROVE  \E k \in 1 .. n : c[k].at = i
  BY <1>3, <1>4
<1>5. ASSUME NEW k \in 1 .. n
      PROVE  met[c[k].at] # met[c[k].at - 1]
  <2> DEFINE i == c[k].at
  <2>1. i \in 1 .. s.n /\ i \in 0 .. s.n /\ i - 1 \in 0 .. s.n /\ i <= i /\ ~(i <= i - 1)
    BY <1>1
  <2> HIDE DEF i
  <2>2. k < met[i] /\ ~(k < met[i - 1])
    BY <1>2, <2>1 DEF i
  <2> QED BY <2>2 DEF i
<1>6. Marked(s) = {i \in 1 .. s.n : met[i] # met[i - 1]}
  BY DEF Marked, met
<1>7. {i \in 1 .. s.n : met[i] # met[i - 1]} = {c[k].at : k \in DOMAIN c}
  <2>1. ASSUME NEW i \in 1 .. s.n, met[i] # met[i - 1]
        PROVE  i \in {c[k].at : k \in DOMAIN c}
    BY <1>1, <1>4, <2>1
  <2>2. ASSUME NEW k \in DOMAIN c
        PROVE  c[k].at \in 1 .. s.n /\ met[c[k].at] # met[c[k].at - 1]
    BY <1>1, <1>5, <2>2
  <2> QED BY <2>1, <2>2
<1> QED BY <1>6, <1>7, Zenon DEF c

-------------------------------------------------------------------------------
(* The queue and the driver.                                               *)

Events == {"sync", "status", "timedout"}

(* A queue that is not empty has a first event.                            *)
LEMMA EmptyQueue ==
  ASSUME NEW s \in Seq(Events)
  PROVE  Len(s) \in Nat /\ (s # <<>> <=> Len(s) > 0)
BY EmptySeq

(* The queue is a bounded sequence of events.                              *)
LEMMA QueueFacts ==
  ASSUME TypeOK
  PROVE  /\ queue \in Seq(Events) /\ Len(queue) \in Nat /\ Len(queue) <= QueueSize
         /\ DOMAIN queue = 1 .. Len(queue) /\ QueueSize \in Nat \ {0}
         /\ (queue # <<>> <=> Len(queue) > 0)
<1>1. queue \in Seq(Events) /\ Len(queue) <= QueueSize
  BY DEF TypeOK, Events
<1> QED BY <1>1, EmptyQueue, SpectrumAssumption

(* What arrives is the last of the queue.                                  *)
LEMMA ArriveFacts ==
  ASSUME TypeOK, NEW e \in Events, Arrive(e)
  PROVE  /\ queue' \in Seq(Events) /\ Len(queue') \in 1 .. QueueSize /\ queue' # <<>>
         /\ queue'[Len(queue')] = e
         /\ \A i \in DOMAIN queue' : queue'[i] = e \/ \E j \in DOMAIN queue : queue'[i] = queue[j]
<1>1. /\ queue \in Seq(Events) /\ Len(queue) \in Nat /\ Len(queue) <= QueueSize
      /\ QueueSize \in Nat \ {0} /\ DOMAIN queue = 1 .. Len(queue)
      /\ (queue # <<>> <=> Len(queue) > 0)
  BY QueueFacts
<1>2. CASE Len(queue) < QueueSize
  <2>1. queue' = Append(queue, e)
    BY <1>2 DEF Arrive
  <2>2. queue' \in Seq(Events) /\ Len(queue') = Len(queue) + 1 /\ queue'[Len(queue) + 1] = e
        /\ DOMAIN queue' = 1 .. Len(queue) + 1
        /\ \A i \in 1 .. Len(queue) : queue'[i] = queue[i]
    BY <1>1, <2>1
  <2>3. queue' # <<>>
    BY <1>1, <2>2
  <2> QED BY <1>1, <1>2, <2>2, <2>3
<1>3. CASE ~(Len(queue) < QueueSize)
  <2>1. queue' = Append(Tail(queue), e)
    BY <1>3 DEF Arrive
  <2>2. Len(queue) = QueueSize /\ Len(queue) > 0
    <3>1. \A a \in Nat, b \in Nat \ {0} : a <= b /\ ~(a < b) => a = b /\ a > 0
      OBVIOUS
    <3> QED BY <1>1, <1>3, <3>1, Zenon
  <2>3. queue # <<>>
    BY <1>1, <2>2, Zenon
  <2>4. Tail(queue) \in Seq(Events) /\ Len(Tail(queue)) = Len(queue) - 1
        /\ \A i \in 1 .. Len(queue) - 1 : Tail(queue)[i] = queue[i + 1]
    BY <1>1, <2>2, <2>3
  <2>5. queue' \in Seq(Events) /\ Len(queue') = Len(queue) /\ queue'[Len(queue)] = e
        /\ DOMAIN queue' = 1 .. Len(queue)
        /\ \A i \in 1 .. Len(queue) - 1 : queue'[i] = queue[i + 1]
    <3> DEFINE t == Tail(queue)
    <3> HIDE DEF t
    <3>1. t \in Seq(Events) /\ Len(t) = Len(queue) - 1 /\ queue' = Append(t, e)
          /\ \A i \in 1 .. Len(queue) - 1 : t[i] = queue[i + 1]
      BY <2>1, <2>4 DEF t
    <3> QED BY <1>1, <2>2, <3>1
  <2>6. queue' # <<>>
    BY <2>2, <2>5, EmptyQueue
  <2> HIDE DEF Events
  <2>7. Len(queue') \in 1 .. QueueSize /\ queue'[Len(queue')] = e
    BY <1>1, <2>2, <2>5
  <2>8. ASSUME NEW i \in DOMAIN queue'
        PROVE  queue'[i] = e \/ \E j \in DOMAIN queue : queue'[i] = queue[j]
    <3>1. CASE i = Len(queue)
      BY <2>5, <3>1
    <3>2. CASE i # Len(queue)
      <4>1. i \in 1 .. Len(queue) - 1 /\ i + 1 \in DOMAIN queue
        BY <1>1, <2>5, <3>2
      <4> QED BY <2>5, <4>1
    <3> QED BY <3>1, <3>2
  <2> QED BY <2>5, <2>6, <2>7, <2>8, Zenon
<1> QED BY <1>2, <1>3

(* What is read is the first; the others move up.                          *)
LEMMA ReadFacts ==
  ASSUME TypeOK, queue # <<>>, queue' = Tail(queue)
  PROVE  /\ queue' \in Seq(Events) /\ Len(queue') \in Nat /\ Len(queue') <= QueueSize
         /\ DOMAIN queue' = 1 .. Len(queue') /\ (queue' # <<>> <=> Len(queue') > 0)
         /\ Len(queue') = Len(queue) - 1 /\ Head(queue) = queue[1] /\ Head(queue) \in Events
         /\ \A i \in DOMAIN queue' : queue'[i] = queue[i + 1] /\ i + 1 \in DOMAIN queue
<1>1. /\ queue \in Seq(Events) /\ Len(queue) \in Nat /\ Len(queue) <= QueueSize
      /\ QueueSize \in Nat \ {0} /\ DOMAIN queue = 1 .. Len(queue) /\ Len(queue) > 0
  BY QueueFacts
<1>2. Tail(queue) \in Seq(Events) /\ Len(Tail(queue)) = Len(queue) - 1
      /\ (\A i \in 1 .. Len(queue) - 1 : Tail(queue)[i] = queue[i + 1])
      /\ Head(queue) = queue[1] /\ Head(queue) \in Events
  BY <1>1
<1>3. queue' \in Seq(Events) /\ Len(queue') = Len(queue) - 1 /\ DOMAIN queue' = 1 .. Len(queue) - 1
  BY <1>1, <1>2
<1>4. queue' # <<>> <=> Len(queue') > 0
  BY <1>3, EmptyQueue
<1> QED BY <1>1, <1>2, <1>3, <1>4

(* The types, the queue and the driver, apart from what is in the files.   *)
QueueInv ==
  TypeOK /\ HeldType /\ EventIsLast /\ HeldIsOfThisPass /\ EventsAreOfThisPass

(* The files, apart from how the program got there.                        *)
FileInv == FileType /\ OpenWhileItsPol /\ AcquiredHeld /\ PassesAscend

(* What no step of the driver touches.                                     *)
programVars == <<request, plan, pc, pass, fileVars, interrupts, failed, acquired>>

(* The driver fills the queue, and its spectrum is of the present pass.    *)
LEMMA DriverStep ==
  ASSUME QueueInv, FileInv, Driver
  PROVE  QueueInv' /\ FileInv'
<1> USE DEF fileVars
<1>1. TypeOK /\ HeldType /\ EventIsLast /\ HeldIsOfThisPass /\ EventsAreOfThisPass
  BY DEF QueueInv
<1>2. PICK e \in Events :
        /\ Arrive(e) /\ UNCHANGED programVars
        /\ (driver' = "ready" => e = "sync") /\ (e = "sync" => driver' = "ready")
        /\ driver' \in {"acquiring", "ready", "gave_up"} /\ driver # "idle"
        /\ (driver = "ready" => driver' = "ready" /\ held' = held)
        /\ (driver' = "ready" /\ driver # "ready" => held'.pass = pass)
        /\ status' \in 0 .. MaxStatus /\ held'.pass \in 0 .. Len(plan')
        /\ HeldType'
  <2>1. CASE DriverReady
    <3>1. PICK s \in Spectra : held' = [pass |-> pass, n |-> s.n, candidates |-> s.candidates]
      BY <2>1 DEF DriverReady
    <3>2. held'.pass = pass /\ held'.n = s.n /\ held'.candidates = s.candidates
      BY <3>1
    <3>3. s.n \in Nat /\ s.candidates \in Seq([at : Nat])
      BY SpectrumAssumption
    <3>4. pass \in 0 .. Len(plan) /\ plan' = plan /\ driver = "acquiring"
      BY <1>1, <2>1, PlanFacts DEF TypeOK, HeldType, DriverReady
    <3>5. HeldType' /\ held'.pass \in 0 .. Len(plan')
      BY <1>1, <2>1, <3>2, <3>3, <3>4 DEF HeldType, Spectrum, DriverReady
    <3>6. status' \in 0 .. MaxStatus
      BY <1>1, <2>1 DEF DriverReady, TypeOK
    <3> QED BY <2>1, <3>2, <3>4, <3>5, <3>6, Zenon DEF DriverReady, programVars, Events
  <2>2. CASE DriverGivesUp
    BY <1>1, <2>2 DEF DriverGivesUp, programVars, TypeOK, Events, HeldType, Spectrum
  <2>3. CASE DriverStatus
    <3>1. status' \in 0 .. MaxStatus
      BY <1>1, <2>3, SpectrumAssumption DEF DriverStatus, TypeOK
    <3> QED BY <1>1, <2>3, <3>1 DEF DriverStatus, programVars, TypeOK, Events, HeldType, Spectrum
  <2> QED BY <2>1, <2>2, <2>3 DEF Driver
<1>3. /\ queue' \in Seq(Events) /\ Len(queue') \in 1 .. QueueSize /\ queue' # <<>>
      /\ queue'[Len(queue')] = e
      /\ \A i \in DOMAIN queue' : queue'[i] = e \/ \E j \in DOMAIN queue : queue'[i] = queue[j]
  BY <1>1, <1>2, ArriveFacts
<1>4. UNCHANGED <<request, plan, pc, pass, fpout, files, interrupts, failed, acquired>>
  BY <1>2 DEF programVars
<1>5. TypeOK'
  <2>1. overflow' \in BOOLEAN /\ edge' \in BOOLEAN /\ failed' \in BOOLEAN
    BY <1>1, <1>2, <1>4, Zenon DEF TypeOK, Arrive
  <2>2. queue' \in Seq({"sync", "status", "timedout"}) /\ Len(queue') <= QueueSize
    BY <1>3, SpectrumAssumption DEF Events
  <2> QED BY <1>1, <1>2, <1>4, <2>1, <2>2 DEF TypeOK
<1>6. EventIsLast'
  BY <1>2, <1>3 DEF EventIsLast
<1>7. HeldIsOfThisPass'
  BY <1>1, <1>2, <1>4 DEF HeldIsOfThisPass
<1>8. EventsAreOfThisPass'
  BY <1>1, <1>2, <1>3, <1>4 DEF EventsAreOfThisPass
<1>9. FileType' /\ OpenWhileItsPol' /\ PassesAscend'
  BY <1>4 DEF FileInv, FileType, OpenWhileItsPol, PassesAscend, Present
<1>10. AcquiredHeld'
  BY <1>3, <1>4 DEF FileInv, AcquiredHeld, Holds
<1> QED BY <1>2, <1>5, <1>6, <1>7, <1>8, <1>9, <1>10 DEF QueueInv, FileInv

-------------------------------------------------------------------------------
(* The steps of the program that leave the files alone.                    *)
Simple == \/ FlushOne \/ FlushEnds \/ driver_start_spectrum \/ StartFails \/ EpollReturns
          \/ EpollInterrupted \/ EpollTimesOut \/ GetEvent \/ GetEventFails \/ ReadFails

(* How such a step moves the program, the driver and the queue.            *)
Moves ==
  \/ pc' \in {"flush", "start", "exit"}
  \/ pc = "start" /\ pc' = "wait" /\ driver' = "acquiring" /\ (ClearsOnScan => queue' = <<>>)
  \/ pc \in {"wait", "get"} /\ pc' \in {"wait", "get"} /\ driver' = driver /\ queue' = queue
  \/ /\ pc = "get" /\ pc' = (IF Head(queue) = "sync" THEN "read" ELSE "wait")
     /\ queue # <<>> /\ queue' = Tail(queue) /\ driver' = driver
  \/ pc = "wait" /\ pc' = "next" /\ driver' = driver /\ queue' = queue

(* Each of these steps is such a move.                                     *)
LEMMA SimpleMoves ==
  ASSUME Simple
  PROVE  /\ UNCHANGED <<request, plan, pass, fpout, files, held, acquired>>
         /\ pc \in Running \ {"next"} /\ pc' \in Running \cup {"exit"}
         /\ \/ queue' = queue
            \/ queue' = <<>>
            \/ queue # <<>> /\ queue' = Tail(queue)
         /\ \/ driver' = driver /\ status' = status
            \/ driver' = "acquiring" /\ status' = 0
         /\ \/ interrupts' = interrupts
            \/ interrupts < MaxInterrupts /\ interrupts' = interrupts + 1
         /\ Moves
<1> USE DEF fileVars, driverVars, queueVars, Running, Moves, Simple
<1>1. CASE FlushOne \/ FlushEnds
  BY <1>1 DEF FlushOne, FlushEnds, CanRead
<1>2. CASE driver_start_spectrum \/ StartFails
  BY <1>2 DEF driver_start_spectrum, StartFails
<1>3. CASE EpollReturns \/ EpollInterrupted \/ EpollTimesOut
  BY <1>3 DEF EpollReturns, EpollInterrupted, EpollTimesOut, AfterTimeout
<1>4. CASE GetEvent
  BY <1>4 DEF GetEvent, CanRead, IsFound
<1>5. CASE GetEventFails \/ ReadFails
  BY <1>5 DEF GetEventFails, ReadFails
<1> QED BY <1>1, <1>2, <1>3, <1>4, <1>5

(* They keep the types of the flags.                                       *)
LEMMA SimpleFlags ==
  ASSUME Simple, TypeOK
  PROVE  overflow' \in BOOLEAN /\ edge' \in BOOLEAN /\ failed' \in BOOLEAN
BY Zenon DEF Simple, TypeOK, fileVars, driverVars, queueVars, FlushOne, FlushEnds, driver_start_spectrum,
   StartFails, EpollReturns, EpollInterrupted, EpollTimesOut, GetEvent, GetEventFails, ReadFails

(* They keep the invariant: the event of a spectrum that is there stays    *)
(* the last of the queue until it is read.                                 *)
LEMMA SimpleStep ==
  ASSUME QueueInv, FileInv, Simple
  PROVE  QueueInv' /\ FileInv'
<1>1. TypeOK /\ HeldType /\ EventIsLast /\ HeldIsOfThisPass /\ EventsAreOfThisPass
  BY DEF QueueInv
<1>2. /\ UNCHANGED <<request, plan, pass, fpout, files, held, acquired>>
      /\ pc \in Running \ {"next"} /\ pc' \in Running \cup {"exit"}
      /\ \/ queue' = queue
         \/ queue' = <<>>
         \/ queue # <<>> /\ queue' = Tail(queue)
      /\ \/ driver' = driver /\ status' = status
         \/ driver' = "acquiring" /\ status' = 0
      /\ \/ interrupts' = interrupts
         \/ interrupts < MaxInterrupts /\ interrupts' = interrupts + 1
      /\ Moves
  BY SimpleMoves
<1>3. /\ queue \in Seq(Events) /\ Len(queue) \in Nat /\ Len(queue) <= QueueSize
      /\ DOMAIN queue = 1 .. Len(queue) /\ QueueSize \in Nat \ {0}
      /\ (queue # <<>> <=> Len(queue) > 0)
  BY <1>1, QueueFacts
<1>4. queue' \in Seq(Events) /\ Len(queue') <= QueueSize
  <2>1. CASE queue' = queue
    BY <1>3, <2>1
  <2>2. CASE queue' = <<>>
    <3>1. <<>> \in Seq(Events) /\ Len(<<>>) = 0
      BY EmptySeq
    <3> QED BY <1>3, <2>2, <3>1
  <2>3. CASE queue # <<>> /\ queue' = Tail(queue)
    BY <1>1, <2>3, ReadFacts
  <2> QED BY <1>2, <2>1, <2>2, <2>3
<1>5. TypeOK'
  <2>1. overflow' \in BOOLEAN /\ edge' \in BOOLEAN /\ failed' \in BOOLEAN
    BY <1>1, SimpleFlags
  <2>2. request' \in Requests /\ plan' = Passes(request') /\ pass' \in 1 .. Len(plan') + 1
        /\ (pc' \notin {"done", "exit"} => pass' <= Len(plan'))
        /\ pc' \in {"flush", "start", "wait", "get", "read", "next", "done", "exit"}
    BY <1>1, <1>2 DEF TypeOK, Running
  <2>3. fpout' \in {Closed, H, V} /\ DOMAIN files' = {H, V} /\ held'.pass \in 0 .. Len(plan')
        /\ acquired' \subseteq 1 .. Len(plan')
    BY <1>1, <1>2 DEF TypeOK
  <2>4. driver' \in {"idle", "acquiring", "ready", "gave_up"} /\ status' \in 0 .. MaxStatus
        /\ interrupts' \in 0 .. MaxInterrupts
    BY <1>1, <1>2, SpectrumAssumption DEF TypeOK
  <2> QED BY <1>4, <2>1, <2>2, <2>3, <2>4 DEF TypeOK, Events
<1>6. HeldType'
  <2>1. pass <= Len(plan)
    BY <1>1, <1>2 DEF TypeOK, Running
  <2> QED BY <1>1, <1>2, <2>1 DEF HeldType, Spectrum
<1>7. ASSUME queue # <<>>, queue' = Tail(queue)
      PROVE  /\ Head(queue) = queue[1] /\ 1 \in DOMAIN queue
             /\ \A i \in DOMAIN queue' : queue'[i] = queue[i + 1] /\ i + 1 \in DOMAIN queue
             /\ Head(queue) # "sync" /\ queue[Len(queue)] = "sync" =>
                  queue' # <<>> /\ queue'[Len(queue')] = "sync"
  <2>1. /\ queue' \in Seq(Events) /\ Len(queue') \in Nat
        /\ DOMAIN queue' = 1 .. Len(queue') /\ (queue' # <<>> <=> Len(queue') > 0)
        /\ Len(queue') = Len(queue) - 1 /\ Head(queue) = queue[1]
        /\ \A i \in DOMAIN queue' : queue'[i] = queue[i + 1] /\ i + 1 \in DOMAIN queue
    BY <1>1, <1>7, ReadFacts
  <2>2. 1 \in DOMAIN queue
    BY <1>3, <1>7
  <2>3. ASSUME Head(queue) # "sync", queue[Len(queue)] = "sync"
        PROVE  queue' # <<>> /\ queue'[Len(queue')] = "sync"
    <3>1. Len(queue) # 1
      BY <2>1, <2>3
    <3>2. Len(queue') > 0 /\ Len(queue') \in DOMAIN queue' /\ Len(queue') + 1 = Len(queue)
      <4>1. \A a, b \in Nat : a > 0 /\ a # 1 /\ b = a - 1 => b > 0 /\ b \in 1 .. b /\ b + 1 = a
        OBVIOUS
      <4> QED BY <1>3, <1>7, <2>1, <3>1, <4>1, Zenon
    <3> QED BY <2>1, <2>3, <3>2, Zenon
  <2> QED BY <2>1, <2>2, <2>3
<1>8. EventIsLast'
  <2> SUFFICES ASSUME pc' \in {"wait", "get"}, driver' = "ready"
               PROVE  queue' # <<>> /\ queue'[Len(queue')] = "sync"
    BY DEF EventIsLast
  <2>1. CASE pc \in {"wait", "get"} /\ driver' = driver /\ queue' = queue
    BY <1>1, <2>1 DEF EventIsLast
  <2>2. CASE pc = "get" /\ Head(queue) # "sync" /\ queue # <<>> /\ queue' = Tail(queue)
             /\ driver' = driver
    BY <1>1, <1>7, <2>2 DEF EventIsLast
  <2> QED BY <1>2, <2>1, <2>2 DEF Moves
<1>9. HeldIsOfThisPass'
  BY <1>1, <1>2 DEF HeldIsOfThisPass, Moves, Since
<1>10. EventsAreOfThisPass'
  <2> SUFFICES ASSUME ClearsOnScan
               PROVE  /\ pc' \in {"wait", "get"} =>
                           \A i \in DOMAIN queue' : queue'[i] = "sync" => driver' = "ready"
                      /\ pc' = "read" => driver' = "ready"
    BY DEF EventsAreOfThisPass
  <2>1. CASE pc' \in {"flush", "start", "exit", "next"}
    BY <2>1
  <2>2. CASE pc' = "wait" /\ queue' = <<>>
    <3>1. DOMAIN queue' = {}
      BY <2>2
    <3> QED BY <2>2, <3>1
  <2>3. CASE pc \in {"wait", "get"} /\ pc' \in {"wait", "get"} /\ driver' = driver /\ queue' = queue
    BY <1>1, <2>3 DEF EventsAreOfThisPass
  <2>4. CASE /\ pc = "get" /\ pc' = (IF Head(queue) = "sync" THEN "read" ELSE "wait")
             /\ queue # <<>> /\ queue' = Tail(queue) /\ driver' = driver
    BY <1>1, <1>7, <2>4 DEF EventsAreOfThisPass
  <2> QED BY <1>2, <2>1, <2>2, <2>3, <2>4 DEF Moves
<1>11. FileType' /\ OpenWhileItsPol'
  BY <1>2 DEF FileInv, FileType, OpenWhileItsPol, Present
<1>12. AcquiredHeld'
  <2>1. ASSUME pc' = "next", driver' = "ready"
        PROVE  queue' # <<>>
    BY <1>1, <1>2, <2>1 DEF Moves, EventIsLast
  <2> QED BY <1>2, <2>1 DEF FileInv, AcquiredHeld, Holds
<1>13. PassesAscend'
  BY <1>2 DEF FileInv, PassesAscend, Running
<1> QED BY <1>5, <1>6, <1>8, <1>9, <1>10, <1>11, <1>12, <1>13 DEF QueueInv, FileInv

-------------------------------------------------------------------------------
(* The files.                                                              *)

(* A block more is at the end of the file, and the others stay.            *)
LEMMA Appended ==
  ASSUME NEW s, s \in Seq(ToSet(s)), NEW b
  PROVE  /\ Append(s, b) \in Seq(ToSet(Append(s, b)))
         /\ Len(s) \in Nat /\ DOMAIN s = 1 .. Len(s)
         /\ DOMAIN Append(s, b) = 1 .. Len(s) + 1 /\ Append(s, b) # <<>>
         /\ Append(s, b)[Len(s) + 1] = b
         /\ \A k \in 1 .. Len(s) : Append(s, b)[k] = s[k]
<1> DEFINE t == Append(s, b)
           T == ToSet(s) \cup {b}
<1>1. s \in Seq(T) /\ b \in T
  BY SeqMonotonic, Zenon
<1> HIDE DEF T
<1>2. /\ t \in Seq(T) /\ Len(t) = Len(s) + 1 /\ Len(s) \in Nat /\ DOMAIN s = 1 .. Len(s)
      /\ DOMAIN t = 1 .. Len(s) + 1 /\ t[Len(s) + 1] = b /\ \A k \in 1 .. Len(s) : t[k] = s[k]
  BY <1>1
<1> HIDE DEF t
<1>3. t \in Seq(ToSet(t))
  <2>1. t = [k \in 1 .. Len(s) + 1 |-> t[k]]
    BY <1>2
  <2>2. \A k \in 1 .. Len(s) + 1 : t[k] \in ToSet(t)
    BY <1>2 DEF ToSet
  <2> QED BY <1>2, <2>1, <2>2, IsASeq
<1>4. t # <<>>
  BY <1>2
<1> QED BY <1>2, <1>3, <1>4 DEF t

(* What is written belongs to the pass, and nothing written is lost.       *)
LEMMA WriteStep ==
  ASSUME QueueInv, FileInv, get_spectrum, held.n # 0
  PROVE  FileInv' /\ DOMAIN files' = {H, V} /\ fpout' = Present.pol
<1> USE DEF driverVars, queueVars
<1> DEFINE p == Present.pol
           s == files[p]
           b == Block(held)
<1>1. TypeOK /\ HeldType /\ HeldIsOfThisPass /\ EventsAreOfThisPass
      /\ FileType /\ OpenWhileItsPol /\ AcquiredHeld /\ PassesAscend
  BY DEF QueueInv, FileInv
<1>2. /\ pc = "read" /\ pc' = "next" /\ fpout' = p
      /\ files' = [files EXCEPT ![p] = Append(Before(p), b)]
      /\ UNCHANGED <<request, plan, pass, driver, held, queue, acquired>>
  BY DEF get_spectrum
<1>3. /\ pass \in 1 .. Len(plan) /\ Len(plan) \in Nat /\ p \in {H, V} /\ H # Closed /\ V # Closed
      /\ Present' = Present /\ DOMAIN files = {H, V} /\ pc \in Running
  BY <1>1, <1>2, PlanFacts DEF TypeOK, Present, Running, H, V, Closed
<1>4. Before(p) = s
  <2>1. CASE fpout = Closed
    BY <1>1, <1>3, <2>1 DEF OpenWhileItsPol, Before
  <2>2. CASE fpout # Closed
    BY <2>2 DEF Before
  <2> QED BY <2>1, <2>2
<1>5. s \in Seq(ToSet(s))
  BY <1>1, <1>3 DEF FileType
<1> DEFINE t == Append(s, b)
<1>6. /\ t \in Seq(ToSet(t)) /\ t # <<>> /\ Len(s) \in Nat /\ DOMAIN s = 1 .. Len(s)
      /\ DOMAIN t = 1 .. Len(s) + 1 /\ t[Len(s) + 1] = b /\ \A k \in 1 .. Len(s) : t[k] = s[k]
  <2> HIDE DEF s, b
  <2> QED BY <1>5, Appended
<1>7. b.of = held /\ b.pass = held.pass /\ b.band = plan[pass].band
      /\ b.marks = [i \in Marked(held) |-> RateAt(held, i)]
  BY DEF Block, Present
<1> HIDE DEF b
<1>8. files'[p] = t /\ (\A q \in {H, V} : q # p => files'[q] = files[q]) /\ DOMAIN files' = {H, V}
  <2> HIDE DEF t, p
  <2> QED BY <1>2, <1>3, <1>4 DEF t
<1> HIDE DEF t
<1>9. FileType'
  <2> SUFFICES ASSUME NEW q \in {H, V}
               PROVE  /\ files'[q] \in Seq(ToSet(files'[q]))
                      /\ \A k \in DOMAIN files'[q] : IsBlock(files'[q][k])
    BY DEF FileType, IsBlock, Spectrum, Marked, RateAt, MetUpTo, NextCandidate
  <2>1. CASE q # p
    BY <1>1, <1>8, <2>1 DEF FileType
  <2>2. CASE q = p
    <3>1. IsBlock(b)
      BY <1>1, <1>7, Zenon DEF IsBlock, HeldType
    <3>2. \A k \in 1 .. Len(s) : IsBlock(s[k])
      BY <1>1, <1>3, <1>6 DEF FileType
    <3>3. \A k \in 1 .. Len(s) + 1 : k \in 1 .. Len(s) \/ k = Len(s) + 1
      BY <1>6
    <3>4. \A k \in DOMAIN t : IsBlock(t[k])
      <4> HIDE DEF s, p
      <4> QED BY <1>6, <3>1, <3>2, <3>3, Zenon
    <3> QED BY <1>6, <1>8, <2>2, <3>4
  <2> QED BY <2>1, <2>2
<1>10. OpenWhileItsPol'
  <2>1. ASSUME NEW q \in {H, V}, files'[q] # <<>>
        PROVE  \E i \in 1 .. pass : plan[i].pol = q
    <3>1. CASE q = p
      BY <1>3, <3>1 DEF Present
    <3>2. CASE q # p
      BY <1>1, <1>8, <2>1, <3>2 DEF OpenWhileItsPol
    <3> QED BY <3>1, <3>2
  <2> HIDE DEF p
  <2>2. Present'.pol = p
    BY <1>3 DEF p
  <2> QED BY <1>2, <2>1, <2>2 DEF OpenWhileItsPol
<1>11. AcquiredHeld'
  <2>1. ASSUME NEW q \in {H, V}, NEW k \in DOMAIN files[q]
        PROVE  k \in DOMAIN files'[q] /\ files'[q][k] = files[q][k]
    BY <1>6, <1>8
  <2>2. ASSUME NEW i \in acquired
        PROVE  Holds(i)'
    <3>1. plan[i].pol \in {H, V} /\ Holds(i)
      BY <1>1, PlanFacts DEF TypeOK, AcquiredHeld
    <3> QED BY <1>2, <2>1, <3>1 DEF Holds
  <2>3. ASSUME driver = "ready"
        PROVE  Holds(pass)'
    <3>1. held.pass = pass
      BY <1>1, <1>2, <2>3 DEF HeldIsOfThisPass, Since
    <3>2. Len(s) + 1 \in DOMAIN files'[p] /\ files'[p][Len(s) + 1].pass = pass
      BY <1>6, <1>7, <1>8, <3>1
    <3> QED BY <1>2, <3>2 DEF Holds, Present
  <2> QED BY <1>2, <2>2, <2>3 DEF AcquiredHeld, Holds
<1>12. PassesAscend'
  <2> SUFFICES ASSUME ClearsOnScan, NEW q \in {H, V}, NEW k \in DOMAIN files'[q]
               PROVE  /\ files'[q][k].pass \in 1 .. Len(plan) /\ plan[files'[q][k].pass].pol = q
                      /\ plan[files'[q][k].pass].band = files'[q][k].band
                      /\ files'[q][k].pass <= pass
                      /\ k > 1 => files'[q][k - 1].pass < files'[q][k].pass
    BY <1>2 DEF PassesAscend
  <2>1. ASSUME NEW r \in {H, V}, NEW j \in DOMAIN files[r]
        PROVE  /\ files[r][j].pass \in 1 .. Len(plan) /\ plan[files[r][j].pass].pol = r
               /\ plan[files[r][j].pass].band = files[r][j].band
               /\ files[r][j].pass < pass
               /\ j > 1 => files[r][j - 1].pass < files[r][j].pass
    <3>1. /\ files[r][j].pass \in 1 .. Len(plan) /\ plan[files[r][j].pass].pol = r
          /\ plan[files[r][j].pass].band = files[r][j].band
          /\ files[r][j].pass <= pass /\ files[r][j].pass # pass
          /\ j > 1 => files[r][j - 1].pass < files[r][j].pass
      BY <1>1, <1>2 DEF PassesAscend
    <3> QED BY <1>3, <3>1
  <2>2. CASE q # p \/ k # Len(s) + 1
    <3>1. k \in DOMAIN files[q] /\ files'[q][k] = files[q][k]
          /\ (k > 1 => files'[q][k - 1] = files[q][k - 1])
      <4>1. CASE q # p
        BY <1>8, <4>1
      <4>2. CASE q = p
        <5>1. k \in 1 .. Len(s) /\ (k > 1 => k - 1 \in 1 .. Len(s))
          BY <1>6, <1>8, <2>2, <4>2
        <5> QED BY <1>6, <1>8, <4>2, <5>1
      <4> QED BY <4>1, <4>2
    <3> QED BY <1>3, <2>1, <3>1
  <2>3. CASE q = p /\ k = Len(s) + 1
    <3>1. held.pass = pass
      BY <1>1, <1>2 DEF HeldIsOfThisPass, EventsAreOfThisPass, Since
    <3>2. files'[q][k] = b /\ b.pass = pass /\ b.band = plan[pass].band
      BY <1>6, <1>7, <1>8, <2>3, <3>1
    <3>3. ASSUME k > 1
          PROVE  files'[q][k - 1].pass < pass
      <4>1. Len(s) \in 1 .. Len(s) /\ k - 1 = Len(s)
        BY <1>6, <2>3, <3>3
      <4>2. files'[q][k - 1] = s[Len(s)]
        BY <1>6, <1>8, <2>3, <4>1
      <4> QED BY <1>3, <1>6, <2>1, <4>1, <4>2
    <3> QED BY <1>3, <2>3, <3>2, <3>3 DEF Present
  <2> QED BY <2>2, <2>3
<1> QED BY <1>2, <1>8, <1>9, <1>10, <1>11, <1>12 DEF FileInv

(* With samples or without.                                                *)
LEMMA GetSpectrumStep ==
  ASSUME QueueInv, FileInv, get_spectrum
  PROVE  QueueInv' /\ FileInv'
<1> USE DEF driverVars, queueVars
<1>1. TypeOK /\ HeldType /\ HeldIsOfThisPass
  BY DEF QueueInv
<1>2. /\ pc = "read" /\ pc' = "next"
      /\ UNCHANGED <<request, plan, pass, driver, held, status, queue, overflow, edge, interrupts,
                     failed, acquired>>
  BY DEF get_spectrum
<1>3. FileInv' /\ DOMAIN files' = {H, V} /\ fpout' \in {Closed, H, V}
  <2>1. CASE held.n # 0
    <3>1. Present.pol \in {H, V}
      BY <1>1, <1>2, PlanFacts DEF TypeOK, Present
    <3> QED BY <2>1, <3>1, WriteStep
  <2>2. CASE held.n = 0
    <3>1. fpout' = fpout /\ files' = files /\ ~(held.n > 0)
      BY <2>2 DEF get_spectrum, fileVars
    <3> QED BY <1>1, <1>2, <3>1 DEF FileInv, FileType, OpenWhileItsPol, AcquiredHeld, PassesAscend, Holds,
         Present, Running, TypeOK
  <2> QED BY <2>1, <2>2
<1>4. TypeOK'
  <2>1. overflow' \in BOOLEAN /\ edge' \in BOOLEAN /\ failed' \in BOOLEAN
    BY <1>1, <1>2, Zenon DEF TypeOK
  <2> QED BY <1>1, <1>2, <1>3, <2>1 DEF TypeOK
<1>5. HeldType' /\ EventIsLast' /\ HeldIsOfThisPass' /\ EventsAreOfThisPass'
  BY <1>1, <1>2 DEF HeldType, Spectrum, EventIsLast, HeldIsOfThisPass, EventsAreOfThisPass, Since
<1> QED BY <1>3, <1>4, <1>5 DEF QueueInv

(* A pass ends: the file is closed when its polarisation does.             *)
LEMMA NextPassStep ==
  ASSUME QueueInv, FileInv, NextPass
  PROVE  QueueInv' /\ FileInv'
<1> USE DEF driverVars, queueVars
<1>1. TypeOK /\ HeldType /\ FileType /\ OpenWhileItsPol /\ AcquiredHeld /\ PassesAscend
  BY DEF QueueInv, FileInv
<1>2. /\ pc = "next" /\ fpout' = (IF EndsPol(pass) THEN Closed ELSE fpout)
      /\ \/ pass < Len(plan) /\ pass' = pass + 1 /\ pc' = "flush"
         \/ ~(pass < Len(plan)) /\ pass' = pass /\ pc' = "done"
      /\ acquired' = (IF Acquired /\ ~failed /\ queue = <<>> THEN acquired \cup {pass} ELSE acquired)
      /\ UNCHANGED <<request, plan, files, driver, held, status, queue, overflow, edge, interrupts,
                     failed>>
  BY DEF NextPass
<1>3. /\ pass \in 1 .. Len(plan) /\ Len(plan) \in Nat
      /\ \A i \in 1 .. Len(plan) : plan[i].pol \in {H, V}
      /\ \A i, j \in 1 .. Len(plan) : i <= j /\ plan[i].pol = V => plan[j].pol = V
  BY <1>1, <1>2, PlanFacts DEF TypeOK
<1>4. TypeOK'
  <2>1. overflow' \in BOOLEAN /\ edge' \in BOOLEAN /\ failed' \in BOOLEAN
    BY <1>1, <1>2, Zenon DEF TypeOK
  <2>2. pass' \in 1 .. Len(plan) + 1 /\ (pc' \notin {"done", "exit"} => pass' <= Len(plan))
        /\ pc' \in {"flush", "done"}
    BY <1>2, <1>3
  <2>3. fpout' \in {Closed, H, V} /\ acquired' \subseteq 1 .. Len(plan)
    BY <1>1, <1>2, <1>3 DEF TypeOK
  <2> QED BY <1>1, <1>2, <2>1, <2>2, <2>3 DEF TypeOK
<1>5. HeldType'
  BY <1>1, <1>2, <1>3 DEF HeldType, Spectrum
<1>6. EventIsLast' /\ HeldIsOfThisPass' /\ EventsAreOfThisPass'
  BY <1>2 DEF EventIsLast, HeldIsOfThisPass, EventsAreOfThisPass, Since
<1>7. FileType'
  BY <1>1, <1>2 DEF FileType
<1>8. OpenWhileItsPol'
  <2>1. ASSUME NEW p \in {H, V}, files[p] # <<>>
        PROVE  \E i \in 1 .. pass' : plan[i].pol = p
    <3>1. PICK i \in 1 .. pass : plan[i].pol = p
      BY <1>1, <2>1 DEF OpenWhileItsPol
    <3>2. i \in 1 .. pass'
      BY <1>2, <1>3
    <3> QED BY <3>1, <3>2
  <2>2. ASSUME pc' \in Running, files[plan[pass'].pol] # <<>>
        PROVE  fpout' = plan[pass'].pol
    <3>1. pass' = pass + 1 /\ pass' \in 1 .. Len(plan) /\ pass' # 1
      BY <1>2, <1>3, <2>2 DEF Running
    <3>2. PICK i \in 1 .. pass : plan[i].pol = plan[pass'].pol
      BY <1>1, <1>3, <2>2, <3>1 DEF OpenWhileItsPol
    <3>3. plan[pass].pol = plan[pass'].pol
      <4>1. CASE plan[pass'].pol = V
        BY <1>3, <3>2, <4>1
      <4>2. CASE plan[pass'].pol = H
        BY <1>3, <3>1, <4>2 DEF H, V
      <4> QED BY <1>3, <3>1, <4>1, <4>2
    <3>4. ~EndsPol(pass)
      BY <1>2, <1>3, <3>1, <3>3 DEF EndsPol
    <3> QED BY <1>1, <1>2, <2>2, <3>3, <3>4 DEF OpenWhileItsPol, Present, Running
  <2> QED BY <1>2, <2>1, <2>2 DEF OpenWhileItsPol, Present
<1>9. AcquiredHeld'
  <2>1. Acquired /\ queue = <<>> => Holds(pass)
    BY <1>1 DEF AcquiredHeld, Acquired
  <2> QED BY <1>1, <1>2, <2>1 DEF AcquiredHeld, Holds
<1>10. PassesAscend'
  <2> SUFFICES ASSUME ClearsOnScan, NEW p \in {H, V}, NEW k \in DOMAIN files[p]
               PROVE  /\ files[p][k].pass \in 1 .. Len(plan) /\ plan[files[p][k].pass].pol = p
                      /\ plan[files[p][k].pass].band = files[p][k].band
                      /\ files[p][k].pass <= pass'
                      /\ (files[p][k].pass = pass' => pc' \in {"next", "done"})
                      /\ k > 1 => files[p][k - 1].pass < files[p][k].pass
    BY <1>2 DEF PassesAscend
  <2>1. /\ files[p][k].pass \in 1 .. Len(plan) /\ plan[files[p][k].pass].pol = p
        /\ plan[files[p][k].pass].band = files[p][k].band /\ files[p][k].pass <= pass
        /\ k > 1 => files[p][k - 1].pass < files[p][k].pass
    BY <1>1 DEF PassesAscend
  <2>2. files[p][k].pass <= pass' /\ (files[p][k].pass = pass' => pc' \in {"next", "done"})
    BY <1>2, <1>3, <2>1
  <2> QED BY <2>1, <2>2
<1> QED BY <1>4, <1>5, <1>6, <1>7, <1>8, <1>9, <1>10 DEF QueueInv, FileInv

-------------------------------------------------------------------------------
(* The specification.                                                      *)

(* The invariant holds when the command begins.                            *)
LEMMA SpectrumInit ==
  ASSUME Init
  PROVE  QueueInv /\ FileInv
<1>1. /\ request \in Requests /\ plan = Passes(request) /\ pass = 1
      /\ pc = (IF plan = <<>> THEN "done" ELSE "flush")
      /\ fpout = Closed /\ files = [p \in {H, V} |-> <<>>]
      /\ driver = "idle" /\ held = Nothing /\ status = 0
      /\ queue = <<>> /\ interrupts = 0 /\ acquired = {}
  BY DEF Init
<1>2. plan \in Seq(PassType)
  BY <1>1, PlanShape
<1>3. Len(plan) \in Nat /\ (plan # <<>> => Len(plan) > 0)
  BY <1>2, EmptySeq
<1>4. held.pass = 0 /\ held.n = 0 /\ held.candidates = <<>> /\ Spectrum(held)
  BY <1>1 DEF Nothing, Spectrum
<1>5. \A p \in {H, V} : files[p] = <<>> /\ DOMAIN files[p] = {}
  BY <1>1
<1>6. TypeOK
  <2>1. overflow \in BOOLEAN /\ edge \in BOOLEAN /\ failed \in BOOLEAN
    BY Zenon DEF Init
  <2>2. queue \in Seq({"sync", "status", "timedout"}) /\ Len(queue) <= QueueSize
    BY <1>1, EmptySeq, SpectrumAssumption
  <2>3. pass \in 1 .. Len(plan) + 1 /\ (pc \notin {"done", "exit"} => pass <= Len(plan))
        /\ pc \in {"flush", "done"}
    BY <1>1, <1>3
  <2>4. DOMAIN files = {H, V} /\ held.pass \in 0 .. Len(plan) /\ status \in 0 .. MaxStatus
        /\ interrupts \in 0 .. MaxInterrupts /\ acquired \subseteq 1 .. Len(plan)
        /\ fpout \in {Closed, H, V} /\ driver \in {"idle", "acquiring", "ready", "gave_up"}
    BY <1>1, <1>3, <1>4, SpectrumAssumption
  <2> QED BY <1>1, <2>1, <2>2, <2>3, <2>4, Zenon DEF TypeOK
<1>7. HeldType /\ EventIsLast /\ HeldIsOfThisPass /\ EventsAreOfThisPass
  BY <1>1, <1>4 DEF HeldType, EventIsLast, HeldIsOfThisPass, EventsAreOfThisPass
<1>8. FileType
  BY <1>5, EmptySeq DEF FileType
<1>9. OpenWhileItsPol
  <2>1. pc \in Running => Present.pol \in {H, V}
    BY <1>1, <1>2, <1>3, <1>6, PlanFacts DEF Running, Present
  <2> QED BY <1>5, <2>1 DEF OpenWhileItsPol
<1>10. AcquiredHeld
  BY <1>1, <1>4 DEF AcquiredHeld
<1>11. PassesAscend
  BY <1>5 DEF PassesAscend
<1> QED BY <1>6, <1>7, <1>8, <1>9, <1>10, <1>11 DEF QueueInv, FileInv

(* The inductive invariant of the spectrum command.                        *)
THEOREM SpectrumInvariance == Spec => []SpectrumInv
<1>1. Init => QueueInv /\ FileInv
  BY SpectrumInit
<1>2. QueueInv /\ FileInv /\ [Next]_vars => (QueueInv /\ FileInv)'
  <2> SUFFICES ASSUME QueueInv, FileInv, [Next]_vars
               PROVE  (QueueInv /\ FileInv)'
    OBVIOUS
  <2>1. CASE Driver
    BY <2>1, DriverStep
  <2>2. CASE Simple
    BY <2>2, SimpleStep
  <2>3. CASE get_spectrum
    BY <2>3, GetSpectrumStep
  <2>4. CASE NextPass
    BY <2>4, NextPassStep
  <2>5. CASE UNCHANGED vars
    BY <2>5 DEF vars, fileVars, driverVars, queueVars, QueueInv, FileInv, TypeOK, HeldType, Spectrum,
       EventIsLast, HeldIsOfThisPass, EventsAreOfThisPass, FileType, OpenWhileItsPol, AcquiredHeld, Holds,
       PassesAscend, Present
  <2> QED BY <2>1, <2>2, <2>3, <2>4, <2>5, Zenon DEF Next, Program, Simple, Finished
<1>3. QueueInv /\ FileInv => SpectrumInv
  BY DEF QueueInv, FileInv, SpectrumInv
<1> QED BY <1>1, <1>2, <1>3, PTL DEF Spec

(* Every file of the spectrum command holds, in the order of the passes    *)
(* and each once, spectra of its own polarisation, converted with the      *)
(* oscillator of the band they were acquired in: for every command line,   *)
(* spectrum and queue, if a scan command discards the unread events.       *)
THEOREM FilesHoldTheirPassesEver ==
  ASSUME ClearsOnScan
  PROVE  Spec => []FilesHoldTheirPasses
<1>1. ASSUME SpectrumInv
      PROVE  FilesHoldTheirPasses
  <2> SUFFICES ASSUME NEW b \in Blocks
               PROVE  LET f == files[b[1]]
                          this == f[b[2]]
                      IN  /\ plan[this.pass].pol = b[1] /\ plan[this.pass].band = this.band
                          /\ b[2] > 1 => f[b[2] - 1].pass < this.pass
    BY DEF FilesHoldTheirPasses
  <2>1. b[1] \in {H, V} /\ b[2] \in DOMAIN files[b[1]]
    BY DEF Blocks
  <2> QED BY <1>1, <2>1 DEF SpectrumInv, PassesAscend
<1>2. SpectrumInv => FilesHoldTheirPasses
  BY <1>1
<1> QED BY <1>2, SpectrumInvariance, PTL

(* A spectrum that was acquired, with no event left unread and no read     *)
(* failed, is in a file and stays there, whatever the later passes do and  *)
(* whether or not a scan command discards the unread events.               *)
THEOREM AcquiredIsWrittenEver == Spec => []AcquiredIsWritten
<1>1. ASSUME SpectrumInv
      PROVE  AcquiredIsWritten
  <2> SUFFICES ASSUME NEW i \in acquired
               PROVE  i \in Written
    BY DEF AcquiredIsWritten
  <2>1. Holds(i) /\ plan[i].pol \in {H, V}
    BY <1>1, PlanFacts DEF SpectrumInv, AcquiredHeld, TypeOK
  <2>2. PICK k \in DOMAIN files[plan[i].pol] : files[plan[i].pol][k].pass = i
    BY <2>1 DEF Holds
  <2>3. files[plan[i].pol][k] \in UNION {ToSet(files[p]) : p \in {H, V}}
    BY <2>1 DEF ToSet
  <2> QED BY <2>2, <2>3 DEF Written
<1>2. SpectrumInv => AcquiredIsWritten
  BY <1>1
<1> QED BY <1>2, SpectrumInvariance, PTL

(* Of a driver that reports ascending candidates on the grid, a sample is  *)
(* marked in the file if and only if it is a candidate: get_spectrum walks *)
(* over samples and candidates together and misses none, however many      *)
(* there are.                                                              *)
THEOREM MarksAreCandidatesEver == Spec => []MarksAreCandidates
<1>1. ASSUME SpectrumInv
      PROVE  MarksAreCandidates
  <2> SUFFICES ASSUME NEW b \in Blocks, OnGrid(files[b[1]][b[2]].of)
               PROVE  DOMAIN files[b[1]][b[2]].marks =
                        {files[b[1]][b[2]].of.candidates[k].at :
                           k \in DOMAIN files[b[1]][b[2]].of.candidates}
    BY DEF MarksAreCandidates
  <2> DEFINE this == files[b[1]][b[2]]
  <2>1. IsBlock(this)
    <3>1. b[1] \in {H, V} /\ b[2] \in DOMAIN files[b[1]]
      BY DEF Blocks
    <3> QED BY <1>1, <3>1 DEF SpectrumInv, FileType
  <2>2. OnGrid(this.of)
    OBVIOUS
  <2> HIDE DEF this
  <2>3. DOMAIN this.marks = Marked(this.of) /\ Spectrum(this.of)
    BY <2>1 DEF IsBlock
  <2>4. Marked(this.of) = {this.of.candidates[k].at : k \in DOMAIN this.of.candidates}
    BY <2>2, <2>3, CandidatesAreMarked
  <2> QED BY <2>3, <2>4 DEF this
<1>2. SpectrumInv => MarksAreCandidates
  BY <1>1
<1> QED BY <1>2, SpectrumInvariance, PTL

-------------------------------------------------------------------------------
(***************************************************************************)
(* The sweep.                                                              *)
(***************************************************************************)

(* The range begins below every frequency of the sweep.                    *)
SweepInv == SweepTypeOK /\ start_freq <= frequency /\ NoGap

(* A search window has a width, and the step stays within it.              *)
LEMMA Widths ==
  /\ HalfRange \in Nat
  /\ start_freq \in Nat /\ end_freq \in Nat /\ step_freq \in Nat \ {0}
  /\ step_freq <= 2 * HalfRange /\ Pols \in {1, 2}
<1>1. HalfRange \in Nat
  BY SweepScanAssumption, SMT DEF HalfRange
<1> QED
  BY <1>1, SweepScanAssumption, SMT

(* A carrier that may be found lies in the window and has a bandwidth.     *)
LEMMA CarrierType ==
  ASSUME NEW c \in Carriers
  PROVE  c[1] \in Int /\ c[2] \in Nat /\ -HalfRange <= c[1]
<1>1. c \in (-HalfRange .. HalfRange) \X Nat
  BY SweepScanAssumption
<1> QED
  BY <1>1, Widths

(* A step to a higher frequency or to the next polarisation.               *)
MovesOn == pol' > pol \/ (pol' = pol /\ frequency' > frequency)

(* The loop moves on to a higher frequency, keeps the types and leaves no  *)
(* gap, if the frequency it moves on to leaves none.                       *)
LEMMA GoOnStep ==
  ASSUME SweepInv, stage = "scan", NEW new \in Int, NEW upTo \in Int,
         GoOn(Advanced(new)), misread' \in BOOLEAN,
         reach' = (IF pol' # pol THEN start_freq ELSE Larger(reach, upTo)),
         pol' = pol /\ ~misread' => Advanced(new) - HalfRange <= Larger(reach, upTo)
  PROVE  SweepInv' /\ MovesOn
<1> USE DEF SweepInv
<1> DEFINE next == Advanced(new)
<1>1. next \in Nat /\ next > frequency
  BY Widths DEF SweepTypeOK, Advanced
<1>2. /\ start_freq \in Nat /\ end_freq \in Nat /\ HalfRange \in Nat /\ Pols \in {1, 2}
      /\ frequency \in Nat /\ pol \in 1 .. Pols /\ frequency < end_freq /\ reach \in Nat
      /\ start_freq <= frequency
  BY Widths DEF SweepTypeOK
<1>3. reach' \in Nat
  BY <1>2 DEF Larger
<1>4. ASSUME pol' = pol, ~misread' PROVE next - HalfRange <= Larger(reach, upTo)
  BY <1>4
<1> HIDE DEF next, SweepInv
<1>5. CASE InRange(next)
  <2>1. frequency' = next /\ pol' = pol /\ stage' = stage
    BY <1>5 DEF GoOn, next
  <2>2. SweepTypeOK' /\ start_freq <= frequency'
    BY <1>1, <1>2, <1>3, <1>5, <2>1 DEF SweepTypeOK, InRange
  <2>3. NoGap'
    BY <1>4, <2>1, HalfRange' = HalfRange DEF NoGap, HalfRange
  <2> QED
    BY <1>1, <1>2, <2>1, <2>2, <2>3 DEF SweepInv, MovesOn
<1>6. CASE ~InRange(next) /\ pol < Pols
  <2>1. pol' = pol + 1 /\ stage' = stage /\ frequency' = start_freq
    BY <1>6 DEF GoOn, next
  <2>2. pol' # pol /\ reach' = start_freq
    BY <1>2, <2>1
  <2>3. SweepTypeOK' /\ start_freq <= frequency'
    BY <1>2, <1>3, <1>6, <2>1 DEF SweepTypeOK
  <2>4. NoGap'
    <3>1. HalfRange' = HalfRange
      BY DEF HalfRange
    <3> QED
      BY <1>2, <2>1, <2>2, <3>1 DEF NoGap
  <2> QED
    BY <1>2, <2>1, <2>2, <2>3, <2>4 DEF SweepInv, MovesOn
<1>7. CASE ~InRange(next) /\ ~(pol < Pols)
  <2>1. pol' = pol /\ stage' = "done" /\ frequency' = next
    BY <1>7 DEF GoOn, next
  <2>2. SweepTypeOK' /\ start_freq <= frequency'
    BY <1>1, <1>2, <1>3, <2>1 DEF SweepTypeOK
  <2>3. NoGap'
    BY <1>4, <2>1, HalfRange' = HalfRange DEF NoGap, HalfRange
  <2> QED
    BY <1>1, <1>2, <2>1, <2>2, <2>3 DEF SweepInv, MovesOn
<1> QED
  BY <1>5, <1>6, <1>7

(* One lemma for all steps of the sweep.                                   *)
LEMMA ScanStep ==
  ASSUME SweepInv, Scan
  PROVE  SweepInv' /\ (stage' = "scan" => MovesOn)
<1> USE DEF Searched
<1>1. /\ frequency \in Nat /\ reach \in Nat /\ misread \in BOOLEAN
      /\ start_freq \in Nat /\ HalfRange \in Nat /\ step_freq \in Nat /\ step_freq <= 2 * HalfRange
  BY Widths DEF SweepInv, SweepTypeOK
<1>2. CASE TimedOut
  <2>1. Advanced(frequency + step_freq) - HalfRange <= Larger(reach, frequency + HalfRange)
    BY <1>1 DEF Advanced, Larger
  <2> QED
    BY <1>1, <1>2, <2>1, GoOnStep DEF TimedOut
<1>3. CASE NotLocked
  <2>1. Advanced(frequency) - HalfRange <= Larger(reach, frequency + HalfRange)
    BY <1>1 DEF Advanced, Larger
  <2> QED
    BY <1>1, <1>3, <2>1, GoOnStep DEF NotLocked
<1>4. CASE ScanFails
  BY <1>4 DEF ScanFails, SweepInv, SweepTypeOK, NoGap
<1>5. ASSUME NEW c \in Carriers, Locked(c)
      PROVE  SweepInv' /\ (stage' = "scan" => MovesOn)
  <2>1. c[1] \in Int /\ c[2] \in Nat /\ -HalfRange <= c[1]
    BY CarrierType
  <2> DEFINE upTo == Larger(frequency + HalfRange, frequency + c[1] + c[2])
  <2>2. upTo \in Int /\ AfterCarrier(c) \in Int
    BY <1>1, <2>1 DEF Larger, AfterCarrier
  <2>3. Advanced(AfterCarrier(c)) - HalfRange <= Larger(reach, upTo)
    BY <1>1, <2>1 DEF Advanced, AfterCarrier, Larger
  <2> QED
    BY <1>1, <1>5, <2>2, <2>3, GoOnStep DEF Locked
<1>6. ASSUME NEW f \in Stale, Misread(f)
      PROVE  SweepInv' /\ (stage' = "scan" => MovesOn)
  <2>1. f + HalfRange \in Int
    BY <1>1, SweepScanAssumption
  <2>2. /\ stage = "scan" /\ GoOn(Advanced(f + HalfRange)) /\ misread' = (pol' = pol)
        /\ reach' = IF pol' # pol THEN start_freq ELSE Larger(reach, frequency + HalfRange)
    BY <1>6 DEF Misread
  <2>3. misread' \in BOOLEAN /\ ~(pol' = pol /\ ~misread')
    BY <2>2, Zenon
  <2>4. frequency + HalfRange \in Int
    BY <1>1
  <2>5. pol' = pol /\ ~misread' =>
          Advanced(f + HalfRange) - HalfRange <= Larger(reach, frequency + HalfRange)
    BY <2>3, Zenon
  <2>6. SweepInv' /\ MovesOn
    BY <2>1, <2>2, <2>3, <2>4, <2>5, GoOnStep, Zenon
  <2> QED
    BY <2>6
<1> QED
  BY <1>2, <1>3, <1>4, <1>5, <1>6 DEF Scan

(* The inductive invariant holds in every reachable state.                 *)
THEOREM SweepInvariance == SweepSpec => []SweepInv
<1>1. ASSUME SweepInit PROVE SweepInv
  <2>1. /\ start_freq \in Nat /\ end_freq \in Nat /\ HalfRange \in Nat /\ Pols \in {1, 2}
    BY Widths
  <2>2. pol = 1 /\ frequency = start_freq /\ reach = start_freq /\ misread = FALSE
    BY <1>1 DEF SweepInit
  <2>3. stage \in {"scan", "done"} /\ (stage = "scan" => start_freq < end_freq)
    BY <1>1 DEF SweepInit, InRange
  <2>4. SweepTypeOK
    <3>1. pol \in 1 .. Pols /\ frequency \in Nat /\ reach \in Nat
      BY <2>1, <2>2
    <3>2. misread \in BOOLEAN
      BY <2>2, Zenon
    <3>3. stage \in {"scan", "done", "exit"} /\ (stage = "scan" => frequency < end_freq)
      BY <2>2, <2>3
    <3> QED
      BY <3>1, <3>2, <3>3, Zenon DEF SweepTypeOK
  <2>5. NoGap
    BY <2>1, <2>2 DEF NoGap
  <2> QED
    BY <2>1, <2>2, <2>4, <2>5 DEF SweepInv
<1>2. SweepInv /\ [SweepNext]_sweepVars => SweepInv'
  <2>1. ASSUME SweepInv, Scan PROVE SweepInv'
    BY <2>1, ScanStep
  <2>2. ASSUME SweepInv, UNCHANGED sweepVars PROVE SweepInv'
    BY <2>2 DEF sweepVars, SweepInv, SweepTypeOK, NoGap
  <2> QED
    BY <2>1, <2>2 DEF SweepNext, SweepFinished
<1> QED
  BY <1>1, <1>2, PTL DEF SweepSpec

(* No frequency between two searches of the sweep is left out.             *)
THEOREM NoGapEver == SweepSpec => []NoGap
<1>1. SweepInv => NoGap
  BY DEF SweepInv
<1> QED
  BY <1>1, SweepInvariance, PTL

(* How much of the sweep is left, in this polarisation and the next.       *)
LeftToSweep == IF pol < Pols THEN (end_freq - frequency) + end_freq ELSE end_freq - frequency

(* What is left of a polarisation is a number, less than that of two.      *)
LEMMA Leftovers ==
  ASSUME NEW e \in Nat, NEW f \in Nat, NEW g \in Nat, f < e, g < e
  PROVE  /\ e - f \in Nat /\ (e - f) + e \in Nat
         /\ e - g \in Nat /\ (e - g) + e \in Nat
         /\ g > f => e - g < e - f /\ (e - g) + e < (e - f) + e
         /\ e - g < (e - f) + e
OBVIOUS

(* Every search lowers a natural number or is the last, whatever it finds  *)
(* and also if its result is below the frequency it was sent to: the loops *)
(* of main_blindscan_sweep come to their end after finitely many searches. *)
THEOREM FinitelyManySearches ==
  SweepSpec => [][stage' = "scan" => /\ LeftToSweep \in Nat /\ LeftToSweep' \in Nat
                                     /\ LeftToSweep' < LeftToSweep]_sweepVars
<1>1. ASSUME SweepInv, Scan, stage' = "scan"
      PROVE  LeftToSweep \in Nat /\ LeftToSweep' \in Nat /\ LeftToSweep' < LeftToSweep
  <2>1. SweepInv' /\ MovesOn
    BY <1>1, ScanStep
  <2>2. stage = "scan"
    BY <1>1 DEF Scan, TimedOut, NotLocked, ScanFails, Locked, Misread
  <2>3. end_freq \in Nat /\ frequency \in Nat /\ frequency < end_freq
    BY <1>1, <2>2, Widths DEF SweepInv, SweepTypeOK
  <2>4. frequency' \in Nat /\ frequency' < end_freq
    BY <1>1, <2>1 DEF SweepInv, SweepTypeOK
  <2>5. pol \in 1 .. Pols /\ pol' \in 1 .. Pols /\ Pols \in {1, 2}
    BY <1>1, <2>1, Widths DEF SweepInv, SweepTypeOK
  <2> DEFINE e == end_freq  g == frequency'
  <2>6. /\ e - frequency \in Nat /\ (e - frequency) + e \in Nat
        /\ e - g \in Nat /\ (e - g) + e \in Nat
        /\ g > frequency => e - g < e - frequency /\ (e - g) + e < (e - frequency) + e
        /\ e - g < (e - frequency) + e
    <3> HIDE DEF g
    <3>1. g \in Nat /\ g < end_freq
      BY <2>4 DEF g
    <3> QED BY <2>3, <3>1, Leftovers
  <2>7. LeftToSweep' = IF pol' < Pols THEN (e - g) + e ELSE e - g
    BY Zenon DEF LeftToSweep
  <2>8. CASE pol' = pol /\ g > frequency
    BY <2>6, <2>7, <2>8 DEF LeftToSweep
  <2>9. CASE pol' > pol
    <3>1. pol < Pols /\ ~(pol' < Pols)
      BY <2>5, <2>9
    <3> QED BY <2>6, <2>7, <3>1 DEF LeftToSweep
  <2> QED
    BY <2>1, <2>8, <2>9 DEF MovesOn
<1>2. SweepInv /\ [SweepNext]_sweepVars =>
        [stage' = "scan" => /\ LeftToSweep \in Nat /\ LeftToSweep' \in Nat
                            /\ LeftToSweep' < LeftToSweep]_sweepVars
  BY <1>1 DEF SweepNext, SweepFinished
<1> QED
  BY <1>2, SweepInvariance, PTL DEF SweepSpec
================================================================================
