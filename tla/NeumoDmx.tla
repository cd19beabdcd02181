-------------------------------- MODULE NeumoDmx --------------------------------
(***************************************************************************)
(* neumo-dmx, which copies one stream of a demultiplexer to its standard   *)
(* output: it selects the stream and the pids, starts the filter, and then *)
(* reads until there is nothing left, waits, and reads again.              *)
(*                                                                         *)
(* The demultiplexer is external.  It keeps packets in a ring until they   *)
(* are read; a packet that finds the ring full sets an error that the next *)
(* read reports as EOVERFLOW, throwing the content of the ring away.  It   *)
(* adds pids only to a filter that was set.  Packets are numbered as they  *)
(* arrive.                                                                 *)
(***************************************************************************)
EXTENDS Integers, Sequences, FiniteSets, Functions

CONSTANTS
  Requests,    \* command lines: records of fe_stream, stid, t2mi, extract_es, pids
  RingSize,    \* external: packets the ring holds
  MaxPackets,  \* bound on the packets that arrive
  MaxShort     \* bound on the writes that do not write everything

FullStream == 8192

ASSUME NeumoDmxAssumption ==
  /\ Requests \subseteq [fe_stream: BOOLEAN, stid: BOOLEAN, t2mi: BOOLEAN, extract_es: BOOLEAN,
                         pids: Seq(0 .. FullStream)]
  /\ RingSize \in Nat \ {0} /\ MaxPackets \in Nat /\ MaxShort \in Nat

VARIABLES
  request,    \* the options
  pc,         \* where the program is
  next_pid,   \* the iterator over the pids
  buffer,     \* what was read and not yet written
  terminal,   \* external: is standard output a terminal?
  printed,    \* lines of text in the buffer of stdio
  sources, pids,   \* external: what the demultiplexer was told to select
  started,    \* external: has DMX_START succeeded?
  ring, overflow, arrived,   \* external: unread packets, its error, all packets
  out,        \* standard output: packets, and 0 for a line of text
  lost,       \* history: packets lost to an overflow or to a short write
  short,      \* history: short writes
  broken      \* history: has a read failed for good?

ringVars    == <<ring, overflow, arrived>>
selected    == <<sources, pids>>
historyVars == <<lost, short, broken>>
vars == <<request, pc, next_pid, buffer, terminal, printed, selected, started, ringVars, out,
          historyVars>>

-------------------------------------------------------------------------------
(* The single decisions of the code, each next to the faulty variants that *)
(* the mutation runs put in its place.                                     *)

(* The loop over the pids stops when one is refused.                       *)
AddsTheRest(failed, n) == n < Len(request.pids)                   \* mutant
AddsMore(failed, n)    == ~failed /\ n < Len(request.pids)

(* The program streams unless the last request has failed.                 *)
StartsAnyway(failed) == "start"                                   \* mutant
Selected(failed)     == IF failed THEN "returned" ELSE "start"

(* What was read is written if it is not empty.                            *)
IsWritten(chunk)   == Len(chunk) > 0

(* An overflow is reported, and reading goes on.                           *)
StopAfterOverflow == "returned"                                   \* mutant
AfterOverflow     == "read"

(* Nobody looks at the result of a write: a read follows.                  *)
WriteAgain(n) == IF n < Len(buffer) THEN "write" ELSE "read"      \* mutant
AfterWrite(n) == "read"

-------------------------------------------------------------------------------
Init ==
  /\ request \in Requests
  /\ pc = "open" /\ next_pid = 1 /\ buffer = <<>>
  /\ terminal \in BOOLEAN /\ printed = 0
  /\ sources = {} /\ pids = {} /\ started = FALSE
  /\ ring = <<>> /\ overflow = FALSE /\ arrived = 0
  /\ out = <<>> /\ lost = {} /\ short = 0 /\ broken = FALSE

(* parse_options, which accepts --extract-es for a single pid only, and    *)
(* open_demux.                                                             *)
Open ==
  /\ pc = "open"
  /\ pc' \in (IF request.extract_es /\ (Len(request.pids) # 1 \/ request.pids[1] = FullStream)
              THEN {"exit"} ELSE {"fe_stream", "exit"})
  /\ UNCHANGED <<request, next_pid, buffer, terminal, printed, selected, started, ringVars, out,
                 historyVars>>

(* One of the requests that choose the source of the stream, made if the   *)
(* options ask for it.  If it is refused the program ends.                 *)
SelectSource(source, next) ==
  /\ pc = source
  /\ \/ ~request[source] /\ pc' = next /\ UNCHANGED sources
     \/ request[source] /\ pc' = next /\ sources' = sources \cup {source}
     \/ request[source] /\ pc' = "returned" /\ UNCHANGED sources
  /\ UNCHANGED <<request, pids, next_pid, buffer, terminal, printed, started, ringVars, out,
                 historyVars>>

FirstPid == IF request.pids = <<>> THEN FullStream ELSE request.pids[1]

(* DMX_SET_PES_FILTER for the first pid, or for the whole stream.  Its     *)
(* result is looked at only after the loop over the other pids.            *)
SetPesFilter ==
  /\ pc = "filter"
  /\ \E failed \in BOOLEAN :
       /\ pids' = IF failed THEN pids ELSE pids \cup {FirstPid}
       /\ pc' = IF Len(request.pids) > 1 THEN "add" ELSE Selected(failed)
  /\ UNCHANGED <<request, sources, next_pid, buffer, terminal, printed, started, ringVars, out, historyVars>>

(* One pid more; the line that tells of it goes to standard output, at     *)
(* once only if that is a terminal.                                        *)
AddPid ==
  /\ pc = "add"
  /\ next_pid' = next_pid + 1
  /\ IF terminal THEN out' = Append(out, 0) /\ UNCHANGED printed
                 ELSE printed' = printed + 1 /\ UNCHANGED out
  /\ \E failed \in BOOLEAN :
       /\ FirstPid \notin pids => failed
       /\ pids' = IF failed THEN pids ELSE pids \cup {request.pids[next_pid']}
       /\ pc' = IF AddsMore(failed, next_pid') THEN "add" ELSE Selected(failed)
  /\ UNCHANGED <<request, sources, buffer, terminal, started, ringVars, historyVars>>

(* DMX_START; the program goes on even if it fails.                        *)
Start ==
  /\ pc = "start"
  /\ started' \in BOOLEAN
  /\ pc' = "wait"
  /\ UNCHANGED <<request, next_pid, buffer, terminal, printed, selected, ringVars, out,
                 historyVars>>

-------------------------------------------------------------------------------
(* The loop.                                                               *)

PacketArrives ==
  /\ started /\ arrived < MaxPackets
  /\ arrived' = arrived + 1
  /\ IF Len(ring) < RingSize /\ ~overflow
     THEN ring' = Append(ring, arrived') /\ UNCHANGED <<overflow, lost>>
     ELSE overflow' = TRUE /\ lost' = lost \cup {arrived'} /\ UNCHANGED ring
  /\ UNCHANGED <<request, pc, next_pid, buffer, terminal, printed, selected, started, out,
                 short, broken>>

(* epoll_t::wait goes on waiting when a signal interrupts it, and returns  *)
(* after a second if nothing else wakes it; its result is not looked at.   *)
Wait ==
  /\ pc = "wait"
  /\ pc' = "read"
  /\ UNCHANGED <<request, next_pid, buffer, terminal, printed, selected, started, ringVars, out,
                 historyVars>>

(* A read takes all there is, since the buffer is larger than the ring.    *)
Read ==
  /\ pc = "read" /\ ~overflow /\ ring # <<>>
  /\ buffer' = ring /\ ring' = <<>>
  /\ pc' = IF IsWritten(buffer') THEN "write" ELSE "read"
  /\ UNCHANGED <<request, next_pid, terminal, printed, selected, started, overflow, arrived, out,
                 historyVars>>

ReadOverflows ==
  /\ pc = "read" /\ overflow
  /\ overflow' = FALSE /\ ring' = <<>> /\ lost' = lost \cup Range(ring)
  /\ pc' = AfterOverflow
  /\ UNCHANGED <<request, next_pid, buffer, terminal, printed, selected, started, arrived, out,
                 short, broken>>

(* EAGAIN, or, from a filter that was never started, a read of nothing,    *)
(* after which the program reads at once again.                            *)
NothingToRead ==
  /\ pc = "read" /\ ~overflow /\ ring = <<>>
  /\ pc' = IF started THEN "wait" ELSE "read"
  /\ UNCHANGED <<request, next_pid, buffer, terminal, printed, selected, started, ringVars, out,
                 historyVars>>

ReadFails ==
  /\ pc = "read"
  /\ broken' = TRUE /\ pc' = "returned"
  /\ UNCHANGED <<request, next_pid, buffer, terminal, printed, selected, started, ringVars, out,
                 lost, short>>

(* write, which may write less, or nothing when it fails.                  *)
Write ==
  /\ pc = "write"
  /\ \E n \in (IF short < MaxShort THEN 0 ELSE Len(buffer)) .. Len(buffer) :
       /\ out' = out \o SubSeq(buffer, 1, n)
       /\ lost' = lost \cup {buffer[i] : i \in n + 1 .. Len(buffer)}
       /\ short' = IF n < Len(buffer) THEN short + 1 ELSE short
       /\ pc' = AfterWrite(n)
  /\ buffer' = IF pc' = "write" THEN buffer ELSE <<>>
  /\ UNCHANGED <<request, next_pid, terminal, printed, selected, started, ringVars, broken>>

(* main returns, and stdio writes what it has kept.                        *)
Return ==
  /\ pc = "returned"
  /\ out' = out \o [i \in 1 .. printed |-> 0] /\ printed' = 0
  /\ pc' = "exit"
  /\ UNCHANGED <<request, next_pid, buffer, terminal, selected, started, ringVars, historyVars>>

-------------------------------------------------------------------------------
Program == \/ Open \/ SelectSource("fe_stream", "stid") \/ SelectSource("stid", "t2mi")
           \/ SelectSource("t2mi", "filter") \/ SetPesFilter \/ AddPid \/ Start
           \/ Wait \/ Read \/ ReadOverflows \/ NothingToRead \/ ReadFails \/ Write \/ Return

Finished == pc = "exit" /\ UNCHANGED vars

Next == Program \/ PacketArrives \/ Finished

Spec == Init /\ [][Next]_vars

(* The program is scheduled; packets need not arrive.                      *)
FairSpec == Spec /\ WF_vars(Program)

-------------------------------------------------------------------------------
(* Correctness.                                                            *)

(* The packets in a sequence, among which there may be lines of text.      *)
Packets(s) == Range(s) \ {0}
Ordered(s) == \A i, j \in DOMAIN s : i < j /\ s[i] # 0 /\ s[j] # 0 => s[i] < s[j]

TypeOK ==
  /\ request \in Requests
  /\ pc \in {"open", "fe_stream", "stid", "t2mi", "filter", "add", "start", "wait", "read", "write",
            "returned", "exit"}
  /\ next_pid \in 1 .. Len(request.pids) + 1 /\ (pc = "add" => next_pid < Len(request.pids))
  /\ terminal \in BOOLEAN /\ started \in BOOLEAN
  /\ printed \in 0 .. Len(request.pids)
  /\ sources \subseteq {"fe_stream", "stid", "t2mi"} /\ pids \subseteq 0 .. FullStream
  /\ arrived \in 0 .. MaxPackets
  /\ ring \in Seq(1 .. arrived) /\ Len(ring) <= RingSize
  /\ buffer \in Seq(1 .. arrived) /\ (pc # "write" => buffer = <<>>)
  /\ out \in Seq(0 .. arrived)
  /\ overflow \in BOOLEAN /\ broken \in BOOLEAN
  /\ lost \subseteq 1 .. arrived /\ short \in 0 .. MaxShort

(* While the program streams, the demultiplexer was told all of the        *)
(* sources and pids of the command line, although the result of selecting  *)
(* the first pid is forgotten when there are more.                         *)
StreamAsRequested ==
  pc \in {"wait", "read", "write"} =>
    /\ sources = {s \in {"fe_stream", "stid", "t2mi"} : request[s]}
    /\ pids = IF request.pids = <<>> THEN {FullStream} ELSE Range(request.pids)

(* What was written, what was read and what is still to be read is the     *)
(* stream as it came in: in order, none twice, whatever write returns, and *)
(* nothing missing but what an overflow or a short write has cost.         *)
StreamIsWhole ==
  LET s == out \o buffer \o ring
  IN  Ordered(s) /\ Packets(s) = (1 .. arrived) \ lost

(* The stream survives overflows and interruptions: what is in the ring is *)
(* always read, unless a read has failed for good.                         *)
StreamGoesOn == ring # <<>> ~> (ring = <<>> \/ broken)

(* "console logging must be off, or messages will be mixed with data".     *)
OnlyDataOnStdout == Packets(out) # {} => 0 \notin Range(out)
================================================================================
