---------------------------- MODULE NeumoDmx_proofs ----------------------------
(***************************************************************************)
(* What neumo-dmx selects and what it writes, for every command line, ring *)
(* and number of packets, whatever the requests, reads and writes return.  *)
(***************************************************************************)
EXTENDS NeumoDmx, SequenceTheorems, TLAPS

Sources == {"fe_stream", "stid", "t2mi"}

Selecting == {"open", "fe_stream", "stid", "t2mi", "filter", "add", "start"}
Looping   == {"wait", "read", "write"}

(* Nothing arrives before the stream was started.                          *)
NothingYet == pc \in Selecting => ~started /\ arrived = 0 /\ ~overflow

(* The sources that have been asked for so far: a refusal ends the program.*)
Passed == CASE pc \in {"open", "fe_stream"} -> {}
            [] pc = "stid" -> {"fe_stream"}
            [] pc = "t2mi" -> {"fe_stream", "stid"}
            [] OTHER       -> Sources

SourcesHeld ==
  pc \in Selecting \cup Looping => sources = {s \in Passed : request[s]}

WantedPids == IF request.pids = <<>> THEN {FullStream} ELSE Range(request.pids)

(* The first pid may have been refused, and the others with it.            *)
PidsHeld ==
  /\ pc \in {"open", "fe_stream", "stid", "t2mi", "filter"} => pids = {} /\ next_pid = 1
  /\ pc = "add" => \/ pids = {request.pids[i] : i \in 1 .. next_pid}
                   \/ pids = {} /\ next_pid = 1
  /\ pc \in {"start"} \cup Looping => pids = WantedPids
  /\ printed < next_pid

(* Every packet of the one sequence comes before every packet of the other.*)
Precedes(s, t) == \A p \in Packets(s), q \in Packets(t) : p < q

(* StreamIsWhole, taken apart: what is written, read and unread is each in *)
(* order, and so are they among each other.                                *)
InOrder ==
  /\ Ordered(out) /\ Ordered(buffer) /\ Ordered(ring)
  /\ Precedes(out, buffer) /\ Precedes(out, ring) /\ Precedes(buffer, ring)

NoneMissing == Packets(out) \cup Packets(buffer) \cup Packets(ring) = (1 .. arrived) \ lost

IInv ==
  /\ TypeOK /\ NothingYet
  /\ SourcesHeld /\ PidsHeld
  /\ InOrder /\ NoneMissing
-------------------------------------------------------------------------------
LEMMA Numbers ==
  RingSize \in Nat \ {0} /\ MaxPackets \in Nat /\ MaxShort \in Nat /\ FullStream = 8192
BY NeumoDmxAssumption DEF FullStream

(* A sequence of packets and lines of text, by its positions.              *)
LEMMA SeqFacts ==
  ASSUME NEW s \in Seq(Nat)
  PROVE  /\ Len(s) \in Nat /\ DOMAIN s = 1 .. Len(s)
         /\ \A i \in 1 .. Len(s) : s[i] \in Nat
         /\ \A p : p \in Packets(s) <=> p # 0 /\ \E i \in 1 .. Len(s) : s[i] = p
<1>1. Len(s) \in Nat /\ DOMAIN s = 1 .. Len(s)
  BY LenProperties
<1>2. \A i \in 1 .. Len(s) : s[i] \in Nat
  BY ElementOfSeq
<1> QED
  BY <1>1, <1>2 DEF Packets, Range

LEMMA EmptyFacts ==
  /\ <<>> \in Seq(Nat) /\ Packets(<<>>) = {} /\ Ordered(<<>>)
  /\ \A s \in Seq(Nat) : s \o <<>> = s /\ <<>> \o s = s
<1>1. <<>> \in Seq(Nat) /\ Len(<<>>) = 0
  BY EmptySeq
<1>2. DOMAIN <<>> = {}
  OBVIOUS
<1>3. Packets(<<>>) = {} /\ Ordered(<<>>)
  BY <1>2 DEF Packets, Range, Ordered
<1> QED
  BY <1>1, <1>3, ConcatEmptySeq

(* Concatenation joins the packets; it keeps the order if the packets of   *)
(* the one sequence precede those of the other.                            *)
LEMMA ConcatFacts ==
  ASSUME NEW s \in Seq(Nat), NEW t \in Seq(Nat)
  PROVE  /\ s \o t \in Seq(Nat)
         /\ Packets(s \o t) = Packets(s) \cup Packets(t)
         /\ (Ordered(s) /\ Ordered(t) /\ Precedes(s, t) => Ordered(s \o t))
<1> DEFINE st == s \o t
<1>1. /\ st \in Seq(Nat) /\ Len(st) = Len(s) + Len(t)
      /\ \A i \in 1 .. Len(s) + Len(t) : st[i] = IF i <= Len(s) THEN s[i] ELSE t[i - Len(s)]
  BY ConcatProperties
<1> HIDE DEF st
<1>2. /\ Len(s) \in Nat /\ DOMAIN s = 1 .. Len(s) /\ Len(t) \in Nat /\ DOMAIN t = 1 .. Len(t)
      /\ DOMAIN st = 1 .. Len(s) + Len(t)
  BY <1>1, SeqFacts
<1>3. \A i \in 1 .. Len(s) : i \in 1 .. Len(s) + Len(t) /\ st[i] = s[i]
  BY <1>1, <1>2
<1>4. \A j \in 1 .. Len(t) : Len(s) + j \in 1 .. Len(s) + Len(t) /\ st[Len(s) + j] = t[j]
  <2> SUFFICES ASSUME NEW j \in 1 .. Len(t)
               PROVE  Len(s) + j \in 1 .. Len(s) + Len(t) /\ st[Len(s) + j] = t[j]
    OBVIOUS
  <2>1. Len(s) + j \in 1 .. Len(s) + Len(t) /\ ~(Len(s) + j <= Len(s)) /\ (Len(s) + j) - Len(s) = j
    BY <1>2
  <2>2. st[Len(s) + j] = t[(Len(s) + j) - Len(s)]
    BY <1>1, <2>1
  <2> QED
    BY <2>1, <2>2
<1>5. \A i \in 1 .. Len(s) + Len(t) :
        \/ i \in 1 .. Len(s) /\ st[i] = s[i]
        \/ i - Len(s) \in 1 .. Len(t) /\ i > Len(s) /\ st[i] = t[i - Len(s)]
  BY <1>1, <1>2
<1>6. Packets(st) = Packets(s) \cup Packets(t)
  <2>1. \A p : (\E i \in 1 .. Len(s) + Len(t) : st[i] = p) <=>
                 (\E i \in 1 .. Len(s) : s[i] = p) \/ (\E j \in 1 .. Len(t) : t[j] = p)
    <3> TAKE p
    <3>1. ASSUME NEW i \in 1 .. Len(s) + Len(t), st[i] = p
          PROVE  (\E k \in 1 .. Len(s) : s[k] = p) \/ (\E j \in 1 .. Len(t) : t[j] = p)
      BY <1>5, <3>1
    <3>2. ASSUME NEW i \in 1 .. Len(s), s[i] = p
          PROVE  \E k \in 1 .. Len(s) + Len(t) : st[k] = p
      BY <1>3, <3>2
    <3>3. ASSUME NEW j \in 1 .. Len(t), t[j] = p
          PROVE  \E k \in 1 .. Len(s) + Len(t) : st[k] = p
      BY <1>4, <3>3
    <3> QED
      BY <3>1, <3>2, <3>3
  <2>2. \A p : p \in Packets(st) <=> p # 0 /\ \E i \in 1 .. Len(s) + Len(t) : st[i] = p
    BY <1>2 DEF Packets, Range
  <2>3. /\ \A p : p \in Packets(s) <=> p # 0 /\ \E i \in 1 .. Len(s) : s[i] = p
        /\ \A p : p \in Packets(t) <=> p # 0 /\ \E i \in 1 .. Len(t) : t[i] = p
    <3>1. \A p : p \in Packets(s) <=> p # 0 /\ \E i \in 1 .. Len(s) : s[i] = p
      BY SeqFacts, Zenon
    <3>2. \A p : p \in Packets(t) <=> p # 0 /\ \E i \in 1 .. Len(t) : t[i] = p
      BY SeqFacts, Zenon
    <3> QED
      BY <3>1, <3>2
  <2> QED
    BY <2>1, <2>2, <2>3, Zenon
<1>7. ASSUME Ordered(s), Ordered(t), Precedes(s, t)
      PROVE  Ordered(st)
  <2>1. SUFFICES ASSUME NEW i \in 1 .. Len(s) + Len(t), NEW j \in 1 .. Len(s) + Len(t),
                        i < j, st[i] # 0, st[j] # 0
                 PROVE  st[i] < st[j]
    BY <1>2 DEF Ordered
  <2>2. CASE i <= Len(s) /\ j <= Len(s)
    <3>1. i \in DOMAIN s /\ j \in DOMAIN s /\ st[i] = s[i] /\ st[j] = s[j]
      BY <1>2, <1>3, <2>1, <2>2
    <3> QED
      BY <1>7, <2>1, <3>1 DEF Ordered
  <2>3. CASE i <= Len(s) /\ j > Len(s)
    <3>1. /\ i \in 1 .. Len(s) /\ st[i] = s[i]
          /\ j - Len(s) \in 1 .. Len(t) /\ st[j] = t[j - Len(s)]
      BY <1>2, <1>5, <2>3
    <3>2. st[i] \in Packets(s) /\ st[j] \in Packets(t)
      BY <2>1, <3>1, SeqFacts
    <3> QED
      BY <1>7, <3>2 DEF Precedes
  <2>4. CASE i > Len(s)
    <3>1. /\ i - Len(s) \in 1 .. Len(t) /\ st[i] = t[i - Len(s)]
          /\ j - Len(s) \in 1 .. Len(t) /\ st[j] = t[j - Len(s)]
          /\ i - Len(s) < j - Len(s)
      BY <1>2, <1>5, <2>1, <2>4
    <3> QED
      BY <1>2, <1>7, <2>1, <3>1 DEF Ordered
  <2> QED
    BY <1>2, <2>2, <2>3, <2>4
<1> QED
  BY <1>1, <1>6, <1>7 DEF st

(* One packet, or lines of text, at the end.                               *)
LEMMA SingleFacts ==
  ASSUME NEW p \in Nat
  PROVE  /\ <<p>> \in Seq(Nat) /\ Packets(<<p>>) = {p} \ {0} /\ Ordered(<<p>>)
         /\ \A s \in Seq(Nat) : Append(s, p) = s \o <<p>>
<1>1. <<p>> \in Seq(Nat) /\ Len(<<p>>) = 1 /\ <<p>>[1] = p
  OBVIOUS
<1>2. Packets(<<p>>) = {p} \ {0}
  <2>1. DOMAIN <<p>> = 1 .. 1 /\ 1 .. 1 = {1}
    OBVIOUS
  <2>2. Range(<<p>>) = {p}
    BY <1>1, <2>1 DEF Range
  <2> QED
    BY <2>2 DEF Packets
<1>3. Ordered(<<p>>)
  BY <1>1, SeqFacts DEF Ordered
<1> QED
  BY <1>1, <1>2, <1>3, AppendIsConcat

LEMMA TextFacts ==
  ASSUME NEW n \in Nat
  PROVE  LET t == [i \in 1 .. n |-> 0]
         IN  t \in Seq(Nat) /\ Packets(t) = {} /\ Ordered(t)
<1> DEFINE t == [i \in 1 .. n |-> 0]
<1>1. t \in Seq(Nat)
  BY IsASeq
<1>2. DOMAIN t = 1 .. n /\ \A i \in 1 .. n : t[i] = 0
  OBVIOUS
<1> HIDE DEF t
<1>3. Packets(t) = {} /\ Ordered(t)
  BY <1>2 DEF Packets, Range, Ordered
<1> QED
  BY <1>1, <1>3 DEF t

(* The beginning of a sequence keeps the order; an ordered one has its     *)
(* packets before those that are cut off.                                  *)
LEMMA PrefixFacts ==
  ASSUME NEW s \in Seq(Nat), NEW n \in 0 .. Len(s)
  PROVE  LET t == SubSeq(s, 1, n)
         IN  /\ t \in Seq(Nat) /\ Packets(t) = {s[i] : i \in 1 .. n} \ {0}
             /\ (Ordered(s) => Ordered(t))
<1> DEFINE t == SubSeq(s, 1, n)
<1>1. Len(s) \in Nat /\ DOMAIN s = 1 .. Len(s) /\ \A i \in 1 .. Len(s) : s[i] \in Nat
  BY SeqFacts
<1>2. n \in Nat /\ \A i \in 1 .. n : i \in 1 .. Len(s)
  BY <1>1
<1>3. t \in Seq(Nat) /\ Len(t) = n /\ \A i \in 1 .. n : t[i] = s[i]
  <2>1. \A i \in 1 .. n : s[i] \in Nat
    BY <1>1, <1>2
  <2>2. /\ t \in Seq(Nat) /\ Len(t) = (IF 1 <= n THEN n - 1 + 1 ELSE 0)
        /\ \A i \in 1 .. n - 1 + 1 : t[i] = s[1 + i - 1]
    BY <1>2, <2>1, SubSeqProperties
  <2> QED
    BY <1>2, <2>2
<1> HIDE DEF t
<1>4. Packets(t) = {s[i] : i \in 1 .. n} \ {0}
  <2>1. \A p : p \in Packets(t) <=> p # 0 /\ \E i \in 1 .. n : t[i] = p
    BY <1>3, SeqFacts
  <2> QED
    BY <1>3, <2>1
<1>5. Ordered(s) => Ordered(t)
  BY <1>1, <1>2, <1>3, SeqFacts DEF Ordered
<1> QED
  BY <1>3, <1>4, <1>5 DEF t

(* The three sequences of the model hold packets that have arrived; lines  *)
(* of text are only in the output.                                         *)
LEMMA StreamType ==
  ASSUME TypeOK
  PROVE  /\ out \in Seq(Nat) /\ buffer \in Seq(Nat) /\ ring \in Seq(Nat)
         /\ arrived \in Nat
         /\ Packets(out) \subseteq 1 .. arrived /\ Packets(buffer) \subseteq 1 .. arrived
         /\ Packets(ring) \subseteq 1 .. arrived /\ Packets(ring) = Range(ring)
<1>1. /\ out \in Seq(0 .. arrived) /\ buffer \in Seq(1 .. arrived) /\ ring \in Seq(1 .. arrived)
      /\ arrived \in Nat
  BY Numbers DEF TypeOK
<1>2. 0 .. arrived \subseteq Nat /\ 1 .. arrived \subseteq Nat
  BY <1>1
<1>3. out \in Seq(Nat) /\ buffer \in Seq(Nat) /\ ring \in Seq(Nat)
  BY <1>1, <1>2, SeqMonotonic
<1>4. /\ \A i \in 1 .. Len(out) : out[i] \in 0 .. arrived
      /\ \A i \in 1 .. Len(buffer) : buffer[i] \in 1 .. arrived
      /\ \A i \in 1 .. Len(ring) : ring[i] \in 1 .. arrived
  BY <1>1, ElementOfSeq
<1>5. DOMAIN out = 1 .. Len(out) /\ DOMAIN buffer = 1 .. Len(buffer) /\ DOMAIN ring = 1 .. Len(ring)
  BY <1>3, SeqFacts
<1>6. 0 \notin Range(ring) /\ Range(ring) \subseteq 1 .. arrived
  BY <1>1, <1>4, <1>5 DEF Range
<1>7. Packets(out) \subseteq 1 .. arrived /\ Packets(buffer) \subseteq 1 .. arrived
  BY <1>1, <1>4, <1>5 DEF Packets, Range
<1> QED
  BY <1>1, <1>3, <1>6, <1>7 DEF Packets

(* The number of pids and the pids are what the command line may say.      *)
LEMMA RequestType ==
  ASSUME TypeOK
  PROVE  /\ request.pids \in Seq(0 .. FullStream) /\ Len(request.pids) \in Nat
         /\ DOMAIN request.pids = 1 .. Len(request.pids)
         /\ \A i \in 1 .. Len(request.pids) : request.pids[i] \in 0 .. FullStream
         /\ FirstPid \in 0 .. FullStream
         /\ (request.pids # <<>> => FirstPid = request.pids[1] /\ Len(request.pids) >= 1)
<1>1. request \in [fe_stream: BOOLEAN, stid: BOOLEAN, t2mi: BOOLEAN, extract_es: BOOLEAN,
                   pids: Seq(0 .. FullStream)]
  BY NeumoDmxAssumption DEF TypeOK
<1>2. request.pids \in Seq(0 .. FullStream)
  BY <1>1
<1>3. Len(request.pids) \in Nat /\ DOMAIN request.pids = 1 .. Len(request.pids)
  BY <1>2, LenProperties
<1>4. \A i \in 1 .. Len(request.pids) : request.pids[i] \in 0 .. FullStream
  BY <1>2, ElementOfSeq
<1>5. request.pids # <<>> => Len(request.pids) >= 1
  <2>1. request.pids # <<>> => Len(request.pids) \in Nat \ {0}
    BY <1>2, EmptySeq, Zenon
  <2> QED
    BY <2>1
<1>6. FirstPid \in 0 .. FullStream /\ (request.pids # <<>> => FirstPid = request.pids[1])
  <2>1. CASE request.pids = <<>>
    BY <2>1, Numbers DEF FirstPid
  <2>2. CASE request.pids # <<>>
    <3>1. FirstPid = request.pids[1] /\ 1 \in 1 .. Len(request.pids)
      BY <1>3, <1>5, <2>2 DEF FirstPid
    <3> QED
      BY <1>4, <3>1
  <2> QED
    BY <2>1, <2>2
<1> QED
  BY <1>2, <1>3, <1>4, <1>5, <1>6

(* The stream is untouched.                                                *)
LEMMA StreamFrame ==
  ASSUME UNCHANGED <<out, buffer, ring, arrived, lost>>
  PROVE  (InOrder => InOrder') /\ (NoneMissing => NoneMissing')
BY DEF InOrder, NoneMissing

(* The options are checked, and the device is opened.                      *)
LEMMA OpenStep ==
  ASSUME IInv, Open
  PROVE  IInv'
<1> USE DEF IInv
<1>1. /\ pc = "open" /\ pc' \in {"fe_stream", "exit"}
      /\ UNCHANGED <<request, next_pid, buffer, terminal, printed, selected, started, ringVars, out,
                     historyVars>>
  BY DEF Open
<1> USE DEF selected, ringVars, historyVars
<1>2. TypeOK'
  BY <1>1 DEF TypeOK
<1>3. NothingYet' /\ SourcesHeld' /\ PidsHeld'
  BY <1>1 DEF NothingYet, SourcesHeld, PidsHeld, Passed, WantedPids, Selecting, Looping
<1> QED
  BY <1>1, <1>2, <1>3, StreamFrame

(* A source is selected if the options ask for it.                         *)
LEMMA SourceStep ==
  ASSUME IInv, NEW source, NEW next,
         <<source, next>> \in {<<"fe_stream", "stid">>, <<"stid", "t2mi">>, <<"t2mi", "filter">>},
         SelectSource(source, next)
  PROVE  IInv'
<1> USE DEF IInv
<1>1. /\ pc = source /\ source \in Sources
      /\ \/ source = "fe_stream" /\ next = "stid"
         \/ source = "stid" /\ next = "t2mi"
         \/ source = "t2mi" /\ next = "filter"
  BY DEF SelectSource, Sources
<1>2. /\ UNCHANGED <<request, pids, next_pid, buffer, terminal, printed, started, ring, overflow,
                     arrived, out, lost, short, broken>>
      /\ \/ pc' = next /\ sources' = IF request[source] THEN sources \cup {source} ELSE sources
         \/ pc' = "returned" /\ sources' = sources
  BY DEF SelectSource, ringVars, historyVars
<1>3. TypeOK'
  BY <1>1, <1>2 DEF TypeOK, Sources
<1>4. NothingYet' /\ PidsHeld'
  BY <1>1, <1>2 DEF NothingYet, PidsHeld, WantedPids, Selecting, Looping
<1>5. SourcesHeld'
  <2>1. SUFFICES ASSUME pc' = next
                 PROVE  sources' = {s \in Passed' : request[s]}
    BY <1>1, <1>2 DEF SourcesHeld, Selecting, Looping
  <2>2. sources = {s \in Passed : request[s]}
    BY <1>1 DEF SourcesHeld, Selecting, Sources
  <2>3. Passed' = Passed \cup {source}
    BY <1>1, <2>1 DEF Passed, Sources
  <2>4. sources' = IF request[source] THEN sources \cup {source} ELSE sources
    BY <1>1, <1>2, <2>1
  <2> QED
    BY <2>2, <2>3, <2>4
<1> QED
  BY <1>2, <1>3, <1>4, <1>5, StreamFrame

(* The result of the first pid is kept for the loop over the others.       *)
LEMMA FilterStep ==
  ASSUME IInv, SetPesFilter
  PROVE  IInv'
<1> USE DEF IInv
<1>1. /\ pc = "filter"
      /\ UNCHANGED <<request, sources, next_pid, buffer, terminal, printed, started, ring, overflow,
                     arrived, out, lost, short, broken>>
  BY DEF SetPesFilter, ringVars, historyVars
<1>2. PICK failed \in BOOLEAN :
        /\ pids' = IF failed THEN pids ELSE pids \cup {FirstPid}
        /\ pc' = IF Len(request.pids) > 1 THEN "add" ELSE Selected(failed)
  BY DEF SetPesFilter
<1>3. pids = {} /\ next_pid = 1
  BY <1>1 DEF PidsHeld
<1>4. /\ pc' \in {"add", "start", "returned"}
      /\ (pc' = "add" => Len(request.pids) > 1)
      /\ (pc' = "start" => ~failed /\ ~(Len(request.pids) > 1))
  BY <1>2 DEF Selected
<1>5. TypeOK'
  <2>1. pids' \subseteq 0 .. FullStream
    BY <1>2, <1>3, RequestType
  <2> QED
    BY <1>1, <1>3, <1>4, <2>1 DEF TypeOK
<1>6. NothingYet' /\ SourcesHeld'
  BY <1>1, <1>4 DEF NothingYet, SourcesHeld, Passed, Selecting, Looping
<1>7. PidsHeld'
  <2>1. CASE pc' = "add"
    <3>1. request.pids # <<>> /\ FirstPid = request.pids[1]
      <4>1. request.pids # <<>>
        BY <1>4, <2>1, EmptySeq
      <4> QED
        BY <4>1, RequestType
    <3>2. {request.pids[i] : i \in 1 .. 1} = {request.pids[1]}
      OBVIOUS
    <3> QED
      BY <1>1, <1>2, <1>3, <2>1, <3>1, <3>2 DEF PidsHeld, Looping
  <2>2. CASE pc' = "start"
    <3>1. pids' = {FirstPid} /\ ~(Len(request.pids) > 1)
      BY <1>2, <1>3, <1>4, <2>2
    <3>2. pids' = WantedPids
      <4>1. CASE request.pids = <<>>
        BY <3>1, <4>1 DEF WantedPids, FirstPid
      <4>2. CASE request.pids # <<>>
        <5>1. Len(request.pids) = 1 /\ FirstPid = request.pids[1] /\ DOMAIN request.pids = 1 .. 1
          <6>1. /\ Len(request.pids) \in Nat /\ Len(request.pids) >= 1 /\ FirstPid = request.pids[1]
                /\ DOMAIN request.pids = 1 .. Len(request.pids)
            BY <4>2, RequestType, Zenon
          <6>2. Len(request.pids) = 1
            <7>1. \A n \in Nat : n >= 1 /\ ~(n > 1) => n = 1
              OBVIOUS
            <7> QED
              BY <3>1, <6>1, <7>1, Zenon
          <6> QED
            BY <6>1, <6>2
        <5>2. Range(request.pids) = {request.pids[1]}
          BY <5>1 DEF Range
        <5> QED
          BY <3>1, <4>2, <5>1, <5>2 DEF WantedPids
      <4> QED
        BY <4>1, <4>2
    <3> QED
      BY <1>1, <2>2, <3>2 DEF PidsHeld, WantedPids
  <2>3. CASE pc' = "returned"
    BY <1>1, <2>3 DEF PidsHeld, Looping
  <2> QED
    BY <1>4, <2>1, <2>2, <2>3
<1> QED
  BY <1>1, <1>5, <1>6, <1>7, StreamFrame

(* A pid is added only behind the first one; the line of text comes before *)
(* every packet.                                                           *)
LEMMA AddStep ==
  ASSUME IInv, AddPid
  PROVE  IInv'
<1> USE DEF IInv
<1>1. /\ pc = "add" /\ next_pid' = next_pid + 1
      /\ UNCHANGED <<request, sources, buffer, terminal, started, ring, overflow, arrived, lost, short,
                     broken>>
      /\ \/ out' = Append(out, 0) /\ printed' = printed
         \/ out' = out /\ printed' = printed + 1
  BY DEF AddPid, ringVars, historyVars
<1>2. PICK failed \in BOOLEAN :
        /\ FirstPid \notin pids => failed
        /\ pids' = IF failed THEN pids ELSE pids \cup {request.pids[next_pid']}
        /\ pc' = IF AddsMore(failed, next_pid') THEN "add" ELSE Selected(failed)
  BY DEF AddPid
<1>3. /\ next_pid \in Nat /\ next_pid >= 1 /\ next_pid < Len(request.pids)
      /\ Len(request.pids) \in Nat /\ DOMAIN request.pids = 1 .. Len(request.pids)
      /\ printed \in Nat /\ printed < next_pid
  BY <1>1, RequestType DEF TypeOK, PidsHeld
<1>4. /\ pc' \in {"add", "start", "returned"}
      /\ (pc' = "add" => ~failed /\ next_pid' < Len(request.pids))
      /\ (pc' = "start" => ~failed /\ ~(next_pid' < Len(request.pids)))
  BY <1>2 DEF Selected, AddsMore
<1>5. next_pid' \in 1 .. Len(request.pids) /\ next_pid' \in Nat
  BY <1>1, <1>3
<1>6. arrived = 0
  BY <1>1 DEF NothingYet, Selecting
<1>7. /\ out' \in Seq(0 .. arrived) /\ Packets(out') = Packets(out)
      /\ (Ordered(out) => Ordered(out'))
  <2>1. CASE out' = out
    BY <2>1 DEF TypeOK
  <2>2. CASE out' = Append(out, 0)
    <3>1. out \in Seq(0 .. arrived) /\ 0 \in 0 .. arrived /\ out \in Seq(Nat)
      BY <1>6, StreamType DEF TypeOK
    <3>2. out' \in Seq(0 .. arrived)
      BY <2>2, <3>1, AppendProperties
    <3>3. <<0>> \in Seq(Nat) /\ Packets(<<0>>) = {} /\ Ordered(<<0>>) /\ out' = out \o <<0>>
      BY <2>2, <3>1, SingleFacts
    <3>4. Precedes(out, <<0>>)
      BY <3>3 DEF Precedes
    <3>5. /\ Packets(out \o <<0>>) = Packets(out) \cup Packets(<<0>>)
          /\ (Ordered(out) => Ordered(out \o <<0>>))
      BY <3>1, <3>3, <3>4, ConcatFacts, Zenon
    <3> QED
      BY <3>2, <3>3, <3>5, Zenon
  <2> QED
    BY <1>1, <2>1, <2>2
<1>8. TypeOK'
  <2>1. pids' \subseteq 0 .. FullStream
    BY <1>2, <1>5, RequestType DEF TypeOK
  <2>2. printed' \in 0 .. Len(request.pids) /\ next_pid' \in 1 .. Len(request.pids) + 1
    BY <1>1, <1>3, <1>5
  <2> QED
    BY <1>1, <1>4, <1>7, <2>1, <2>2 DEF TypeOK
<1>9. NothingYet' /\ SourcesHeld'
  BY <1>1, <1>4 DEF NothingYet, SourcesHeld, Passed, Selecting, Looping
<1>10. PidsHeld'
  <2>1. printed' < next_pid'
    BY <1>1, <1>3
  <2>2. ASSUME ~failed PROVE pids' = {request.pids[i] : i \in 1 .. next_pid'}
    <3>1. pids = {request.pids[i] : i \in 1 .. next_pid}
      BY <1>1, <1>2, <2>2 DEF PidsHeld
    <3>2. 1 .. next_pid' = (1 .. next_pid) \cup {next_pid'}
      BY <1>1, <1>3
    <3>3. pids' = pids \cup {request.pids[next_pid']}
      BY <1>2, <2>2
    <3> QED
      BY <3>1, <3>2, <3>3
  <2>3. CASE pc' = "start"
    <3>1. next_pid' = Len(request.pids) /\ request.pids # <<>>
      BY <1>3, <1>4, <1>5, <2>3, EmptySeq
    <3>2. pids' = WantedPids
      BY <1>3, <1>4, <2>2, <2>3, <3>1 DEF WantedPids, Range
    <3> QED
      BY <1>1, <2>1, <2>3, <3>2 DEF PidsHeld, WantedPids
  <2>4. CASE pc' = "add"
    BY <1>1, <1>4, <2>1, <2>2, <2>4 DEF PidsHeld, Looping
  <2>5. CASE pc' = "returned"
    BY <2>1, <2>5 DEF PidsHeld, Looping
  <2> QED
    BY <1>4, <2>3, <2>4, <2>5
<1>11. InOrder' /\ NoneMissing'
  BY <1>1, <1>7 DEF InOrder, NoneMissing, Precedes
<1> QED
  BY <1>8, <1>9, <1>10, <1>11

(* Starting, waiting, and a read that returns nothing or fails.            *)
LEMMA QuietStep ==
  ASSUME IInv, Start \/ Wait \/ NothingToRead \/ ReadFails
  PROVE  IInv'
<1> USE DEF IInv
<1>1. /\ pc \in {"start", "wait", "read"} /\ pc' \in {"wait", "read", "returned"}
      /\ started' \in BOOLEAN /\ broken' \in BOOLEAN
      /\ UNCHANGED <<request, next_pid, buffer, terminal, printed, sources, pids, ring, overflow,
                     arrived, out, lost, short>>
  <2>1. CASE Start
    BY <2>1 DEF Start, TypeOK, selected, ringVars, historyVars
  <2>2. CASE Wait
    BY <2>2 DEF Wait, TypeOK, selected, ringVars, historyVars
  <2>3. CASE NothingToRead
    BY <2>3 DEF NothingToRead, TypeOK, selected, ringVars, historyVars
  <2>4. CASE ReadFails
    <3>1. broken' \in BOOLEAN
      BY <2>4, Zenon DEF ReadFails
    <3> QED
      BY <2>4, <3>1 DEF ReadFails, TypeOK, selected, ringVars, historyVars
  <2> QED
    BY <2>1, <2>2, <2>3, <2>4
<1>2. TypeOK'
  BY <1>1 DEF TypeOK
<1>3. NothingYet' /\ SourcesHeld' /\ PidsHeld'
  BY <1>1 DEF NothingYet, SourcesHeld, PidsHeld, WantedPids, Passed, Selecting, Looping
<1> QED
  BY <1>1, <1>2, <1>3, StreamFrame

(* A packet that arrives is the last; it is kept or counted as lost.       *)
LEMMA ArriveStep ==
  ASSUME IInv, PacketArrives
  PROVE  IInv'
<1> USE DEF IInv
<1>1. /\ started /\ arrived < MaxPackets /\ arrived' = arrived + 1
      /\ UNCHANGED <<request, pc, next_pid, buffer, terminal, printed, sources, pids, started, out,
                     short, broken>>
  BY DEF PacketArrives, selected
<1>2. /\ arrived \in Nat /\ MaxPackets \in Nat /\ arrived' \in 0 .. MaxPackets
      /\ 1 .. arrived \subseteq 1 .. arrived' /\ 0 .. arrived \subseteq 0 .. arrived'
      /\ arrived' \in 1 .. arrived' /\ 1 .. arrived' = (1 .. arrived) \cup {arrived'}
      /\ arrived' \notin 1 .. arrived /\ arrived' # 0 /\ arrived' \in Nat
  BY <1>1, Numbers, StreamType
<1>3. /\ ring \in Seq(1 .. arrived') /\ buffer \in Seq(1 .. arrived') /\ out \in Seq(0 .. arrived')
  BY <1>2, SeqMonotonic DEF TypeOK
<1>4. /\ out \in Seq(Nat) /\ buffer \in Seq(Nat) /\ ring \in Seq(Nat)
      /\ Packets(out) \subseteq 1 .. arrived /\ Packets(buffer) \subseteq 1 .. arrived
      /\ Packets(ring) \subseteq 1 .. arrived /\ lost \subseteq 1 .. arrived
  BY StreamType DEF TypeOK
<1>5. \A p \in 1 .. arrived : p < arrived'
  BY <1>1, <1>2
<1>6. CASE Len(ring) < RingSize /\ ~overflow
  <2>1. ring' = Append(ring, arrived') /\ overflow' = overflow /\ lost' = lost
    BY <1>6 DEF PacketArrives
  <2>2. ring' \in Seq(1 .. arrived') /\ Len(ring') <= RingSize
    <3>1. Len(ring) \in Nat /\ RingSize \in Nat
      BY <1>4, SeqFacts, Numbers
    <3>2. ring' \in Seq(1 .. arrived') /\ Len(ring') = Len(ring) + 1
      BY <1>2, <1>3, <2>1, AppendProperties
    <3> QED
      BY <1>6, <3>1, <3>2
  <2>3. /\ <<arrived'>> \in Seq(Nat) /\ Packets(<<arrived'>>) = {arrived'}
        /\ Ordered(<<arrived'>>) /\ ring' = ring \o <<arrived'>>
    BY <1>2, <1>4, <2>1, SingleFacts
  <2>4. Precedes(ring, <<arrived'>>)
    BY <1>4, <1>5, <2>3 DEF Precedes
  <2>5. /\ Packets(ring') = Packets(ring) \cup {arrived'}
        /\ (Ordered(ring) => Ordered(ring'))
    <3>1. /\ Packets(ring \o <<arrived'>>) = Packets(ring) \cup Packets(<<arrived'>>)
          /\ (Ordered(ring) => Ordered(ring \o <<arrived'>>))
      BY <1>4, <2>3, <2>4, ConcatFacts, Zenon
    <3> QED
      BY <2>3, <3>1, Zenon
  <2>6. TypeOK'
    BY <1>1, <1>2, <1>3, <1>4, <2>1, <2>2 DEF TypeOK
  <2>7. InOrder'
    BY <1>1, <1>4, <1>5, <2>5 DEF InOrder, Precedes
  <2>8. NoneMissing'
    BY <1>1, <1>2, <1>4, <2>1, <2>5 DEF NoneMissing
  <2> QED
    BY <1>1, <2>1, <2>6, <2>7, <2>8
       DEF NothingYet, SourcesHeld, PidsHeld, WantedPids, Passed, Selecting, Looping
<1>7. CASE ~(Len(ring) < RingSize /\ ~overflow)
  <2>1. ring' = ring /\ overflow' = TRUE /\ lost' = lost \cup {arrived'}
    BY <1>7 DEF PacketArrives
  <2>2. overflow' \in BOOLEAN
    BY <2>1, Zenon
  <2>3. TypeOK'
    BY <1>1, <1>2, <1>3, <1>4, <2>1, <2>2 DEF TypeOK
  <2>4. InOrder'
    BY <1>1, <2>1 DEF InOrder, Precedes
  <2>5. NoneMissing'
    BY <1>1, <1>2, <1>4, <2>1 DEF NoneMissing
  <2> QED
    BY <1>1, <2>1, <2>3, <2>4, <2>5
       DEF NothingYet, SourcesHeld, PidsHeld, WantedPids, Passed, Selecting, Looping
<1> QED
  BY <1>6, <1>7

(* A read moves what is unread, or throws it away after an overflow.       *)
LEMMA ReadStep ==
  ASSUME IInv, Read
  PROVE  IInv'
<1> USE DEF IInv
<1>1. /\ pc = "read" /\ buffer' = ring /\ ring' = <<>> /\ pc' \in {"read", "write"}
      /\ pc' = (IF IsWritten(ring) THEN "write" ELSE "read") /\ ring # <<>>
      /\ UNCHANGED <<request, next_pid, terminal, printed, sources, pids, started, overflow, arrived,
                     out, lost, short, broken>>
  BY DEF Read, selected, historyVars
<1>2. buffer = <<>> /\ pc' = "write"
  <2>1. Len(ring) > 0
    <3>1. Len(ring) \in Nat \ {0}
      BY <1>1, StreamType, EmptySeq, Zenon
    <3> QED
      BY <3>1
  <2> QED
    BY <1>1, <2>1 DEF TypeOK, IsWritten
<1>3. Packets(<<>>) = {} /\ Ordered(<<>>)
  BY EmptyFacts
<1>4. TypeOK'
  <2>1. <<>> \in Seq(1 .. arrived) /\ Len(<<>>) <= RingSize
    BY EmptySeq, Numbers
  <2> QED
    BY <1>1, <1>2, <2>1 DEF TypeOK
<1>5. InOrder'
  BY <1>1, <1>2, <1>3 DEF InOrder, Precedes
<1>6. NoneMissing'
  BY <1>1, <1>2, <1>3 DEF NoneMissing
<1> QED
  BY <1>1, <1>4, <1>5, <1>6
     DEF NothingYet, SourcesHeld, PidsHeld, WantedPids, Passed, Selecting, Looping

LEMMA OverflowStep ==
  ASSUME IInv, ReadOverflows
  PROVE  IInv'
<1> USE DEF IInv
<1>1. /\ pc = "read" /\ overflow' = FALSE /\ ring' = <<>> /\ lost' = lost \cup Range(ring)
      /\ pc' = "read"
      /\ UNCHANGED <<request, next_pid, buffer, terminal, printed, sources, pids, started, arrived,
                     out, short, broken>>
  BY DEF ReadOverflows, AfterOverflow, selected
<1>2. buffer = <<>> /\ Packets(<<>>) = {} /\ Ordered(<<>>)
  BY <1>1, EmptyFacts DEF TypeOK
<1>3. /\ Packets(ring) = Range(ring) /\ Packets(ring) \subseteq 1 .. arrived
      /\ Packets(out) \subseteq 1 .. arrived /\ arrived \in Nat
  BY StreamType
<1>4. TypeOK'
  <2>1. <<>> \in Seq(1 .. arrived) /\ Len(<<>>) <= RingSize
    BY EmptySeq, Numbers
  <2>2. overflow' \in BOOLEAN
    BY <1>1, Zenon
  <2>3. lost' \subseteq 1 .. arrived
    BY <1>1, <1>3 DEF TypeOK
  <2> QED
    BY <1>1, <2>1, <2>2, <2>3 DEF TypeOK
<1>5. InOrder'
  BY <1>1, <1>2 DEF InOrder, Precedes
<1>6. NoneMissing'
  <2>1. \A p \in Packets(out), q \in Packets(ring) : p # q
    BY <1>3 DEF InOrder, Precedes
  <2> QED
    BY <1>1, <1>2, <1>3, <2>1 DEF NoneMissing
<1> QED
  BY <1>1, <1>4, <1>5, <1>6
     DEF NothingYet, SourcesHeld, PidsHeld, WantedPids, Passed, Selecting, Looping

(* A write takes the beginning of what was read; the rest is lost.         *)
LEMMA WriteStep ==
  ASSUME IInv, Write
  PROVE  IInv'
<1> USE DEF IInv
<1>1. PICK n \in (IF short < MaxShort THEN 0 ELSE Len(buffer)) .. Len(buffer) :
        /\ out' = out \o SubSeq(buffer, 1, n)
        /\ lost' = lost \cup {buffer[i] : i \in n + 1 .. Len(buffer)}
        /\ short' = IF n < Len(buffer) THEN short + 1 ELSE short
        /\ pc' = "read"
  BY DEF Write, AfterWrite
<1>2. /\ pc = "write" /\ pc' = "read" /\ buffer' = <<>>
      /\ UNCHANGED <<request, next_pid, terminal, printed, sources, pids, started, ring, overflow,
                     arrived, broken>>
  BY <1>1 DEF Write, AfterWrite, selected, ringVars
<1>3. /\ out \in Seq(Nat) /\ buffer \in Seq(Nat) /\ ring \in Seq(Nat) /\ arrived \in Nat
      /\ Packets(out) \subseteq 1 .. arrived /\ Packets(buffer) \subseteq 1 .. arrived
      /\ Packets(ring) \subseteq 1 .. arrived /\ lost \subseteq 1 .. arrived
  BY StreamType DEF TypeOK
<1>4. Len(buffer) \in Nat /\ DOMAIN buffer = 1 .. Len(buffer)
  BY <1>3, SeqFacts
<1>5. n \in 0 .. Len(buffer) /\ n \in Nat
  BY <1>4
<1> DEFINE t    == SubSeq(buffer, 1, n)
           rest == {buffer[i] : i \in n + 1 .. Len(buffer)}
<1>6. \A i \in 1 .. Len(buffer) : buffer[i] \in 1 .. arrived
  BY ElementOfSeq DEF TypeOK
<1>7. t \in Seq(Nat) /\ Packets(t) = {buffer[i] : i \in 1 .. n} \ {0} /\ Ordered(t)
  BY <1>3, <1>5, PrefixFacts DEF InOrder
<1>8. /\ rest \subseteq 1 .. arrived
      /\ Packets(t) \cup rest = Packets(buffer)
      /\ \A p \in Packets(t), q \in rest : p < q
  <2>1. (1 .. n) \cup (n + 1 .. Len(buffer)) = 1 .. Len(buffer)
    BY <1>4, <1>5
  <2>2. Packets(buffer) = {buffer[i] : i \in 1 .. Len(buffer)}
    BY <1>4, <1>6 DEF Packets, Range
  <2>3. Packets(t) = {buffer[i] : i \in 1 .. n}
    BY <1>6, <1>7, <2>1
  <2>4. Packets(t) \cup rest = Packets(buffer)
    BY <2>1, <2>2, <2>3
  <2>5. \A i \in 1 .. n, j \in n + 1 .. Len(buffer) : buffer[i] < buffer[j]
    <3>1. \A i \in 1 .. n, j \in n + 1 .. Len(buffer) :
            i \in 1 .. Len(buffer) /\ j \in 1 .. Len(buffer) /\ i < j
      BY <1>4, <1>5
    <3>2. \A i \in 1 .. Len(buffer) : buffer[i] # 0
      BY <1>3, <1>6
    <3> QED
      BY <1>4, <3>1, <3>2 DEF InOrder, Ordered
  <2>6. \A p \in Packets(t), q \in rest : p < q
    BY <2>3, <2>5
  <2> QED
    BY <1>6, <2>1, <2>4, <2>6
<1>9. out' = out \o t /\ lost' = lost \cup rest
  BY <1>1
<1> HIDE DEF t, rest
<1>10. Precedes(out, t)
  BY <1>8 DEF InOrder, Precedes
<1>11. Packets(out') = Packets(out) \cup Packets(t) /\ Ordered(out') /\ out' \in Seq(Nat)
  <2>1. Ordered(out)
    BY DEF InOrder
  <2> QED
    BY <1>3, <1>7, <1>9, <1>10, <2>1, ConcatFacts
<1>12. TypeOK'
  <2>1. out' \in Seq(0 .. arrived)
    <3>1. t \in Seq(0 .. arrived)
      <4>1. \A i \in 1 .. n : buffer[i] \in 0 .. arrived
        BY <1>3, <1>4, <1>5, <1>6
      <4> QED
        BY <1>5, <4>1, SubSeqProperties DEF t
    <3> QED
      BY <1>9, <3>1, ConcatProperties DEF TypeOK
  <2>2. <<>> \in Seq(1 .. arrived)
    BY EmptySeq
  <2>3. short' \in 0 .. MaxShort
    <3>1. short \in 0 .. MaxShort /\ MaxShort \in Nat
      BY Numbers DEF TypeOK
    <3>2. CASE short < MaxShort
      BY <1>1, <3>1, <3>2
    <3>3. CASE ~(short < MaxShort)
      <4>1. ~(n < Len(buffer))
        BY <1>4, <3>3
      <4> QED
        BY <1>1, <3>1, <4>1
    <3> QED
      BY <3>2, <3>3
  <2>4. lost' \subseteq 1 .. arrived
    BY <1>3, <1>8, <1>9
  <2> QED
    BY <1>2, <2>1, <2>2, <2>3, <2>4 DEF TypeOK
<1>13. Packets(buffer') = {} /\ Ordered(buffer')
  BY <1>2, EmptyFacts
<1>14. InOrder'
  <2>1. Precedes(out', ring)
    BY <1>8, <1>11 DEF InOrder, Precedes
  <2> QED
    BY <1>2, <1>11, <1>13, <2>1 DEF InOrder, Precedes
<1>15. NoneMissing'
  <2>1. /\ \A p \in Packets(out), q \in rest : p < q
        /\ \A p \in rest, q \in Packets(ring) : p < q
    BY <1>8 DEF InOrder, Precedes
  <2>2. \A p \in 1 .. arrived : ~(p < p)
    BY <1>3
  <2>3. rest \cap (Packets(out) \cup Packets(t) \cup Packets(ring)) = {}
    BY <1>3, <1>8, <2>1, <2>2
  <2>4. Packets(out') \cup Packets(ring) = (1 .. arrived) \ lost'
    BY <1>8, <1>9, <1>11, <2>3 DEF NoneMissing
  <2> QED
    BY <1>2, <1>13, <2>4 DEF NoneMissing
<1> QED
  BY <1>2, <1>12, <1>14, <1>15
     DEF NothingYet, SourcesHeld, PidsHeld, WantedPids, Passed, Selecting, Looping

(* When main returns, only lines of text are added to the output.          *)
LEMMA ReturnStep ==
  ASSUME IInv, Return
  PROVE  IInv'
<1> USE DEF IInv
<1> DEFINE t == [i \in 1 .. printed |-> 0]
<1>1. /\ pc = "returned" /\ pc' = "exit" /\ out' = out \o t /\ printed' = 0
      /\ UNCHANGED <<request, next_pid, buffer, terminal, sources, pids, started, ring, overflow,
                     arrived, lost, short, broken>>
  BY DEF Return, selected, ringVars, historyVars
<1>2. printed \in Nat /\ arrived \in Nat /\ out \in Seq(Nat) /\ out \in Seq(0 .. arrived)
  BY StreamType, RequestType DEF TypeOK
<1>3. t \in Seq(Nat) /\ Packets(t) = {} /\ Ordered(t) /\ t \in Seq(0 .. arrived)
  <2>1. 0 \in 0 .. arrived
    BY <1>2
  <2>2. t \in Seq(0 .. arrived)
    BY <1>2, <2>1, IsASeq
  <2> QED
    BY <1>2, <2>2, TextFacts
<1> HIDE DEF t
<1>4. Precedes(out, t) /\ Ordered(out)
  BY <1>3 DEF Precedes, InOrder
<1>5. Packets(out') = Packets(out) /\ Ordered(out')
  <2>1. Packets(out \o t) = Packets(out) \cup Packets(t) /\ Ordered(out \o t)
    BY <1>2, <1>3, <1>4, ConcatFacts
  <2> QED
    BY <1>1, <1>3, <2>1
<1>6. TypeOK'
  <2>1. out' \in Seq(0 .. arrived)
    BY <1>1, <1>2, <1>3, ConcatProperties
  <2>2. printed' \in 0 .. Len(request.pids)
    BY <1>1, RequestType
  <2> QED
    BY <1>1, <2>1, <2>2 DEF TypeOK
<1>7. InOrder' /\ NoneMissing'
  BY <1>1, <1>5 DEF InOrder, NoneMissing, Precedes
<1>8. PidsHeld'
  <2>1. next_pid \in Nat /\ next_pid >= 1
    BY RequestType DEF TypeOK
  <2> QED
    BY <1>1, <2>1 DEF PidsHeld, Looping
<1> QED
  BY <1>1, <1>6, <1>7, <1>8 DEF NothingYet, SourcesHeld, Selecting, Looping

LEMMA StutterStep ==
  ASSUME IInv, UNCHANGED vars
  PROVE  IInv'
<1> USE DEF IInv, vars, selected, ringVars, historyVars
<1>1. TypeOK'
  BY DEF TypeOK
<1>2. NothingYet' /\ SourcesHeld' /\ PidsHeld'
  BY DEF NothingYet, SourcesHeld, PidsHeld, WantedPids, Passed
<1> QED
  BY <1>1, <1>2, StreamFrame

LEMMA InitStep ==
  ASSUME Init
  PROVE  IInv
<1> USE DEF Init
<1>1. Packets(<<>>) = {} /\ Ordered(<<>>)
  BY EmptyFacts
<1>2. TypeOK
  <2>1. <<>> \in Seq(1 .. arrived) /\ <<>> \in Seq(0 .. arrived) /\ Len(<<>>) = 0
    BY EmptySeq
  <2>2. 0 \in 0 .. MaxPackets /\ 0 \in 0 .. MaxShort /\ 0 <= RingSize
    BY Numbers
  <2>3. started \in BOOLEAN /\ overflow \in BOOLEAN /\ broken \in BOOLEAN
    BY Zenon
  <2>4. 1 \in 1 .. Len(request.pids) + 1 /\ 0 \in 0 .. Len(request.pids)
    <3>1. Len(request.pids) \in Nat
      <4>1. request.pids \in Seq(0 .. FullStream)
        BY NeumoDmxAssumption
      <4> QED
        BY <4>1, LenProperties
    <3> QED
      BY <3>1
  <2> QED
    BY <2>1, <2>2, <2>3, <2>4 DEF TypeOK
<1>3. NothingYet /\ SourcesHeld /\ PidsHeld
  BY DEF NothingYet, SourcesHeld, PidsHeld, Passed, Selecting, Looping
<1>4. InOrder /\ NoneMissing
  <2>1. 1 .. 0 = {}
    OBVIOUS
  <2> QED
    BY <1>1, <2>1 DEF InOrder, NoneMissing, Precedes
<1> QED
  BY <1>2, <1>3, <1>4 DEF IInv

(* The inductive invariant holds in every reachable state.                 *)
THEOREM Invariance == Spec => []IInv
<1>1. ASSUME IInv, [Next]_vars
      PROVE  IInv'
  <2>1. CASE SelectSource("fe_stream", "stid") \/ SelectSource("stid", "t2mi")
               \/ SelectSource("t2mi", "filter")
    BY <1>1, <2>1, SourceStep
  <2>2. CASE Open \/ SetPesFilter \/ AddPid \/ Start \/ Wait \/ NothingToRead \/ ReadFails
    BY <1>1, <2>2, OpenStep, FilterStep, AddStep, QuietStep, Zenon
  <2>3. CASE Read \/ ReadOverflows \/ Write \/ Return \/ PacketArrives
    BY <1>1, <2>3, ReadStep, OverflowStep, WriteStep, ReturnStep, ArriveStep, Zenon
  <2> QED
    BY <1>1, <2>1, <2>2, <2>3, StutterStep, Zenon DEF Next, Program, Finished
<1> QED
  BY <1>1, InitStep, PTL DEF Spec

(* The variables of the program and of the demultiplexer have their types. *)
THEOREM TypeCorrect == Spec => []TypeOK
<1>1. IInv => TypeOK
  BY DEF IInv
<1> QED
  BY <1>1, Invariance, PTL

(* While the program streams, the demultiplexer has been told all of the   *)
(* sources and pids that were asked for, and nothing else.                 *)
THEOREM SelectedAsRequested == Spec => []StreamAsRequested
<1>1. IInv => StreamAsRequested
  BY DEF IInv, SourcesHeld, PidsHeld, Passed, Sources, WantedPids, Selecting, Looping,
         StreamAsRequested
<1> QED
  BY <1>1, Invariance, PTL

(* Written, read and unread packets are the stream as it came in, in order *)
(* and without a packet twice, but for what was lost on the way.           *)
THEOREM WholeStream == Spec => []StreamIsWhole
<1>1. ASSUME IInv
      PROVE  StreamIsWhole
  <2>1. out \in Seq(Nat) /\ buffer \in Seq(Nat) /\ ring \in Seq(Nat)
    BY <1>1, StreamType DEF IInv
  <2>2. InOrder /\ NoneMissing
    BY <1>1 DEF IInv
  <2> DEFINE read == out \o buffer
  <2>3. read \in Seq(Nat) /\ Packets(read) = Packets(out) \cup Packets(buffer) /\ Ordered(read)
    BY <2>1, <2>2, ConcatFacts DEF InOrder
  <2> HIDE DEF read
  <2>4. Precedes(read, ring)
    BY <2>2, <2>3 DEF InOrder, Precedes
  <2>5. Packets(read \o ring) = Packets(read) \cup Packets(ring) /\ Ordered(read \o ring)
    BY <2>1, <2>2, <2>3, <2>4, ConcatFacts DEF InOrder
  <2>6. Packets(read \o ring) = (1 .. arrived) \ lost
    BY <2>2, <2>3, <2>5 DEF NoneMissing
  <2> QED
    BY <2>5, <2>6 DEF read, StreamIsWhole
<1> QED
  BY <1>1, Invariance, PTL
===============================================================================
