---------------------------- MODULE NativeProofs ----------------------------
(***************************************************************************)
(* Proofs about the native backends (Npcap, Wfp, Etw, WinDivert), for any  *)
(* number of captures, filters, flows, sessions, handles and packets: each *)
(* native resource has an owner, and what the tables say is what runs.     *)
(***************************************************************************)
EXTENDS MCNative, FunctionTheorems, FiniteSetTheorems, SequenceTheorems, WellFoundedInduction, TLAPS

-----------------------------------------------------------------------------
(* Npcap: the sessions and their pcap handles.                             *)

Sessions ==
    [config : Configs, state : {"Stopped", "Running", "Failed"}, handle : Nat \cup {NoHandle},
     packets : Nat, bytes : Nat]

CaptureInv ==
    /\ captures \in Seq(Sessions)
    /\ PcapHandlesOwned /\ StoppedIsQuiet /\ CountersAgree

\* One session changes: its handle and its state stay, or it gives its handle
\* back, or one without a handle gets one that nobody has.
LEMMA SessionSet ==
    ASSUME CaptureInv, NEW i \in Ids, NEW s \in Sessions, NEW open, SetSession(i, s, open),
           \/ s.handle = captures[i].handle /\ s.state = captures[i].state /\ open = pcap
           \/ s.handle = NoHandle /\ s.state # "Running" /\ open = pcap \ {captures[i].handle}
           \/ /\ captures[i].handle = NoHandle /\ s.state = "Running"
              /\ s.handle \in Nat \ pcap /\ open = pcap \cup {s.handle}
    PROVE  /\ captures' \in Seq(Sessions) /\ Ids' = Ids /\ captures'[i] = s
           /\ \A j \in Ids : j # i => captures'[j] = captures[j]
           /\ PcapHandlesOwned'
<1>1. /\ captures' = [captures EXCEPT ![i] = s] /\ pcap' = open
      /\ captures \in Seq(Sessions) /\ i \in 1 .. Len(captures)
  BY DEF SetSession, CaptureInv, Ids
<1>2. captures' \in Seq(Sessions) /\ Len(captures') = Len(captures) BY <1>1
<1>3. Ids' = Ids /\ Ids = DOMAIN captures /\ Ids = DOMAIN captures' BY <1>1, <1>2 DEF Ids
<1>4. captures'[i] = s /\ \A j \in Ids : j # i => captures'[j] = captures[j] BY <1>1 DEF Ids
<1>5. /\ pcap = {captures[j].handle : j \in Ids} \ {NoHandle}
      /\ \A j \in Ids : captures[j].handle # NoHandle <=> captures[j].state = "Running"
      /\ \A j, k \in Ids : j # k /\ captures[j].handle = captures[k].handle => captures[j].handle = NoHandle
  BY <1>3 DEF CaptureInv, PcapHandlesOwned, HandlesOf
<1>6. NoHandle \notin Nat BY NpcapAssumption
<1>7. open = {captures'[j].handle : j \in Ids} \ {NoHandle} BY <1>4, <1>5, <1>6
<1>8. \A j \in Ids : captures'[j].handle # NoHandle <=> captures'[j].state = "Running"
  BY <1>4, <1>5, <1>6
<1>9. \A j, k \in Ids : j # k /\ captures'[j].handle = captures'[k].handle => captures'[j].handle = NoHandle
  BY <1>4, <1>5, <1>6
<1>10. PcapHandlesOwned' BY <1>1, <1>3, <1>7, <1>8, <1>9 DEF PcapHandlesOwned, HandlesOf
<1> QED BY <1>2, <1>3, <1>4, <1>10

\* A delivered packet keeps the counters apart by no more than snaplen.
LEMMA RecordedAgree ==
    ASSUME NEW p \in Nat, NEW b \in Nat, NEW n \in Nat, NEW c \in Nat, c >= 1, c <= n,
           p <= b, p < MaxCounter => b <= p * n
    PROVE  /\ Saturated(p, 1) \in Nat /\ Saturated(b, c) \in Nat
           /\ Saturated(p, 1) <= Saturated(b, c)
           /\ Saturated(p, 1) < MaxCounter => Saturated(b, c) <= Saturated(p, 1) * n
<1> USE NpcapAssumption
<1>1. MaxCounter \in Nat OBVIOUS
<1>2. Saturated(p, 1) \in Nat /\ Saturated(b, c) \in Nat /\ Saturated(p, 1) <= Saturated(b, c)
  BY <1>1 DEF Saturated
<1>3. ASSUME Saturated(p, 1) < MaxCounter PROVE Saturated(b, c) <= Saturated(p, 1) * n
  <2>1. Saturated(p, 1) = p + 1 /\ p < MaxCounter BY <1>1, <1>3 DEF Saturated
  <2>2. Saturated(b, c) <= b + c BY <1>1 DEF Saturated
  <2>3. b <= p * n BY <2>1
  <2>4. (p + 1) * n = p * n + n OBVIOUS
  <2>5. p * n \in Nat OBVIOUS
  <2> DEFINE x == p * n
             y == Saturated(b, c)
  <2> HIDE DEF x, y
  <2>6. y <= x + n BY <1>2, <2>2, <2>3, <2>5 DEF x, y
  <2> QED BY <2>1, <2>4, <2>6 DEF x, y
<1> QED BY <1>2, <1>3

\* What one session's change leaves true.
LEMMA SessionKeeps ==
    ASSUME CaptureInv, NEW i \in Ids, NEW s \in Sessions, NEW open, SetSession(i, s, open),
           \/ s.handle = captures[i].handle /\ s.state = captures[i].state /\ open = pcap
           \/ s.handle = NoHandle /\ s.state # "Running" /\ open = pcap \ {captures[i].handle}
           \/ /\ captures[i].handle = NoHandle /\ s.state = "Running"
              /\ s.handle \in Nat \ pcap /\ open = pcap \cup {s.handle}
              /\ npState # "Stopped",
           s.packets <= s.bytes,
           s.packets < MaxCounter => s.bytes <= s.packets * s.config.snaplen,
           UNCHANGED npState
    PROVE  CaptureInv'
<1>1. /\ captures' \in Seq(Sessions) /\ Ids' = Ids /\ captures'[i] = s
      /\ \A j \in Ids : j # i => captures'[j] = captures[j]
      /\ PcapHandlesOwned'
  BY SessionSet
<1>2. StoppedIsQuiet' BY <1>1 DEF CaptureInv, StoppedIsQuiet
<1>3. CountersAgree' BY <1>1 DEF CaptureInv, CountersAgree
<1> QED BY <1>1, <1>2, <1>3 DEF CaptureInv

\* A session of the backend is a record of its type.
LEMMA SessionType ==
    ASSUME CaptureInv, NEW i \in Ids
    PROVE  /\ captures[i] \in Sessions
           /\ captures[i].packets <= captures[i].bytes
           /\ captures[i].packets < MaxCounter =>
                 captures[i].bytes <= captures[i].packets * captures[i].config.snaplen
           /\ captures[i].state # "Running" <=> captures[i].handle = NoHandle
           /\ NoHandle \notin pcap
<1>1. captures[i] \in Sessions BY DEF CaptureInv, Ids
<1> QED BY <1>1 DEF CaptureInv, CountersAgree, PcapHandlesOwned, HandlesOf

\* A capture starts, with a handle of its own or without one.
LEMMA SessionStarts ==
    ASSUME CaptureInv, NEW i \in Ids, NEW name, SessionStart(i, name), npState = "Running", UNCHANGED npState
    PROVE  CaptureInv'
<1>1. captures[i] \in Sessions /\ captures[i].handle = NoHandle /\ NoHandle \notin pcap
      /\ captures[i].packets <= captures[i].bytes
      /\ (captures[i].packets < MaxCounter => captures[i].bytes <= captures[i].packets * captures[i].config.snaplen)
  BY SessionType DEF SessionStart
<1>2. CASE SetSession(i, [captures[i] EXCEPT !.state = "Failed", !.handle = NoHandle], pcap)
  <2> DEFINE s == [captures[i] EXCEPT !.state = "Failed", !.handle = NoHandle]
  <2>1. /\ s \in Sessions /\ s.handle = NoHandle /\ s.state = "Failed"
        /\ s.packets = captures[i].packets /\ s.bytes = captures[i].bytes /\ s.config = captures[i].config
    BY <1>1 DEF Sessions
  <2>2. SetSession(i, s, pcap) BY <1>2
  <2>3. pcap = pcap \ {captures[i].handle} BY <1>1
  <2> HIDE DEF s
  <2> QED BY <1>1, <2>1, <2>2, <2>3, SessionKeeps
<1>3. ASSUME NEW h \in Handles \ pcap,
             SetSession(i, [captures[i] EXCEPT !.state = "Running", !.handle = h], pcap \cup {h})
      PROVE  CaptureInv'
  <2> DEFINE s == [captures[i] EXCEPT !.state = "Running", !.handle = h]
  <2>1. h \in Nat \ pcap BY NpcapAssumption DEF Handles
  <2>2. /\ s \in Sessions /\ s.handle = h /\ s.state = "Running"
        /\ s.packets = captures[i].packets /\ s.bytes = captures[i].bytes /\ s.config = captures[i].config
    BY <1>1, <2>1 DEF Sessions
  <2>3. SetSession(i, s, pcap \cup {h}) BY <1>3
  <2> HIDE DEF s
  <2> QED BY <1>1, <2>1, <2>2, <2>3, SessionKeeps
<1> QED BY <1>2, <1>3 DEF SessionStart

\* A running capture ends, and its handle is closed.
LEMMA SessionEnds ==
    ASSUME CaptureInv, NEW i \in Ids, NEW state \in {"Stopped", "Failed"}, UNCHANGED npState,
           SetSession(i, [Closed(captures[i]) EXCEPT !.state = state], pcap \ {captures[i].handle})
    PROVE  CaptureInv'
<1> DEFINE s == [Closed(captures[i]) EXCEPT !.state = state]
<1>1. captures[i] \in Sessions
      /\ captures[i].packets <= captures[i].bytes
      /\ (captures[i].packets < MaxCounter => captures[i].bytes <= captures[i].packets * captures[i].config.snaplen)
  BY SessionType
<1>2. /\ s \in Sessions /\ s.handle = NoHandle /\ s.state = state
      /\ s.packets = captures[i].packets /\ s.bytes = captures[i].bytes /\ s.config = captures[i].config
  BY <1>1 DEF Sessions, Closed
<1>3. SetSession(i, s, pcap \ {captures[i].handle}) OBVIOUS
<1> HIDE DEF s
<1> QED BY <1>1, <1>2, <1>3, SessionKeeps

\* A packet that is delivered is counted, its bytes within the snapshot length.
LEMMA SessionDelivers ==
    ASSUME CaptureInv, NEW i \in Ids, NEW h \in Headers, Accepted(captures[i], h), Delivered(i, h),
           UNCHANGED npState
    PROVE  CaptureInv'
<1> DEFINE s == Recorded(captures[i], h)
<1>1. captures[i] \in Sessions
      /\ captures[i].packets <= captures[i].bytes
      /\ (captures[i].packets < MaxCounter => captures[i].bytes <= captures[i].packets * captures[i].config.snaplen)
  BY SessionType
<1>2. h.caplen \in Nat /\ captures[i].config.snaplen \in Nat /\ h.caplen >= 1 /\ h.caplen <= captures[i].config.snaplen
  <2>1. h.caplen \in 0 .. MaxLength BY DEF Headers
  <2>2. h.caplen \in Nat BY <2>1, NpcapAssumption
  <2>3. captures[i].config \in Configs BY <1>1 DEF Sessions
  <2>4. captures[i].config.snaplen \in Nat BY <2>3, NpcapAssumption DEF Configs
  <2>5. h.caplen > 0 /\ h.caplen <= captures[i].config.snaplen BY DEF Accepted, ValidHeader
  <2> QED BY <2>2, <2>4, <2>5
<1>3. captures[i].packets \in Nat /\ captures[i].bytes \in Nat BY <1>1 DEF Sessions
<1> DEFINE p1 == Saturated(captures[i].packets, 1)
           b1 == Saturated(captures[i].bytes, h.caplen)
<1>4. /\ p1 \in Nat /\ b1 \in Nat /\ p1 <= b1
      /\ p1 < MaxCounter => b1 <= p1 * captures[i].config.snaplen
  BY <1>1, <1>2, <1>3, RecordedAgree
<1>5. s = [captures[i] EXCEPT !.packets = p1, !.bytes = b1] BY DEF Recorded
<1> HIDE DEF p1, b1, s
<1>6. /\ s \in Sessions /\ s.handle = captures[i].handle /\ s.state = captures[i].state
      /\ s.packets = p1 /\ s.bytes = b1 /\ s.config = captures[i].config
  BY <1>1, <1>4, <1>5 DEF Sessions
<1>7. SetSession(i, s, pcap) BY DEF Delivered, s
<1> QED BY <1>4, <1>6, <1>7, SessionKeeps

\* Stopping the backend closes what runs, and nothing else.
LEMMA BackendStops == ASSUME CaptureInv, NpStop PROVE CaptureInv'
<1>1. captures \in Seq(Sessions) /\ Ids = 1 .. Len(captures) /\ DOMAIN captures = Ids BY DEF CaptureInv, Ids
<1> DEFINE End(i) == IF captures[i].state = "Running"
                     THEN [Closed(captures[i]) EXCEPT !.state = "Stopped"] ELSE captures[i]
<1>2. captures' = [i \in Ids |-> End(i)] BY DEF NpStop
<1>3. ASSUME NEW i \in Ids
      PROVE  /\ End(i) \in Sessions /\ End(i).handle = NoHandle /\ End(i).state # "Running"
             /\ End(i).packets = captures[i].packets /\ End(i).bytes = captures[i].bytes
             /\ End(i).config = captures[i].config
  <2>1. captures[i] \in Sessions /\ (captures[i].state # "Running" <=> captures[i].handle = NoHandle)
    BY SessionType
  <2>2. CASE captures[i].state = "Running" BY <2>1, <2>2 DEF Sessions, Closed
  <2>3. CASE captures[i].state # "Running" BY <2>1, <2>3
  <2> QED BY <2>2, <2>3
<1> HIDE DEF End
<1>4. captures' \in Seq(Sessions) /\ Ids' = Ids /\ \A i \in Ids : captures'[i] = End(i)
  BY <1>1, <1>2, <1>3 DEF Ids
<1>5. pcap' = {}
  <2>1. pcap' = pcap \ {captures[i].handle : i \in {j \in Ids : captures[j].state = "Running"}} BY DEF NpStop
  <2>2. pcap = {captures[i].handle : i \in Ids} \ {NoHandle}
    BY <1>1 DEF CaptureInv, PcapHandlesOwned, HandlesOf
  <2>3. \A i \in Ids : captures[i].handle # NoHandle => captures[i].state = "Running"
    BY DEF CaptureInv, PcapHandlesOwned
  <2> QED BY <2>1, <2>2, <2>3
<1>6. DOMAIN captures' = Ids BY <1>2
<1>7. PcapHandlesOwned' BY <1>3, <1>4, <1>5, <1>6 DEF PcapHandlesOwned, HandlesOf
<1>8. StoppedIsQuiet' BY <1>3, <1>4 DEF StoppedIsQuiet
<1>9. CountersAgree' BY <1>3, <1>4 DEF CaptureInv, CountersAgree
<1> QED BY <1>4, <1>7, <1>8, <1>9 DEF CaptureInv

\* A session is created stopped, without a handle.
LEMMA SessionCreated == ASSUME CaptureInv, CreateCapture PROVE CaptureInv'
<1>1. PICK c \in Configs : ValidConfig(c) /\ captures' = Append(captures, NewSession(c)) BY DEF CreateCapture
<1> DEFINE s == NewSession(c)
           n == Len(captures) + 1
<1>2. captures \in Seq(Sessions) BY DEF CaptureInv
<1>3. /\ s \in Sessions /\ s.handle = NoHandle /\ s.state = "Stopped" /\ s.packets = 0 /\ s.bytes = 0
      /\ s.config = c
  BY DEF NewSession, Sessions
<1>4. c.snaplen \in Nat BY NpcapAssumption DEF Configs
<1> HIDE DEF s
<1>5. /\ captures' \in Seq(Sessions) /\ Len(captures') = n /\ captures'[n] = s
      /\ \A i \in Ids : captures'[i] = captures[i]
  BY <1>1, <1>2, <1>3 DEF Ids, s
<1>6. Ids' = Ids \cup {n} /\ Ids = DOMAIN captures /\ DOMAIN captures' = Ids \cup {n} BY <1>2, <1>5 DEF Ids
<1> HIDE DEF n
<1>7. PcapHandlesOwned'
  <2>1. UNCHANGED pcap BY DEF CreateCapture
  <2>2. /\ pcap = {captures[j].handle : j \in Ids} \ {NoHandle}
        /\ \A j \in Ids : captures[j].handle # NoHandle <=> captures[j].state = "Running"
        /\ \A j, k \in Ids : j # k /\ captures[j].handle = captures[k].handle => captures[j].handle = NoHandle
    BY <1>6 DEF CaptureInv, PcapHandlesOwned, HandlesOf
  <2>3. pcap = {captures'[j].handle : j \in Ids \cup {n}} \ {NoHandle} BY <1>3, <1>5, <2>2
  <2>4. \A j \in Ids \cup {n} : captures'[j].handle # NoHandle <=> captures'[j].state = "Running"
    BY <1>3, <1>5, <2>2
  <2>5. \A j, k \in Ids \cup {n} :
           j # k /\ captures'[j].handle = captures'[k].handle => captures'[j].handle = NoHandle
    BY <1>3, <1>5, <2>2
  <2> QED BY <1>6, <2>1, <2>3, <2>4, <2>5 DEF PcapHandlesOwned, HandlesOf
<1>8. StoppedIsQuiet' BY DEF CreateCapture, StoppedIsQuiet
<1>9. CountersAgree'
  <2>1. \A j \in Ids : /\ captures[j].packets <= captures[j].bytes
                       /\ captures[j].packets < MaxCounter =>
                             captures[j].bytes <= captures[j].packets * captures[j].config.snaplen
    BY DEF CaptureInv, CountersAgree
  <2>2. s.packets <= s.bytes /\ s.bytes <= s.packets * s.config.snaplen BY <1>3, <1>4
  <2> QED BY <1>5, <1>6, <2>1, <2>2 DEF CountersAgree
<1> QED BY <1>5, <1>7, <1>8, <1>9 DEF CaptureInv

\* Without sessions no handle is open.
LEMMA NoSessions ==
    ASSUME captures' = <<>>, pcap' = {}
    PROVE  CaptureInv'
  BY DEF CaptureInv, PcapHandlesOwned, HandlesOf, StoppedIsQuiet, CountersAgree, Ids

LEMMA SessionsDropped ==
    ASSUME CaptureInv, captures' = <<>>, pcap' = pcap \ HandlesOf(captures)
    PROVE  CaptureInv'
<1>1. pcap' = {} BY DEF CaptureInv, PcapHandlesOwned
<1> QED BY <1>1, NoSessions

LEMMA StatisticsReset == ASSUME CaptureInv, NEW i \in Ids, ResetStatistics(i) PROVE CaptureInv'
<1> DEFINE s == [captures[i] EXCEPT !.packets = 0, !.bytes = 0]
<1>1. captures[i] \in Sessions BY SessionType
<1>2. /\ s \in Sessions /\ s.handle = captures[i].handle /\ s.state = captures[i].state
      /\ s.packets = 0 /\ s.bytes = 0 /\ s.config \in Configs
  BY <1>1 DEF Sessions
<1>3. s.bytes <= s.packets * s.config.snaplen
  <2>1. s.config.snaplen \in Nat BY <1>2, NpcapAssumption DEF Configs
  <2> QED BY <1>2, <2>1
<1>4. captures' = [captures EXCEPT ![i] = s] /\ UNCHANGED <<pcap, npState>> BY DEF ResetStatistics
<1>5. SetSession(i, s, pcap) BY <1>4 DEF SetSession
<1> HIDE DEF s
<1> QED BY <1>2, <1>3, <1>4, <1>5, SessionKeeps

\* Every call of the Npcap backend keeps its invariant.
LEMMA CaptureStep ==
    ASSUME CaptureInv, CaptureNext \/ DeviceNext \/ UNCHANGED npVars
    PROVE  CaptureInv'
<1>0. ASSUME UNCHANGED captureVars, UNCHANGED npState \/ npState' # "Stopped" PROVE CaptureInv'
  BY <1>0 DEF captureVars, CaptureInv, PcapHandlesOwned, StoppedIsQuiet, CountersAgree, Ids, HandlesOf
<1>1. ASSUME NEW i \in Ids, StartCapture(i) PROVE CaptureInv'
  BY <1>1, SessionStarts DEF StartCapture
<1>2. ASSUME NEW i \in Ids, StopCapture(i) PROVE CaptureInv'
  BY <1>2, SessionEnds DEF StopCapture, SessionStop
<1>3. ASSUME NEW i \in Ids, ReceivePacket(i) PROVE CaptureInv'
  <2>1. \/ \E h \in Headers : Accepted(captures[i], h) /\ Delivered(i, h)
        \/ SessionBroken(i)
    BY <1>3 DEF ReceivePacket
  <2>2. UNCHANGED npState BY <1>3 DEF ReceivePacket
  <2> QED BY <2>1, <2>2, SessionEnds, SessionDelivers DEF SessionBroken
<1>4. ASSUME NEW i \in Ids, ReceiveObservation(i) PROVE CaptureInv'
  BY <1>4, SessionDelivers DEF ReceiveObservation
<1>5. ASSUME ClearRuntimeState \/ NpDrop PROVE CaptureInv'
  BY <1>5, SessionsDropped DEF ClearRuntimeState, NpDrop
<1>6. ASSUME \/ NpStart \/ NpDegrade \/ NpFail
             \/ \E n \in Interfaces, name \in DeviceNames \cup {NoName} : AdapterSet(n, name)
             \/ \E n \in Interfaces : AdapterRemove(n)
      PROVE  CaptureInv'
  BY <1>0, <1>6 DEF NpStart, NpDegrade, NpFail, AdapterSet, AdapterRemove
<1>7. ASSUME DeviceNext PROVE CaptureInv'
  BY <1>0, <1>7 DEF DeviceNext, DeviceAdd, DeviceOpen, DeviceClose, DeviceRemove, DeviceMark, DeviceRefresh,
                    SetDevices
<1>8. ASSUME CaptureNext PROVE CaptureInv'
  BY <1>1, <1>2, <1>3, <1>4, <1>5, <1>6, <1>8, BackendStops, SessionCreated, StatisticsReset DEF CaptureNext
<1> QED BY <1>0, <1>7, <1>8 DEF npVars

-----------------------------------------------------------------------------
(* WFP: the sessions of the table and of the engine.                       *)

LEMMA FreshSession == ASSUME NEW h \in Fresh PROVE h # Null /\ h \notin bfe
<1>1. h \in Nat /\ h \notin bfe BY WfpAssumption DEF Fresh
<1> QED BY <1>1, WfpAssumption

LEMMA SessionStep ==
    ASSUME SessionsOwned, FilterNext \/ UNCHANGED wfpVars
    PROVE  SessionsOwned'
<1>0. ASSUME UNCHANGED <<slot, wfpHandle, bfe, abandoned>>,
             UNCHANGED wfpState \/ (wfpState \in {"Open", "Degraded"} /\ wfpState' \in {"Open", "Degraded"})
      PROVE  SessionsOwned'
  BY <1>0 DEF SessionsOwned
<1>1. ASSUME TableInitialize PROVE SessionsOwned'
  <2>1. UNCHANGED <<wfpState, wfpHandle>> /\ slot = Null BY <1>1 DEF TableInitialize, engineVars
  <2>2. PICK h \in Fresh :
          \/ slot' = h /\ bfe' = bfe \cup {h} /\ UNCHANGED abandoned
          \/ bfe' = bfe \cup {h} /\ abandoned' = abandoned \cup {h} /\ UNCHANGED slot
    BY <1>1 DEF TableInitialize
  <2> QED BY <2>1, <2>2, FreshSession DEF SessionsOwned
<1>2. ASSUME EngineOpen PROVE SessionsOwned'
  <2>1. UNCHANGED slot /\ wfpHandle = Null BY <1>2 DEF EngineOpen, tableVars, SessionsOwned
  <2>2. CASE \E h \in Fresh :
               /\ wfpState' = "Open" /\ wfpHandle' = h /\ bfe' = bfe \cup {h} /\ UNCHANGED abandoned
    BY <2>1, <2>2, FreshSession DEF SessionsOwned
  <2>3. CASE \E h \in Fresh : /\ wfpState' = "Failed" /\ wfpHandle' = Null
                              /\ bfe' = bfe \cup {h} /\ abandoned' = abandoned \cup {h}
    BY <2>1, <2>3, FreshSession DEF SessionsOwned
  <2>4. CASE wfpState' = "Failed" /\ wfpHandle' = Null /\ UNCHANGED <<bfe, abandoned>>
    BY <2>1, <2>4 DEF SessionsOwned
  <2> QED BY <1>2, <2>2, <2>3, <2>4 DEF EngineOpen
<1>3. ASSUME EngineClose PROVE SessionsOwned'
  <2>1. UNCHANGED slot /\ wfpHandle' = Null BY <1>3 DEF EngineClose, tableVars
  <2>2. CASE wfpHandle = Null /\ wfpState' = "Closed" /\ UNCHANGED <<bfe, abandoned>>
    BY <2>1, <2>2 DEF SessionsOwned
  <2>3. CASE \E ok \in BOOLEAN : wfpHandle # Null /\ CloseSession(wfpHandle, ok) /\ wfpState' \in {"Closed", "Failed"}
    BY <2>1, <2>3 DEF SessionsOwned, CloseSession
  <2> QED BY <1>3, <2>2, <2>3 DEF EngineClose
<1>4. ASSUME MarkFailed \/ EngineDrop PROVE SessionsOwned'
  <2>1. /\ UNCHANGED <<slot, bfe>> /\ wfpHandle' = Null /\ wfpState' \in {"Failed", "Closed"}
        /\ abandoned' = abandoned \cup ({wfpHandle} \ {Null})
    BY <1>4 DEF MarkFailed, EngineDrop, tableVars
  <2> QED BY <2>1 DEF SessionsOwned
<1>5. ASSUME NEW kept \in SUBSET Kids, NEW ok \in BOOLEAN, TableShutdown(kept, ok) PROVE SessionsOwned'
  <2>1. /\ UNCHANGED <<wfpHandle, wfpState>> /\ slot' = Null
        /\ IF slot = Null THEN UNCHANGED <<bfe, abandoned>> ELSE CloseSession(slot, ok)
    BY <1>5 DEF TableShutdown, engineVars
  <2> QED BY <2>1 DEF SessionsOwned, CloseSession
<1>7. ASSUME TableDrop PROVE SessionsOwned'
  <2>1. /\ UNCHANGED <<wfpHandle, wfpState, bfe>> /\ slot' = Null
        /\ abandoned' = abandoned \cup ({slot} \ {Null})
    BY <1>7 DEF TableDrop, engineVars
  <2> QED BY <2>1 DEF SessionsOwned
<1>6. ASSUME \/ MarkDegraded \/ MarkRecovered
             \/ \E f \in Filters, condition \in Conditions : FilterInsert(f, condition)
             \/ \E id \in {g.id : g \in Listed} :
                   \/ \E refused \in BOOLEAN : FilterRemove(id, refused)
                   \/ \E f \in Filters, replaced \in BOOLEAN : FilterRevise(id, f, replaced)
             \/ \E kept \in SUBSET Kids : FilterClear(kept)
             \/ UNCHANGED wfpVars
      PROVE  SessionsOwned'
  <2>1. UNCHANGED <<slot, wfpHandle, bfe, abandoned>>
        /\ (UNCHANGED wfpState \/ (wfpState \in {"Open", "Degraded"} /\ wfpState' \in {"Open", "Degraded"}))
    BY <1>6 DEF MarkDegraded, MarkRecovered, FilterInsert, FilterRemove, FilterRevise, FilterClear, wfpVars,
                tableVars, engineVars
  <2> QED BY <1>0, <2>1
<1> QED BY <1>1, <1>2, <1>3, <1>4, <1>5, <1>6, <1>7 DEF FilterNext, TableNext, EngineNext

-----------------------------------------------------------------------------
(* ETW: the registrations of the backend's provider and of its clone.      *)

\* A provider that runs was given a name, and one that is not there holds nothing.
EtwInv ==
    /\ RegistrationOwned
    /\ provRunning \in [Providers -> BOOLEAN]
    /\ registration \in [Providers -> Nat \cup {Unregistered}]
    /\ registered \subseteq Nat
    /\ ~copied => registration["copy"] = Unregistered

LEMMA ProviderRegistered ==
    ASSUME EtwInv, NEW p \in Providers, ProviderStarts(p), p = "copy" => copied, UNCHANGED <<named, copied, shared>>
    PROVE  EtwInv'
<1>1. PICK h \in (1 .. MaxRegistrations) \ registered :
        registration' = [registration EXCEPT ![p] = h] /\ registered' = registered \cup {h}
  BY DEF ProviderStarts
<1>2. h \in Nat /\ h # Unregistered BY EtwAssumption
<1>3. /\ provRunning' = [provRunning EXCEPT ![p] = TRUE] /\ ~provRunning[p] /\ named
      /\ provRunning \in [Providers -> BOOLEAN] /\ registration \in [Providers -> Nat \cup {Unregistered}]
      /\ \A q \in Providers : provRunning[q] <=> registration[q] # Unregistered
      /\ registered \subseteq {registration[q] : q \in Providers} /\ registered \subseteq Nat
  BY DEF ProviderStarts, EtwInv, RegistrationOwned
<1>4. registration[p] = Unregistered BY <1>3
<1>5. /\ registration'[p] = h /\ provRunning'[p]
      /\ \A q \in Providers : q # p => registration'[q] = registration[q] /\ provRunning'[q] = provRunning[q]
  BY <1>1, <1>3
<1>6. /\ provRunning' \in [Providers -> BOOLEAN] /\ registration' \in [Providers -> Nat \cup {Unregistered}]
      /\ registered' \subseteq Nat /\ (~copied' => registration'["copy"] = Unregistered)
  BY <1>1, <1>2, <1>3, <1>5 DEF EtwInv, Providers
<1>7. registered' \subseteq {registration'[q] : q \in Providers}
  <2>1. Unregistered \notin registered BY <1>3, EtwAssumption
  <2> QED BY <1>1, <1>3, <1>4, <1>5, <2>1
<1>8. \A q \in Providers : provRunning'[q] <=> registration'[q] # Unregistered
  <2> TAKE q \in Providers
  <2>1. CASE q = p BY <1>2, <1>5, <2>1
  <2>2. CASE q # p BY <1>3, <1>5, <2>2
  <2> QED BY <2>1, <2>2
<1>9. ASSUME ~shared
      PROVE  /\ \A q \in Providers : provRunning'[q] => registration'[q] \in registered'
             /\ ~(provRunning'["own"] /\ provRunning'["copy"] /\ registration'["own"] = registration'["copy"])
  <2>1. \A q \in Providers : provRunning[q] => registration[q] \in registered
    BY <1>9 DEF EtwInv, RegistrationOwned, Emits
  <2>2. \A q \in Providers : q # p /\ provRunning'[q] => registration'[q] \in registered /\ registration'[q] # h
    BY <1>5, <2>1
  <2> QED BY <1>1, <1>5, <2>2 DEF Providers
<1>10. RegistrationOwned' BY <1>3, <1>7, <1>8, <1>9 DEF RegistrationOwned, Emits
<1> QED BY <1>6, <1>10 DEF EtwInv

LEMMA ProviderUnregistered ==
    ASSUME EtwInv, NEW p \in Providers, Unregisters(p), UNCHANGED <<named, shared>>, UNCHANGED copied \/ p = "copy"
    PROVE  EtwInv'
<1>1. /\ registered' = registered \ {registration[p]}
      /\ provRunning \in [Providers -> BOOLEAN] /\ registration \in [Providers -> Nat \cup {Unregistered}]
      /\ registration' = [registration EXCEPT ![p] = Unregistered]
      /\ provRunning' = [provRunning EXCEPT ![p] = FALSE]
      /\ \A q \in Providers : provRunning[q] <=> registration[q] # Unregistered
      /\ registered \subseteq {registration[q] : q \in Providers} /\ registered \subseteq Nat
  BY DEF Unregisters, EtwInv, RegistrationOwned
<1>2. /\ registration'[p] = Unregistered /\ ~provRunning'[p]
      /\ \A q \in Providers : q # p => registration'[q] = registration[q] /\ provRunning'[q] = provRunning[q]
  BY <1>1
<1>3. /\ provRunning' \in [Providers -> BOOLEAN] /\ registration' \in [Providers -> Nat \cup {Unregistered}]
      /\ registered' \subseteq Nat /\ (~copied' => registration'["copy"] = Unregistered)
  BY <1>1, <1>2 DEF EtwInv, Providers
<1>4. registered' \subseteq {registration'[q] : q \in Providers}
  <2> SUFFICES ASSUME NEW h \in registered' PROVE \E q \in Providers : h = registration'[q] OBVIOUS
  <2>1. PICK q \in Providers : h = registration[q] BY <1>1
  <2>2. q # p BY <1>1, <2>1
  <2> QED BY <1>2, <2>1, <2>2
<1>5. \A q \in Providers : provRunning'[q] <=> registration'[q] # Unregistered
  <2> TAKE q \in Providers
  <2>1. CASE q = p BY <1>2, <2>1
  <2>2. CASE q # p BY <1>1, <1>2, <2>2
  <2> QED BY <2>1, <2>2
<1>6. ASSUME ~shared
      PROVE  /\ \A q \in Providers : provRunning'[q] => registration'[q] \in registered' /\ named
             /\ ~(provRunning'["own"] /\ provRunning'["copy"])
  <2>1. /\ \A q \in Providers : provRunning[q] => registration[q] \in registered /\ named
        /\ ~(provRunning["own"] /\ provRunning["copy"] /\ registration["own"] = registration["copy"])
    BY <1>6 DEF EtwInv, RegistrationOwned, Emits
  <2>2. ASSUME NEW q \in Providers, provRunning'[q] PROVE registration'[q] \in registered' /\ named
    <3>1. q # p /\ provRunning[q] /\ registration'[q] = registration[q] BY <1>2, <2>2
    <3>2. registration[q] # registration[p]
      <4>1. CASE provRunning[p] BY <2>1, <3>1, <4>1 DEF Providers
      <4>2. CASE ~provRunning[p] BY <1>1, <3>1, <4>2
      <4> QED BY <4>1, <4>2
    <3> QED BY <1>1, <2>1, <3>1, <3>2
  <2> QED BY <1>2, <2>2 DEF Providers
<1>7. RegistrationOwned' BY <1>4, <1>5, <1>6 DEF RegistrationOwned, Emits
<1> QED BY <1>3, <1>7 DEF EtwInv

\* The clone holds what its original holds.
LEMMA ProviderCloned == ASSUME EtwInv, ProviderClone PROVE EtwInv'
<1>1. /\ ~copied /\ copied' = TRUE /\ UNCHANGED <<named, registered>>
      /\ provRunning \in [Providers -> BOOLEAN] /\ registration \in [Providers -> Nat \cup {Unregistered}]
      /\ provRunning' = [provRunning EXCEPT !["copy"] = provRunning["own"]]
      /\ registration' = [registration EXCEPT !["copy"] = registration["own"]]
      /\ shared' = (shared \/ registration["own"] # Unregistered)
      /\ \A q \in Providers : provRunning[q] <=> registration[q] # Unregistered
      /\ registered \subseteq {registration[q] : q \in Providers} /\ registered \subseteq Nat
      /\ registration["copy"] = Unregistered
  BY DEF ProviderClone, EtwInv, RegistrationOwned
<1>2. "own" \in Providers /\ "copy" \in Providers /\ \A q \in Providers : q \in {"own", "copy"} BY DEF Providers
<1>3. \A q \in Providers : registration'[q] = registration["own"] /\ provRunning'[q] = provRunning["own"]
  BY <1>1, <1>2
<1>4. /\ provRunning' \in [Providers -> BOOLEAN] /\ registration' \in [Providers -> Nat \cup {Unregistered}]
  BY <1>1, <1>2
<1>5. registered' \subseteq {registration'[q] : q \in Providers}
  <2>1. Unregistered \notin registered BY <1>1, EtwAssumption
  <2> QED BY <1>1, <1>2, <1>3, <2>1
<1>6. \A q \in Providers : provRunning'[q] <=> registration'[q] # Unregistered BY <1>1, <1>2, <1>3
<1>7. ASSUME ~shared' PROVE \A q \in Providers : ~provRunning'[q]
  <2>1. registration["own"] = Unregistered BY <1>1, <1>7
  <2> QED BY <1>1, <1>2, <1>3, <2>1
<1>8. RegistrationOwned' BY <1>2, <1>5, <1>6, <1>7 DEF RegistrationOwned, Emits
<1> QED BY <1>1, <1>4, <1>8 DEF EtwInv

LEMMA RegistrationStep ==
    ASSUME EtwInv, EtwNext \/ UNCHANGED etwVars
    PROVE  EtwInv'
<1>1. "own" \in Providers /\ "copy" \in Providers BY DEF Providers
<1>2. ASSUME NEW p \in Providers, ProviderStart(p) \/ ProviderStop(p) PROVE EtwInv'
  BY <1>2, ProviderRegistered, ProviderUnregistered DEF ProviderStart, ProviderStop
<1>3. ASSUME CopyDrop PROVE EtwInv' BY <1>1, <1>3, ProviderUnregistered DEF CopyDrop
<1>4. ASSUME BackendStart PROVE EtwInv' BY <1>1, <1>4, ProviderRegistered DEF BackendStart
<1>5. ASSUME BackendStop \/ BackendDrop PROVE EtwInv'
  BY <1>1, <1>5, ProviderUnregistered DEF BackendStop, BackendDrop
<1>6. ASSUME UNCHANGED etwVars PROVE EtwInv' BY <1>6 DEF etwVars, EtwInv, RegistrationOwned, Emits
<1> QED BY <1>2, <1>3, <1>4, <1>5, <1>6, ProviderCloned DEF EtwNext

-----------------------------------------------------------------------------
(* WinDivert: the native handle.                                           *)

LEMMA FreshNative == ASSUME NEW h \in FreshHandles PROVE h # NoNative /\ h \notin driver
<1>1. h \in Nat /\ h \notin driver BY WinDivertAssumption DEF FreshHandles
<1> QED BY <1>1, WinDivertAssumption

LEMMA HandleStep ==
    ASSUME DivertHandlesOwned, DivertNext \/ DivertQueueNext \/ UNCHANGED wdVars
    PROVE  DivertHandlesOwned'
<1>0. ASSUME UNCHANGED handleVars PROVE DivertHandlesOwned' BY <1>0 DEF handleVars, DivertHandlesOwned
<1>1. ASSUME NEW h \in FreshHandles, wdNative = NoNative, wdNative' = h, driver' = driver \cup {h},
             wdState' = "Open", UNCHANGED unclosed
      PROVE  DivertHandlesOwned'
  BY <1>1, FreshNative DEF DivertHandlesOwned
<1>2. ASSUME wdNative = NoNative, UNCHANGED <<wdNative, driver, unclosed>>, wdState' # "Open"
      PROVE  DivertHandlesOwned'
  BY <1>2 DEF DivertHandlesOwned
<1>3. ASSUME NEW ok \in BOOLEAN, wdNative # NoNative, Released(ok), wdState' # "Open"
      PROVE  DivertHandlesOwned'
  BY <1>3 DEF DivertHandlesOwned, Released
<1>4. ASSUME HandleOpen PROVE DivertHandlesOwned'
  <2>1. wdNative = NoNative /\ UNCHANGED unclosed BY <1>4 DEF HandleOpen, CanOpen, DivertHandlesOwned
  <2> QED BY <1>1, <1>2, <1>4, <2>1 DEF HandleOpen
<1>5. ASSUME RuntimeStart PROVE DivertHandlesOwned'
  <2>1. wdNative = NoNative /\ UNCHANGED unclosed BY <1>5 DEF RuntimeStart, DivertHandlesOwned
  <2> QED BY <1>1, <1>5, <2>1 DEF RuntimeStart
<1>6. ASSUME NEW ok \in BOOLEAN, HandleClose(ok) \/ HandleDrop(ok) \/ RuntimeStop(ok) PROVE DivertHandlesOwned'
  <2>1. CASE wdNative # NoNative /\ Released(ok) BY <1>3, <1>6, <2>1 DEF HandleClose, HandleDrop, RuntimeStop, Closes
  <2>2. CASE wdNative = NoNative
    BY <1>2, <1>6, <2>2 DEF HandleClose, HandleDrop, RuntimeStop, Closes
  <2> QED BY <1>6, <2>1, <2>2 DEF HandleClose, HandleDrop, RuntimeStop, Closes
<1>7. ASSUME \/ \E a \in Addresses, published \in BOOLEAN : Poll(a, published)
             \/ \E o \in onBus : Take(o)
             \/ \E o \in taken : ExecuteDrop(o) \/ \E len \in PacketSizes, ok \in BOOLEAN : ExecutePass(o, len, ok)
             \/ DivertQueueNext \/ UNCHANGED wdVars
      PROVE  DivertHandlesOwned'
  <2>1. UNCHANGED handleVars
    BY <1>7 DEF Poll, Take, ExecuteDrop, ExecutePass, DivertQueueNext, DivertPop, DivertPush, DivertClear, wdVars
  <2> QED BY <1>0, <2>1
<1> QED BY <1>4, <1>5, <1>6, <1>7 DEF DivertNext

-----------------------------------------------------------------------------
(* Every native resource has its owner.                                    *)

\* A step of one backend leaves the others alone.
LEMMA OneBackendSteps ==
    ASSUME [Next]_vars
    PROVE  /\ CaptureNext \/ DeviceNext \/ UNCHANGED npVars
           /\ FilterNext \/ UNCHANGED wfpVars
           /\ FlowsNext \/ UNCHANGED wfpFlows
           /\ EtwNext \/ UNCHANGED etwVars
           /\ DivertNext \/ DivertQueueNext \/ UNCHANGED wdVars
BY DEF Next, vars, FilterNext

NativeInv == CaptureInv /\ SessionsOwned /\ EtwInv /\ DivertHandlesOwned

LEMMA CapturesNone == ASSUME Init PROVE CaptureInv
<1>1. captures = <<>> /\ pcap = {} /\ Ids = {} BY DEF Init, NpInit, Ids
<1>2. captures \in Seq(Sessions) BY <1>1
<1>3. PcapHandlesOwned BY <1>1 DEF PcapHandlesOwned, HandlesOf
<1>4. StoppedIsQuiet /\ CountersAgree BY <1>1 DEF StoppedIsQuiet, CountersAgree
<1> QED BY <1>2, <1>3, <1>4 DEF CaptureInv

\* Every call of the four native backends keeps the facts about ownership
\* inductive: sessions and their pcap handles, the WFP engine sessions, the ETW
\* registration, the WinDivert handles.
THEOREM NativeInvariant == Spec => []NativeInv
<1>1. Init => NativeInv
  <2> SUFFICES ASSUME Init PROVE NativeInv OBVIOUS
  <2>1. CaptureInv BY CapturesNone
  <2>2. SessionsOwned BY DEF Init, WfpInit, SessionsOwned
  <2>3. EtwInv
    <3>1. /\ provRunning = [p \in Providers |-> FALSE] /\ registration = [p \in Providers |-> Unregistered]
          /\ registered = {} /\ "copy" \in Providers /\ "own" \in Providers
      BY DEF Init, EtwInit, Providers
    <3> QED BY <3>1 DEF EtwInv, RegistrationOwned
  <2>4. DivertHandlesOwned BY DEF Init, WdInit, DivertHandlesOwned
  <2> QED BY <2>1, <2>2, <2>3, <2>4 DEF NativeInv
<1>2. NativeInv /\ [Next]_vars => NativeInv'
  <2> SUFFICES ASSUME NativeInv, [Next]_vars PROVE NativeInv' OBVIOUS
  <2>1. CaptureInv /\ SessionsOwned /\ EtwInv /\ DivertHandlesOwned BY DEF NativeInv
  <2> QED BY <2>1, OneBackendSteps, CaptureStep, SessionStep, RegistrationStep, HandleStep DEF NativeInv
<1> QED BY <1>1, <1>2, PTL DEF Spec

\* Every pcap handle, filtering engine session, ETW registration and WinDivert
\* handle that is open has exactly one owner, but for those that were given up in
\* a step that is on record: a close the native side refused (WinDivert, WFP),
\* mark_failed or a drop of an open engine or filter table (WFP), and a clone of a
\* registered provider (ETW), whose registration has two.
THEOREM NativeOwnership == Spec => []NativeHandlesOwned
<1>1. NativeInv => NativeHandlesOwned BY DEF NativeInv, NativeHandlesOwned, CaptureInv, EtwInv
<1> QED BY <1>1, NativeInvariant, PTL

-----------------------------------------------------------------------------
(* WFP: the flow table.                                                    *)

FlowRecords == [state : FlowStates, packets : Nat, bytes : Nat, last : Nat]

FlowInv == \A id \in DOMAIN wfpFlows : wfpFlows[id] \in FlowRecords

LEMMA FlowStays == ASSUME NEW f \in FlowRecords PROVE FlowStep(f, f)
BY DEF FlowRecords, FlowStep

\* A step of the table: the flows that stay are flows, and moved forward.
FlowsAdvance ==
    /\ FlowInv'
    /\ \A id \in DOMAIN wfpFlows \cap DOMAIN wfpFlows' : FlowStep(wfpFlows[id], wfpFlows'[id])

\* One flow changes.
LEMMA FlowSet ==
    ASSUME FlowInv, NEW id \in DOMAIN wfpFlows, NEW f \in FlowRecords,
           SetFlow(id, f), FlowStep(wfpFlows[id], f)
    PROVE  FlowsAdvance
<1>1. /\ DOMAIN wfpFlows' = DOMAIN wfpFlows /\ wfpFlows'[id] = f
      /\ \A i \in DOMAIN wfpFlows : i # id => wfpFlows'[i] = wfpFlows[i]
  BY DEF SetFlow
<1> QED BY <1>1, FlowStays DEF FlowInv, FlowsAdvance

\* Some flows go, and the rest stay as they were.
LEMMA FlowsRestricted ==
    ASSUME FlowInv, NEW S \in SUBSET DOMAIN wfpFlows, wfpFlows' = Restrict(wfpFlows, S)
    PROVE  FlowsAdvance
<1>1. DOMAIN wfpFlows' = S /\ \A i \in S : wfpFlows'[i] = wfpFlows[i] BY DEF Restrict
<1> QED BY <1>1, FlowStays DEF FlowInv, FlowsAdvance

\* A packet is counted in a flow that has not ended.
LEMMA FlowRecorded ==
    ASSUME FlowInv, NEW id \in DOMAIN wfpFlows, NEW size \in Sizes, NEW t \in Times, WfpFlowRecord(id, size, t)
    PROVE  FlowsAdvance
<1> DEFINE f == wfpFlows[id]
           counted == [f EXCEPT !.packets = @ + 1]
           active == [counted EXCEPT !.bytes = @ + size, !.last = t,
                                     !.state = IF @ = "New" THEN "Established" ELSE @]
<1>1. f \in FlowRecords /\ size \in Nat /\ t \in Nat BY WfpFlowAssumption DEF FlowInv
<1>2. f.state \in FlowStates /\ f.packets \in Nat /\ f.bytes \in Nat /\ ~IsTerminal(f.state)
  BY <1>1 DEF FlowRecords, WfpFlowRecord
<1>3. /\ counted \in FlowRecords /\ counted.state = f.state /\ counted.packets = f.packets + 1
      /\ counted.bytes = f.bytes
  BY <1>1 DEF FlowRecords
<1> HIDE DEF counted
<1>4. /\ active \in FlowRecords /\ active.packets = f.packets + 1 /\ active.bytes = f.bytes + size
      /\ active.state = IF f.state = "New" THEN "Established" ELSE f.state
  <2>1. (IF f.state = "New" THEN "Established" ELSE f.state) \in FlowStates BY <1>2 DEF FlowStates
  <2>2. counted.state = f.state /\ counted.bytes = f.bytes /\ counted.packets = f.packets + 1 BY <1>3
  <2>3. active \in FlowRecords
    <3>1. (IF counted.state = "New" THEN "Established" ELSE counted.state) \in FlowStates /\ counted.bytes + size \in Nat
      BY <1>1, <1>2, <2>1, <2>2
    <3>2. ASSUME NEW x \in FlowStates, NEW y \in Nat
          PROVE  [counted EXCEPT !.bytes = y, !.last = t, !.state = x] \in FlowRecords
      BY <1>1, <1>3 DEF FlowRecords
    <3>3. active = [counted EXCEPT !.bytes = counted.bytes + size, !.last = t,
                                   !.state = IF counted.state = "New" THEN "Established" ELSE counted.state]
      BY <1>3 DEF FlowRecords
    <3> HIDE DEF active
    <3> QED BY <3>1, <3>2, <3>3
  <2>4. active.packets = f.packets + 1 /\ active.bytes = f.bytes + size BY <1>1, <1>3 DEF FlowRecords
  <2>5. active.state = IF f.state = "New" THEN "Established" ELSE f.state BY <1>3 DEF FlowRecords
  <2> QED BY <2>3, <2>4, <2>5
<1>5. SetFlow(id, counted) \/ SetFlow(id, active) BY DEF WfpFlowRecord, counted
<1> HIDE DEF active
<1>6. FlowStep(f, counted) BY <1>2, <1>3 DEF FlowStep
<1>7. FlowStep(f, active) BY <1>1, <1>2, <1>4 DEF FlowStep
<1> QED BY <1>3, <1>4, <1>5, <1>6, <1>7, FlowSet

\* A flow changes its state as can_transition allows.
LEMMA FlowMoves ==
    ASSUME FlowInv, NEW id \in DOMAIN wfpFlows, NEW s \in FlowStates,
           SetFlow(id, [wfpFlows[id] EXCEPT !.state = s]),
           wfpFlows[id].state = s \/ ~IsTerminal(wfpFlows[id].state),
           wfpFlows[id].state \in {"Established", "Closing"} => s \notin {"Unknown", "New"},
           wfpFlows[id].state = "Closing" => s # "Established"
    PROVE  FlowsAdvance
<1> DEFINE f == wfpFlows[id]
           g == [f EXCEPT !.state = s]
<1>1. f \in FlowRecords BY DEF FlowInv
<1>2. g \in FlowRecords /\ g.state = s /\ g.packets = f.packets /\ g.bytes = f.bytes BY <1>1 DEF FlowRecords
<1>3. f.packets \in Nat /\ f.bytes \in Nat BY <1>1 DEF FlowRecords
<1>4. f.state = s => g = f BY <1>1 DEF FlowRecords
<1>5. SetFlow(id, g) OBVIOUS
<1> HIDE DEF g
<1>6. FlowStep(f, g) BY <1>2, <1>3, <1>4 DEF FlowStep
<1> QED BY <1>2, <1>5, <1>6, FlowSet

LEMMA FlowTableStep ==
    ASSUME FlowInv, FlowsNext \/ UNCHANGED wfpFlows
    PROVE  FlowsAdvance
<1>0. ASSUME UNCHANGED wfpFlows PROVE FlowsAdvance BY <1>0, FlowStays DEF FlowsAdvance, FlowInv
<1>1. ASSUME NEW id \in FlowIds, NEW s \in FlowStates, NEW t \in Times, WfpFlowInsert(id, s, t) PROVE FlowsAdvance
  <2> DEFINE f == [state |-> s, packets |-> 0, bytes |-> 0, last |-> t]
  <2>1. f \in FlowRecords BY WfpFlowAssumption DEF FlowRecords
  <2>2. /\ DOMAIN wfpFlows' = DOMAIN wfpFlows \cup {id} /\ wfpFlows'[id] = f /\ id \notin DOMAIN wfpFlows
        /\ \A i \in DOMAIN wfpFlows : wfpFlows'[i] = wfpFlows[i]
    BY <1>1 DEF WfpFlowInsert
  <2> HIDE DEF f
  <2> QED BY <2>1, <2>2, FlowStays DEF FlowInv, FlowsAdvance
<1>2. ASSUME NEW id \in DOMAIN wfpFlows, NEW s \in FlowStates, WfpFlowTransition(id, s) PROVE FlowsAdvance
  <2>1. CanTransition(wfpFlows[id].state, s) /\ SetFlow(id, [wfpFlows[id] EXCEPT !.state = s])
    BY <1>2 DEF WfpFlowTransition
  <2>2. /\ wfpFlows[id].state = s \/ ~IsTerminal(wfpFlows[id].state)
        /\ wfpFlows[id].state \in {"Established", "Closing"} => s \notin {"Unknown", "New"}
        /\ wfpFlows[id].state = "Closing" => s # "Established"
    BY <2>1 DEF CanTransition, IsTerminal
  <2> QED BY <2>1, <2>2, FlowMoves
<1>3. ASSUME NEW id \in DOMAIN wfpFlows, WfpFlowClose(id) PROVE FlowsAdvance
  <2>1. "Closed" \in FlowStates /\ (~IsTerminal(wfpFlows[id].state) \/ wfpFlows[id].state = "Closed")
    BY <1>3 DEF WfpFlowClose, CanTransition, IsTerminal, FlowStates
  <2> QED BY <1>3, <2>1, FlowMoves DEF WfpFlowClose, FlowStates
<1>4. ASSUME NEW id \in DOMAIN wfpFlows, WfpFlowAbort(id) PROVE FlowsAdvance
  BY <1>4, FlowMoves DEF WfpFlowAbort, FlowStates
<1>5. ASSUME \/ \E id \in DOMAIN wfpFlows : WfpFlowRemove(id)
             \/ \E now, timeout \in Times : WfpFlowExpire(now, timeout)
      PROVE  FlowsAdvance
  BY <1>5, FlowsRestricted DEF WfpFlowRemove, WfpFlowExpire
<1>6. ASSUME WfpFlowClear PROVE FlowsAdvance BY <1>6 DEF WfpFlowClear, FlowsAdvance, FlowInv
<1> QED BY <1>0, <1>1, <1>2, <1>3, <1>4, <1>5, <1>6, FlowRecorded DEF FlowsNext

\* The flow table of the WFP backend holds flow records only.
THEOREM FlowInvariant == Spec => []FlowInv
<1>1. Init => FlowInv BY DEF Init, FlowInit, FlowInv
<1>2. FlowInv /\ [Next]_vars => FlowInv'
  BY OneBackendSteps, FlowTableStep DEF FlowsAdvance
<1> QED BY <1>1, <1>2, PTL DEF Spec

\* A flow of the WFP table that was closed or aborted counts nothing more, none
\* goes back to an earlier state, and no counter goes down.
THEOREM FlowsStayEnded == Spec => FlowsNeverResume
<1>1. FlowInv /\ [Next]_vars =>
        [\A id \in DOMAIN wfpFlows \cap DOMAIN wfpFlows' : FlowStep(wfpFlows[id], wfpFlows'[id])]_wfpFlows
  BY OneBackendSteps, FlowTableStep DEF FlowsAdvance
<1> QED BY <1>1, FlowInvariant, PTL DEF Spec, FlowsNeverResume

-----------------------------------------------------------------------------
(* WinDivert: the contexts of the packets a runtime intercepted.           *)

Observations ==
    [of : Nat, id : Nat, packet : [direction : {"Outbound", "Inbound"}, interface : Nat, address : Addresses]]
Sendings == [packet : Observations, address : Addresses, by : Nat]

ContextTyped ==
    /\ wdNextId \in Nat \ {0} /\ runtime \in Nat
    /\ onBus \subseteq Observations /\ taken \subseteq Observations
    /\ DOMAIN pending \subseteq 1 .. wdNextId - 1
    /\ \A i \in DOMAIN pending : pending[i] \in Addresses
    /\ sent \in Seq(Sendings)

\* An id of the current runtime was given out, and the context that the current
\* runtime sent a packet with is gone.
IdsGivenOut ==
    /\ \A o \in onBus \cup taken : o.of <= runtime /\ (o.of = runtime => o.id < wdNextId)
    /\ \A i \in DOMAIN sent :
          /\ sent[i].by <= runtime
          /\ sent[i].by = runtime => sent[i].packet.id < wdNextId /\ sent[i].packet.id \notin DOMAIN pending

ContextInv == ContextTyped /\ IdsGivenOut /\ ContextsMatchPackets

\* WinDivertAddress::from_bytes undoes to_bytes.
LEMMA AddressRoundTrip == ASSUME NEW a \in Addresses PROVE Recovered(a) = a
<1>1. a \in [outbound : BOOLEAN, interface : Nat] BY WinDivertAssumption
<1>2. /\ Len(ToBytes(a)) = 2 /\ ToBytes(a)[2] = a.interface
      /\ ToBytes(a)[1] = IF a.outbound THEN 1 ELSE 0
  BY DEF ToBytes
<1>3. (ToBytes(a)[1] = 1) = a.outbound
  <2>1. CASE a.outbound BY <1>2, <2>1, <1>1
  <2>2. CASE ~a.outbound BY <1>2, <2>2, <1>1
  <2> QED BY <2>1, <2>2
<1>4. Recovered(a) = [outbound |-> (ToBytes(a)[1] = 1), interface |-> ToBytes(a)[2]]
  BY <1>2 DEF Recovered, FromBytes
<1>5. a = [outbound |-> a.outbound, interface |-> a.interface] BY <1>1
<1> QED BY <1>2, <1>3, <1>4, <1>5

LEMMA ContextsFinite == ASSUME ContextTyped PROVE IsFiniteSet(DOMAIN pending)
<1>1. wdNextId - 1 \in Int BY DEF ContextTyped
<1>2. IsFiniteSet(1 .. wdNextId - 1) BY <1>1, FS_Interval
<1> QED BY <1>2, FS_Subset DEF ContextTyped

\* Contexts are forgotten.
LEMMA ContextsForgotten ==
    ASSUME ContextInv, DOMAIN pending' \subseteq DOMAIN pending,
           \A i \in DOMAIN pending' : pending'[i] = pending[i],
           UNCHANGED <<wdNextId, onBus, taken, runtime, sent>>
    PROVE  ContextInv'
<1>1. ContextTyped' BY DEF ContextInv, ContextTyped
<1>2. IdsGivenOut' BY DEF ContextInv, IdsGivenOut
<1>3. Cardinality(DOMAIN pending') <= WdCapacity
  <2>1. /\ Cardinality(DOMAIN pending') \in Nat /\ Cardinality(DOMAIN pending) \in Nat
        /\ Cardinality(DOMAIN pending') <= Cardinality(DOMAIN pending)
    BY ContextsFinite, FS_Subset, FS_CardinalityType DEF ContextInv
  <2>2. Cardinality(DOMAIN pending) <= WdCapacity BY DEF ContextInv, ContextsMatchPackets
  <2> QED BY <2>1, <2>2, WinDivertAssumption
<1>4. ContextsMatchPackets' BY <1>3 DEF ContextInv, ContextsMatchPackets, Recovered, FromBytes, ToBytes
<1> QED BY <1>1, <1>2, <1>4 DEF ContextInv

\* A new runtime starts from id 1 without contexts; what is left of the earlier
\* ones is theirs.
LEMMA RuntimeStarts == ASSUME ContextInv, RuntimeStart PROVE ContextInv'
<1>1. /\ wdNextId' = 1 /\ runtime' = runtime + 1 /\ DOMAIN pending' = {} /\ UNCHANGED <<onBus, taken, sent>>
  BY DEF RuntimeStart
<1>2. ContextTyped' BY <1>1 DEF ContextInv, ContextTyped
<1>3. \A o \in onBus \cup taken : o.of \in Nat /\ o.of <= runtime /\ o.of # runtime'
  BY <1>1 DEF ContextInv, ContextTyped, IdsGivenOut, Observations
<1>4. \A i \in DOMAIN sent : sent[i].by \in Nat /\ sent[i].by <= runtime /\ sent[i].by # runtime'
  <2>1. \A i \in DOMAIN sent : sent[i] \in Sendings BY DEF ContextInv, ContextTyped
  <2> QED BY <1>1, <2>1 DEF ContextInv, ContextTyped, IdsGivenOut, Sendings
<1>5. runtime \in Nat BY DEF ContextInv, ContextTyped
<1>6. IdsGivenOut' BY <1>1, <1>3, <1>4, <1>5 DEF ContextInv, IdsGivenOut
<1>7. Cardinality(DOMAIN pending') = 0 BY <1>1, FS_EmptySet
<1>8. ContextsMatchPackets'
  BY <1>1, <1>3, <1>7, WinDivertAssumption DEF ContextInv, ContextsMatchPackets, Recovered, FromBytes, ToBytes
<1> QED BY <1>2, <1>6, <1>8 DEF ContextInv

\* What the current runtime sent had an id given out before.
LEMMA SentEarlier ==
    ASSUME ContextInv
    PROVE  \A i \in DOMAIN sent :
              /\ sent[i] \in Sendings /\ sent[i].packet.id \in Nat
              /\ sent[i].by = runtime => sent[i].packet.id < wdNextId /\ sent[i].packet.id < wdNextId + 1
<1>1. \A i \in DOMAIN sent : sent[i] \in Sendings /\ sent[i].packet.id \in Nat
  <2>1. \A i \in DOMAIN sent : sent[i] \in Sendings BY DEF ContextInv, ContextTyped
  <2> QED BY <2>1 DEF Sendings, Observations
<1>2. wdNextId \in Nat BY DEF ContextInv, ContextTyped
<1> QED BY <1>1, <1>2 DEF ContextInv, IdsGivenOut

\* A packet is intercepted: published with a new id, its address kept, or gone.
LEMMA PacketPolled ==
    ASSUME ContextInv, NEW a \in Addresses, NEW published \in BOOLEAN, Poll(a, published)
    PROVE  ContextInv'
<1>0. /\ wdNextId \in Nat \ {0} /\ runtime \in Nat /\ wdNextId' = wdNextId + 1
      /\ UNCHANGED <<taken, runtime, sent>>
  BY DEF ContextInv, ContextTyped, Poll
<1>1. CASE ~published
  <2>1. UNCHANGED <<onBus, pending>> BY <1>1 DEF Poll
  <2>2. ContextTyped' BY <1>0, <2>1 DEF ContextInv, ContextTyped
  <2>3. IdsGivenOut'
    <3>1. \A o \in onBus \cup taken : o.id \in Nat BY DEF ContextInv, ContextTyped, Observations
    <3>2. \A o \in onBus \cup taken : o.of <= runtime /\ (o.of = runtime => o.id < wdNextId + 1)
      BY <1>0, <3>1 DEF ContextInv, IdsGivenOut
    <3>3. \A i \in DOMAIN sent : sent[i].by = runtime => sent[i].packet.id < wdNextId + 1 BY <1>0, SentEarlier
    <3> QED BY <1>0, <2>1, <3>2, <3>3 DEF ContextInv, IdsGivenOut
  <2>4. ContextsMatchPackets' BY <1>0, <2>1 DEF ContextInv, ContextsMatchPackets, Recovered, FromBytes, ToBytes
  <2> QED BY <2>2, <2>3, <2>4 DEF ContextInv
<1>2. CASE published
  <2> DEFINE o == [of |-> runtime, id |-> wdNextId, packet |-> FromNative(a)]
  <2>1. /\ onBus' = onBus \cup {o} /\ pending' = Context(wdNextId, FromNative(a).address)
        /\ Cardinality(DOMAIN pending) < WdCapacity
    BY <1>2 DEF Poll
  <2>2. o \in Observations /\ o.of = runtime /\ o.id = wdNextId /\ o.packet.address = a
    <3>1. a \in [outbound : BOOLEAN, interface : Nat] BY WinDivertAssumption
    <3>2. /\ FromNative(a) \in [direction : {"Outbound", "Inbound"}, interface : Nat, address : Addresses]
          /\ FromNative(a).address = a
      BY <3>1 DEF FromNative
    <3> QED BY <1>0, <3>2 DEF Observations
  <2>3. /\ DOMAIN pending' = DOMAIN pending \cup {wdNextId} /\ pending'[wdNextId] = a
        /\ \A i \in DOMAIN pending : i # wdNextId => pending'[i] = pending[i]
    BY <2>1 DEF Context, FromNative
  <2> HIDE DEF o
  <2>4. wdNextId \notin DOMAIN pending BY <1>0 DEF ContextInv, ContextTyped
  <2>5. ContextTyped'
    <3>1. onBus' \subseteq Observations BY <2>1, <2>2 DEF ContextInv, ContextTyped
    <3>2. DOMAIN pending' \subseteq 1 .. wdNextId' - 1 BY <1>0, <2>3 DEF ContextInv, ContextTyped
    <3>3. \A i \in DOMAIN pending' : pending'[i] \in Addresses BY <2>3 DEF ContextInv, ContextTyped
    <3> QED BY <1>0, <3>1, <3>2, <3>3 DEF ContextInv, ContextTyped
  <2>6. \A q \in onBus \cup taken :
           q.id \in Nat /\ q.of \in Nat /\ q.of <= runtime /\ (q.of = runtime => q.id < wdNextId)
    BY DEF ContextInv, ContextTyped, IdsGivenOut, Observations
  <2>7. IdsGivenOut'
    <3>1. \A q \in onBus \cup taken : q.of <= runtime /\ (q.of = runtime => q.id < wdNextId + 1)
      BY <1>0, <2>6
    <3>2. o.of <= runtime /\ o.id < wdNextId + 1 BY <1>0, <2>2
    <3>3. \A q \in onBus' \cup taken : q.of <= runtime' /\ (q.of = runtime' => q.id < wdNextId')
      BY <1>0, <2>1, <3>1, <3>2
    <3>4. \A i \in DOMAIN sent :
             /\ sent[i].by <= runtime
             /\ sent[i].by = runtime =>
                   sent[i].packet.id < wdNextId + 1 /\ sent[i].packet.id \notin DOMAIN pending'
      <4> SUFFICES ASSUME NEW i \in DOMAIN sent, sent[i].by = runtime
                   PROVE  sent[i].packet.id < wdNextId + 1 /\ sent[i].packet.id \notin DOMAIN pending'
        BY DEF ContextInv, IdsGivenOut
      <4>1. sent[i].packet.id \notin DOMAIN pending BY DEF ContextInv, IdsGivenOut
      <4>2. sent[i].packet.id # wdNextId /\ sent[i].packet.id < wdNextId + 1 BY <1>0, SentEarlier
      <4> QED BY <2>3, <4>1, <4>2
    <3> QED BY <1>0, <3>3, <3>4 DEF IdsGivenOut
  <2>8. Cardinality(DOMAIN pending') <= WdCapacity
    <3>1. IsFiniteSet(DOMAIN pending) BY ContextsFinite DEF ContextInv
    <3>2. Cardinality(DOMAIN pending') = Cardinality(DOMAIN pending) + 1 BY <2>3, <2>4, <3>1, FS_AddElement
    <3>3. Cardinality(DOMAIN pending) \in Nat BY <3>1, FS_CardinalityType
    <3> QED BY <2>1, <3>2, <3>3, WinDivertAssumption
  <2>9. \A q \in onBus' \cup taken :
           q.of = runtime /\ q.id \in DOMAIN pending' => pending'[q.id] = q.packet.address
    <3>1. ASSUME NEW q \in onBus \cup taken, q.of = runtime, q.id \in DOMAIN pending'
          PROVE  pending'[q.id] = q.packet.address
      <4>1. q.id # wdNextId BY <1>0, <2>6, <3>1
      <4>2. q.id \in DOMAIN pending /\ pending'[q.id] = pending[q.id] BY <2>3, <3>1, <4>1
      <4> QED BY <3>1, <4>2 DEF ContextInv, ContextsMatchPackets
    <3>2. pending'[o.id] = o.packet.address BY <2>2, <2>3
    <3> QED BY <2>1, <3>1, <3>2
  <2>10. \A i \in DOMAIN sent, q \in onBus' \cup taken :
            q.of = sent[i].by /\ q.id = sent[i].packet.id => sent[i].address = q.packet.address
    <3>1. \A i \in DOMAIN sent : ~(o.of = sent[i].by /\ o.id = sent[i].packet.id)
      BY <1>0, <2>2, SentEarlier
    <3> QED BY <2>1, <3>1 DEF ContextInv, ContextsMatchPackets
  <2>11. ContextsMatchPackets'
    BY <1>0, <2>8, <2>9, <2>10 DEF ContextInv, ContextsMatchPackets, Recovered, FromBytes, ToBytes
  <2> QED BY <2>5, <2>7, <2>11 DEF ContextInv
<1> QED BY <1>1, <1>2

\* A packet is sent with the address kept for it, and its context goes.
LEMMA PacketPassed ==
    ASSUME ContextInv, NEW o \in taken, NEW len, NEW ok \in BOOLEAN, ExecutePass(o, len, ok)
    PROVE  ContextInv'
<1>1. CASE ~ok
  <2>1. UNCHANGED <<wdNextId, pending, onBus, taken, runtime, sent>> BY <1>1 DEF ExecutePass
  <2> QED BY <2>1, ContextsForgotten
<1>2. CASE ok
  <2> DEFINE x == [packet |-> o, address |-> pending[o.id], by |-> runtime]
             n == Len(sent) + 1
  <2>1. /\ o.id \in DOMAIN pending /\ pending' = Forgotten(o.id) /\ sent' = Append(sent, x)
        /\ UNCHANGED <<wdNextId, onBus, taken, runtime>>
    BY <1>2 DEF ExecutePass
  <2>2. /\ DOMAIN pending' = DOMAIN pending \ {o.id}
        /\ \A i \in DOMAIN pending' : pending'[i] = pending[i]
    BY <2>1 DEF Forgotten
  <2>3. x \in Sendings /\ x.packet = o /\ x.by = runtime /\ x.address = pending[o.id]
    BY <2>1 DEF ContextInv, ContextTyped, Sendings
  <2> HIDE DEF x
  <2>4. /\ sent \in Seq(Sendings) /\ sent' \in Seq(Sendings) /\ DOMAIN sent' = DOMAIN sent \cup {n} /\ sent'[n] = x
        /\ \A i \in DOMAIN sent : sent'[i] = sent[i]
    BY <2>1, <2>3 DEF ContextInv, ContextTyped
  <2>4a. n \notin DOMAIN sent BY <2>4
  <2> HIDE DEF n
  <2>5. ContextTyped' BY <2>1, <2>2, <2>4 DEF ContextInv, ContextTyped
  <2>6. IdsGivenOut'
    <3>1. \A i \in DOMAIN sent' :
             /\ sent'[i].by <= runtime
             /\ sent'[i].by = runtime => sent'[i].packet.id < wdNextId /\ sent'[i].packet.id \notin DOMAIN pending'
      <4> SUFFICES ASSUME NEW i \in DOMAIN sent'
                   PROVE  /\ sent'[i].by <= runtime
                          /\ sent'[i].by = runtime =>
                                sent'[i].packet.id < wdNextId /\ sent'[i].packet.id \notin DOMAIN pending'
        OBVIOUS
      <4>1. CASE i \in DOMAIN sent BY <2>2, <2>4, <4>1 DEF ContextInv, IdsGivenOut
      <4>2. CASE i = n
        <5>1. runtime <= runtime /\ o.id < wdNextId BY <2>1 DEF ContextInv, ContextTyped
        <5> QED BY <2>2, <2>3, <2>4, <4>2, <5>1
      <4> QED BY <2>4, <4>1, <4>2
    <3> QED BY <2>1, <3>1 DEF ContextInv, IdsGivenOut
  <2>7. Cardinality(DOMAIN pending') <= WdCapacity
    <3>1. /\ Cardinality(DOMAIN pending') \in Nat /\ Cardinality(DOMAIN pending) \in Nat
          /\ Cardinality(DOMAIN pending') <= Cardinality(DOMAIN pending)
      BY <2>2, ContextsFinite, FS_Subset, FS_CardinalityType DEF ContextInv
    <3>2. Cardinality(DOMAIN pending) <= WdCapacity BY DEF ContextInv, ContextsMatchPackets
    <3> QED BY <3>1, <3>2, WinDivertAssumption
  <2>8. \A i \in DOMAIN sent' :
          /\ \A q \in onBus \cup taken :
                q.of = sent'[i].by /\ q.id = sent'[i].packet.id => sent'[i].address = q.packet.address
          /\ Recovered(sent'[i].address) = sent'[i].address
          /\ \A j \in DOMAIN sent' :
                sent'[j].packet.id = sent'[i].packet.id /\ sent'[j].by = sent'[i].by => j = i
    <3> TAKE i \in DOMAIN sent'
    <3>1. Recovered(sent'[i].address) = sent'[i].address
      <4>1. sent'[i] \in Sendings BY <2>4
      <4> QED BY <4>1, AddressRoundTrip DEF Sendings
    <3>2. \A k \in DOMAIN sent : ~(sent[k].packet.id = o.id /\ sent[k].by = runtime)
      BY <2>1 DEF ContextInv, IdsGivenOut
    <3>3. CASE i = n
      <4>1. \A q \in onBus \cup taken : q.of = runtime /\ q.id = o.id => pending[o.id] = q.packet.address
        BY <2>1 DEF ContextInv, ContextsMatchPackets
      <4> QED BY <2>3, <2>4, <3>1, <3>2, <3>3, <4>1
    <3>4. CASE i \in DOMAIN sent
      <4>1. /\ \A q \in onBus \cup taken :
                  q.of = sent[i].by /\ q.id = sent[i].packet.id => sent[i].address = q.packet.address
            /\ \A j \in DOMAIN sent : sent[j].packet.id = sent[i].packet.id /\ sent[j].by = sent[i].by => j = i
        BY <3>4 DEF ContextInv, ContextsMatchPackets
      <4> QED BY <2>3, <2>4, <3>1, <3>2, <3>4, <4>1
    <3> QED BY <2>4, <3>3, <3>4
  <2>9. \A q \in onBus \cup taken :
           q.of = runtime /\ q.id \in DOMAIN pending' => pending'[q.id] = q.packet.address
    BY <2>2 DEF ContextInv, ContextsMatchPackets
  <2>10. ContextsMatchPackets'
    BY <2>1, <2>7, <2>8, <2>9 DEF ContextsMatchPackets, Recovered, FromBytes, ToBytes
  <2> QED BY <2>5, <2>6, <2>10 DEF ContextInv
<1> QED BY <1>1, <1>2

LEMMA ContextStep ==
    ASSUME ContextInv, DivertNext \/ DivertQueueNext \/ UNCHANGED wdVars
    PROVE  ContextInv'
<1>1. ASSUME UNCHANGED runtimeVars PROVE ContextInv' BY <1>1, ContextsForgotten DEF runtimeVars
<1>2. ASSUME NEW ok \in BOOLEAN, HandleDrop(ok) \/ RuntimeStop(ok) PROVE ContextInv'
  <2>1. DOMAIN pending' = {} /\ UNCHANGED <<wdNextId, onBus, taken, runtime, sent>>
    BY <1>2 DEF HandleDrop, RuntimeStop
  <2> QED BY <2>1, ContextsForgotten
<1>3. ASSUME NEW o \in taken, ExecuteDrop(o) PROVE ContextInv'
  <2>1. /\ DOMAIN pending' \subseteq DOMAIN pending /\ \A i \in DOMAIN pending' : pending'[i] = pending[i]
        /\ UNCHANGED <<wdNextId, onBus, taken, runtime, sent>>
    BY <1>3 DEF ExecuteDrop, Forgotten
  <2> QED BY <2>1, ContextsForgotten
<1>4. ASSUME NEW o \in onBus, Take(o) PROVE ContextInv'
  <2>1. /\ UNCHANGED <<wdNextId, pending, runtime, sent>> /\ onBus' \cup taken' = onBus \cup taken
        /\ taken \subseteq taken' /\ taken' \subseteq onBus \cup taken /\ onBus' \subseteq onBus
    BY <1>4 DEF Take
  <2>2. ContextTyped' BY <2>1 DEF ContextInv, ContextTyped
  <2>3. IdsGivenOut' BY <2>1 DEF ContextInv, IdsGivenOut
  <2>4. ContextsMatchPackets' BY <2>1 DEF ContextInv, ContextsMatchPackets, Recovered, FromBytes, ToBytes
  <2> QED BY <2>2, <2>3, <2>4 DEF ContextInv
<1>5. ASSUME \/ HandleOpen \/ DivertQueueNext \/ UNCHANGED wdVars
             \/ \E ok \in BOOLEAN : HandleClose(ok)
      PROVE  ContextInv'
  BY <1>1, <1>5 DEF HandleOpen, HandleClose, DivertQueueNext, DivertPop, DivertPush, DivertClear, wdVars
<1> QED BY <1>2, <1>3, <1>4, <1>5, RuntimeStarts, PacketPolled, PacketPassed DEF DivertNext

\* backend_runtime.rs: the pending contexts are those of the packets that are
\* on their way, under ids that were given out once, with the address received.
THEOREM ContextInvariant == Spec => []ContextInv
<1>1. Init => ContextInv
  <2> SUFFICES ASSUME Init PROVE ContextInv OBVIOUS
  <2>1. /\ wdNextId = 1 /\ DOMAIN pending = {} /\ onBus = {} /\ taken = {} /\ runtime = 0 /\ sent = <<>>
    BY DEF Init, WdInit
  <2>2. ContextTyped BY <2>1 DEF ContextTyped
  <2>3. IdsGivenOut BY <2>1 DEF IdsGivenOut
  <2>4. Cardinality(DOMAIN pending) <= WdCapacity BY <2>1, FS_EmptySet, WinDivertAssumption
  <2>5. ContextsMatchPackets BY <2>1, <2>4 DEF ContextsMatchPackets
  <2> QED BY <2>2, <2>3, <2>5 DEF ContextInv
<1>2. ContextInv /\ [Next]_vars => ContextInv' BY OneBackendSteps, ContextStep
<1> QED BY <1>1, <1>2, PTL DEF Spec

-----------------------------------------------------------------------------
(* WinDivert: the bytes the backend's queue holds.                         *)

LessThan == {ss \in Nat \X Nat : ss[1] < ss[2]}

\* A set of naturals that has an element has a least one.
LEMMA LeastNatural ==
    ASSUME NEW T \in SUBSET Nat, T # {}
    PROVE  \E m \in T : \A n \in T : m <= n
<1>1. IsWellFoundedOn(LessThan, Nat) BY NatLessThanWellFounded DEF OpToRel, LessThan
<1>2. PICK m \in T : \A n \in T : ~(<<n, m>> \in LessThan) BY <1>1, WFMin
<1>3. ASSUME NEW n \in T PROVE m <= n
  <2>1. <<n, m>> \notin LessThan BY <1>2
  <2>2. n \in Nat /\ m \in Nat OBVIOUS
  <2>3. ~(n < m) BY <2>1, <2>2 DEF LessThan
  <2> QED BY <2>2, <2>3
<1> QED BY <1>3

\* f adds up the first n elements of q, for every n up to k.
Adds(f, q, k) == f = [n \in 0 .. k |-> IF n = 0 THEN 0 ELSE f[n - 1] + q[n]]

LEMMA AddsTo ==
    ASSUME NEW q, NEW k \in Nat, NEW f, Adds(f, q, k)
    PROVE  f[0] = 0 /\ \A n \in 0 .. k : n # 0 => f[n] = f[n - 1] + q[n]
<1>1. f = [n \in 0 .. k |-> IF n = 0 THEN 0 ELSE f[n - 1] + q[n]] BY DEF Adds
<1> DEFINE F(n) == IF n = 0 THEN 0 ELSE f[n - 1] + q[n]
<1>2. \A n \in 0 .. k : f[n] = F(n) BY <1>1
<1> QED BY <1>2

\* The sums exist.
LEMMA SumsExist == ASSUME NEW q, NEW k \in Nat PROVE \E f : Adds(f, q, k)
<1> DEFINE T == {n \in Nat : ~ \E f : Adds(f, q, n)}
<1>1. ASSUME T # {} PROVE FALSE
  <2>1. PICK m \in T : \A n \in T : m <= n BY <1>1, LeastNatural
  <2>2. m \in Nat /\ ~ \E f : Adds(f, q, m) OBVIOUS
  <2>3. CASE m = 0
    <3>1. Adds([n \in 0 .. 0 |-> 0], q, 0)
      <4>1. \A n \in 0 .. 0 : n = 0 OBVIOUS
      <4> QED BY <4>1 DEF Adds
    <3> QED BY <2>2, <2>3, <3>1
  <2>4. CASE m # 0
    <3>1. m - 1 \in Nat /\ m - 1 \notin T BY <2>1, <2>2, <2>4
    <3>2. PICK f : Adds(f, q, m - 1) BY <3>1
    <3> DEFINE g == [n \in 0 .. m |-> IF n = m THEN f[m - 1] + q[m] ELSE f[n]]
    <3>3. f[0] = 0 /\ \A n \in 0 .. m - 1 : n # 0 => f[n] = f[n - 1] + q[n] BY <3>1, <3>2, AddsTo
    <3>4. \A n \in 0 .. m : g[n] = IF n = 0 THEN 0 ELSE g[n - 1] + q[n]
      <4> SUFFICES ASSUME NEW n \in 0 .. m PROVE g[n] = IF n = 0 THEN 0 ELSE g[n - 1] + q[n] OBVIOUS
      <4>1. CASE n = 0 BY <2>2, <2>4, <3>3, <4>1
      <4>2. CASE n = m
        <5>1. m - 1 \in 0 .. m /\ m - 1 # m /\ m \in 0 .. m BY <2>2, <2>4
        <5> QED BY <2>4, <4>2, <5>1
      <4>3. CASE n # 0 /\ n # m
        <5>1. n - 1 \in 0 .. m /\ n - 1 # m /\ n \in 0 .. m - 1 BY <2>2, <4>3
        <5>2. g[n] = f[n] /\ g[n - 1] = f[n - 1] BY <4>3, <5>1
        <5> QED BY <3>3, <4>3, <5>1, <5>2
      <4> QED BY <4>1, <4>2, <4>3
    <3>5. g = [n \in 0 .. m |-> IF n = 0 THEN 0 ELSE g[n - 1] + q[n]]
      <4>1. g = [n \in 0 .. m |-> g[n]] OBVIOUS
      <4> HIDE DEF g
      <4> QED BY <3>4, <4>1
    <3> HIDE DEF g
    <3>6. Adds(g, q, m) BY <3>5 DEF Adds
    <3> QED BY <2>2, <3>6
  <2> QED BY <2>3, <2>4
<1> QED BY <1>1

\* BytesOf is the last of the sums.
LEMMA BytesAddUp ==
    ASSUME NEW q \in Seq(Nat)
    PROVE  \E f : Adds(f, q, Len(q)) /\ BytesOf(q) = f[Len(q)]
<1> DEFINE f == CHOOSE f : Adds(f, q, Len(q))
<1>1. Len(q) \in Nat OBVIOUS
<1>2. Adds(f, q, Len(q)) BY <1>1, SumsExist
<1>3. BytesOf(q) = f[Len(q)] BY DEF BytesOf, Adds
<1> QED BY <1>2, <1>3

\* The first k elements of q are those of r after the first d.
Agree(q, r, k, d) == \A n \in 1 .. k : q[n] \in Nat /\ q[n] = r[n + d]

Shifted(f, g, k, d) == \A n \in 0 .. k : f[n] \in Nat /\ g[n + d] = f[n] + g[d]

\* Sums of elements that agree are the same, shifted by what came before.
LEMMA SumsAgree ==
    ASSUME NEW q, NEW r, NEW k \in Nat, NEW l \in Nat, NEW d \in Nat, NEW f, NEW g,
           Adds(f, q, k), Adds(g, r, l), Agree(q, r, k, d), d + k <= l, g[d] \in Nat
    PROVE  Shifted(f, g, k, d)
<1> DEFINE c == g[d]
           T == {n \in Nat : n <= k /\ ~(f[n] \in Nat /\ g[n + d] = f[n] + c)}
<1>1. f[0] = 0 /\ \A n \in 0 .. k : n # 0 => f[n] = f[n - 1] + q[n] BY AddsTo
<1>2. \A n \in 0 .. l : n # 0 => g[n] = g[n - 1] + r[n] BY AddsTo
<1>3. ASSUME T # {} PROVE FALSE
  <2>1. PICK m \in T : \A n \in T : m <= n BY <1>3, LeastNatural
  <2>2. m \in Nat /\ m <= k OBVIOUS
  <2>3. m # 0 BY <1>1, <2>1
  <2>4. m - 1 \in Nat /\ m - 1 <= k /\ m - 1 \notin T BY <2>1, <2>2, <2>3
  <2>5. f[m - 1] \in Nat /\ g[m - 1 + d] = f[m - 1] + c BY <2>4
  <2>6. f[m] = f[m - 1] + q[m] BY <1>1, <2>2, <2>3
  <2>7. m + d \in 0 .. l /\ m + d # 0 /\ m + d - 1 = m - 1 + d BY <2>2, <2>3
  <2>8. g[m + d] = g[m - 1 + d] + r[m + d] BY <1>2, <2>7
  <2>9. q[m] \in Nat /\ q[m] = r[m + d] BY <2>2, <2>3 DEF Agree
  <2> DEFINE x == f[m - 1]
             y == q[m]
  <2> HIDE DEF c
  <2>10. g[m + d] = (x + c) + y /\ f[m] = x + y /\ x \in Nat /\ y \in Nat BY <2>5, <2>6, <2>8, <2>9
  <2> HIDE DEF x, y
  <2>11. f[m] \in Nat /\ g[m + d] = f[m] + c BY <2>10 DEF c
  <2> QED BY <2>1, <2>11
<1> QED BY <1>3 DEF Shifted

LEMMA BytesOfAppend ==
    ASSUME NEW q \in Seq(Nat), NEW len \in Nat
    PROVE  BytesOf(q) \in Nat /\ BytesOf(Append(q, len)) = BytesOf(q) + len
<1> DEFINE r == Append(q, len)
           k == Len(q)
           l == Len(r)
           d == 0
<1>1. /\ k \in Nat /\ r \in Seq(Nat) /\ l \in Nat /\ l = k + 1 /\ r[l] = len
      /\ Agree(q, r, k, d)
  BY DEF Agree
<1>2. PICK f : Adds(f, q, k) /\ BytesOf(q) = f[k] BY BytesAddUp
<1>3. PICK g : Adds(g, r, l) /\ BytesOf(r) = g[l] BY <1>1, BytesAddUp
<1> HIDE DEF r, k, l
<1>4. g[0] = 0 /\ \A n \in 0 .. l : n # 0 => g[n] = g[n - 1] + r[n] BY <1>1, <1>3, AddsTo
<1>5. d \in Nat /\ d + k <= l /\ g[d] = 0 /\ g[d] \in Nat BY <1>1, <1>4
<1> HIDE DEF d
<1>6. Shifted(f, g, k, d) BY <1>1, <1>2, <1>3, <1>5, SumsAgree
<1>7. f[k] \in Nat /\ g[k] = f[k] BY <1>1, <1>5, <1>6 DEF Shifted, d
<1>8. l \in 0 .. l /\ l # 0 /\ l - 1 = k BY <1>1
<1>9. g[l] = g[k] + len BY <1>1, <1>4, <1>8
<1> QED BY <1>2, <1>3, <1>7, <1>9 DEF r

LEMMA BytesOfTail ==
    ASSUME NEW q \in Seq(Nat), q # <<>>
    PROVE  /\ Head(q) \in Nat /\ BytesOf(Tail(q)) \in Nat
           /\ BytesOf(q) = BytesOf(Tail(q)) + Head(q)
<1> DEFINE r == Tail(q)
           k == Len(r)
           l == Len(q)
           c == Head(q)
           d == 1
<1>1. /\ k \in Nat /\ r \in Seq(Nat) /\ l \in Nat /\ l = k + 1 /\ c \in Nat /\ q[1] = c
      /\ Agree(r, q, k, d)
  BY DEF Agree
<1>2. PICK f : Adds(f, r, k) /\ BytesOf(r) = f[k] BY <1>1, BytesAddUp
<1>3. PICK g : Adds(g, q, l) /\ BytesOf(q) = g[l] BY <1>1, BytesAddUp
<1> HIDE DEF r, k, l, c
<1>4. g[0] = 0 /\ \A n \in 0 .. l : n # 0 => g[n] = g[n - 1] + q[n] BY <1>1, <1>3, AddsTo
<1>5. g[d] = c
  <2>1. 1 \in 0 .. l /\ 1 # 0 /\ 1 - 1 = 0 BY <1>1
  <2>2. g[1] = g[0] + q[1] BY <1>4, <2>1
  <2> QED BY <1>1, <1>4, <2>2
<1>6. d \in Nat /\ d + k <= l BY <1>1
<1> HIDE DEF d
<1>7. Shifted(f, g, k, d) BY <1>1, <1>2, <1>3, <1>5, <1>6, SumsAgree
<1>8. f[k] \in Nat /\ g[l] = f[k] + c BY <1>1, <1>5, <1>7 DEF Shifted, d
<1> QED BY <1>1, <1>2, <1>3, <1>8 DEF r, c

LEMMA BytesOfNone == BytesOf(<<>>) = 0
<1>1. <<>> \in Seq(Nat) /\ Len(<<>>) = 0 OBVIOUS
<1>2. PICK f : Adds(f, <<>>, 0) /\ BytesOf(<<>>) = f[0] BY <1>1, BytesAddUp
<1>3. f[0] = 0 BY <1>2, AddsTo
<1> QED BY <1>2, <1>3

QueueInv == divQueue \in Seq(Nat) /\ divBytes \in Nat /\ QueueCountsBytes

LEMMA QueueStep ==
    ASSUME QueueInv, DivertNext \/ DivertQueueNext \/ UNCHANGED wdVars
    PROVE  QueueInv'
<1>0. /\ divQueue \in Seq(Nat) /\ divBytes \in Nat /\ divBytes = BytesOf(divQueue)
      /\ divBytes <= AtLeastOne(QueueBytes) /\ Len(divQueue) <= AtLeastOne(QueuePackets)
  BY DEF QueueInv, QueueCountsBytes
<1>1. AtLeastOne(QueueBytes) \in Nat /\ AtLeastOne(QueuePackets) \in Nat BY WinDivertAssumption DEF AtLeastOne
<1>2. ASSUME UNCHANGED queueVars PROVE QueueInv' BY <1>0, <1>2 DEF queueVars, QueueInv, QueueCountsBytes
<1>3. ASSUME NEW len \in PacketSizes, DivertPush(len) PROVE QueueInv'
  <2>1. /\ len \in Nat /\ divQueue' = Append(divQueue, len) /\ divBytes' = divBytes + len
        /\ Len(divQueue) < AtLeastOne(QueuePackets) /\ divBytes + len <= AtLeastOne(QueueBytes)
    BY <1>3, WinDivertAssumption DEF DivertPush, Fits
  <2>2. divQueue' \in Seq(Nat) /\ Len(divQueue') = Len(divQueue) + 1 BY <1>0, <2>1
  <2>3. divBytes' = BytesOf(divQueue') BY <1>0, <2>1, BytesOfAppend
  <2>4. Len(divQueue') <= AtLeastOne(QueuePackets) BY <1>0, <1>1, <2>1, <2>2
  <2> QED BY <1>0, <2>1, <2>2, <2>3, <2>4 DEF QueueInv, QueueCountsBytes
<1>4. ASSUME DivertPop PROVE QueueInv'
  <2>1. /\ divQueue # <<>> /\ divQueue' = Tail(divQueue)
        /\ divBytes' = IF divBytes < Head(divQueue) THEN 0 ELSE divBytes - Head(divQueue)
    BY <1>4 DEF DivertPop
  <2>2. divQueue' \in Seq(Nat) /\ Len(divQueue') <= AtLeastOne(QueuePackets) BY <1>0, <1>1, <2>1
  <2>3. /\ Head(divQueue) \in Nat /\ BytesOf(divQueue') \in Nat
        /\ divBytes = BytesOf(divQueue') + Head(divQueue)
    BY <1>0, <2>1, BytesOfTail
  <2>4. divBytes' = BytesOf(divQueue') /\ divBytes' <= divBytes BY <1>0, <2>1, <2>3
  <2> QED BY <1>0, <1>1, <2>2, <2>3, <2>4 DEF QueueInv, QueueCountsBytes
<1>5. ASSUME DivertClear PROVE QueueInv'
  <2>1. divQueue' = <<>> /\ divBytes' = 0 /\ Len(divQueue') = 0 /\ divQueue' \in Seq(Nat) BY <1>5 DEF DivertClear
  <2> QED BY <1>1, <2>1, BytesOfNone DEF QueueInv, QueueCountsBytes
<1>6. ASSUME DivertNext \/ UNCHANGED wdVars PROVE QueueInv'
  <2>1. UNCHANGED queueVars
    BY <1>6 DEF DivertNext, HandleOpen, HandleClose, HandleDrop, RuntimeStart, RuntimeStop, Poll, Take, ExecutePass,
                ExecuteDrop, wdVars
  <2> QED BY <1>2, <2>1
<1> QED BY <1>3, <1>4, <1>5, <1>6 DEF DivertQueueNext

\* The WinDivert queue's byte counter is the sum of the lengths queued, and
\* both limits hold after every push, pop and clear.
THEOREM QueueInvariant == Spec => []QueueInv
<1>1. Init => QueueInv
  <2> SUFFICES ASSUME Init PROVE QueueInv OBVIOUS
  <2>1. divQueue = <<>> /\ divBytes = 0 /\ Len(divQueue) = 0 BY DEF Init, WdInit
  <2>2. AtLeastOne(QueueBytes) \in Nat /\ AtLeastOne(QueuePackets) \in Nat BY WinDivertAssumption DEF AtLeastOne
  <2> QED BY <2>1, <2>2, BytesOfNone DEF QueueInv, QueueCountsBytes
<1>2. QueueInv /\ [Next]_vars => QueueInv' BY OneBackendSteps, QueueStep
<1> QED BY <1>1, <1>2, PTL DEF Spec

-----------------------------------------------------------------------------
(* WFP: the filters the table lists and those the kernel enforces.         *)

Actions == {"Permit", "Block", "Continue"}
Layers == {f.layer : f \in Filters}

Rows == [id : Nat, weight : Nat, enabled : BOOLEAN, action : Actions, layer : Layers, kid : Nat]

\* Two filters of a list differ in their kernel ids, if they have any.
KidsApart(list) == \A i, j \in DOMAIN list : i # j /\ list[i].kid = list[j].kid => list[i].kid = 0

\* A list that nobody revised: its filters differ in their ids, are the kernel's
\* and in order.
Current(list, held) ==
    /\ \A i \in DOMAIN list : list[i].kid # 0 /\ held[list[i].kid] = Installed(list[i])
    /\ \A i, j \in DOMAIN list : i # j => list[i].id # list[j].id
    /\ \A i, j \in DOMAIN list : i < j => Precedes(list[i], list[j])

KidsOf(list) == {list[i].kid : i \in DOMAIN list} \ {0}

FilterInv ==
    /\ filters \in Seq(Rows) /\ installed \in Nat
    /\ DOMAIN kernel \subseteq 1 .. installed
    /\ DOMAIN kernel = Kids \cup stranded /\ Kids \cap stranded = {}
    /\ KidsApart(filters)
    /\ filters # <<>> => slot # Null
    /\ ~revised => Current(filters, kernel)

LEMMA ListedKids == Kids = KidsOf(filters)
BY DEF Kids, KidsOf, Listed

LEMMA FilterRow ==
    ASSUME NEW f \in Filters, NEW kid \in Nat
    PROVE  /\ Row(f, kid) \in Rows /\ Row(f, kid).id = f.id /\ Row(f, kid).kid = kid
           /\ Installed(Row(f, kid)) = Installed(f)
<1>1. f.id \in Nat /\ f.weight \in Nat /\ f.enabled \in BOOLEAN /\ f.action \in Actions /\ f.layer \in Layers
  BY WfpAssumption DEF Actions, Layers
<1> QED BY <1>1 DEF Row, Rows, Installed

LEMMA OrderTotal ==
    ASSUME NEW f \in Rows, NEW g \in Rows, f.id # g.id, ~Precedes(g, f)
    PROVE  Precedes(f, g)
BY DEF Precedes, Rows

\* sort_by leaves the same filters, in order if no two have one id.
LEMMA SortedList ==
    ASSUME NEW list \in Seq(Rows), KidsApart(list), NEW s \in Sortings(list)
    PROVE  /\ s \in Seq(Rows) /\ KidsApart(s) /\ KidsOf(s) = KidsOf(list)
           /\ \A i \in DOMAIN s : \E j \in DOMAIN list : s[i] = list[j]
           /\ (\A i, j \in DOMAIN list : i # j => list[i].id # list[j].id) =>
                 /\ \A i, j \in DOMAIN s : i # j => s[i].id # s[j].id
                 /\ \A i, j \in DOMAIN s : i < j => Precedes(s[i], s[j])
<1>1. PICK p \in Bijection(DOMAIN list, DOMAIN list) :
        /\ s = Arranged(list, p)
        /\ \A i, j \in DOMAIN list : i < j =>
              Precedes(list[p[i]], list[p[j]]) \/ ~Precedes(list[p[j]], list[p[i]])
  BY DEF Sortings
<1>2. /\ p \in [DOMAIN list -> DOMAIN list] /\ \A a, b \in DOMAIN list : p[a] = p[b] => a = b
      /\ \A t \in DOMAIN list : \E a \in DOMAIN list : p[a] = t
  BY <1>1, Fun_BijectionProperties
<1>3. DOMAIN s = DOMAIN list /\ \A i \in DOMAIN list : s[i] = list[p[i]] BY <1>1 DEF Arranged
<1>4. DOMAIN list = 1 .. Len(list) /\ Len(list) \in Nat /\ \A i \in DOMAIN list : list[i] \in Rows OBVIOUS
<1>5. s \in Seq(Rows)
  <2>1. s = [i \in 1 .. Len(list) |-> list[p[i]]] BY <1>1, <1>4 DEF Arranged
  <2>2. \A i \in 1 .. Len(list) : list[p[i]] \in Rows BY <1>2, <1>4
  <2> QED BY <1>4, <2>1, <2>2
<1>6. \A i, j \in DOMAIN list : i # j =>
         p[i] \in DOMAIN list /\ p[j] \in DOMAIN list /\ p[i] # p[j] /\ s[i] = list[p[i]] /\ s[j] = list[p[j]]
  BY <1>2, <1>3
<1>7. KidsApart(s)
  <2> SUFFICES ASSUME NEW i \in DOMAIN list, NEW j \in DOMAIN list, i # j, s[i].kid = s[j].kid
               PROVE  s[i].kid = 0
    BY <1>3 DEF KidsApart
  <2>1. p[i] \in DOMAIN list /\ p[j] \in DOMAIN list /\ p[i] # p[j] /\ s[i] = list[p[i]] /\ s[j] = list[p[j]]
    BY <1>6
  <2> QED BY <2>1 DEF KidsApart
<1>8. KidsOf(s) = KidsOf(list) BY <1>2, <1>3 DEF KidsOf
<1>9. \A i \in DOMAIN s : \E j \in DOMAIN list : s[i] = list[j] BY <1>2, <1>3
<1>10. ASSUME \A i, j \in DOMAIN list : i # j => list[i].id # list[j].id
       PROVE  /\ \A i, j \in DOMAIN s : i # j => s[i].id # s[j].id
              /\ \A i, j \in DOMAIN s : i < j => Precedes(s[i], s[j])
  <2>1. ASSUME NEW i \in DOMAIN s, NEW j \in DOMAIN s, i # j PROVE s[i].id # s[j].id
    <3>1. p[i] \in DOMAIN list /\ p[j] \in DOMAIN list /\ p[i] # p[j] /\ s[i] = list[p[i]] /\ s[j] = list[p[j]]
      BY <1>3, <1>6, <2>1
    <3> QED BY <1>10, <3>1
  <2>2. ASSUME NEW i \in DOMAIN s, NEW j \in DOMAIN s, i < j PROVE Precedes(s[i], s[j])
    <3>1. s[i] \in Rows /\ s[j] \in Rows /\ i # j BY <1>3, <1>4, <1>5, <2>2
    <3>2. Precedes(s[i], s[j]) \/ ~Precedes(s[j], s[i]) BY <1>1, <1>3, <2>2
    <3>3. s[i].id # s[j].id BY <2>1, <3>1
    <3> QED BY <3>1, <3>2, <3>3, OrderTotal
  <2> QED BY <2>1, <2>2
<1> QED BY <1>5, <1>7, <1>8, <1>9, <1>10

\* A filter is installed and listed in its place.
LEMMA FilterInserted ==
    ASSUME FilterInv, NEW f \in Filters, NEW condition, FilterInsert(f, condition)
    PROVE  FilterInv'
<1> DEFINE n == installed + 1
           row == Row(f, n)
           list == Append(filters, row)
<1>1. /\ filters \in Seq(Rows) /\ installed \in Nat /\ DOMAIN kernel \subseteq 1 .. installed
      /\ DOMAIN kernel = KidsOf(filters) \cup stranded /\ KidsOf(filters) \cap stranded = {}
      /\ KidsApart(filters) /\ (~revised => Current(filters, kernel))
  BY ListedKids DEF FilterInv
<1>2. /\ installed' = n /\ UNCHANGED <<stranded, revised, slot>> /\ slot # Null
      /\ kernel' = [k \in DOMAIN kernel \cup {n} |-> IF k = n THEN Installed(f) ELSE kernel[k]]
      /\ filters' \in Sortings(list)
      /\ \A g \in Listed : g.id # f.id
  BY DEF FilterInsert, Inserted
<1>3. /\ row \in Rows /\ row.id = f.id /\ row.kid = n /\ n \in Nat /\ n # 0 /\ n \notin DOMAIN kernel
      /\ Installed(row) = Installed(f)
  BY <1>1, FilterRow
<1>4. /\ DOMAIN kernel' = DOMAIN kernel \cup {n} /\ kernel'[n] = Installed(f)
      /\ \A k \in DOMAIN kernel : kernel'[k] = kernel[k]
  BY <1>2, <1>3
<1> HIDE DEF row
<1>5. /\ list \in Seq(Rows) /\ DOMAIN filters = 1 .. Len(filters) /\ DOMAIN list = DOMAIN filters \cup {Len(filters) + 1}
      /\ list[Len(filters) + 1] = row /\ \A i \in DOMAIN filters : list[i] = filters[i]
  BY <1>1, <1>3
<1> DEFINE m == Len(filters) + 1
<1>6. m \notin DOMAIN filters BY <1>1, <1>5
<1> HIDE DEF list, m
<1>7. \A i \in DOMAIN filters :
         /\ filters[i].id # row.id /\ filters[i].kid # row.kid
         /\ filters[i].kid # 0 => filters[i].kid \in DOMAIN kernel
  BY <1>1, <1>2, <1>3 DEF Listed, KidsOf
<1>8. KidsApart(list) BY <1>1, <1>5, <1>6, <1>7 DEF KidsApart, m
<1>9. KidsOf(list) = KidsOf(filters) \cup {n} BY <1>3, <1>5, <1>6 DEF KidsOf, m
<1>10. /\ filters' \in Seq(Rows) /\ KidsApart(filters') /\ KidsOf(filters') = KidsOf(list)
       /\ \A i \in DOMAIN filters' : \E j \in DOMAIN list : filters'[i] = list[j]
       /\ (\A i, j \in DOMAIN list : i # j => list[i].id # list[j].id) =>
             /\ \A i, j \in DOMAIN filters' : i # j => filters'[i].id # filters'[j].id
             /\ \A i, j \in DOMAIN filters' : i < j => Precedes(filters'[i], filters'[j])
  BY <1>2, <1>5, <1>8, SortedList
<1>11. Kids' = KidsOf(filters') BY DEF Kids, KidsOf, Listed
<1>12. /\ DOMAIN kernel' = Kids' \cup stranded' /\ Kids' \cap stranded' = {}
  BY <1>1, <1>2, <1>3, <1>4, <1>9, <1>10, <1>11
<1>13. DOMAIN kernel' \subseteq 1 .. installed' BY <1>1, <1>2, <1>4
<1>14. ASSUME ~revised PROVE Current(filters', kernel')
  <2>0. Current(filters, kernel) BY <1>1, <1>14
  <2>1. ASSUME NEW i \in DOMAIN filters'
        PROVE  filters'[i].kid # 0 /\ kernel'[filters'[i].kid] = Installed(filters'[i])
    <3>1. PICK j \in DOMAIN list : filters'[i] = list[j] BY <1>10
    <3>2. CASE j = m BY <1>3, <1>4, <1>5, <3>1, <3>2 DEF m
    <3>3. CASE j \in DOMAIN filters
      <4>1. filters'[i] = filters[j] BY <1>5, <3>1, <3>3
      <4>2. filters[j].kid # 0 /\ kernel[filters[j].kid] = Installed(filters[j]) BY <2>0, <3>3 DEF Current
      <4> QED BY <1>4, <1>7, <3>3, <4>1, <4>2
    <3> QED BY <1>5, <3>2, <3>3 DEF m
  <2>2. \A i, j \in DOMAIN list : i # j => list[i].id # list[j].id BY <1>5, <1>7, <2>0 DEF Current, m
  <2> QED BY <1>10, <2>1, <2>2 DEF Current
<1> QED BY <1>2, <1>3, <1>10, <1>12, <1>13, <1>14 DEF FilterInv

\* What Vec::remove leaves.
LEMMA RemovedList ==
    ASSUME NEW list \in Seq(Rows), NEW i \in DOMAIN list
    PROVE  /\ Removed(list, i) \in Seq(Rows)
           /\ DOMAIN Removed(list, i) = 1 .. Len(list) - 1
           /\ \A j \in DOMAIN Removed(list, i) :
                 Removed(list, i)[j] = list[IF j < i THEN j ELSE j + 1] /\ (IF j < i THEN j ELSE j + 1) \in DOMAIN list \ {i}
           /\ \A k \in DOMAIN list \ {i} : \E j \in DOMAIN Removed(list, i) : k = IF j < i THEN j ELSE j + 1
<1> DEFINE s == Removed(list, i)
           At(j) == IF j < i THEN j ELSE j + 1
<1>1. DOMAIN list = 1 .. Len(list) /\ Len(list) \in Nat /\ i \in 1 .. Len(list) /\ \A j \in DOMAIN list : list[j] \in Rows
  OBVIOUS
<1>2. s = [j \in 1 .. Len(list) - 1 |-> list[At(j)]] BY DEF Removed
<1>3. \A j \in 1 .. Len(list) - 1 : At(j) \in DOMAIN list \ {i} BY <1>1
<1>4. Len(list) - 1 \in Nat BY <1>1
<1>5. s \in Seq(Rows) /\ DOMAIN s = 1 .. Len(list) - 1 /\ \A j \in DOMAIN s : s[j] = list[At(j)]
  BY <1>1, <1>2, <1>3, <1>4
<1>6. ASSUME NEW k \in DOMAIN list \ {i} PROVE \E j \in DOMAIN s : k = At(j)
  <2>1. CASE k < i
    <3>1. k \in 1 .. Len(list) - 1 /\ At(k) = k BY <1>1, <2>1
    <3> QED BY <1>5, <3>1
  <2>2. CASE k > i
    <3>1. k - 1 \in 1 .. Len(list) - 1 /\ At(k - 1) = k BY <1>1, <2>2
    <3> QED BY <1>5, <3>1
  <2> QED BY <1>1, <2>1, <2>2
<1> QED BY <1>3, <1>5, <1>6

\* A filter is unlisted, and deleted unless the kernel refuses.
LEMMA FilterRemoved ==
    ASSUME FilterInv, NEW id, NEW refused \in BOOLEAN, FilterRemove(id, refused)
    PROVE  FilterInv'
<1>1. /\ filters \in Seq(Rows) /\ installed \in Nat /\ DOMAIN kernel \subseteq 1 .. installed
      /\ DOMAIN kernel = KidsOf(filters) \cup stranded /\ KidsOf(filters) \cap stranded = {}
      /\ KidsApart(filters) /\ (~revised => Current(filters, kernel))
  BY ListedKids DEF FilterInv
<1>2. PICK i \in DOMAIN filters :
        /\ filters' = Removed(filters, i)
        /\ Unregister({filters[i].kid} \ {0}, IF refused THEN {filters[i].kid} \ {0} ELSE {})
  BY DEF FilterRemove
<1>3. revised' = (revised /\ filters' # <<>>) /\ UNCHANGED <<installed, slot>> BY DEF FilterRemove, StillRevised
<1>3a. slot # Null /\ filters # <<>> BY <1>1, <1>2 DEF FilterInv
<1> DEFINE At(j) == IF j < i THEN j ELSE j + 1
           gone == {filters[i].kid} \ {0}
<1>4. /\ filters' \in Seq(Rows)
      /\ \A j \in DOMAIN filters' : filters'[j] = filters[At(j)] /\ At(j) \in DOMAIN filters \ {i}
      /\ \A k \in DOMAIN filters \ {i} : \E j \in DOMAIN filters' : k = At(j)
  BY <1>1, <1>2, RemovedList
<1>5. \A j, k \in DOMAIN filters' : j \in Nat /\ k \in Nat /\ (At(j) = At(k) => j = k) /\ (j < k => At(j) < At(k))
  <2>1. i \in Nat /\ DOMAIN filters' \subseteq Nat BY <1>1, <1>4
  <2> QED BY <2>1
<1> HIDE DEF At
<1>6. KidsOf(filters') = KidsOf(filters) \ gone /\ gone \subseteq KidsOf(filters)
  <2>1. \A k \in DOMAIN filters \ {i} : filters[k].kid \in gone => filters[k].kid = 0 BY <1>1 DEF KidsApart
  <2>2. KidsOf(filters') = {filters[k].kid : k \in DOMAIN filters \ {i}} \ {0} BY <1>4 DEF KidsOf
  <2> QED BY <2>1, <2>2 DEF KidsOf
<1>7. Kids' = KidsOf(filters') BY DEF Kids, KidsOf, Listed
<1>8. KidsApart(filters') BY <1>1, <1>4, <1>5 DEF KidsApart
<1> HIDE DEF gone
<1>9. /\ \/ DOMAIN kernel' = DOMAIN kernel /\ stranded' = stranded \cup gone
         \/ DOMAIN kernel' = DOMAIN kernel \ gone /\ stranded' = stranded
      /\ \A k \in DOMAIN kernel' : kernel'[k] = kernel[k]
  <2>1. CASE refused
    <3>1. kernel' = Without(gone \ gone) /\ stranded' = stranded \cup gone BY <1>2, <1>3a, <2>1 DEF Unregister, gone
    <3> QED BY <3>1 DEF Without
  <2>2. CASE ~refused
    <3>1. kernel' = Without(gone \ {}) /\ stranded' = stranded \cup {} BY <1>2, <1>3a, <2>2 DEF Unregister, gone
    <3> QED BY <3>1 DEF Without
  <2> QED BY <2>1, <2>2
<1>10. /\ DOMAIN kernel' = Kids' \cup stranded' /\ Kids' \cap stranded' = {}
       /\ DOMAIN kernel' \subseteq DOMAIN kernel /\ \A k \in DOMAIN kernel' : kernel'[k] = kernel[k]
  BY <1>1, <1>6, <1>7, <1>9
<1>11. ASSUME ~revised' PROVE Current(filters', kernel')
  <2>1. CASE filters' = <<>>
    <3>1. DOMAIN filters' = {} BY <2>1
    <3> QED BY <3>1 DEF Current
  <2>2. CASE filters' # <<>>
    <3>1. Current(filters, kernel) BY <1>1, <1>3, <1>11, <2>2
    <3>2. \A k \in DOMAIN filters' : filters'[k] = filters[At(k)] /\ At(k) \in DOMAIN filters BY <1>4
    <3>3. ASSUME NEW j \in DOMAIN filters'
          PROVE  filters'[j].kid # 0 /\ kernel'[filters'[j].kid] = Installed(filters'[j])
      <4>1. filters'[j].kid # 0 /\ kernel[filters'[j].kid] = Installed(filters'[j]) BY <3>1, <3>2 DEF Current
      <4>2. filters'[j].kid \in DOMAIN kernel' BY <1>7, <1>10, <4>1 DEF KidsOf
      <4> QED BY <1>10, <4>1, <4>2
    <3>4. ASSUME NEW j \in DOMAIN filters', NEW k \in DOMAIN filters'
          PROVE  /\ j # k => filters'[j].id # filters'[k].id
                 /\ j < k => Precedes(filters'[j], filters'[k])
      <4>1. (j # k => At(j) # At(k)) /\ (j < k => At(j) < At(k)) BY <1>5
      <4> QED BY <3>1, <3>2, <4>1 DEF Current
    <3> QED BY <3>3, <3>4 DEF Current
  <2> QED BY <2>1, <2>2
<1> QED BY <1>1, <1>3, <1>3a, <1>4, <1>8, <1>10, <1>11 DEF FilterInv

\* A listed filter is changed, or replaced, behind the kernel's back.
LEMMA FilterRevised ==
    ASSUME FilterInv, NEW id, NEW f \in Filters, NEW replaced \in BOOLEAN, FilterRevise(id, f, replaced)
    PROVE  FilterInv'
<1>1. /\ filters \in Seq(Rows) /\ KidsApart(filters) BY DEF FilterInv
<1>2. PICK i \in DOMAIN filters :
        /\ filters' = [filters EXCEPT ![i] = Row(f, IF replaced THEN 0 ELSE filters[i].kid)]
        /\ stranded' = IF replaced THEN stranded \cup ({filters[i].kid} \ {0}) ELSE stranded
  BY DEF FilterRevise
<1> DEFINE kid == IF replaced THEN 0 ELSE filters[i].kid
           row == Row(f, kid)
           gone == IF replaced THEN {filters[i].kid} \ {0} ELSE {}
<1>3. filters[i] \in Rows /\ filters[i].kid \in Nat
  <2>1. filters[i] \in Rows BY <1>1
  <2> QED BY <2>1 DEF Rows
<1>4. row \in Rows /\ row.kid = kid BY <1>3, FilterRow
<1> HIDE DEF row
<1>6. /\ filters' \in Seq(Rows) /\ DOMAIN filters' = DOMAIN filters /\ filters'[i] = row /\ filters # <<>>
      /\ \A j \in DOMAIN filters : j # i => filters'[j] = filters[j]
  BY <1>1, <1>2, <1>4 DEF row
<1>7. KidsApart(filters') BY <1>1, <1>4, <1>6 DEF KidsApart
<1>8. KidsOf(filters') = KidsOf(filters) \ gone
  <2>1. KidsOf(filters') = ({filters[j].kid : j \in DOMAIN filters \ {i}} \cup {kid}) \ {0} BY <1>4, <1>6 DEF KidsOf
  <2>2. \A j \in DOMAIN filters \ {i} : filters[j].kid = filters[i].kid => filters[j].kid = 0 BY <1>1 DEF KidsApart
  <2> QED BY <2>1, <2>2 DEF KidsOf
<1>9. gone \subseteq KidsOf(filters) /\ stranded' = stranded \cup gone BY <1>2 DEF KidsOf
<1>10. Kids' = KidsOf(filters') /\ Kids = KidsOf(filters) BY DEF Kids, KidsOf, Listed
<1>11. revised' = TRUE /\ UNCHANGED <<slot, kernel, installed>> BY DEF FilterRevise
<1> HIDE DEF gone
<1>12. DOMAIN kernel = Kids' \cup stranded' /\ Kids' \cap stranded' = {} BY <1>8, <1>9, <1>10 DEF FilterInv
<1> QED BY <1>6, <1>7, <1>11, <1>12 DEF FilterInv

\* All of them are unlisted, or dropped with the table.
LEMMA FiltersCleared ==
    ASSUME FilterInv, NEW kept \in SUBSET Kids, filters' = <<>>, UNCHANGED installed,
           Unregister(Kids, kept) \/ (UNCHANGED kernel /\ stranded' = stranded \cup Kids)
    PROVE  FilterInv'
<1>1. filters' \in Seq(Rows) /\ DOMAIN filters' = {} /\ Kids' = {} BY DEF Kids, Listed
<1>2. KidsApart(filters') /\ Current(filters', kernel') BY <1>1 DEF KidsApart, Current
<1>3. slot = Null => Kids = {}
  <2>1. slot = Null => DOMAIN filters = {} BY DEF FilterInv
  <2> QED BY <2>1 DEF Kids, Listed
<1>4. \/ kernel' = kernel /\ stranded' = stranded \cup Kids
      \/ DOMAIN kernel' = DOMAIN kernel \ (Kids \ kept) /\ stranded' = stranded \cup kept
  BY <1>3 DEF Unregister, Without
<1>5. DOMAIN kernel' = stranded' /\ DOMAIN kernel' \subseteq DOMAIN kernel BY <1>4 DEF FilterInv
<1> QED BY <1>1, <1>2, <1>5 DEF FilterInv

LEMMA FilterStep ==
    ASSUME FilterInv, FilterNext \/ UNCHANGED wfpVars
    PROVE  FilterInv'
<1>1. ASSUME UNCHANGED <<filters, kernel, stranded, revised, installed>>, UNCHANGED slot \/ slot = Null
      PROVE  FilterInv'
  <2>1. filters' # <<>> => slot' # Null BY <1>1 DEF FilterInv
  <2> QED BY <1>1, <2>1 DEF FilterInv, Kids, Listed
<1>2. ASSUME NEW kept \in SUBSET Kids, FilterClear(kept) \/ \E ok \in BOOLEAN : TableShutdown(kept, ok)
      PROVE  FilterInv'
  <2>1. filters' = <<>> /\ Unregister(Kids, kept) /\ UNCHANGED installed BY <1>2 DEF FilterClear, TableShutdown
  <2> QED BY <2>1, FiltersCleared
<1>3. ASSUME TableDrop PROVE FilterInv'
  <2>1. /\ filters' = <<>> /\ UNCHANGED <<kernel, installed>> /\ stranded' = stranded \cup Kids
        /\ {} \in SUBSET Kids
    BY <1>3 DEF TableDrop
  <2> QED BY <2>1, FiltersCleared
<1>4. ASSUME TableInitialize \/ EngineNext \/ UNCHANGED wfpVars PROVE FilterInv'
  <2>1. UNCHANGED <<filters, kernel, stranded, revised, installed>> /\ (UNCHANGED slot \/ slot = Null)
    BY <1>4 DEF TableInitialize, EngineNext, EngineOpen, EngineClose, EngineDrop, MarkDegraded, MarkRecovered,
                MarkFailed, wfpVars, tableVars
  <2> QED BY <1>1, <2>1
<1> QED BY <1>2, <1>3, <1>4, FilterInserted, FilterRemoved, FilterRevised DEF FilterNext, TableNext

\* filter.rs: the listed filters and the stranded ones are, without overlap, what
\* the system enforces, and a table that lists filters has a session; while none
\* was changed through get_mut, the listed ones agree with the system and stand in
\* the order of their weights and ids.
THEOREM FilterInvariant == Spec => []FilterInv
<1>1. Init => FilterInv
  <2> SUFFICES ASSUME Init PROVE FilterInv OBVIOUS
  <2>1. /\ filters = <<>> /\ DOMAIN kernel = {} /\ stranded = {} /\ installed = 0 /\ filters \in Seq(Rows)
        /\ DOMAIN filters = {} /\ Kids = {}
    BY DEF Init, WfpInit, Kids, Listed
  <2> QED BY <2>1 DEF FilterInv, KidsApart, Current
<1>2. FilterInv /\ [Next]_vars => FilterInv' BY OneBackendSteps, FilterStep
<1> QED BY <1>1, <1>2, PTL DEF Spec

LEMMA ListedOnce == ASSUME FilterInv PROVE KernelHoldsListed
<1> SUFFICES ASSUME ~revised PROVE Cardinality(Kids) = Len(filters) BY DEF FilterInv, KernelHoldsListed
<1> DEFINE kidAt == [i \in DOMAIN filters |-> filters[i].kid]
<1>1. /\ filters \in Seq(Rows) /\ DOMAIN filters = 1 .. Len(filters) /\ Len(filters) \in Nat /\ KidsApart(filters)
      /\ \A i \in DOMAIN filters : filters[i].kid # 0
  BY DEF FilterInv, Current
<1>2. kidAt \in Bijection(DOMAIN filters, Kids)
  <2>1. kidAt \in [DOMAIN filters -> Kids] BY <1>1, ListedKids DEF KidsOf
  <2>2. \A i, j \in DOMAIN filters : kidAt[i] = kidAt[j] => i = j BY <1>1 DEF KidsApart
  <2>3. \A k \in Kids : \E i \in DOMAIN filters : kidAt[i] = k BY ListedKids DEF KidsOf
  <2> HIDE DEF kidAt
  <2> QED BY <2>1, <2>2, <2>3, Fun_IsBij
<1>3. IsFiniteSet(1 .. Len(filters)) /\ Cardinality(1 .. Len(filters)) = Len(filters)
  <2>1. Cardinality(1 .. Len(filters)) = IF 1 > Len(filters) THEN 0 ELSE Len(filters) - 1 + 1 BY <1>1, FS_Interval
  <2> QED BY <1>1, <2>1, FS_Interval
<1>4. ExistsBijection(DOMAIN filters, Kids) BY <1>2, Fun_ExistsBij
<1>5. Cardinality(Kids) = Len(filters) BY <1>1, <1>3, <1>4, FS_Bijection
<1> QED BY <1>5

\* The first enabled filter, if there is one.
LEMMA FirstEnabled ==
    ASSUME FilterInv
    PROVE  \/ Decider = 0 /\ \A i \in DOMAIN filters : ~filters[i].enabled
           \/ /\ Decider \in DOMAIN filters /\ Decider # 0 /\ filters[Decider].enabled
              /\ \A j \in DOMAIN filters : filters[j].enabled => Decider <= j
<1> DEFINE on == {k \in DOMAIN filters : filters[k].enabled}
           m == CHOOSE k \in on : \A j \in on : k <= j
<1>1. on \in SUBSET Nat /\ 0 \notin on BY DEF FilterInv
<1>2. CASE on = {} BY <1>2 DEF Decider
<1>3. CASE on # {}
  <2>1. \E k \in on : \A j \in on : k <= j BY <1>1, <1>3, LeastNatural
  <2>2. m \in on /\ \A j \in on : m <= j BY <2>1
  <2>3. Decider = m BY <1>3 DEF Decider
  <2> HIDE DEF m
  <2> QED BY <1>1, <2>2, <2>3
<1> QED BY <1>2, <1>3

LEMMA DecidesAsKernel == ASSUME FilterInv PROVE TableDecidesAsKernel
<1> SUFFICES ASSUME ~revised, stranded = {}
             PROVE  IF Decider = 0 THEN \A k \in DOMAIN kernel : ~kernel[k].enabled
                    ELSE LET f == filters[Decider]
                         IN  /\ f.kid \in Heaviest(Enforced(f.layer))
                             /\ f.action # "Continue" =>
                                   f.kid \in Heaviest({k \in Enforced(f.layer) : kernel[k].action # "Continue"})
  BY DEF TableDecidesAsKernel
<1>1. /\ \A i \in DOMAIN filters :
            /\ i \in Nat /\ filters[i] \in Rows
            /\ filters[i].kid \in DOMAIN kernel /\ kernel[filters[i].kid] = Installed(filters[i])
      /\ \A i, j \in DOMAIN filters : i < j => Precedes(filters[i], filters[j])
      /\ \A k \in DOMAIN kernel : \E i \in DOMAIN filters : k = filters[i].kid
  BY ListedKids DEF FilterInv, Current, KidsOf
<1>2. \A i \in DOMAIN filters :
         /\ kernel[filters[i].kid].weight = filters[i].weight /\ kernel[filters[i].kid].enabled = filters[i].enabled
         /\ kernel[filters[i].kid].action = filters[i].action /\ kernel[filters[i].kid].layer = filters[i].layer
  <2> TAKE i \in DOMAIN filters
  <2>1. kernel[filters[i].kid] = Installed(filters[i]) BY <1>1
  <2> QED BY <2>1 DEF Installed
<1>3. CASE Decider = 0
  <2>1. \A i \in DOMAIN filters : ~filters[i].enabled BY <1>3, FirstEnabled DEF FilterInv
  <2> QED BY <1>1, <1>2, <1>3, <2>1
<1>4. CASE Decider # 0
  <2>1. PICK m \in DOMAIN filters :
           m = Decider /\ filters[m].enabled /\ \A j \in DOMAIN filters : filters[j].enabled => m <= j
    BY <1>4, FirstEnabled
  <2>2. ASSUME NEW k \in DOMAIN kernel, kernel[k].enabled PROVE kernel[k].weight <= kernel[filters[m].kid].weight
    <3>1. PICK j \in DOMAIN filters : k = filters[j].kid BY <1>1
    <3>2. filters[j].enabled /\ m <= j BY <1>2, <2>1, <2>2, <3>1
    <3>3. filters[j].weight \in Nat /\ filters[m].weight \in Nat /\ m \in Nat /\ j \in Nat BY <1>1 DEF Rows
    <3>4. m = j \/ Precedes(filters[m], filters[j]) BY <1>1, <3>2, <3>3
    <3>5. filters[j].weight <= filters[m].weight BY <3>3, <3>4 DEF Precedes
    <3> QED BY <1>2, <3>1, <3>5
  <2>3. filters[m].kid \in Enforced(filters[m].layer) BY <1>1, <1>2, <2>1 DEF Enforced
  <2>4. filters[m].kid \in Heaviest(Enforced(filters[m].layer)) BY <2>2, <2>3 DEF Heaviest, Enforced
  <2>5. ASSUME filters[m].action # "Continue"
        PROVE  filters[m].kid \in Heaviest({k \in Enforced(filters[m].layer) : kernel[k].action # "Continue"})
    BY <1>2, <2>2, <2>3, <2>5 DEF Heaviest, Enforced
  <2> QED BY <1>4, <2>1, <2>4, <2>5
<1> QED BY <1>3, <1>4

\* What the tables of the native backends say is what runs: a stopped Npcap
\* backend captures nothing and counts what it delivered; WFP enforces the listed
\* filters and the stranded ones (deletion refused, replaced through get_mut, or
\* dropped with the table), and while there are neither stranded nor revised ones,
\* evaluate stops at a filter that the kernel, which knows weights and no ids, may
\* stop at; WinDivert uses the context of a packet once, with the address of the
\* packet it was made for, and its queue counts the bytes it holds.
THEOREM TablesFaithful == Spec => []TablesMatchNative
<1>1. NativeInv /\ FilterInv /\ ContextInv /\ QueueInv => TablesMatchNative
  BY ListedOnce, DecidesAsKernel DEF NativeInv, CaptureInv, ContextInv, QueueInv, TablesMatchNative
<1> QED BY <1>1, NativeInvariant, FilterInvariant, ContextInvariant, QueueInvariant, PTL
=============================================================================
