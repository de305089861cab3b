------------------------- MODULE EventStream_proofs -------------------------
(***************************************************************************)
(* The event sink, usb_stream.c and the host's reader, for any number of   *)
(* events, texts and settings, of short writes and of connections.         *)
(*                                                                         *)
(* IInv: the firmware's counters tell the truth about the packets on the   *)
(* wire.                                                                   *)
(*                                                                         *)
(* RInv: what the reader shows are packets of the firmware.  The bytes     *)
(* that are not taken yet are the end of what was written (InStream), and  *)
(* every written byte belongs to one entry of the log, which determines it *)
(* (Layout, ByteOf).  The first letter of the magic is written only where  *)
(* a header begins, so the reader, which looks for the magic, finds        *)
(* headers and nothing else; a buffer that begins with a header holds the  *)
(* packet, and the packet of an event on the screen was written as far as  *)
(* its column (FromPackets).  Nothing is skipped but what a cut packet     *)
(* swallowed, so an event that is owed is shown once its packet is behind  *)
(* the reader (OwedAreShown).                                              *)
(***************************************************************************)
EXTENDS EventStream, FiniteSetTheorems, SequenceTheorems, WellFoundedInduction, TLAPS

EntryRecord == [event : Nat, type : 0 .. 4, at : Nat, put : Nat, size : Nat]
InPacket    == {"header", "payload"}

Places      == {"wait_dtr", "idle", "send", "write", "header", "payload"}
SinkRecord  == [enabled : BOOLEAN, emitted : Nat, sent_ok : Nat, failed : Nat]
UsbRecord   == [timestamps : BOOLEAN, sent : Nat, dropped : Nat]
DevRecord   == [pc : Places, event : Nat, texts : Nat, changes : Nat,
                type : {EventBin, LogText, Marker}, rec : Seq(Int)]

Types ==
  sink \in SinkRecord /\ usb \in UsbRecord /\ dev \in DevRecord /\ log \in Seq(EntryRecord)

(* Only texts change the type of the packet, and only until they return;   *)
(* the last entry of the log is the packet that a call has begun.          *)
PacketOfCall ==
  /\ dev.pc \in {"wait_dtr", "idle", "send"} => dev.type = EventBin
  /\ dev.pc = "wait_dtr" => log = <<>>
  /\ dev.pc = "payload" => dev.rec # <<>>
  /\ dev.pc \in InPacket =>
       /\ log # <<>>
       /\ log[Len(log)].type = dev.type
       /\ log[Len(log)].size = HdrLen + Len(dev.rec)
       /\ log[Len(log)].put = IF dev.pc = "header" THEN 0 ELSE HdrLen

WholeEvents == {i \in Events : Whole(i)}
EventsInCall == IF Calling /\ dev.type = EventBin THEN 1 ELSE 0

Counts ==
  /\ sink.emitted = sink.sent_ok + sink.failed + EventsInCall
  /\ usb.sent = Cardinality(WholeEvents)
  /\ usb.dropped + usb.sent + EventsInCall <= dev.event

IInv == Types /\ PacketOfCall /\ Counts

-----------------------------------------------------------------------------
(* Which packets are whole changes only when the last one becomes so.      *)
LEMMA WholeIsFinite ==
  ASSUME Types
  PROVE  IsFiniteSet(WholeEvents)
<1>1. IsFiniteSet(1 .. Len(log)) /\ WholeEvents \subseteq 1 .. Len(log)
  BY FS_Interval DEF WholeEvents, Events, Types
<1> QED
  BY <1>1, FS_Subset

LEMMA NewEntry ==
  ASSUME Types, NEW e \in EntryRecord, log' = Append(log, e),
         e.type # EventBin \/ e.put # e.size
  PROVE  /\ log' \in Seq(EntryRecord) /\ log' # <<>>
         /\ Len(log') = Len(log) + 1 /\ log'[Len(log')] = e
         /\ WholeEvents' = WholeEvents
<1>1. /\ log' \in Seq(EntryRecord) /\ log' # <<>>
      /\ Len(log') = Len(log) + 1 /\ log'[Len(log) + 1] = e
      /\ \A i \in 1 .. Len(log) : log'[i] = log[i]
  BY DEF Types
<1>2. Len(log) \in Nat
  BY DEF Types
<1>3. ASSUME NEW i
      PROVE  i \in WholeEvents' <=> i \in WholeEvents
  <2>1. CASE i \in 1 .. Len(log)
    BY <1>1, <1>2, <2>1 DEF WholeEvents, Events, Whole
  <2>2. CASE i = Len(log) + 1
    BY <1>1, <1>2, <2>2 DEF WholeEvents, Events, Whole
  <2>3. CASE i \notin 1 .. Len(log) + 1
    BY <1>1, <1>2, <2>3 DEF WholeEvents, Events, Whole
  <2> QED
    BY <1>2, <2>1, <2>2, <2>3
<1> QED
  BY <1>1, <1>3

LEMMA BytesWritten ==
  ASSUME Types, log # <<>>, NEW k \in Nat,
         log' = [log EXCEPT ![Len(log)].put = @ + k],
         log[Len(log)].put < log[Len(log)].size
  PROVE  /\ log' \in Seq(EntryRecord) /\ log' # <<>> /\ Len(log') = Len(log)
         /\ log'[Len(log)].put = log[Len(log)].put + k
         /\ log'[Len(log)].type = log[Len(log)].type
         /\ log'[Len(log)].size = log[Len(log)].size
         /\ Cardinality(WholeEvents') = Cardinality(WholeEvents)
              + IF /\ log[Len(log)].type = EventBin
                   /\ log[Len(log)].put + k = log[Len(log)].size
                THEN 1 ELSE 0
<1> DEFINE n == Len(log)
           last == log[n]
<1>1. n \in Nat /\ n \in 1 .. n /\ last \in EntryRecord /\ DOMAIN log = 1 .. n
  BY DEF Types
<1>2. [last EXCEPT !.put = @ + k] = [event |-> last.event, type |-> last.type, at |-> last.at,
                                     put |-> last.put + k, size |-> last.size]
  BY <1>1 DEF EntryRecord
<1>3. [last EXCEPT !.put = @ + k] \in EntryRecord
  BY <1>1, <1>2 DEF EntryRecord
<1>4. log' = [log EXCEPT ![n] = [last EXCEPT !.put = @ + k]]
  OBVIOUS
<1>5. /\ log' \in Seq(EntryRecord) /\ Len(log') = n /\ log'[n] = [last EXCEPT !.put = @ + k]
      /\ \A i \in 1 .. n : i # n => log'[i] = log[i]
  BY <1>1, <1>3, <1>4 DEF Types
<1>6. /\ log'[n].put = last.put + k /\ log'[n].type = last.type /\ log'[n].size = last.size
      /\ last.put \in Nat /\ last.size \in Nat
  BY <1>1, <1>2, <1>5 DEF EntryRecord
<1>7. \A i : i # n => (i \in WholeEvents' <=> i \in WholeEvents)
  BY <1>1, <1>5 DEF WholeEvents, Events, Whole
<1>8. n \notin WholeEvents
  BY <1>6 DEF WholeEvents, Whole
<1>9. ASSUME last.type = EventBin /\ last.put + k = last.size
      PROVE  Cardinality(WholeEvents') = Cardinality(WholeEvents) + 1
  <2>1. n \in WholeEvents'
    BY <1>1, <1>5, <1>6, <1>9 DEF WholeEvents, Events, Whole
  <2>3. WholeEvents' = WholeEvents \cup {n}
    BY <1>7, <2>1
  <2> QED
    BY <1>8, <2>3, WholeIsFinite, FS_AddElement
<1>10. ASSUME ~(last.type = EventBin /\ last.put + k = last.size)
      PROVE  Cardinality(WholeEvents') = Cardinality(WholeEvents) + 0
  <2>1. n \notin WholeEvents'
    BY <1>6, <1>10 DEF WholeEvents, Events, Whole
  <2>2. \A i : i \in WholeEvents' <=> i \in WholeEvents
    BY <1>8, <1>7, <2>1
  <2>3. WholeEvents' = WholeEvents
    BY <2>2
  <2>4. Cardinality(WholeEvents) \in Nat
    BY WholeIsFinite, FS_CardinalityType
  <2> QED
    BY <2>3, <2>4
<1>11. Cardinality(WholeEvents') = Cardinality(WholeEvents)
         + IF last.type = EventBin /\ last.put + k = last.size THEN 1 ELSE 0
  BY <1>9, <1>10
<1>12. log' # <<>>
  BY <1>1, <1>5
<1> QED
  BY <1>5, <1>6, <1>11, <1>12

-----------------------------------------------------------------------------
LEMMA InitIInv ==
  ASSUME Init
  PROVE  IInv
<1>1. Types
  BY DEF Init, Types, ZeroSink, ZeroUsb, SinkRecord, UsbRecord, DevRecord, Places
<1>2. WholeEvents = {}
  BY DEF Init, WholeEvents, Events
<1>3. Cardinality(WholeEvents) = 0
  BY <1>2, FS_EmptySet
<1> QED
  BY <1>1, <1>3
  DEF Init, IInv, PacketOfCall, Counts, EventsInCall, Calling, ZeroSink, ZeroUsb, InPacket

(* The host touches neither the counters nor the packets.                  *)
firmwareView == <<sink, usb, dev, log>>
LEMMA HostLeavesFirmware ==
  ASSUME Host \/ Close \/ \E prog \in Programs : Open(prog)
  PROVE  UNCHANGED firmwareView
BY DEF Host, Frame, PumpDeadline, PumpReads, ReadSome, Close, Open, firmwareView

LEMMA SameFirmware ==
  ASSUME IInv, UNCHANGED firmwareView
  PROVE  IInv'
BY DEF firmwareView, IInv, Types, PacketOfCall, Counts, EventsInCall, Calling, WholeEvents,
       Events, Whole

(* An entry of the log begins where the bytes written so far end.          *)
LEMMA BytesOutTyped ==
  ASSUME Types
  PROVE  BytesOut \in Nat
<1>1. CASE log = <<>>
  BY <1>1 DEF BytesOut
<1>2. CASE log # <<>>
  <2>1. log[Len(log)] \in EntryRecord
    BY <1>2 DEF Types
  <2>2. log[Len(log)].at \in Nat /\ log[Len(log)].put \in Nat
    BY <2>1 DEF EntryRecord
  <2> QED
    BY <1>2, <2>2 DEF BytesOut, Last
<1> QED
  BY <1>1, <1>2

LEMMA PlainEntryTyped ==
  ASSUME Types, NEW n \in Nat
  PROVE  /\ Entry(0, Plain, n, n) \in EntryRecord
         /\ Entry(0, Plain, n, n).type = Plain
BY BytesOutTyped DEF Entry, EntryRecord, Plain

LEMMA WholeUnchanged ==
  ASSUME log' = log
  PROVE  WholeEvents' = WholeEvents
BY DEF WholeEvents, Events, Whole

-----------------------------------------------------------------------------
(* How the actions of the firmware move the counters, the call and the     *)
(* packets: a call begins, goes on, returns without success, or returns    *)
(* with it.                                                                *)
LEMMA RecordTyped ==
  ASSUME Types
  PROVE  /\ Record \in Seq(Int) /\ Record # <<>>
         /\ Text \in Seq(Int) /\ Append(Text, 10) \in Seq(Int)
<1>1. dev.event \in Int
  BY DEF Types, DevRecord
<1>2. Text \in Seq(Int)
  BY DEF Text
<1>3. Record \in Seq(Int) /\ Record # <<>>
  BY <1>1 DEF Record, Pixel, RecTicks, RecNots, FlagOn
<1> QED
  BY <1>2, <1>3

LEMMA SinkUpdates ==
  ASSUME NEW s \in SinkRecord, NEW b \in BOOLEAN, NEW m \in Nat, NEW n \in Nat
  PROVE  /\ [s EXCEPT !.emitted = m, !.failed = n] \in SinkRecord
         /\ [s EXCEPT !.failed = m] \in SinkRecord
         /\ [s EXCEPT !.sent_ok = m] \in SinkRecord
         /\ [s EXCEPT !.enabled = b] \in SinkRecord
BY DEF SinkRecord

LEMMA UsbUpdates ==
  ASSUME NEW u \in UsbRecord, NEW b \in BOOLEAN, NEW n \in Nat
  PROVE  /\ [u EXCEPT !.sent = n] \in UsbRecord
         /\ [u EXCEPT !.dropped = n] \in UsbRecord
         /\ [u EXCEPT !.timestamps = b] \in UsbRecord
BY DEF UsbRecord

LEMMA DevUpdates ==
  ASSUME NEW d \in DevRecord, NEW p \in Places, NEW n \in Nat,
         NEW t \in {EventBin, LogText, Marker}, NEW r \in Seq(Int)
  PROVE  /\ [d EXCEPT !.pc = p] \in DevRecord
         /\ [d EXCEPT !.pc = p, !.event = n] \in DevRecord
         /\ [d EXCEPT !.changes = n] \in DevRecord
         /\ [d EXCEPT !.texts = n] \in DevRecord
         /\ [d EXCEPT !.pc = p, !.rec = r] \in DevRecord
         /\ [d EXCEPT !.pc = p, !.type = t, !.rec = r] \in DevRecord
         /\ [d EXCEPT !.pc = p, !.texts = n, !.type = t, !.rec = r] \in DevRecord
BY DEF DevRecord

LEMMA Numbers ==
  ASSUME Types
  PROVE  /\ sink.emitted \in Nat /\ sink.sent_ok \in Nat /\ sink.failed \in Nat
         /\ sink.enabled \in BOOLEAN /\ usb.timestamps \in BOOLEAN
         /\ usb.sent \in Nat /\ usb.dropped \in Nat
         /\ dev.event \in Nat /\ dev.texts \in Nat /\ dev.changes \in Nat
         /\ dev.rec \in Seq(Int) /\ Len(dev.rec) \in Nat
         /\ sink.emitted + 1 \in Nat /\ sink.sent_ok + 1 \in Nat /\ sink.failed + 1 \in Nat
         /\ usb.sent + 1 \in Nat /\ usb.dropped + 1 \in Nat
         /\ dev.event + 1 \in Nat /\ dev.texts + 1 \in Nat /\ dev.changes + 1 \in Nat
<1>1. /\ sink.emitted \in Nat /\ sink.sent_ok \in Nat /\ sink.failed \in Nat
      /\ sink.enabled \in BOOLEAN /\ usb.timestamps \in BOOLEAN
      /\ usb.sent \in Nat /\ usb.dropped \in Nat
  BY DEF Types, SinkRecord, UsbRecord
<1>2. /\ dev.event \in Nat /\ dev.texts \in Nat /\ dev.changes \in Nat
      /\ dev.rec \in Seq(Int) /\ Len(dev.rec) \in Nat
  BY DEF Types, DevRecord
<1>3. \A n \in Nat : n + 1 \in Nat
  OBVIOUS
<1> QED
  BY <1>1, <1>2, <1>3

(* What a record keeps of its fields.                                      *)
LEMMA Fields ==
  ASSUME Types
  PROVE  /\ \A n : /\ [dev EXCEPT !.changes = n].pc = dev.pc
                   /\ [dev EXCEPT !.changes = n].type = dev.type
                   /\ [dev EXCEPT !.changes = n].event = dev.event
         /\ \A n : /\ [dev EXCEPT !.texts = n].pc = dev.pc
                   /\ [dev EXCEPT !.texts = n].type = dev.type
                   /\ [dev EXCEPT !.texts = n].event = dev.event
BY DEF Types, DevRecord

LEMMA OpenedKeepsIInv ==
  ASSUME IInv, TerminalOpened
  PROVE  IInv'
<1>1. /\ dev.pc = "wait_dtr" /\ dev' = [dev EXCEPT !.pc = "idle"]
      /\ usb' = ZeroUsb /\ sink' = ZeroSink /\ log' = log
  BY DEF TerminalOpened, DtrAsserted
<1>2. Types'
  <2>1. ZeroUsb \in UsbRecord /\ ZeroSink \in SinkRecord
    BY DEF ZeroUsb, UsbRecord, ZeroSink, SinkRecord
  <2>2. dev' \in DevRecord
    BY <1>1 DEF IInv, Types, DevRecord, Places
  <2> QED
    BY <1>1, <2>1, <2>2 DEF IInv, Types
<1>3. dev'.pc = "idle" /\ dev'.type = EventBin /\ dev'.event = dev.event /\ log = <<>>
  BY <1>1 DEF IInv, Types, DevRecord, PacketOfCall
<1>4. Cardinality(WholeEvents') = 0
  <2>1. WholeEvents' = {}
    BY <1>1, <1>3 DEF WholeEvents, Events
  <2> QED
    BY <2>1, FS_EmptySet
<1>5. EventsInCall' = 0
  BY <1>3 DEF EventsInCall, Calling
<1>6. dev.event \in Nat
  BY Numbers DEF IInv
<1> QED
  BY <1>1, <1>2, <1>3, <1>4, <1>5, <1>6
  DEF IInv, PacketOfCall, Counts, ZeroSink, ZeroUsb, InPacket

LEMMA EventKeepsIInv ==
  ASSUME IInv, OnEvent
  PROVE  IInv'
<1> USE DEF IInv
<1>0. /\ sink.emitted \in Nat /\ sink.sent_ok \in Nat /\ sink.failed \in Nat
      /\ sink.emitted + 1 \in Nat /\ sink.failed + 1 \in Nat /\ sink.enabled \in BOOLEAN
      /\ usb.dropped \in Nat /\ usb.sent \in Nat /\ dev.event \in Nat /\ dev.event + 1 \in Nat
  BY Numbers
<1>1. /\ dev.pc = "idle" /\ UNCHANGED <<usb, log>>
      /\ sink' = [sink EXCEPT !.emitted = sink.emitted + 1,
                              !.failed = IF sink.enabled THEN sink.failed ELSE sink.failed + 1]
      /\ dev' = [dev EXCEPT !.pc = IF sink.enabled THEN "send" ELSE "idle",
                            !.event = dev.event + 1]
  BY DEF OnEvent
<1>2. Types'
  <2>1. (IF sink.enabled THEN sink.failed ELSE sink.failed + 1) \in Nat
    BY <1>0
  <2>2. sink' \in SinkRecord
    BY <1>0, <1>1, <2>1, SinkUpdates DEF Types
  <2>3. dev' \in DevRecord
    <3>1. /\ (IF sink.enabled THEN "send" ELSE "idle") \in Places /\ dev \in DevRecord
          /\ <<>> \in Seq(Int) /\ EventBin \in {EventBin, LogText, Marker}
      BY DEF Types, Places
    <3> QED
      BY <1>0, <1>1, <3>1, DevUpdates
  <2> QED
    BY <1>1, <2>2, <2>3 DEF Types
<1>3. /\ sink'.emitted = sink.emitted + 1 /\ sink'.sent_ok = sink.sent_ok
      /\ sink'.failed = IF sink.enabled THEN sink.failed ELSE sink.failed + 1
  BY <1>1 DEF Types, SinkRecord
<1>4. /\ dev'.pc = IF sink.enabled THEN "send" ELSE "idle"
      /\ dev'.event = dev.event + 1 /\ dev'.type = EventBin
  BY <1>1 DEF Types, DevRecord, PacketOfCall
<1>5. EventsInCall = 0 /\ EventsInCall' = IF sink.enabled THEN 1 ELSE 0
  BY <1>1, <1>4 DEF EventsInCall, Calling
<1>6. WholeEvents' = WholeEvents
  BY <1>1, WholeUnchanged
<1>7. Counts'
  <2>1. /\ sink.emitted = sink.sent_ok + sink.failed + 0
        /\ usb.dropped + usb.sent + 0 <= dev.event
        /\ usb'.sent = Cardinality(WholeEvents')
    BY <1>1, <1>5, <1>6 DEF Counts
  <2>2. sink'.emitted = sink'.sent_ok + sink'.failed + EventsInCall'
    <3>1. \A s, f, e \in Nat : e = s + f + 0 =>
            e + 1 = s + f + 1 /\ e + 1 = s + (f + 1) + 0
      OBVIOUS
    <3>2. sink.emitted + 1 = sink.sent_ok + sink.failed + 1
          /\ sink.emitted + 1 = sink.sent_ok + (sink.failed + 1) + 0
      BY <1>0, <2>1, <3>1
    <3> QED
      BY <1>3, <1>5, <3>2, Zenon
  <2>3. usb'.dropped + usb'.sent + EventsInCall' <= dev'.event
    <3>1. \A d, s, e \in Nat : d + s + 0 <= e => d + s + 0 <= e + 1 /\ d + s + 1 <= e + 1
      OBVIOUS
    <3>2. usb.dropped + usb.sent + 0 <= dev.event + 1 /\ usb.dropped + usb.sent + 1 <= dev.event + 1
      BY <1>0, <2>1, <3>1
    <3>3. EventsInCall' \in {0, 1} /\ usb' = usb /\ dev'.event = dev.event + 1
      BY <1>1, <1>4, <1>5
    <3> QED
      BY <3>2, <3>3
  <2> QED
    BY <2>1, <2>2, <2>3 DEF Counts
<1> QED
  BY <1>1, <1>2, <1>4, <1>7 DEF PacketOfCall, InPacket

LEMMA SettingsKeepIInv ==
  ASSUME IInv, Settings \/ ResetSink
  PROVE  IInv'
<1> USE Numbers DEF IInv
<1>1. dev.pc = "idle" /\ dev' = [dev EXCEPT !.changes = dev.changes + 1] /\ log' = log
  BY DEF Settings, ResetSink, Extra, Changed
<1>2. dev' \in DevRecord
  BY <1>1, DevUpdates DEF Types, DevRecord
<1>3. dev'.pc = "idle" /\ dev'.type = dev.type /\ dev'.event = dev.event
  BY <1>1, Fields
<1>4. /\ sink' \in SinkRecord /\ usb' \in UsbRecord
      /\ usb'.sent = usb.sent /\ usb'.dropped = usb.dropped
      /\ sink'.emitted = sink'.sent_ok + sink'.failed
  <2>1. sink.emitted = sink.sent_ok + sink.failed
    <3>1. EventsInCall = 0
      BY <1>1 DEF EventsInCall, Calling
    <3>2. sink.emitted = sink.sent_ok + sink.failed + 0
      BY <3>1 DEF Counts
    <3>3. sink.sent_ok \in Nat /\ sink.failed \in Nat
      BY Numbers
    <3>4. \A a, b \in Nat : a + b + 0 = a + b
      OBVIOUS
    <3> QED
      BY <3>2, <3>3, <3>4
  <2>2. CASE Settings
    <3>1. CASE sink' = [sink EXCEPT !.enabled = ~sink.enabled] /\ UNCHANGED usb
      <4>1. sink' \in SinkRecord
        BY <3>1, SinkUpdates DEF Types
      <4> QED
        BY <2>1, <3>1, <4>1 DEF Types, SinkRecord
    <3>2. CASE usb' = [usb EXCEPT !.timestamps = ~usb.timestamps] /\ UNCHANGED sink
      <4>1. usb' \in UsbRecord
        BY <3>2, UsbUpdates DEF Types
      <4> QED
        BY <2>1, <3>2, <4>1 DEF Types, UsbRecord
    <3> QED
      BY <2>2, <3>1, <3>2 DEF Settings
  <2>3. CASE ResetSink
    <3>1. sink' = [enabled |-> sink.enabled, emitted |-> 0, sent_ok |-> 0, failed |-> 0]
          /\ usb' = usb
      BY <2>3 DEF ResetSink, ZeroSink
    <3>2. sink.enabled \in BOOLEAN
      BY DEF Types, SinkRecord
    <3> QED
      BY <3>1, <3>2 DEF Types, SinkRecord
  <2> QED
    BY <2>2, <2>3
<1>5. EventsInCall = 0 /\ EventsInCall' = 0 /\ WholeEvents' = WholeEvents
  BY <1>1, <1>3, WholeUnchanged DEF EventsInCall, Calling
<1>6. Types'
  BY <1>1, <1>2, <1>4 DEF Types
<1>7. PacketOfCall'
  BY <1>1, <1>3 DEF PacketOfCall, InPacket
<1>8. sink'.emitted = sink'.sent_ok + sink'.failed + 0
  BY <1>4 DEF SinkRecord
<1> QED
  BY <1>3, <1>4, <1>5, <1>6, <1>7, <1>8 DEF Counts

LEMMA TextKeepsIInv ==
  ASSUME IInv, SendText
  PROVE  IInv'
<1> USE Numbers DEF IInv
<1>1. UNCHANGED <<sink, usb>> /\ dev.pc = "idle" /\ dev.type = EventBin /\ EventsInCall = 0
  BY DEF SendText, Extra, PacketOfCall, EventsInCall, Calling
<1>2. ASSUME NEW type \in {LogText, Marker}, NEW text \in Seq(Int), WriteText(type, text)
      PROVE  IInv'
  <2>1. /\ log' = log
        /\ dev' = [dev EXCEPT !.pc = "write", !.texts = dev.texts + 1, !.type = type, !.rec = text]
    BY <1>2 DEF WriteText
  <2>2. dev' \in DevRecord
    BY <1>2, <2>1, DevUpdates DEF Types, Places
  <2>3. dev'.pc = "write" /\ dev'.type = type /\ dev'.event = dev.event
    BY <2>1 DEF Types, DevRecord
  <2>4. EventsInCall' = 0 /\ WholeEvents' = WholeEvents
    BY <1>2, <2>1, <2>3, WholeUnchanged DEF EventsInCall, LogText, Marker, EventBin
  <2> QED
    BY <1>1, <2>1, <2>2, <2>3, <2>4 DEF Types, PacketOfCall, InPacket, Counts
<1>3. ASSUME PlainLine
      PROVE  IInv'
  <2>1. dev' = [dev EXCEPT !.texts = dev.texts + 1]
    BY <1>3 DEF PlainLine
  <2>2. dev' \in DevRecord
    BY <2>1, DevUpdates DEF Types, DevRecord
  <2>3. dev'.pc = "idle" /\ dev'.type = EventBin /\ dev'.event = dev.event
    BY <1>1, <2>1, Fields
  <2>4. log' \in Seq(EntryRecord) /\ WholeEvents' = WholeEvents
    <3>1. CASE log' = log
      BY <3>1, WholeUnchanged DEF Types
    <3>2. CASE log' # log
      <4>1. PICK k \in Taken(Append(Text, 10)) : log' = Append(log, Entry(0, Plain, k, k))
        BY <1>3, <3>2 DEF PlainLine
      <4> DEFINE entry == Entry(0, Plain, k, k)
      <4>2. k \in Nat
        BY RecordTyped, StreamAssumption DEF Taken
      <4>3. entry \in EntryRecord /\ entry.type = Plain
        BY <4>2, PlainEntryTyped
      <4>4. log' = Append(log, entry)
        BY <4>1
      <4> HIDE DEF entry
      <4> QED
        BY <4>3, <4>4, NewEntry DEF Plain, EventBin
    <3> QED
      BY <3>1, <3>2
  <2>5. EventsInCall' = 0
    BY <2>3 DEF EventsInCall, Calling
  <2> QED
    BY <1>1, <2>2, <2>3, <2>4, <2>5 DEF Types, PacketOfCall, InPacket, Counts
<1>4. \/ WriteText(LogText, Text) \/ WriteText(Marker, <<>>) \/ PlainLine
  BY DEF SendText, SendMarker
<1>5. Text \in Seq(Int) /\ <<>> \in Seq(Int)
  BY RecordTyped
<1> QED
  BY <1>2, <1>3, <1>4, <1>5, Zenon

-----------------------------------------------------------------------------
(* A call that returns leaves the packet type as it was between calls, and *)
(* an event moves from the call to one of the sink's counters.             *)
LEMMA ReturnsTyped ==
  ASSUME Types, Return
  PROVE  /\ dev' \in DevRecord
         /\ dev'.pc = "idle" /\ dev'.type = EventBin /\ dev'.event = dev.event
         /\ EventsInCall' = 0
<1>1. dev' = [dev EXCEPT !.pc = "idle", !.type = EventBin, !.rec = <<>>]
  BY DEF Return
<1>2. dev' \in DevRecord
  <2>1. /\ dev \in DevRecord /\ "idle" \in Places /\ 0 \in Nat /\ <<>> \in Seq(Int)
        /\ EventBin \in {EventBin, LogText, Marker}
    BY DEF Types, Places
  <2> QED
    BY <1>1, <2>1, DevUpdates
<1>3. dev'.pc = "idle" /\ dev'.type = EventBin /\ dev'.event = dev.event
  BY <1>1 DEF Types, DevRecord
<1> QED
  BY <1>2, <1>3 DEF EventsInCall, Calling

LEMMA FailsKeepCount ==
  ASSUME Types, Counts, Calling, ReturnFailed
  PROVE  /\ sink' \in SinkRecord
         /\ sink'.emitted = sink'.sent_ok + sink'.failed
<1>1. CASE dev.type = EventBin
  <2>1. sink' = [sink EXCEPT !.failed = sink.failed + 1]
    BY <1>1 DEF ReturnFailed
  <2>2. sink' \in SinkRecord
    BY <2>1, Numbers, SinkUpdates DEF Types
  <2>3. /\ sink'.emitted = sink.emitted /\ sink'.sent_ok = sink.sent_ok
        /\ sink'.failed = sink.failed + 1
    BY <2>1 DEF Types, SinkRecord
  <2>4. sink.emitted = sink.sent_ok + sink.failed + 1
    BY <1>1 DEF Counts, EventsInCall
  <2>5. sink.emitted \in Nat /\ sink.sent_ok \in Nat /\ sink.failed \in Nat /\ usb.sent \in Nat
    BY Numbers
  <2>6. sink'.emitted = sink'.sent_ok + sink'.failed
    BY <2>3, <2>4, <2>5
  <2> QED
    BY <2>2, <2>6
<1>2. CASE dev.type # EventBin
  <2>1. sink.emitted = sink.sent_ok + sink.failed + 0
    BY <1>2 DEF Counts, EventsInCall
  <2>2. sink.sent_ok \in Nat /\ sink.failed \in Nat
    BY Numbers
  <2>3. sink.emitted = sink.sent_ok + sink.failed
    BY <2>1, <2>2
  <2>4. sink' = sink
    BY <1>2 DEF ReturnFailed
  <2> QED
    BY <2>3, <2>4 DEF Types
<1> QED
  BY <1>1, <1>2

LEMMA SendsKeepCount ==
  ASSUME Types, Counts, Calling, ReturnSent
  PROVE  /\ sink' \in SinkRecord /\ usb' \in UsbRecord
         /\ sink'.emitted = sink'.sent_ok + sink'.failed
         /\ usb'.sent = usb.sent + EventsInCall /\ usb'.dropped = usb.dropped
<1>1. CASE dev.type = EventBin
  <2>1. /\ sink' = [sink EXCEPT !.sent_ok = sink.sent_ok + 1]
        /\ usb' = [usb EXCEPT !.sent = usb.sent + 1]
    BY <1>1 DEF ReturnSent
  <2>2. sink' \in SinkRecord /\ usb' \in UsbRecord
    BY <2>1, Numbers, SinkUpdates, UsbUpdates DEF Types
  <2>3. /\ sink'.emitted = sink.emitted /\ sink'.sent_ok = sink.sent_ok + 1
        /\ sink'.failed = sink.failed
    BY <2>1 DEF Types, SinkRecord
  <2>4. usb'.sent = usb.sent + 1 /\ usb'.dropped = usb.dropped
    BY <2>1 DEF Types, UsbRecord
  <2>5. sink.emitted = sink.sent_ok + sink.failed + 1 /\ EventsInCall = 1
    BY <1>1 DEF Counts, EventsInCall
  <2>6. sink.emitted \in Nat /\ sink.sent_ok \in Nat /\ sink.failed \in Nat /\ usb.sent \in Nat
    BY Numbers
  <2>7. sink'.emitted = sink'.sent_ok + sink'.failed
    BY <2>3, <2>5, <2>6
  <2>8. usb'.sent = usb.sent + EventsInCall
    BY <2>4, <2>5
  <2> QED
    BY <2>2, <2>4, <2>7, <2>8
<1>2. CASE dev.type # EventBin
  <2>1. sink.emitted = sink.sent_ok + sink.failed + 0 /\ EventsInCall = 0
    BY <1>2 DEF Counts, EventsInCall
  <2>2. UNCHANGED <<usb, sink>>
    BY <1>2 DEF ReturnSent
  <2>3. sink.emitted \in Nat /\ sink.sent_ok \in Nat /\ sink.failed \in Nat /\ usb.sent \in Nat
    BY Numbers
  <2>4. sink.emitted = sink.sent_ok + sink.failed /\ usb.sent = usb.sent + EventsInCall
    BY <2>1, <2>3
  <2> QED
    BY <2>2, <2>4 DEF Types
<1> QED
  BY <1>1, <1>2

(* How a call ends: with a packet that is not whole, or with a whole one.  *)
LEMMA CallFails ==
  ASSUME IInv, Calling, ReturnFailed, log' \in Seq(EntryRecord),
         usb' \in UsbRecord, usb'.sent = usb.sent,
         usb'.dropped = usb.dropped \/ (EventsInCall = 1 /\ usb'.dropped = usb.dropped + 1),
         Cardinality(WholeEvents') = Cardinality(WholeEvents)
  PROVE  IInv'
<1>1. /\ dev' \in DevRecord /\ dev'.pc = "idle" /\ dev'.type = EventBin
      /\ dev'.event = dev.event /\ EventsInCall' = 0
  BY ReturnsTyped DEF IInv, ReturnFailed
<1>2. sink' \in SinkRecord /\ sink'.emitted = sink'.sent_ok + sink'.failed
  BY FailsKeepCount DEF IInv
<1>3. sink'.emitted = sink'.sent_ok + sink'.failed + 0
  BY <1>2 DEF SinkRecord
<1>4. usb.dropped + usb.sent + EventsInCall <= dev.event /\ EventsInCall \in {0, 1}
  BY DEF IInv, Counts, EventsInCall
<1>5. usb'.dropped + usb'.sent + 0 <= dev'.event
  <2>1. usb.dropped \in Nat /\ usb.sent \in Nat /\ dev.event \in Nat
    BY Numbers DEF IInv
  <2> QED
    BY <1>1, <1>4, <2>1
<1>6. usb'.sent = Cardinality(WholeEvents')
  BY DEF IInv, Counts
<1> QED
  BY <1>1, <1>2, <1>3, <1>5, <1>6 DEF IInv, Types, PacketOfCall, InPacket, Counts

LEMMA CallSucceeds ==
  ASSUME IInv, Calling, ReturnSent, log' \in Seq(EntryRecord),
         Cardinality(WholeEvents') = Cardinality(WholeEvents) + EventsInCall
  PROVE  IInv'
<1>1. /\ dev' \in DevRecord /\ dev'.pc = "idle" /\ dev'.type = EventBin
      /\ dev'.event = dev.event /\ EventsInCall' = 0
  BY ReturnsTyped DEF IInv, ReturnSent
<1>2. /\ sink' \in SinkRecord /\ usb' \in UsbRecord
      /\ sink'.emitted = sink'.sent_ok + sink'.failed
      /\ usb'.sent = usb.sent + EventsInCall /\ usb'.dropped = usb.dropped
  BY SendsKeepCount DEF IInv
<1>3. sink'.emitted = sink'.sent_ok + sink'.failed + 0
  BY <1>2 DEF SinkRecord
<1>4. usb.dropped + usb.sent + EventsInCall <= dev.event /\ EventsInCall \in {0, 1}
  BY DEF IInv, Counts, EventsInCall
<1>5. usb'.dropped + usb'.sent + 0 <= dev'.event
  BY <1>1, <1>2, <1>4, Numbers DEF IInv
<1>6. usb'.sent = Cardinality(WholeEvents')
  BY <1>2 DEF IInv, Counts
<1> QED
  BY <1>1, <1>2, <1>3, <1>5, <1>6 DEF IInv, Types, PacketOfCall, InPacket, Counts

-----------------------------------------------------------------------------
(* The four steps of a call that writes.                                   *)
LEMMA SendKeepsIInv ==
  ASSUME IInv, SendEvent
  PROVE  IInv'
<1>1. dev.pc = "send" /\ dev.type = EventBin /\ Calling /\ EventsInCall = 1 /\ log' = log
  BY DEF IInv, SendEvent, PacketOfCall, Calling, EventsInCall
<1>2. WholeEvents' = WholeEvents
  BY <1>1, WholeUnchanged
<1>3. CASE ~port.open
  <2>1. usb' = [usb EXCEPT !.dropped = usb.dropped + 1] /\ ReturnFailed
    BY <1>3 DEF SendEvent
  <2>2. usb' \in UsbRecord
    BY <2>1, Numbers, UsbUpdates DEF IInv, Types
  <2>3. usb'.sent = usb.sent /\ usb'.dropped = usb.dropped + 1
    BY <2>1 DEF IInv, Types, UsbRecord
  <2>4. log' \in Seq(EntryRecord)
    BY <1>1 DEF IInv, Types
  <2> QED
    BY <1>1, <1>2, <2>1, <2>2, <2>3, <2>4, CallFails
<1>4. CASE port.open
  <2>1. dev' = [dev EXCEPT !.pc = "write", !.rec = Record] /\ UNCHANGED <<usb, sink>>
    BY <1>4 DEF SendEvent
  <2>2. dev' \in DevRecord
    BY <2>1, RecordTyped DEF IInv, Types, DevRecord, Places
  <2>3. dev'.pc = "write" /\ dev'.type = EventBin /\ dev'.event = dev.event
    BY <1>1, <2>1 DEF IInv, Types, DevRecord
  <2>4. EventsInCall' = 1
    BY <2>3 DEF EventsInCall, Calling
  <2> QED
    BY <1>1, <1>2, <2>1, <2>2, <2>3, <2>4 DEF IInv, Types, PacketOfCall, InPacket, Counts
<1> QED
  BY <1>3, <1>4

LEMMA PacketEntryTyped ==
  ASSUME Types
  PROVE  LET e == Entry(dev.event, dev.type, 0, HdrLen + Len(dev.rec))
         IN /\ e \in EntryRecord /\ e.type = dev.type /\ e.put = 0
            /\ e.size = HdrLen + Len(dev.rec) /\ e.put # e.size
<1>1. HdrLen + Len(dev.rec) \in Nat /\ HdrLen + Len(dev.rec) # 0
  <2>1. Len(dev.rec) \in Nat
    BY Numbers
  <2> QED
    BY <2>1 DEF HdrLen
<1>2. dev.type \in 0 .. 4 /\ dev.event \in Nat
  BY DEF Types, DevRecord, EventBin, LogText, Marker
<1>3. ASSUME NEW size \in Nat, size # 0
      PROVE  LET e == Entry(dev.event, dev.type, 0, size)
             IN /\ e \in EntryRecord /\ e.type = dev.type /\ e.put = 0
                /\ e.size = size /\ e.put # e.size
  BY <1>2, <1>3, BytesOutTyped DEF Entry, EntryRecord
<1> QED
  BY <1>1, <1>3

LEMMA WriteKeepsIInv ==
  ASSUME IInv, StreamWrite
  PROVE  IInv'
<1>1. dev.pc = "write" /\ Calling /\ usb' = usb
  BY DEF StreamWrite, Calling
<1>2. CASE ~port.open
  <2>1. ReturnFailed /\ log' = log
    BY <1>2 DEF StreamWrite
  <2>2. WholeEvents' = WholeEvents
    BY <2>1, WholeUnchanged
  <2>3. log' \in Seq(EntryRecord) /\ usb' \in UsbRecord
    BY <1>1, <2>1 DEF IInv, Types
  <2> QED
    BY <1>1, <2>1, <2>2, <2>3, CallFails
<1>3. CASE port.open
  <2> DEFINE e == Entry(dev.event, dev.type, 0, HdrLen + Len(dev.rec))
  <2>1. dev' = [dev EXCEPT !.pc = "header"] /\ sink' = sink /\ log' = Append(log, e)
    BY <1>3 DEF StreamWrite
  <2>2. /\ e \in EntryRecord /\ e.type = dev.type /\ e.put = 0
        /\ e.size = HdrLen + Len(dev.rec) /\ e.put # e.size
    BY PacketEntryTyped DEF IInv
  <2> HIDE DEF e
  <2>3. /\ log' \in Seq(EntryRecord) /\ log' # <<>> /\ log'[Len(log')] = e
        /\ WholeEvents' = WholeEvents
    BY <2>1, <2>2, NewEntry DEF IInv
  <2>4. dev' \in DevRecord
    BY <2>1 DEF IInv, Types, DevRecord, Places
  <2>5. /\ dev'.pc = "header" /\ dev'.type = dev.type /\ dev'.event = dev.event
        /\ dev'.rec = dev.rec
    BY <2>1 DEF IInv, Types, DevRecord
  <2>6. EventsInCall' = EventsInCall
    BY <1>1, <2>5 DEF EventsInCall, Calling
  <2>7. PacketOfCall'
    BY <2>2, <2>3, <2>5 DEF PacketOfCall, InPacket
  <2> QED
    BY <1>1, <2>1, <2>3, <2>4, <2>5, <2>6, <2>7 DEF IInv, Types, Counts
<1> QED
  BY <1>2, <1>3

(* A piece of the packet is written, all of it or less.                    *)
LEMMA PieceWritten ==
  ASSUME IInv, dev.pc \in InPacket, NEW buf \in Seq(Int), buf # <<>>,
         NEW k \in Taken(buf), Fwrite(buf, k),
         dev.pc = "header" => Len(buf) = HdrLen,
         dev.pc = "payload" => buf = dev.rec
  PROVE  /\ log' \in Seq(EntryRecord) /\ log' # <<>> /\ Len(log') = Len(log)
         /\ log'[Len(log)].type = dev.type
         /\ log'[Len(log)].size = HdrLen + Len(dev.rec)
         /\ log'[Len(log)].put = k + IF dev.pc = "header" THEN 0 ELSE HdrLen
         /\ k # Len(buf) => Cardinality(WholeEvents') = Cardinality(WholeEvents)
         /\ k = Len(buf) /\ (dev.pc = "header" => dev.rec = <<>>) =>
              Cardinality(WholeEvents') = Cardinality(WholeEvents) + EventsInCall
         /\ k = Len(buf) /\ dev.pc = "header" /\ dev.rec # <<>> =>
              Cardinality(WholeEvents') = Cardinality(WholeEvents)
<1> DEFINE before == IF dev.pc = "header" THEN 0 ELSE HdrLen
           last == log[Len(log)]
<1>1. /\ log # <<>> /\ last.type = dev.type
      /\ last.size = HdrLen + Len(dev.rec) /\ last.put = before
  BY DEF IInv, PacketOfCall
<1>2. k \in Nat /\ k <= Len(buf) /\ Len(buf) \in Nat
  BY StreamAssumption DEF Taken
<1>3. Len(dev.rec) \in Nat /\ (dev.rec = <<>> <=> Len(dev.rec) = 0)
  BY Numbers DEF IInv
<1>4. dev.pc = "payload" => dev.rec # <<>>
  BY DEF IInv, PacketOfCall
<1>5. log' = [log EXCEPT ![Len(log)].put = @ + k]
  BY DEF Fwrite
<1>6. before < HdrLen + Len(dev.rec)
  BY <1>3, <1>4 DEF InPacket, HdrLen
<1>7. last.put < last.size
  BY <1>1, <1>6
<1>8. /\ log' \in Seq(EntryRecord) /\ log' # <<>> /\ Len(log') = Len(log)
      /\ log'[Len(log)].put = last.put + k
      /\ log'[Len(log)].type = last.type /\ log'[Len(log)].size = last.size
      /\ Cardinality(WholeEvents') = Cardinality(WholeEvents)
           + IF last.type = EventBin /\ last.put + k = last.size THEN 1 ELSE 0
  BY <1>1, <1>2, <1>5, <1>7, BytesWritten DEF IInv
<1>9. before + k = HdrLen + Len(dev.rec) <=>
        k = Len(buf) /\ (dev.pc = "header" => dev.rec = <<>>)
  <2>1. CASE dev.pc = "header"
    <3>1. before = 0 /\ Len(buf) = 8 /\ HdrLen = 8
      BY <2>1 DEF HdrLen
    <3> HIDE DEF before
    <3> QED
      BY <1>2, <1>3, <2>1, <3>1
  <2>2. CASE dev.pc = "payload"
    BY <1>2, <1>3, <2>2 DEF HdrLen
  <2> QED
    BY <2>1, <2>2 DEF InPacket
<1>10. EventsInCall = IF dev.type = EventBin THEN 1 ELSE 0
  BY DEF EventsInCall, Calling, InPacket
<1>11. Cardinality(WholeEvents) \in Nat
  BY WholeIsFinite, FS_CardinalityType DEF IInv
<1>12. Cardinality(WholeEvents') = Cardinality(WholeEvents)
         + IF k = Len(buf) /\ (dev.pc = "header" => dev.rec = <<>>) THEN EventsInCall ELSE 0
  BY <1>1, <1>8, <1>9, <1>10
<1>13. before + k = k + before
  BY <1>2 DEF HdrLen
<1> HIDE DEF before, last
<1>14. /\ log'[Len(log)].type = dev.type /\ log'[Len(log)].size = HdrLen + Len(dev.rec)
       /\ log'[Len(log)].put = k + before
  BY <1>1, <1>8, <1>13
<1> QED
  BY <1>8, <1>11, <1>12, <1>14 DEF before

LEMMA HeaderKeepsIInv ==
  ASSUME IInv, WriteHeader
  PROVE  IInv'
<1>1. dev.pc = "header" /\ Calling /\ dev.pc \in InPacket
  BY DEF WriteHeader, Calling, InPacket
<1>2. CASE ~port.open /\ ReturnFailed /\ UNCHANGED <<usb, port, log>>
  <2>1. WholeEvents' = WholeEvents
    BY <1>2, WholeUnchanged
  <2>2. log' \in Seq(EntryRecord) /\ usb' \in UsbRecord
    BY <1>2 DEF IInv, Types
  <2> QED
    BY <1>1, <1>2, <2>1, <2>2, CallFails
<1>3. ASSUME NEW hdr, hdr = Header(dev.type, Len(dev.rec)), NEW k \in Taken(hdr), Fwrite(hdr, k),
             IF k = HdrLen THEN HeaderWritten ELSE ReturnFailed /\ UNCHANGED usb
      PROVE  IInv'
  <2>1. hdr \in Seq(Int) /\ Len(hdr) = HdrLen /\ hdr # <<>>
    <3>1. Len(dev.rec) \in Nat /\ dev.type \in Int
      <4>1. Len(dev.rec) \in Nat
        BY Numbers DEF IInv
      <4>2. dev.type \in Int
        BY DEF IInv, Types, DevRecord, EventBin, LogText, Marker
      <4> QED
        BY <4>1, <4>2
    <3>2. Len(dev.rec) % 256 \in Int /\ Len(dev.rec) \div 256 \in Int
      BY <3>1
    <3> QED
      BY <1>3, <3>1, <3>2 DEF Header, Magic, HdrLen
  <2>2. /\ log' \in Seq(EntryRecord) /\ log' # <<>> /\ Len(log') = Len(log)
        /\ log'[Len(log)].type = dev.type
        /\ log'[Len(log)].size = HdrLen + Len(dev.rec)
        /\ log'[Len(log)].put = k + 0
        /\ k # HdrLen => Cardinality(WholeEvents') = Cardinality(WholeEvents)
        /\ k = HdrLen /\ dev.rec = <<>> =>
             Cardinality(WholeEvents') = Cardinality(WholeEvents) + EventsInCall
        /\ k = HdrLen /\ dev.rec # <<>> =>
             Cardinality(WholeEvents') = Cardinality(WholeEvents)
    BY <1>1, <1>3, <2>1, PieceWritten
  <2>3. CASE k # HdrLen
    <3>1. ReturnFailed /\ usb' = usb
      BY <1>3, <2>3
    <3>2. usb' \in UsbRecord
      BY <3>1 DEF IInv, Types
    <3> QED
      BY <1>1, <2>2, <2>3, <3>1, <3>2, CallFails
  <2>4. CASE k = HdrLen /\ dev.rec = <<>>
    <3>1. ReturnSent
      BY <1>3, <2>4 DEF HeaderWritten
    <3> QED
      BY <1>1, <2>2, <2>4, <3>1, CallSucceeds
  <2>5. CASE k = HdrLen /\ dev.rec # <<>>
    <3>1. dev' = [dev EXCEPT !.pc = "payload"] /\ UNCHANGED <<usb, sink>>
      BY <1>3, <2>5 DEF HeaderWritten
    <3>2. dev' \in DevRecord
      BY <3>1 DEF IInv, Types, DevRecord, Places
    <3>3. /\ dev'.pc = "payload" /\ dev'.type = dev.type /\ dev'.event = dev.event
          /\ dev'.rec = dev.rec
      BY <3>1 DEF IInv, Types, DevRecord
    <3>4. EventsInCall' = EventsInCall
      BY <1>1, <3>3 DEF EventsInCall, Calling
    <3>5. PacketOfCall'
      BY <2>2, <2>5, <3>3 DEF PacketOfCall, InPacket, HdrLen
    <3> QED
      BY <2>2, <2>5, <3>1, <3>2, <3>3, <3>4, <3>5 DEF IInv, Types, Counts
  <2> QED
    BY <2>3, <2>4, <2>5
<1> QED
  BY <1>2, <1>3 DEF WriteHeader

LEMMA PayloadKeepsIInv ==
  ASSUME IInv, WritePayload
  PROVE  IInv'
<1>1. dev.pc = "payload" /\ Calling /\ dev.pc \in InPacket
  BY DEF WritePayload, Calling, InPacket
<1>2. CASE ~port.open /\ ReturnFailed /\ UNCHANGED <<usb, port, log>>
  <2>1. WholeEvents' = WholeEvents
    BY <1>2, WholeUnchanged
  <2>2. log' \in Seq(EntryRecord) /\ usb' \in UsbRecord
    BY <1>2 DEF IInv, Types
  <2> QED
    BY <1>1, <1>2, <2>1, <2>2, CallFails
<1>3. ASSUME NEW k \in Taken(dev.rec), Fwrite(dev.rec, k),
             IF k = Len(dev.rec) THEN ReturnSent ELSE ReturnFailed /\ UNCHANGED usb
      PROVE  IInv'
  <2>1. dev.rec \in Seq(Int) /\ dev.rec # <<>>
    BY <1>1, Numbers DEF IInv, PacketOfCall
  <2>2. /\ log' \in Seq(EntryRecord)
        /\ k # Len(dev.rec) => Cardinality(WholeEvents') = Cardinality(WholeEvents)
        /\ k = Len(dev.rec) => Cardinality(WholeEvents') = Cardinality(WholeEvents) + EventsInCall
    BY <1>1, <1>3, <2>1, PieceWritten
  <2>3. CASE k # Len(dev.rec)
    <3>1. ReturnFailed /\ usb' = usb
      BY <1>3, <2>3
    <3>2. usb' \in UsbRecord
      BY <3>1 DEF IInv, Types
    <3> QED
      BY <1>1, <2>2, <2>3, <3>1, <3>2, CallFails
  <2>4. CASE k = Len(dev.rec)
    BY <1>1, <1>3, <2>2, <2>4, CallSucceeds
  <2> QED
    BY <2>3, <2>4
<1> QED
  BY <1>2, <1>3 DEF WritePayload

-----------------------------------------------------------------------------
LEMMA FirmwareInductive ==
  (Init => IInv) /\ (IInv /\ [Next]_vars => IInv')
<1>1. Init => IInv
  BY InitIInv
<1>2. ASSUME IInv, UNCHANGED vars
      PROVE  IInv'
  BY <1>2, SameFirmware DEF vars, firmwareView
<1>3. ASSUME IInv, Host \/ Close \/ \E prog \in Programs : Open(prog)
      PROVE  IInv'
  BY <1>3, HostLeavesFirmware, SameFirmware
<1>4. ASSUME IInv, Device
      PROVE  IInv'
  BY <1>4, OpenedKeepsIInv, EventKeepsIInv, SettingsKeepIInv, TextKeepsIInv, SendKeepsIInv,
     WriteKeepsIInv, HeaderKeepsIInv, PayloadKeepsIInv DEF Device, InCall
<1> QED
  BY <1>1, <1>2, <1>3, <1>4 DEF Next

(* Event sink and USB stream: each event since the reset of the sink is    *)
(* sent, failed or in the call, and usb_stream.c counts as sent exactly    *)
(* the packets that are whole, wherever the connection went away, however  *)
(* short the writes were and however many programs came and went.          *)
THEOREM CountersCorrect == Spec => []CountersAgree
<1>1. Init => IInv
  BY FirmwareInductive
<1>2. IInv /\ [Next]_vars => IInv'
  BY FirmwareInductive
<1>3. IInv => CountersAgree
  <2>1. ASSUME IInv
        PROVE  usb.dropped + usb.sent <= dev.event
    <3>1. usb.dropped + usb.sent + EventsInCall <= dev.event /\ EventsInCall \in {0, 1}
      BY <2>1 DEF IInv, Counts, EventsInCall
    <3>2. usb.dropped \in Nat /\ usb.sent \in Nat /\ dev.event \in Nat
      BY <2>1, Numbers DEF IInv
    <3> QED
      BY <3>1, <3>2
  <2> QED
    BY <2>1 DEF IInv, Counts, CountersAgree, EventsInCall, WholeEvents
<1> QED
  BY <1>1, <1>2, <1>3, PTL DEF Spec

-----------------------------------------------------------------------------
(* What the reader makes of the bytes.                                     *)

PortRecord == [open : BOOLEAN, wire : Seq(Int), reopens : BOOLEAN]
HostRecord == [prog : Programs, pc : {"closed", "ui", "pump", "read"},
               buf : Seq(Int), shown : Seq(Int \X Int)]

ReaderTypes == port \in PortRecord /\ host \in HostRecord

(* The sizes of what the firmware writes: header, and a record without or  *)
(* with ticks, a text, or nothing; or a line that is not framed.           *)
SizesOf(type) == CASE type = EventBin -> {HdrLen + 4, HdrLen + 8}
                   [] type = LogText  -> {HdrLen + 13}
                   [] type = Marker   -> {HdrLen}
                   [] type = Plain    -> 1 .. 14
                   [] OTHER           -> {}

(* Byte o of a packet or of a line that is not framed.                     *)
ByteOf(e, o) ==
  CASE e.type = Plain                    -> IF o = 14 THEN 10 ELSE 91
    [] e.type # Plain /\ o <= 4          -> Magic[o]
    [] e.type # Plain /\ o = 5           -> 1
    [] e.type # Plain /\ o = 6           -> e.type
    [] e.type # Plain /\ o = 7           -> e.size - HdrLen
    [] e.type # Plain /\ o = 8           -> 0
    [] e.type = LogText /\ o > HdrLen    -> 91
    [] e.type = EventBin /\ o = 9        -> IF e.size = HdrLen + 4 THEN RecNots ELSE RecTicks
    [] e.type = EventBin /\ o = 10       -> FlagOn
    [] e.type = EventBin /\ o = 11       -> Pixel(e.event)[1]
    [] e.type = EventBin /\ o = 12       -> Pixel(e.event)[2]
    [] OTHER                             -> 0

EndOf(e) == e.at + e.put

(* The entries of the log lie one behind the other and leave no byte out;  *)
(* events follow in the order in which they were reported.                 *)
Layout ==
  /\ \A i \in 1 .. Len(log) :
       /\ log[i].size \in SizesOf(log[i].type) /\ log[i].put <= log[i].size
       /\ log[i].type = Plain => log[i].put = log[i].size
       /\ EndOf(log[i]) <= BytesOut
  /\ \A i, j \in 1 .. Len(log) : i < j => EndOf(log[i]) <= log[j].at
  /\ \A p \in 1 .. BytesOut : \E i \in 1 .. Len(log) : log[i].at < p /\ p <= EndOf(log[i])
  /\ \A i, j \in Events : i < j => log[i].event < log[j].event

(* A call writes the record of the present event, or a text.               *)
Records == {<<RecTicks, FlagOn, Pixel(dev.event)[1], Pixel(dev.event)[2], 0, 0, 0, 0>>,
            <<RecNots, FlagOn, Pixel(dev.event)[1], Pixel(dev.event)[2]>>}
CallWrites ==
  /\ \A i \in Events : log[i].event <= dev.event
  /\ dev.type = EventBin /\ dev.pc \in {"send", "write"} =>
       \A i \in Events : log[i].event < dev.event
  /\ dev.pc \in {"write"} \cup InPacket =>
       /\ dev.type = EventBin => dev.rec \in Records
       /\ dev.type = LogText => dev.rec = Text
       /\ dev.type = Marker => dev.rec = <<>>
  /\ dev.pc \in InPacket => log[Len(log)].event = dev.event

(* The sequence s is what was written behind the first r bytes.            *)
Matches(s, r) ==
  /\ r + Len(s) <= BytesOut
  /\ \A q \in 1 .. Len(s) : \A i \in 1 .. Len(log) :
       log[i].at < r + q /\ r + q <= EndOf(log[i]) => s[q] = ByteOf(log[i], (r + q) - log[i].at)

(* The reader's buffer and the bytes on their way are the end of what was  *)
(* written; the first Done bytes of it are taken or thrown away.           *)
Pending == host.buf \o port.wire
Done    == BytesOut - Len(Pending)
InStream == Done >= 0 /\ Matches(Pending, Done)

(* Nothing is written before the port is opened for the first time.        *)
Untouched == ~port.open /\ ~port.reopens => dev.pc = "wait_dtr" /\ port.wire = <<>>

(* What is shown on the screen comes from packets that are done with.      *)
FromPackets ==
  /\ host.prog = "view" => \A i \in 1 .. Len(host.shown) : OnScreen(host.shown[i])
  /\ \A i \in 1 .. Len(host.shown) : OnScreen(host.shown[i]) =>
       /\ \E j \in Events : /\ host.shown[i] = Pixel(log[j].event)
                            /\ log[j].put >= HdrLen + 4 /\ log[j].at < Done
       /\ \A k \in 1 .. i - 1 : OnScreen(host.shown[k]) => host.shown[k][1] < host.shown[i][1]

(* The packet a call is writing may yet become whole.                      *)
Becoming(i) == Whole(i) \/ (i = Len(log) /\ dev.pc = "payload")
OwedAreShown ==
  port.open /\ ~port.reopens /\ NoHeaderCut =>
    \A i \in Events :
      Becoming(i) /\ Unhit(i) /\ Shows(host.prog, Pixel(log[i].event)) /\ log[i].at < Done
        => IsShown(i)

RInv == ReaderTypes /\ Layout /\ CallWrites /\ InStream /\ Untouched /\ FromPackets /\ OwedAreShown

-----------------------------------------------------------------------------
LEMMA NatSetInduction ==
  ASSUME NEW S \in SUBSET Nat, 0 \in S, \A n \in S : n + 1 \in S
  PROVE  S = Nat
<1> DEFINE Less == {ss \in Nat \X Nat : ss[1] < ss[2]}
<1>1. OpToRel(<, Nat) = Less
  BY DEF OpToRel
<1>2. IsWellFoundedOn(Less, Nat)
  BY <1>1, NatLessThanWellFounded
<1> SUFFICES ASSUME Nat \ S # {} PROVE FALSE
  OBVIOUS
<1>3. PICK m \in Nat \ S : \A k \in Nat \ S : <<k, m>> \notin Less
  <2> HIDE DEF Less
  <2> QED
    BY <1>2, WFMin
<1>4. m # 0 /\ m - 1 \in Nat /\ m - 1 < m
  OBVIOUS
<1>5. m - 1 \in S
  BY <1>3, <1>4
<1> QED
  BY <1>4, <1>5

(* A set of numbers that is not empty has a least member.                  *)
LEMMA LeastMember ==
  ASSUME NEW S \in SUBSET Nat, S # {}
  PROVE  Min(S) \in S /\ \A n \in S : Min(S) <= n
<1> DEFINE Less == {ss \in Nat \X Nat : ss[1] < ss[2]}
<1>1. OpToRel(<, Nat) = Less
  BY DEF OpToRel
<1>2. IsWellFoundedOn(Less, Nat)
  BY <1>1, NatLessThanWellFounded
<1>3. PICK m \in S : \A n \in S : <<n, m>> \notin Less
  <2> HIDE DEF Less
  <2> QED
    BY <1>2, WFMin
<1>4. ASSUME NEW n \in S PROVE m <= n
  <2>1. m \in Nat /\ n \in Nat /\ (n < m => <<n, m>> \in Less)
    OBVIOUS
  <2>2. ~(n < m)
    BY <1>3, <2>1
  <2> QED
    BY <2>1, <2>2
<1> QED
  BY <1>3, <1>4 DEF Min

LEMMA MinMaxOfTwo ==
  ASSUME NEW a \in Int, NEW b \in Int
  PROVE  /\ Min({a, b}) = IF a <= b THEN a ELSE b
         /\ Max({a, b}) = IF a <= b THEN b ELSE a
BY DEF Min, Max

-----------------------------------------------------------------------------
(* The records of a payload.  Body is what the loop does with the record   *)
(* that begins at i, given what the rest of the payload yields.            *)
Body(prog, p, rest, i) ==
  IF \/ i > Len(p)
     \/ p[i] \notin {RecNots, RecTicks}
     \/ i + RecLen(p[i]) - 1 > Len(p)
  THEN <<>>
  ELSE (IF p[i + 1] % 2 = FlagOn /\ Shows(prog, <<p[i + 2], p[i + 3]>>)
        THEN << <<p[i + 2], p[i + 3]>> >> ELSE <<>>)
       \o rest[i + RecLen(p[i])]
From(prog, p) == CHOOSE f : f = [i \in Nat |-> Body(prog, p, f, i)]

LEMMA OnEventsFrom ==
  ASSUME NEW prog, NEW p
  PROVE  OnEvents(prog, p) = From(prog, p)[1]
BY Zenon DEF OnEvents, From, Body

LEMMA BodyNeedsTheRest ==
  ASSUME NEW prog, NEW p, NEW f, NEW g, NEW i \in Nat,
         \A k \in Nat : k > i => f[k] = g[k]
  PROVE  Body(prog, p, f, i) = Body(prog, p, g, i)
<1>1. i + RecLen(p[i]) \in Nat /\ i + RecLen(p[i]) > i
  BY DEF RecLen
<1>2. f[i + RecLen(p[i])] = g[i + RecLen(p[i])]
  BY <1>1
<1> QED
  BY <1>2, Zenon DEF Body

(* The loop comes to an end: the function that describes it exists.        *)
LEMMA FromExists ==
  ASSUME NEW prog, NEW p, Len(p) \in Nat
  PROVE  \A i \in Nat : From(prog, p)[i] = Body(prog, p, From(prog, p), i)
<1> DEFINE B(f, i) == Body(prog, p, f, i)
           Agrees(f, k) == \A i \in Nat : i + k > Len(p) => f[i] = B(f, i)
           S == {k \in Nat : \E f : f = [i \in Nat |-> f[i]] /\ Agrees(f, k)}
<1>1. 0 \in S
  <2> DEFINE f == [i \in Nat |-> <<>>]
  <2>1. \A i \in Nat : i + 0 > Len(p) => f[i] = B(f, i)
    BY DEF Body
  <2>2. f = [i \in Nat |-> f[i]]
    OBVIOUS
  <2> HIDE DEF f, B
  <2> QED
    BY <2>1, <2>2
<1>2. ASSUME NEW k \in S PROVE k + 1 \in S
  <2>1. PICK f : f = [i \in Nat |-> f[i]] /\ Agrees(f, k)
    OBVIOUS
  <2> DEFINE n == Len(p) - k
             g == [i \in Nat |-> IF i = n THEN B(f, i) ELSE f[i]]
  <2>2. ASSUME NEW i \in Nat, i + (k + 1) > Len(p)
        PROVE  g[i] = B(g, i)
    <3>1. \A m \in Nat : m > i => g[m] = f[m]
      BY <2>2
    <3>2. B(g, i) = B(f, i)
      <4> HIDE DEF g
      <4> QED
        BY <3>1, BodyNeedsTheRest
    <3>3. g[i] = B(f, i)
      <4>1. CASE i = n
        BY <4>1
      <4>2. CASE i # n
        <5>1. i + k > Len(p) /\ g[i] = f[i]
          BY <2>2, <4>2
        <5> HIDE DEF B, g
        <5> QED
          BY <2>1, <5>1
      <4> QED
        BY <4>1, <4>2
    <3> QED
      BY <3>2, <3>3
  <2>3. g = [i \in Nat |-> g[i]]
    OBVIOUS
  <2>4. k + 1 \in Nat /\ \E h : h = [i \in Nat |-> h[i]] /\ Agrees(h, k + 1)
    <3> HIDE DEF g, B
    <3>1. Agrees(g, k + 1)
      BY <2>2
    <3> HIDE DEF Agrees
    <3> QED
      BY <2>3, <3>1
  <2> HIDE DEF Agrees
  <2> QED
    BY <2>4
<1>3. S = Nat
  <2> HIDE DEF S
  <2>1. S \subseteq Nat
    BY DEF S
  <2> QED
    BY <1>1, <1>2, <2>1, NatSetInduction
<1>4. PICK f : f = [i \in Nat |-> f[i]] /\ Agrees(f, Len(p) + 1)
  <2>1. Len(p) + 1 \in S
    <3> HIDE DEF S
    <3> QED
      BY <1>3
  <2> HIDE DEF Agrees
  <2> QED
    BY <2>1
<1>5. f = [i \in Nat |-> B(f, i)]
  <2>1. \A i \in Nat : f[i] = B(f, i)
    <3> HIDE DEF B
    <3> QED
      BY <1>4
  <2> HIDE DEF B
  <2> QED
    BY <1>4, <2>1
<1>6. From(prog, p) = [i \in Nat |-> B(From(prog, p), i)]
  BY <1>5, Zenon DEF From
<1> HIDE DEF B
<1>7. \A i \in Nat : From(prog, p)[i] = B(From(prog, p), i)
  BY <1>6
<1> QED
  BY <1>7 DEF B

(* A payload that begins with no record known, or with a part of one.      *)
LEMMA NoRecord ==
  ASSUME NEW prog, NEW p, Len(p) \in Nat,
         Len(p) = 0 \/ p[1] \notin {RecNots, RecTicks} \/ RecLen(p[1]) > Len(p)
  PROVE  OnEvents(prog, p) = <<>>
<1>1. OnEvents(prog, p) = Body(prog, p, From(prog, p), 1)
  BY OnEventsFrom, FromExists
<1>2. 1 + RecLen(p[1]) - 1 = RecLen(p[1])
  BY DEF RecLen
<1>3. Len(p) = 0 => 1 > Len(p)
  OBVIOUS
<1> QED
  BY <1>1, <1>2, <1>3 DEF Body

(* A payload of one record.                                                *)
LEMMA OneRecord ==
  ASSUME NEW prog, NEW p, p[1] \in {RecNots, RecTicks}, Len(p) = RecLen(p[1])
  PROVE  OnEvents(prog, p) = IF p[2] % 2 = FlagOn /\ Shows(prog, <<p[3], p[4]>>)
                             THEN << <<p[3], p[4]>> >> ELSE <<>>
<1> DEFINE F == From(prog, p)
<1>1. RecLen(p[1]) \in {4, 8}
  BY DEF RecLen
<1>2. Len(p) \in Nat
  BY <1>1
<1>3. OnEvents(prog, p) = Body(prog, p, F, 1)
  BY <1>2, OnEventsFrom, FromExists
<1>4. F[1 + RecLen(p[1])] = <<>>
  <2>1. 1 + RecLen(p[1]) \in Nat /\ 1 + RecLen(p[1]) > Len(p)
    BY <1>1
  <2>2. F[1 + RecLen(p[1])] = Body(prog, p, F, 1 + RecLen(p[1]))
    BY <1>2, <2>1, FromExists
  <2> QED
    BY <2>1, <2>2 DEF Body
<1>5. ~(1 > Len(p)) /\ ~(1 + RecLen(p[1]) - 1 > Len(p)) /\ 1 + 1 = 2 /\ 1 + 2 = 3 /\ 1 + 3 = 4
  BY <1>1
<1> DEFINE first == IF p[2] % 2 = FlagOn /\ Shows(prog, <<p[3], p[4]>>)
                    THEN << <<p[3], p[4]>> >> ELSE <<>>
<1>6. OnEvents(prog, p) = first \o <<>>
  <2>1. Body(prog, p, F, 1) = first \o F[1 + RecLen(p[1])]
    <3> HIDE DEF F
    <3> QED
      BY <1>5 DEF Body
  <2> HIDE DEF F, first
  <2> QED
    BY <1>3, <1>4, <2>1
<1>7. first \o <<>> = first
  <2> DEFINE px == <<p[3], p[4]>>
  <2>1. <<px>> \in Seq({px}) /\ <<>> \in Seq({px})
    <3> HIDE DEF px
    <3> QED
      OBVIOUS
  <2>2. <<px>> \o <<>> = <<px>> /\ <<>> \o <<>> = <<>>
    <3> HIDE DEF px
    <3> QED
      BY <2>1
  <2> QED
    BY <2>2
<1> QED
  <2> HIDE DEF first
  <2>1. OnEvents(prog, p) = first
    BY <1>6, <1>7
  <2> QED
    BY <2>1 DEF first

-----------------------------------------------------------------------------
(* What the bytes of the firmware have in common. *)
WellFormed(e) ==
  /\ e \in EntryRecord /\ e.size \in SizesOf(e.type) /\ e.put <= e.size
  /\ e.type = Plain => e.put = e.size
Framed(e) == e.type # Plain
Uppercase == {65, 69, 82, 83, 91}   \* the letters of the magic, and "["

LEMMA EntrySizes ==
  ASSUME NEW e, WellFormed(e)
  PROVE  /\ e.at \in Nat /\ e.put \in Nat /\ e.size \in Nat /\ e.event \in Nat
         /\ e.put <= e.size /\ EndOf(e) \in Nat /\ EndOf(e) = e.at + e.put
         /\ \/ e.type = EventBin /\ e.size \in {12, 16}
            \/ e.type = LogText /\ e.size = 21
            \/ e.type = Marker /\ e.size = 8
            \/ e.type = Plain /\ e.size \in 1 .. 14 /\ e.put = e.size
<1>1. e \in EntryRecord /\ e.size \in SizesOf(e.type) /\ e.put <= e.size
  BY DEF WellFormed
<1>2. e.at \in Nat /\ e.put \in Nat /\ e.size \in Nat /\ e.event \in Nat /\ e.type \in 0 .. 4
  BY <1>1 DEF EntryRecord
<1>3. EndOf(e) = e.at + e.put /\ EndOf(e) \in Nat
  BY <1>2 DEF EndOf
<1>4. /\ e.type = EventBin => e.size \in {12, 16}
      /\ e.type = LogText => e.size = 21
      /\ e.type = Marker => e.size = 8
      /\ e.type = Plain => e.size \in 1 .. 14
      /\ e.type # 3
  BY <1>1 DEF SizesOf, EventBin, LogText, Marker, Plain, HdrLen
<1>5. e.type \in {EventBin, LogText, Marker, Plain}
  BY <1>2, <1>4 DEF EventBin, LogText, Marker, Plain
<1> QED
  BY <1>1, <1>2, <1>3, <1>4, <1>5 DEF WellFormed

LEMMA EntryBytes ==
  ASSUME NEW e, WellFormed(e)
  PROVE  /\ \A o \in 1 .. 4 : ByteOf(e, o) = IF Framed(e) THEN Magic[o] ELSE 91
         /\ Framed(e) => /\ ByteOf(e, 5) = 1 /\ ByteOf(e, 6) = e.type
                         /\ ByteOf(e, 7) = e.size - 8 /\ ByteOf(e, 8) = 0
         /\ e.type = EventBin =>
              /\ ByteOf(e, 9) = (IF e.size = 12 THEN RecNots ELSE RecTicks)
              /\ ByteOf(e, 10) = FlagOn
              /\ ByteOf(e, 11) = e.event /\ ByteOf(e, 12) = 31 - e.event
              /\ \A o \in 13 .. 16 : ByteOf(e, o) = 0
         /\ e.type = LogText => \A o \in 9 .. 21 : ByteOf(e, o) = 91
         /\ e.type = Plain => \A o \in 1 .. 14 : ByteOf(e, o) = IF o = 14 THEN 10 ELSE 91
<1> USE EntrySizes DEF ByteOf, Framed, Pixel, HdrLen, EventBin, LogText, Marker, Plain
<1>1. \A o \in 1 .. 4 : ByteOf(e, o) = IF Framed(e) THEN Magic[o] ELSE 91
  OBVIOUS
<1>2. Framed(e) => /\ ByteOf(e, 5) = 1 /\ ByteOf(e, 6) = e.type
                   /\ ByteOf(e, 7) = e.size - 8 /\ ByteOf(e, 8) = 0
  OBVIOUS
<1>3. e.type = EventBin =>
              /\ ByteOf(e, 9) = (IF e.size = 12 THEN RecNots ELSE RecTicks)
              /\ ByteOf(e, 10) = FlagOn
              /\ ByteOf(e, 11) = e.event /\ ByteOf(e, 12) = 31 - e.event
              /\ \A o \in 13 .. 16 : ByteOf(e, o) = 0
  OBVIOUS
<1>4. e.type = LogText => \A o \in 9 .. 21 : ByteOf(e, o) = 91
  OBVIOUS
<1>5. e.type = Plain => \A o \in 1 .. 14 : ByteOf(e, o) = IF o = 14 THEN 10 ELSE 91
  OBVIOUS
<1> QED
  BY <1>1, <1>2, <1>3, <1>4, <1>5

LEMMA MagicBytes ==
  Magic[1] = 65 /\ Magic[2] = 69 /\ Magic[3] = 82 /\ Magic[4] = 83
BY DEF Magic

LEMMA FirstBytes ==
  ASSUME NEW e, WellFormed(e)
  PROVE  /\ \A o \in 1 .. 4 : ByteOf(e, o) \in Uppercase
         /\ ByteOf(e, 1) # 69 /\ ByteOf(e, 1) # 82 /\ ByteOf(e, 1) # 83
         /\ \A o \in 1 .. e.size : ByteOf(e, o) = 65 =>
              Framed(e) /\ (o = 1 \/ (o = 11 /\ e.type = EventBin /\ e.event = 65))
         /\ \A o \in 1 .. e.size : ByteOf(e, o) \in Int
<1> USE EntrySizes, EntryBytes, MagicBytes DEF Uppercase
<1>1. \A o \in 1 .. 4 : ByteOf(e, o) \in Uppercase
  OBVIOUS
<1>2. ByteOf(e, 1) # 69 /\ ByteOf(e, 1) # 82 /\ ByteOf(e, 1) # 83
  OBVIOUS
<1>3. ASSUME NEW o \in 1 .. e.size
      PROVE  /\ ByteOf(e, o) \in Int
             /\ ByteOf(e, o) = 65 =>
                  Framed(e) /\ (o = 1 \/ (o = 11 /\ e.type = EventBin /\ e.event = 65))
  <2>1. CASE e.type = EventBin
    <3>1. e.size \in {12, 16} /\ Framed(e)
      BY <2>1 DEF EventBin, LogText, Marker, Plain, Framed
    <3>2. o \in 1 .. 4 \/ o \in {5, 6, 7, 8, 9, 10, 11, 12} \/ o \in 13 .. 16
      BY <3>1
    <3> QED
      BY <2>1, <3>1, <3>2 DEF EventBin, RecNots, RecTicks, FlagOn
  <2>2. CASE e.type = LogText
    <3>1. e.size = 21 /\ Framed(e)
      BY <2>2 DEF EventBin, LogText, Marker, Plain, Framed
    <3>2. o \in 1 .. 4 \/ o \in {5, 6, 7, 8} \/ o \in 9 .. 21
      BY <3>1
    <3> QED
      BY <2>2, <3>1, <3>2 DEF LogText
  <2>3. CASE e.type = Marker
    <3>1. e.size = 8 /\ Framed(e)
      BY <2>3 DEF EventBin, LogText, Marker, Plain, Framed
    <3>2. o \in 1 .. 4 \/ o \in {5, 6, 7, 8}
      BY <3>1
    <3> QED
      BY <2>3, <3>1, <3>2 DEF Marker
  <2>4. CASE e.type = Plain
    <3>1. e.size \in 1 .. 14 /\ o \in 1 .. 14
      BY <2>4 DEF EventBin, LogText, Marker, Plain, Framed
    <3> QED
      BY <2>4, <3>1
  <2> QED
    BY <2>1, <2>2, <2>3, <2>4
<1> QED
  BY <1>1, <1>2, <1>3

LEMMA FirstByte ==
  ASSUME NEW e, WellFormed(e)
  PROVE  ByteOf(e, 1) \in {65, 91}
<1>1. 1 \in 1 .. 4
  OBVIOUS
<1>2. ByteOf(e, 1) = IF Framed(e) THEN Magic[1] ELSE 91
  BY <1>1, EntryBytes
<1> QED
  BY <1>2, MagicBytes

-----------------------------------------------------------------------------
(* The bytes of the stream: where a magic is, a packet begins.             *)
LEMMA Entries ==
  ASSUME Types, Layout, NEW i \in 1 .. Len(log)
  PROVE  WellFormed(log[i]) /\ EndOf(log[i]) <= BytesOut
BY DEF Types, Layout, WellFormed

LEMMA ByteComesFrom ==
  ASSUME Types, Layout, NEW s \in Seq(Int), NEW r \in Nat, Matches(s, r), NEW q \in 1 .. Len(s)
  PROVE  \E i \in 1 .. Len(log) :
           /\ log[i].at < r + q /\ r + q <= EndOf(log[i])
           /\ s[q] = ByteOf(log[i], (r + q) - log[i].at)
           /\ (r + q) - log[i].at \in 1 .. log[i].put
<1>1. Len(s) \in Nat /\ BytesOut \in Nat
  BY BytesOutTyped
<1>2. r + q \in 1 .. BytesOut
  BY <1>1 DEF Matches
<1>3. PICK i \in 1 .. Len(log) : log[i].at < r + q /\ r + q <= EndOf(log[i])
  BY <1>2 DEF Layout
<1>4. log[i].at \in Nat /\ log[i].put \in Nat /\ EndOf(log[i]) = log[i].at + log[i].put
  BY Entries, EntrySizes
<1>5. (r + q) - log[i].at \in 1 .. log[i].put
  BY <1>3, <1>4
<1> QED
  BY <1>3, <1>5 DEF Matches

LEMMA OneEntry ==
  ASSUME Types, Layout, NEW p \in Int,
         NEW i \in 1 .. Len(log), log[i].at < p, p <= EndOf(log[i]),
         NEW j \in 1 .. Len(log)
  PROVE  /\ log[j].at < p /\ p <= EndOf(log[j]) => i = j
         /\ EndOf(log[j]) < p => j < i /\ EndOf(log[j]) <= log[i].at
         /\ p <= log[j].at => i < j /\ EndOf(log[i]) <= log[j].at
<1>1. WellFormed(log[i]) /\ WellFormed(log[j])
  BY Entries
<1>2. /\ log[i].at \in Nat /\ EndOf(log[i]) \in Nat /\ log[i].at <= EndOf(log[i])
      /\ log[j].at \in Nat /\ EndOf(log[j]) \in Nat /\ log[j].at <= EndOf(log[j])
  BY <1>1, EntrySizes
<1>3. /\ i < j => EndOf(log[i]) <= log[j].at
      /\ j < i => EndOf(log[j]) <= log[i].at
  BY DEF Layout
<1>4. i \in Nat /\ j \in Nat
  BY DEF Types
<1> DEFINE ai == log[i].at
           aj == log[j].at
           ei == EndOf(log[i])
           ej == EndOf(log[j])
<1>5. /\ ai \in Nat /\ ei \in Nat /\ ai <= ei /\ aj \in Nat /\ ej \in Nat /\ aj <= ej
      /\ (i < j => ei <= aj) /\ (j < i => ej <= ai) /\ ai < p /\ p <= ei
      /\ (i = j => ai = aj /\ ei = ej)
  BY <1>2, <1>3
<1> HIDE DEF ai, aj, ei, ej
<1>6. /\ aj < p /\ p <= ej => i = j
      /\ ej < p => j < i /\ ej <= ai
      /\ p <= aj => i < j /\ ei <= aj
  BY <1>4, <1>5
<1> QED
  BY <1>6 DEF ai, aj, ei, ej

(* Behind the end of a packet the bytes of later ones begin.               *)
LEMMA BytesBehind ==
  ASSUME Types, Layout, NEW s \in Seq(Int), NEW r \in Nat, Matches(s, r), NEW q \in 1 .. Len(s),
         NEW j \in 1 .. Len(log), EndOf(log[j]) < r + q, r + q <= EndOf(log[j]) + 4
  PROVE  /\ s[q] \in Uppercase
         /\ r + q = EndOf(log[j]) + 1 => s[q] \in {65, 91}
<1>1. PICK i \in 1 .. Len(log) :
           /\ log[i].at < r + q /\ r + q <= EndOf(log[i])
           /\ s[q] = ByteOf(log[i], (r + q) - log[i].at)
           /\ (r + q) - log[i].at \in 1 .. log[i].put
  BY ByteComesFrom
<1>2. WellFormed(log[i]) /\ WellFormed(log[j])
  BY Entries
<1>3. r + q \in Int
  OBVIOUS
<1>4. EndOf(log[j]) <= log[i].at
  BY <1>1, <1>3, OneEntry
<1>5. log[i].at \in Nat /\ EndOf(log[j]) \in Nat
  BY <1>2, EntrySizes
<1> DEFINE a == log[i].at
           e == EndOf(log[j])
           p == r + q
<1>6. p - a \in 1 .. 4 /\ (p = e + 1 => p - a = 1)
  <2>1. p \in Int /\ a \in Nat /\ e \in Nat /\ e <= a /\ a < p /\ p <= e + 4
    BY <1>1, <1>3, <1>4, <1>5
  <2> HIDE DEF a, e, p
  <2> QED
    BY <2>1
<1>7. ByteOf(log[i], 1) \in {65, 91}
  <2> DEFINE f == log[i]
  <2> HIDE DEF f
  <2>1. WellFormed(f)
    BY <1>2 DEF f
  <2>2. ByteOf(f, 1) \in {65, 91}
    BY <2>1, FirstByte
  <2> QED
    BY <2>2 DEF f
<1>8. s[q] = ByteOf(log[i], p - a)
  BY <1>1, Zenon
<1>9. \A o \in 1 .. 4 : ByteOf(log[i], o) \in Uppercase
  BY <1>2, FirstBytes
<1> HIDE DEF a, e, p
<1>10. s[q] \in Uppercase /\ (p = e + 1 => s[q] \in {65, 91})
  BY <1>6, <1>7, <1>8, <1>9
<1> QED
  BY <1>10 DEF e, p

LEMMA LettersBehind ==
  ASSUME Types, Layout, NEW s \in Seq(Int), NEW r \in Nat, Matches(s, r), NEW q \in 1 .. Len(s)
  PROVE  \A i \in 1 .. Len(log) :
           EndOf(log[i]) < r + q /\ r + q <= EndOf(log[i]) + 4 => s[q] \in Uppercase
BY BytesBehind

-----------------------------------------------------------------------------
(* Where the magic begins, a header begins.                                *)

LEMMA NextByte ==
  ASSUME Types, Layout, NEW s \in Seq(Int), NEW r \in Nat, Matches(s, r),
         NEW q \in 1 .. Len(s), NEW i \in 1 .. Len(log),
         NEW o \in Nat, r + q = log[i].at + (o + 1), o <= log[i].put, o # 0
  PROVE  \/ o + 1 <= log[i].put /\ s[q] = ByteOf(log[i], o + 1)
         \/ o = log[i].put /\ s[q] \in {65, 91}
<1> DEFINE a == log[i].at
           n == log[i].put
           p == r + q
           e == EndOf(log[i])
<1>1. a \in Nat /\ n \in Nat /\ e = a + n /\ p \in Int
  BY Entries, EntrySizes
<1>2. p = a + (o + 1) /\ o <= n
  OBVIOUS
<1>3. CASE o + 1 <= n
  <2>1. a < p /\ p <= e /\ p - a = o + 1
    <3> HIDE DEF a, n, p, e
    <3> QED
      BY <1>1, <1>2, <1>3
  <2>2. s[q] = ByteOf(log[i], p - a)
    BY <2>1, Zenon DEF Matches
  <2> QED
    BY <1>3, <2>1, <2>2
<1>4. CASE o = n
  <2>1. p = e + 1 /\ e < p /\ p <= e + 4
    <3> HIDE DEF a, n, p, e
    <3> QED
      BY <1>1, <1>2, <1>4
  <2>2. s[q] \in {65, 91}
    BY <2>1, BytesBehind
  <2> QED
    BY <1>4, <2>2
<1>5. o + 1 <= n \/ o = n
  <2> HIDE DEF a, n, p, e
  <2> QED
    BY <1>1, <1>2
<1> QED
  BY <1>3, <1>4, <1>5

LEMMA MagicAt ==
  ASSUME NEW s \in Seq(Int), NEW q
  PROVE  q \in Magics(s) <=>
           /\ q \in 1 .. Len(s) - 3
           /\ s[q] = 65 /\ s[q + 1] = 69 /\ s[q + 2] = 82 /\ s[q + 3] = 83
<1>1. SUFFICES ASSUME q \in 1 .. Len(s) - 3
               PROVE  SubSeq(s, q, q + 3) = Magic <=>
                        s[q] = 65 /\ s[q + 1] = 69 /\ s[q + 2] = 82 /\ s[q + 3] = 83
  BY DEF Magics
<1> DEFINE t == SubSeq(s, q, q + 3)
<1>2. t \in Seq(Int) /\ Len(t) = 4
      /\ t[1] = s[q] /\ t[2] = s[q + 1] /\ t[3] = s[q + 2] /\ t[4] = s[q + 3]
  <2>1. /\ Len(s) \in Nat /\ q \in 1 .. Len(s) + 1 /\ q + 3 \in q - 1 .. Len(s)
        /\ (q + 3) - q + 1 = 4
    BY <1>1
  <2>2. /\ t \in Seq(Int) /\ Len(t) = (q + 3) - q + 1
        /\ \A k \in 1 .. (q + 3) - q + 1 : t[k] = s[q + k - 1]
    BY <2>1, SubSeqProperties
  <2>3. q + 1 - 1 = q /\ q + 2 - 1 = q + 1 /\ q + 3 - 1 = q + 2 /\ q + 4 - 1 = q + 3
    BY <2>1
  <2> HIDE DEF t
  <2>4. 1 \in 1 .. 4 /\ 2 \in 1 .. 4 /\ 3 \in 1 .. 4 /\ 4 \in 1 .. 4
    OBVIOUS
  <2> QED
    BY <2>1, <2>2, <2>3, <2>4
<1>3. Magic \in Seq(Int) /\ Len(Magic) = 4
  BY DEF Magic
<1>4. ASSUME t[1] = 65, t[2] = 69, t[3] = 82, t[4] = 83
      PROVE  t = Magic
  <2> HIDE DEF t
  <2>1. \A k \in 1 .. 4 : t[k] = Magic[k]
    BY <1>4, MagicBytes
  <2> QED
    BY <1>2, <1>3, <2>1, SeqEqual
<1>5. t = Magic => t[1] = 65 /\ t[2] = 69 /\ t[3] = 82 /\ t[4] = 83
  BY MagicBytes
<1> HIDE DEF t
<1>6. t = Magic <=> s[q] = 65 /\ s[q + 1] = 69 /\ s[q + 2] = 82 /\ s[q + 3] = 83
  BY <1>2, <1>4, <1>5
<1> QED
  BY <1>6 DEF t

(* Only a header spells the magic, whatever was cut.                       *)
LEMMA MagicIsHeader ==
  ASSUME Types, Layout, NEW s \in Seq(Int), NEW r \in Nat, Matches(s, r), NEW q \in Magics(s)
  PROVE  \E j \in 1 .. Len(log) : /\ log[j].at + 1 = r + q
                                  /\ log[j].put >= 4 /\ Framed(log[j])
<1>1. /\ q \in 1 .. Len(s) - 3 /\ Len(s) \in Nat
      /\ s[q] = 65 /\ s[q + 1] = 69 /\ s[q + 2] = 82 /\ s[q + 3] = 83
  BY MagicAt
<1>0. /\ q \in Nat /\ q \in 1 .. Len(s) /\ q + 1 \in 1 .. Len(s)
      /\ q + 2 \in 1 .. Len(s) /\ q + 3 \in 1 .. Len(s)
  BY <1>1
<1>2. PICK j \in 1 .. Len(log) :
           /\ log[j].at < r + q /\ r + q <= EndOf(log[j])
           /\ s[q] = ByteOf(log[j], (r + q) - log[j].at)
           /\ (r + q) - log[j].at \in 1 .. log[j].put
  BY <1>0, ByteComesFrom
<1> DEFINE a == log[j].at
           n == log[j].put
           o == (r + q) - a
<1>3. WellFormed(log[j])
  BY Entries
<1>4. a \in Nat /\ n \in Nat /\ log[j].size \in Nat /\ n <= log[j].size
  BY <1>3, EntrySizes
<1>5. o \in Nat /\ o \in 1 .. log[j].size /\ o <= n /\ o # 0 /\ r + q = a + o
  <2> HIDE DEF a, n
  <2>1. (r + q) - a \in 1 .. n
    BY <1>2 DEF a, n
  <2> QED
    BY <1>0, <1>4, <2>1
<1>6. Framed(log[j]) /\ (o = 1 \/ (o = 11 /\ log[j].type = EventBin /\ log[j].event = 65))
  <2>1. ByteOf(log[j], o) = 65
    BY <1>1, <1>2
  <2> HIDE DEF o
  <2> QED
    BY <1>3, <1>5, <2>1, FirstBytes
<1> HIDE DEF o, a, n
<1>n. ASSUME NEW m \in 0 .. 2, o + m <= n
      PROVE  \/ o + m + 1 <= n /\ s[q + (m + 1)] = ByteOf(log[j], o + m + 1)
             \/ o + m = n /\ s[q + (m + 1)] \in {65, 91}
  <2>1. /\ q + (m + 1) \in 1 .. Len(s) /\ o + m \in Nat /\ o + m # 0
        /\ r + (q + (m + 1)) = a + ((o + m) + 1)
    BY <1>0, <1>4, <1>5
  <2> DEFINE q2 == q + (m + 1)
             o2 == o + m
  <2>2. o2 <= n
    BY <1>n
  <2> HIDE DEF q2, o2
  <2>3. /\ q2 \in 1 .. Len(s) /\ o2 \in Nat /\ o2 # 0
        /\ r + q2 = log[j].at + (o2 + 1) /\ o2 <= log[j].put
    BY <2>1, <2>2 DEF q2, o2, a, n
  <2>4. \/ o2 + 1 <= log[j].put /\ s[q2] = ByteOf(log[j], o2 + 1)
        \/ o2 = log[j].put /\ s[q2] \in {65, 91}
    BY <2>3, NextByte
  <2> QED
    BY <2>4 DEF q2, o2, n
<1>7. o # 11
  <2> SUFFICES ASSUME o = 11 PROVE FALSE
    OBVIOUS
  <2>1. 0 \in 0 .. 2 /\ o + 0 <= n /\ o + 0 + 1 = 12 /\ q + (0 + 1) = q + 1
    BY <1>0, <1>4, <1>5
  <2>2. s[q + 1] = ByteOf(log[j], 12) \/ s[q + 1] \in {65, 91}
    BY <1>n, <2>1
  <2>3. ByteOf(log[j], 12) = 31 - 65
    BY <1>3, <1>6, EntryBytes
  <2> QED
    BY <1>1, <2>2, <2>3
<1>8. o = 1
  BY <1>6, <1>7
<1>9. n >= 2
  <2>1. 0 \in 0 .. 2 /\ o + 0 <= n /\ o + 0 + 1 = 2 /\ q + (0 + 1) = q + 1
    BY <1>0, <1>4, <1>5, <1>8
  <2>2. 2 <= n \/ s[q + 1] \in {65, 91}
    BY <1>n, <2>1
  <2> QED
    BY <1>1, <2>2
<1>10. n >= 3
  <2>1. 1 \in 0 .. 2 /\ o + 1 <= n /\ o + 1 + 1 = 3 /\ q + (1 + 1) = q + 2
    BY <1>0, <1>4, <1>8, <1>9
  <2>2. 3 <= n \/ s[q + 2] \in {65, 91}
    BY <1>n, <2>1
  <2> QED
    BY <1>1, <2>2
<1>11. n >= 4
  <2>1. 2 \in 0 .. 2 /\ o + 2 <= n /\ o + 2 + 1 = 4 /\ q + (2 + 1) = q + 3
    BY <1>0, <1>4, <1>8, <1>10
  <2>2. 4 <= n \/ s[q + 3] \in {65, 91}
    BY <1>n, <2>1
  <2> QED
    BY <1>1, <2>2
<1>12. a + 1 = r + q
  BY <1>5, <1>8
<1> QED
  BY <1>6, <1>11, <1>12 DEF a, n

(* A header that has arrived is found.                                     *)
LEMMA HeaderIsMagic ==
  ASSUME Types, Layout, NEW s \in Seq(Int), NEW r \in Nat, Matches(s, r),
         NEW j \in 1 .. Len(log), log[j].put >= 4, Framed(log[j]),
         r <= log[j].at, log[j].at + 4 <= r + Len(s)
  PROVE  (log[j].at + 1) - r \in Magics(s)
<1> DEFINE a == log[j].at
           q == (a + 1) - r
<1>1. WellFormed(log[j])
  BY Entries
<1>2. a \in Nat /\ log[j].put \in Nat /\ EndOf(log[j]) = a + log[j].put
  BY <1>1, EntrySizes
<1>3. q \in 1 .. Len(s) - 3 /\ Len(s) \in Nat
  <2> DEFINE l == Len(s)
  <2>1. l \in Nat
    OBVIOUS
  <2>2. a \in Nat /\ r <= a /\ a + 4 <= r + l
    BY <1>2
  <2> HIDE DEF a, l
  <2>3. q \in 1 .. l - 3
    BY <2>1, <2>2
  <2> QED
    BY <2>1, <2>3 DEF l
<1>4. ASSUME NEW k \in 0 .. 3
      PROVE  s[q + k] = Magic[k + 1]
  <2> DEFINE n == log[j].put
             e == EndOf(log[j])
  <2>0. n >= 4 /\ a \in Nat /\ n \in Nat /\ e = a + n /\ q = (a + 1) - r /\ q \in Nat
    BY <1>2, <1>3
  <2>1. /\ q + k \in 1 .. Len(s) /\ a < r + (q + k) /\ r + (q + k) <= e
        /\ (r + (q + k)) - a = k + 1
    <3> HIDE DEF a, q, n, e
    <3> QED
      BY <1>3, <2>0
  <2>2. s[q + k] = ByteOf(log[j], (r + (q + k)) - a)
    <3> DEFINE m == q + k
    <3> HIDE DEF q, m
    <3>1. m \in 1 .. Len(s) /\ a < r + m /\ r + m <= e
      BY <2>1 DEF m
    <3>2. s[m] = ByteOf(log[j], (r + m) - a)
      BY <3>1, Zenon DEF Matches
    <3> QED
      BY <3>2 DEF m
  <2>3. k + 1 \in 1 .. 4
    OBVIOUS
  <2>4. ByteOf(log[j], k + 1) = Magic[k + 1]
    BY <1>1, <2>3, EntryBytes
  <2> QED
    BY <2>1, <2>2, <2>4
<1>5. s[q + 0] = 65 /\ s[q + 1] = 69 /\ s[q + 2] = 82 /\ s[q + 3] = 83 /\ q + 0 = q
  <2>1. q + 0 = q
    BY <1>3
  <2> HIDE DEF q
  <2>2. s[q + 0] = Magic[0 + 1] /\ s[q + 1] = Magic[1 + 1]
        /\ s[q + 2] = Magic[2 + 1] /\ s[q + 3] = Magic[3 + 1]
    BY <1>4
  <2> QED
    BY <2>1, <2>2, MagicBytes
<1> HIDE DEF q
<1>6. q \in Magics(s)
  BY <1>3, <1>5, MagicAt
<1> QED
  BY <1>6 DEF q

-----------------------------------------------------------------------------
(* A buffer that begins with the header of packet j: the bytes of the      *)
(* packet, and behind its end those of later ones.                         *)
LEMMA BytesOfPacket ==
  ASSUME Types, Layout, NEW b \in Seq(Int), NEW r \in Nat, Matches(b, r),
         NEW j \in 1 .. Len(log), log[j].at = r, NEW q \in 1 .. Len(b)
  PROVE  /\ q <= log[j].put => b[q] = ByteOf(log[j], q)
         /\ log[j].put < q /\ q <= log[j].put + 4 => b[q] \in Uppercase
<1> DEFINE n == log[j].put
           e == EndOf(log[j])
<1>1. n \in Nat /\ e = r + n /\ q \in Nat /\ r \in Nat
  BY Entries, EntrySizes
<1>2. ASSUME q <= n PROVE b[q] = ByteOf(log[j], q)
  <2>1. r < r + q /\ r + q <= e /\ (r + q) - r = q
    <3> HIDE DEF n, e
    <3> QED
      BY <1>1, <1>2
  <2>2. b[q] = ByteOf(log[j], (r + q) - r)
    BY <2>1, Zenon DEF Matches
  <2> QED
    BY <2>1, <2>2
<1>3. ASSUME n < q /\ q <= n + 4 PROVE b[q] \in Uppercase
  <2>1. e < r + q /\ r + q <= e + 4
    <3> HIDE DEF n, e
    <3> QED
      BY <1>1, <1>3
  <2>2. EndOf(log[j]) < r + q /\ r + q <= EndOf(log[j]) + 4
    BY <2>1, Zenon
  <2> HIDE DEF n, e
  <2>3. \A i \in 1 .. Len(log) :
          EndOf(log[i]) < r + q /\ r + q <= EndOf(log[i]) + 4 => b[q] \in Uppercase
    BY LettersBehind
  <2> QED
    BY <2>2, <2>3
<1> QED
  BY <1>2, <1>3

LEMMA PayloadBytes ==
  ASSUME NEW b \in Seq(Int), NEW n \in Nat, 8 <= n, n <= Len(b)
  PROVE  /\ SubSeq(b, HdrLen + 1, n) \in Seq(Int)
         /\ Len(SubSeq(b, HdrLen + 1, n)) = n - 8
         /\ \A k \in 1 .. n - 8 : SubSeq(b, HdrLen + 1, n)[k] = b[k + 8]
<1>1. HdrLen + 1 = 9
  BY DEF HdrLen
<1>2. \A i \in 9 .. n : b[i] \in Int
  OBVIOUS
<1>3. /\ SubSeq(b, 9, n) \in Seq(Int)
      /\ Len(SubSeq(b, 9, n)) = IF 9 <= n THEN n - 9 + 1 ELSE 0
      /\ \A k \in 1 .. n - 9 + 1 : SubSeq(b, 9, n)[k] = b[9 + k - 1]
  BY <1>2, SubSeqProperties
<1>4. (IF 9 <= n THEN n - 9 + 1 ELSE 0) = n - 8 /\ n - 9 + 1 = n - 8
  OBVIOUS
<1>5. \A k \in 1 .. n - 8 : 9 + k - 1 = k + 8
  OBVIOUS
<1> QED
  BY <1>1, <1>3, <1>4, <1>5

LEMMA Letters ==
  /\ \A c \in Uppercase : c \in Nat /\ c > 31 /\ c # EventBin /\ c \notin {RecNots, RecTicks}
  /\ \A x, y \in Int : x > 31 \/ y > 31 => ~OnScreen(<<x, y>>)
<1>1. \A c \in Uppercase : c \in Nat /\ c > 31 /\ c # EventBin /\ c \notin {RecNots, RecTicks}
  BY DEF Uppercase, EventBin, RecNots, RecTicks
<1>2. ASSUME NEW x \in Int, NEW y \in Int, x > 31 \/ y > 31
      PROVE  ~OnScreen(<<x, y>>)
  BY <1>2 DEF OnScreen
<1> QED
  BY <1>1, <1>2

(* What a packet that is complete in the buffer makes the program show:    *)
(* nothing, or one pixel, and on the screen only that of the event.        *)
Yields(prog, e, px) ==
  /\ px \in Int \X Int /\ Shows(prog, px)
  /\ OnScreen(px) => e.type = EventBin /\ px = Pixel(e.event) /\ e.put >= HdrLen + 4

LEMMA PacketRead ==
  ASSUME Types, Layout, NEW b \in Seq(Int), NEW r \in Nat, Matches(b, r),
         NEW j \in 1 .. Len(log), log[j].at = r, log[j].put >= 4, Framed(log[j]),
         Complete(b), NEW prog
  PROVE  LET shows == Shown(prog, b[6], SubSeq(b, HdrLen + 1, PacketLen(b)))
         IN /\ PacketLen(b) \in HdrLen .. Len(b)
            /\ log[j].put >= HdrLen => PacketLen(b) = log[j].size
            /\ shows = <<>> \/ \E px : shows = <<px>> /\ Yields(prog, log[j], px)
            /\ /\ log[j].type = EventBin /\ Whole(j)
               /\ Shows(prog, Pixel(log[j].event))
               => shows = << Pixel(log[j].event) >>
<1> DEFINE e == log[j]
           n == e.put
           N == PacketLen(b)
           p == SubSeq(b, HdrLen + 1, N)
           px == <<p[3], p[4]>>
           shows == Shown(prog, b[6], p)
           sz == e.size
           Goal == /\ N \in HdrLen .. Len(b)
                   /\ n >= HdrLen => N = sz
                   /\ shows = <<>> \/ \E x : shows = <<x>> /\ Yields(prog, e, x)
                   /\ e.type = EventBin /\ Whole(j) /\ Shows(prog, Pixel(e.event))
                      => shows = << Pixel(e.event) >>
<1> SUFFICES Goal
  OBVIOUS
<1>1. WellFormed(e)
  BY Entries
<1>2. n \in Nat /\ sz \in Nat /\ n <= sz /\ n >= 4 /\ 8 <= sz /\ e.event \in Nat
      /\ (e.type = EventBin => sz = 12 \/ sz = 16) /\ (Whole(j) => n = sz)
  <2>1. /\ e.put \in Nat /\ e.size \in Nat /\ e.put <= e.size /\ e.event \in Nat
        /\ \/ e.type = EventBin /\ e.size \in {12, 16}
           \/ e.type = LogText /\ e.size = 21
           \/ e.type = Marker /\ e.size = 8
    BY <1>1, EntrySizes DEF Framed
  <2>2. 8 <= e.size /\ (e.type = EventBin => e.size = 12 \/ e.size = 16)
    BY <2>1 DEF EventBin, LogText, Marker
  <2> QED
    BY <2>1, <2>2 DEF Whole
<1>3. Len(b) \in Nat /\ 8 <= Len(b) /\ N <= Len(b) /\ N = 8 + b[7] + 256 * b[8]
  BY DEF Complete, PacketLen, HdrLen
<1>4. ASSUME NEW q \in 1 .. Len(b)
      PROVE  /\ q <= n => b[q] = ByteOf(e, q)
             /\ n < q /\ q <= n + 4 => b[q] \in Uppercase
  BY BytesOfPacket
<1>5. /\ ByteOf(e, 6) = e.type /\ ByteOf(e, 7) = sz - 8 /\ ByteOf(e, 8) = 0
      /\ e.type = EventBin =>
              /\ ByteOf(e, 9) = (IF sz = 12 THEN RecNots ELSE RecTicks)
              /\ ByteOf(e, 10) = FlagOn
              /\ ByteOf(e, 11) = e.event /\ ByteOf(e, 12) = 31 - e.event
  BY <1>1, EntryBytes
<1> HIDE DEF e, n, sz
<1>0. ASSUME NEW q \in {6, 7, 8}
      PROVE  q \in 1 .. Len(b) /\ (q <= n \/ (n < q /\ q <= n + 4))
  BY <1>2, <1>3
<1>6. b[7] \in Nat /\ b[8] \in Nat
  <2>1. b[7] = sz - 8 \/ b[7] \in Uppercase
    BY <1>0, <1>4, <1>5
  <2>2. b[8] = 0 \/ b[8] \in Uppercase
    BY <1>0, <1>4, <1>5
  <2>3. sz - 8 \in Nat
    BY <1>2
  <2> QED
    BY <2>1, <2>2, <2>3, Letters
<1>7. N \in HdrLen .. Len(b) /\ N \in Nat /\ 8 <= N /\ N <= Len(b)
  <2> DEFINE lo == b[7]
             hi == b[8]
  <2>1. lo \in Nat /\ hi \in Nat /\ N = 8 + lo + 256 * hi
    BY <1>3, <1>6
  <2> HIDE DEF N, lo, hi
  <2>2. N \in Nat /\ 8 <= N /\ HdrLen = 8
    BY <2>1 DEF HdrLen
  <2> QED
    BY <1>3, <2>2
<1>8. p \in Seq(Int) /\ Len(p) = N - 8 /\ \A k \in 1 .. N - 8 : p[k] = b[k + 8]
  <2>1. N \in Nat /\ 8 <= N /\ N <= Len(b)
    BY <1>3, <1>7
  <2> HIDE DEF N
  <2> QED
    BY <2>1, PayloadBytes
<1>9. n >= 8 => N = sz
  <2> SUFFICES ASSUME n >= 8 PROVE N = sz
    OBVIOUS
  <2>1. 7 \in 1 .. Len(b) /\ 8 \in 1 .. Len(b) /\ 7 <= n /\ 8 <= n
    BY <1>2, <1>3
  <2>2. b[7] = sz - 8 /\ b[8] = 0
    BY <1>4, <1>5, <2>1
  <2> HIDE DEF N
  <2> QED
    BY <1>2, <1>3, <2>2
<1> HIDE DEF N, p
(* The record is not there, or is not reached. *)
<1>10. ASSUME b[6] # EventBin \/ N = 8 \/ b[9] \in Uppercase
       PROVE  shows = <<>>
  <2>1. CASE b[6] # EventBin
    BY <2>1 DEF Shown
  <2>2. CASE N = 8
    <3>1. Len(p) = 0
      BY <1>8, <2>2
    <3>2. OnEvents(prog, p) = <<>>
      BY <3>1, NoRecord
    <3> QED
      BY <3>2 DEF Shown
  <2>3. CASE N # 8 /\ b[9] \in Uppercase
    <3>1. 1 \in 1 .. N - 8 /\ 1 + 8 = 9 /\ Len(p) \in Nat
      BY <1>7, <1>8, <2>3
    <3>2. p[1] = b[9]
      BY <1>8, <3>1
    <3>3. p[1] \notin {RecNots, RecTicks}
      BY <2>3, <3>2, Letters
    <3>4. OnEvents(prog, p) = <<>>
      BY <3>1, <3>3, NoRecord
    <3> QED
      BY <3>4 DEF Shown
  <2> QED
    BY <1>10, <2>1, <2>2, <2>3
(* A header that was cut takes its type or its length from what follows. *)
<1>11. CASE n < 8
  <2>1. b[6] # EventBin \/ N = 8 \/ b[9] \in Uppercase
    <3>1. CASE n <= 5
      <4>1. 6 \in 1 .. Len(b) /\ n < 6 /\ 6 <= n + 4
        BY <1>2, <1>3, <3>1
      <4> QED
        BY <1>4, <4>1, Letters
    <3>2. CASE n > 5 /\ N # 8
      <4>1. 9 \in 1 .. Len(b) /\ n < 9 /\ 9 <= n + 4
        BY <1>2, <1>3, <1>7, <1>11, <3>2
      <4> QED
        BY <1>4, <4>1
    <3> QED
      BY <1>2, <3>1, <3>2
  <2>2. shows = <<>>
    BY <1>10, <2>1
  <2>3. ~Whole(j)
    BY <1>2, <1>11
  <2>4. ~(n >= HdrLen)
    BY <1>2, <1>11 DEF HdrLen
  <2> QED
    BY <1>7, <2>2, <2>3, <2>4
<1>12. CASE n >= 8 /\ e.type # EventBin
  <2>1. 6 \in 1 .. Len(b) /\ 6 <= n
    BY <1>2, <1>3, <1>12
  <2>2. b[6] = e.type
    BY <1>4, <1>5, <2>1
  <2>3. shows = <<>>
    BY <1>10, <1>12, <2>2
  <2> QED
    BY <1>7, <1>9, <1>12, <2>3
<1>13. CASE n >= 8 /\ e.type = EventBin
  <2>1. sz \in {12, 16} /\ N = sz
    BY <1>2, <1>9, <1>13 DEF EventBin, LogText, Marker
  <2>2. 6 \in 1 .. Len(b) /\ 9 \in 1 .. Len(b) /\ 10 \in 1 .. Len(b)
        /\ 11 \in 1 .. Len(b) /\ 12 \in 1 .. Len(b) /\ 6 <= n
    <3>1. 12 <= Len(b) /\ Len(b) \in Nat
      BY <1>3, <1>7, <2>1
    <3>2. 6 <= n
      BY <1>2, <1>13
    <3> QED
      BY <3>1, <3>2
  <2>3. b[6] = EventBin
    BY <1>4, <1>5, <1>13, <2>2
  <2>4. CASE n = 8
    <3>1. b[9] \in Uppercase
      BY <1>4, <2>2, <2>4
    <3>2. shows = <<>>
      BY <1>10, <3>1
    <3>3. ~Whole(j)
      BY <1>2, <2>1, <2>4
    <3> QED
      BY <1>7, <1>9, <3>2, <3>3 DEF HdrLen
  <2>5. CASE n >= 9
    <3>1. b[9] = IF sz = 12 THEN RecNots ELSE RecTicks
      BY <1>4, <1>5, <1>13, <2>2, <2>5
    <3>2. 1 \in 1 .. N - 8 /\ 2 \in 1 .. N - 8 /\ 3 \in 1 .. N - 8 /\ 4 \in 1 .. N - 8
          /\ 1 + 8 = 9 /\ 2 + 8 = 10 /\ 3 + 8 = 11 /\ 4 + 8 = 12
      BY <2>1
    <3>3. p[1] = b[9] /\ p[2] = b[10] /\ p[3] = b[11] /\ p[4] = b[12]
      BY <1>8, <3>2
    <3>4. p[1] \in {RecNots, RecTicks} /\ Len(p) = RecLen(p[1])
      BY <1>8, <2>1, <3>1, <3>3 DEF RecLen, RecNots, RecTicks
    <3>5. shows = IF p[2] % 2 = FlagOn /\ Shows(prog, px) THEN <<px>> ELSE <<>>
      <4>1. shows = OnEvents(prog, p)
        BY <2>3 DEF Shown
      <4>2. OnEvents(prog, p) = IF p[2] % 2 = FlagOn /\ Shows(prog, px) THEN <<px>> ELSE <<>>
        BY <3>4, OneRecord
      <4> QED
        BY <4>1, <4>2, Zenon
    <3>6. b[11] \in Int /\ b[12] \in Int
      <4>1. \A q \in 1 .. Len(b) : b[q] \in Int
        OBVIOUS
      <4> QED
        BY <2>2, <4>1
    <3>7. CASE n < 12
      <4>1. b[12] \in Uppercase
        <5>1. n < 12 /\ 12 <= n + 4
          BY <1>2, <1>13, <3>7
        <5> QED
          BY <1>4, <2>2, <5>1
      <4>2. ~OnScreen(px) /\ px \in Int \X Int
        BY <3>3, <3>6, <4>1, Letters
      <4>3. shows = <<>> \/ (shows = <<px>> /\ Shows(prog, px))
        BY <3>5
      <4>4. shows = <<>> \/ \E x : shows = <<x>> /\ Yields(prog, e, x)
        BY <4>2, <4>3, Zenon DEF Yields
      <4>5. ~Whole(j)
        BY <1>2, <2>1, <3>7
      <4> QED
        BY <1>7, <1>9, <1>13, <4>4, <4>5
    <3>8. CASE n >= 12
      <4>1. 10 <= n /\ 11 <= n /\ 12 <= n
        BY <1>2, <3>8
      <4>2. b[10] = 1 /\ b[11] = e.event /\ b[12] = 31 - e.event
        BY <1>4, <1>5, <1>13, <2>2, <4>1 DEF FlagOn
      <4>3. px = Pixel(e.event)
        BY <3>3, <4>2 DEF Pixel
      <4>4. px \in Int \X Int
        BY <3>3, <3>6
      <4>5. shows = IF Shows(prog, px) THEN <<px>> ELSE <<>>
        BY <3>3, <3>5, <4>2 DEF FlagOn
      <4>6. e.put >= HdrLen + 4
        BY <1>2, <3>8 DEF HdrLen, n
      <4>7. Shows(prog, px) => Yields(prog, e, px)
        BY <1>13, <4>3, <4>4, <4>6 DEF Yields
      <4>8. shows = <<>> \/ \E x : shows = <<x>> /\ Yields(prog, e, x)
        <5> HIDE DEF px, shows
        <5> QED
          BY <4>5, <4>7, Zenon
      <4>9. Shows(prog, Pixel(e.event)) => shows = << Pixel(e.event) >>
        <5> HIDE DEF px, shows
        <5> QED
          BY <4>3, <4>5
      <4> QED
        BY <1>7, <1>9, <4>8, <4>9 DEF HdrLen
    <3> QED
      BY <1>2, <3>7, <3>8
  <2> QED
    BY <1>2, <1>13, <2>4, <2>5
<1> QED
  BY <1>2, <1>11, <1>12, <1>13

-----------------------------------------------------------------------------
(* Pieces of what was written.                                             *)

LEMMA BytesOutIs ==
  ASSUME Types, log # <<>>
  PROVE  BytesOut = EndOf(log[Len(log)]) /\ Len(log) \in 1 .. Len(log)
BY DEF Types, BytesOut, EndOf, Last

LEMMA MatchesPiece ==
  ASSUME NEW s \in Seq(Int), NEW r \in Nat, Matches(s, r), Types,
         NEW t \in Seq(Int), NEW d \in Nat, d + Len(t) <= Len(s),
         \A k \in 1 .. Len(t) : t[k] = s[k + d]
  PROVE  Matches(t, r + d)
<1>1. Len(s) \in Nat /\ Len(t) \in Nat /\ BytesOut \in Nat
  BY BytesOutTyped
<1>2. (r + d) + Len(t) <= BytesOut
  BY <1>1 DEF Matches
<1>3. ASSUME NEW q \in 1 .. Len(t), NEW i \in 1 .. Len(log),
             log[i].at < (r + d) + q, (r + d) + q <= EndOf(log[i])
      PROVE  t[q] = ByteOf(log[i], ((r + d) + q) - log[i].at)
  <2>1. q + d \in 1 .. Len(s) /\ (r + d) + q = r + (q + d)
    BY <1>1
  <2>2. s[q + d] = ByteOf(log[i], (r + (q + d)) - log[i].at)
    <3> DEFINE m == q + d
    <3>1. m \in 1 .. Len(s) /\ log[i].at < r + m /\ r + m <= EndOf(log[i])
      BY <1>3, <2>1
    <3> HIDE DEF m
    <3>2. s[m] = ByteOf(log[i], (r + m) - log[i].at)
      BY <3>1, Zenon DEF Matches
    <3> QED
      BY <3>2 DEF m
  <2> QED
    BY <2>1, <2>2
<1> QED
  BY <1>2, <1>3 DEF Matches

Behind(s, d) == SubSeq(s, d + 1, Len(s))
LEMMA BehindBytes ==
  ASSUME NEW s \in Seq(Int), NEW d \in 0 .. Len(s)
  PROVE  /\ Behind(s, d) \in Seq(Int) /\ Len(Behind(s, d)) = Len(s) - d
         /\ \A k \in 1 .. Len(s) - d : Behind(s, d)[k] = s[k + d]
<1>1. Len(s) \in Nat /\ d \in Nat /\ d <= Len(s)
  OBVIOUS
<1>2. \A i \in d + 1 .. Len(s) : s[i] \in Int
  BY <1>1
<1>3. /\ Behind(s, d) \in Seq(Int)
      /\ Len(Behind(s, d)) = IF d + 1 <= Len(s) THEN Len(s) - (d + 1) + 1 ELSE 0
      /\ \A k \in 1 .. Len(s) - (d + 1) + 1 : Behind(s, d)[k] = s[d + 1 + k - 1]
  <2>1. d + 1 \in Int /\ Len(s) \in Int
    BY <1>1
  <2> DEFINE m == d + 1
             n == Len(s)
  <2>2. m \in Int /\ n \in Int /\ \A i \in m .. n : s[i] \in Int
    BY <1>2, <2>1
  <2> HIDE DEF m, n
  <2>3. /\ SubSeq(s, m, n) \in Seq(Int)
        /\ Len(SubSeq(s, m, n)) = IF m <= n THEN n - m + 1 ELSE 0
        /\ \A k \in 1 .. n - m + 1 : SubSeq(s, m, n)[k] = s[m + k - 1]
    BY <2>2, SubSeqProperties
  <2> QED
    BY <2>3 DEF m, n, Behind
<1>4. Len(s) - (d + 1) + 1 = Len(s) - d
      /\ (IF d + 1 <= Len(s) THEN Len(s) - (d + 1) + 1 ELSE 0) = Len(s) - d
  BY <1>1
<1>5. \A k \in 1 .. Len(s) - d : d + 1 + k - 1 = k + d
  BY <1>1
<1> QED
  BY <1>3, <1>4, <1>5

(* What the reader keeps begins at the first magic, or is the last three   *)
(* bytes when there is none.                                               *)
LEMMA SyncKeeps ==
  ASSUME NEW s \in Seq(Int)
  PROVE  \E d \in 0 .. Len(s) :
           /\ Sync(s) = Behind(s, d)
           /\ Magics(s) = {} => (d = 0 \/ d + 3 = Len(s)) /\ ~Complete(Sync(s))
           /\ Magics(s) # {} => d + 1 \in Magics(s) /\ \A m \in Magics(s) : d + 1 <= m
<1>1. Len(s) \in Nat
  OBVIOUS
<1>2. CASE Magics(s) = {}
  <2> DEFINE d == IF Len(s) <= 3 THEN 0 ELSE Len(s) - 3
  <2>1. Max({1, Len(s) - 2}) = d + 1
    <3>1. Max({1, Len(s) - 2}) = IF 1 <= Len(s) - 2 THEN Len(s) - 2 ELSE 1
      <4>1. Len(s) - 2 \in Int /\ 1 \in Int
        BY <1>1
      <4> DEFINE z == Len(s) - 2
      <4> HIDE DEF z
      <4>2. Max({1, z}) = IF 1 <= z THEN z ELSE 1
        BY <4>1, MinMaxOfTwo DEF z
      <4> QED
        BY <4>2 DEF z
    <3>2. (IF 1 <= Len(s) - 2 THEN Len(s) - 2 ELSE 1) = d + 1
      BY <1>1
    <3> QED
      BY <3>1, <3>2
  <2>2. d \in 0 .. Len(s) /\ (d = 0 \/ d + 3 = Len(s)) /\ Len(s) - d <= 3
    BY <1>1
  <2> HIDE DEF d
  <2>3. Sync(s) = Behind(s, d)
    BY <1>2, <2>1 DEF Sync, Behind
  <2>4. Len(Sync(s)) <= 3 /\ Len(Sync(s)) \in Nat
    <3>1. Len(Behind(s, d)) = Len(s) - d
      BY <2>2, BehindBytes
    <3>2. Len(s) - d \in Nat
      BY <1>1, <2>2
    <3> QED
      BY <2>2, <2>3, <3>1, <3>2
  <2>5. ~Complete(Sync(s))
    BY <2>4 DEF Complete, HdrLen
  <2> QED
    BY <1>2, <2>2, <2>3, <2>5
<1>3. CASE Magics(s) # {}
  <2>1. Magics(s) \subseteq 1 .. Len(s) - 3
    BY DEF Magics
  <2>2. Magics(s) \in SUBSET Nat
    BY <1>1, <2>1
  <2> DEFINE m == Min(Magics(s))
  <2>3. m \in Magics(s) /\ \A k \in Magics(s) : m <= k
    BY <1>3, <2>2, LeastMember
  <2>4. Sync(s) = SubSeq(s, m, Len(s))
    BY <1>3 DEF Sync
  <2> HIDE DEF m
  <2>5. m \in 1 .. Len(s) - 3
    BY <2>1, <2>3
  <2>6. m - 1 \in 0 .. Len(s) /\ (m - 1) + 1 = m
    BY <1>1, <2>5
  <2>7. Sync(s) = Behind(s, m - 1)
    BY <2>4, <2>6 DEF Behind
  <2> QED
    BY <1>3, <2>3, <2>6, <2>7
<1> QED
  BY <1>2, <1>3

(* How many of the bytes on their way a program gets at once.              *)
LEMMA ArrivedBytes ==
  ASSUME ReaderTypes, NEW n \in Arrived \cup {0}
  PROVE  n \in 0 .. Len(port.wire)
<1>1. port.wire \in Seq(Int) /\ Len(port.wire) \in Nat
  BY DEF ReaderTypes, PortRecord
<1>2. CASE n = 0
  BY <1>1, <1>2
<1>3. CASE n # 0
  <2>1. PICK k \in ReadSizes : n = Min({k, Len(port.wire)})
    BY <1>3 DEF Arrived
  <2>2. k \in Nat
    BY StreamAssumption
  <2> QED
    BY <1>1, <2>1, <2>2, MinMaxOfTwo
<1> QED
  BY <1>2, <1>3

LEMMA ReaderFields ==
  ASSUME ReaderTypes
  PROVE  /\ port.wire \in Seq(Int) /\ Len(port.wire) \in Nat
         /\ host.buf \in Seq(Int) /\ Len(host.buf) \in Nat
         /\ host.shown \in Seq(Int \X Int) /\ Len(host.shown) \in Nat
         /\ port.open \in BOOLEAN /\ port.reopens \in BOOLEAN /\ host.prog \in Programs
         /\ Pending \in Seq(Int) /\ Len(Pending) = Len(host.buf) + Len(port.wire)
         /\ \A k \in 1 .. Len(host.buf) : Pending[k] = host.buf[k]
         /\ \A k \in 1 .. Len(port.wire) : Pending[Len(host.buf) + k] = port.wire[k]
<1>1. /\ port.wire \in Seq(Int) /\ host.buf \in Seq(Int) /\ host.shown \in Seq(Int \X Int)
      /\ port.open \in BOOLEAN /\ port.reopens \in BOOLEAN /\ host.prog \in Programs
  BY DEF ReaderTypes, PortRecord, HostRecord
<1> DEFINE b == host.buf
           w == port.wire
<1>2. b \in Seq(Int) /\ w \in Seq(Int)
  BY <1>1
<1>3. Pending = b \o w
  BY DEF Pending
<1> HIDE DEF b, w
<1>4. /\ b \o w \in Seq(Int) /\ Len(b \o w) = Len(b) + Len(w)
      /\ \A k \in 1 .. Len(b) : (b \o w)[k] = b[k]
      /\ \A k \in 1 .. Len(w) : (b \o w)[Len(b) + k] = w[k]
      /\ Len(b) \in Nat /\ Len(w) \in Nat
  BY <1>2
<1>5. Len(host.shown) \in Nat
  BY <1>1
<1> QED
  BY <1>1, <1>3, <1>4, <1>5 DEF b, w

-----------------------------------------------------------------------------
LEMMA ConcatBytes ==
  ASSUME NEW f \in Seq(Int), NEW g \in Seq(Int)
  PROVE  /\ f \o g \in Seq(Int) /\ Len(f \o g) = Len(f) + Len(g)
         /\ Len(f) \in Nat /\ Len(g) \in Nat
         /\ \A k \in 1 .. Len(f) : (f \o g)[k] = f[k]
         /\ \A k \in 1 .. Len(g) : (f \o g)[Len(f) + k] = g[k]
OBVIOUS

(* Bytes are the same however they are put together.                       *)
LEMMA ConcatThree ==
  ASSUME NEW f \in Seq(Int), NEW g \in Seq(Int), NEW h \in Seq(Int)
  PROVE  f \o (g \o h) = (f \o g) \o h
OBVIOUS

(* What is left of written bytes is written bytes.                         *)
LEMMA BehindMatches ==
  ASSUME Types, NEW s \in Seq(Int), NEW r \in Nat, Matches(s, r), NEW d \in 0 .. Len(s)
  PROVE  Matches(Behind(s, d), r + d)
<1> DEFINE t == Behind(s, d)
<1>1. t \in Seq(Int) /\ Len(t) = Len(s) - d /\ \A k \in 1 .. Len(s) - d : t[k] = s[k + d]
  BY BehindBytes
<1>2. Len(s) \in Nat /\ d \in Nat /\ d <= Len(s)
  OBVIOUS
<1> HIDE DEF t
<1>3. d + Len(t) <= Len(s) /\ \A k \in 1 .. Len(t) : t[k] = s[k + d]
  BY <1>1, <1>2
<1>4. Matches(t, r + d)
  BY <1>1, <1>2, <1>3, MatchesPiece
<1> QED
  BY <1>4 DEF t

LEMMA BehindBehind ==
  ASSUME NEW s \in Seq(Int), NEW d \in 0 .. Len(s), NEW c \in 0 .. Len(s) - d
  PROVE  Behind(Behind(s, d), c) = Behind(s, d + c)
<1> DEFINE t == Behind(s, d)
           u == Behind(t, c)
           v == Behind(s, d + c)
<1>1. t \in Seq(Int) /\ Len(t) = Len(s) - d /\ \A k \in 1 .. Len(s) - d : t[k] = s[k + d]
  BY BehindBytes
<1>2. /\ Len(s) \in Nat /\ d \in Nat /\ d <= Len(s) /\ c \in Nat /\ c <= Len(s) - d
      /\ d + c \in 0 .. Len(s) /\ Len(s) - (d + c) = (Len(s) - d) - c
      /\ \A k \in 1 .. (Len(s) - d) - c : k + c \in 1 .. Len(s) - d /\ (k + c) + d = k + (d + c)
  OBVIOUS
<1>3. v \in Seq(Int) /\ Len(v) = (Len(s) - d) - c /\ \A k \in 1 .. (Len(s) - d) - c : v[k] = s[k + (d + c)]
  <2> DEFINE z == d + c
  <2>1. z \in 0 .. Len(s)
    BY <1>2
  <2> HIDE DEF z
  <2>2. /\ Behind(s, z) \in Seq(Int) /\ Len(Behind(s, z)) = Len(s) - z
        /\ \A k \in 1 .. Len(s) - z : Behind(s, z)[k] = s[k + z]
    BY <2>1, BehindBytes
  <2> QED
    BY <1>2, <2>2 DEF z
<1> HIDE DEF t, v
<1>4. u \in Seq(Int) /\ Len(u) = (Len(s) - d) - c /\ \A k \in 1 .. (Len(s) - d) - c : u[k] = t[k + c]
  <2>1. c \in 0 .. Len(t)
    BY <1>1, <1>2
  <2>2. /\ u \in Seq(Int) /\ Len(u) = Len(t) - c /\ \A k \in 1 .. Len(t) - c : u[k] = t[k + c]
    BY <1>1, <2>1, BehindBytes
  <2> QED
    BY <1>1, <2>2
<1> HIDE DEF u
<1>5. \A k \in 1 .. (Len(s) - d) - c : u[k] = v[k]
  BY <1>1, <1>2, <1>3, <1>4
<1>6. u = v
  BY <1>3, <1>4, <1>5, SeqEqual
<1> QED
  BY <1>6 DEF u, v, t

(* The reader's n bytes more: what it keeps and what is still on its way   *)
(* are the end of what both were before.                                   *)
LEMMA PartsOfPending ==
  ASSUME NEW h \in Seq(Int), NEW w \in Seq(Int), NEW n \in 0 .. Len(w)
  PROVE  LET s == h \o SubSeq(w, 1, n)
         IN /\ s \in Seq(Int) /\ Len(s) = Len(h) + n
            /\ \A k \in 1 .. Len(s) : s[k] = (h \o w)[k]
            /\ \A c \in 0 .. Len(s) : Behind(s, c) \o Behind(w, n) = Behind(h \o w, c)
<1> DEFINE t == SubSeq(w, 1, n)
           s == h \o t
           p == h \o w
           u == Behind(w, n)
<1>1. Len(w) \in Nat /\ Len(h) \in Nat /\ n \in Nat /\ n <= Len(w)
  OBVIOUS
<1>2. t \in Seq(Int) /\ Len(t) = n /\ \A k \in 1 .. n : t[k] = w[k]
  <2>1. 1 \in Int /\ n \in Int /\ \A i \in 1 .. n : w[i] \in Int
    BY <1>1
  <2>2. /\ t \in Seq(Int) /\ Len(t) = IF 1 <= n THEN n - 1 + 1 ELSE 0
        /\ \A k \in 1 .. n - 1 + 1 : t[k] = w[1 + k - 1]
    BY <2>1, SubSeqProperties
  <2>3. (IF 1 <= n THEN n - 1 + 1 ELSE 0) = n /\ n - 1 + 1 = n /\ \A k \in 1 .. n : 1 + k - 1 = k
    BY <1>1
  <2> QED
    BY <2>2, <2>3
<1> HIDE DEF t
<1>3. /\ s \in Seq(Int) /\ Len(s) = Len(h) + n
      /\ \A k \in 1 .. Len(h) : s[k] = h[k]
      /\ \A k \in 1 .. n : s[Len(h) + k] = t[k]
  BY <1>2, ConcatBytes
<1>4. /\ p \in Seq(Int) /\ Len(p) = Len(h) + Len(w)
      /\ \A k \in 1 .. Len(h) : p[k] = h[k]
      /\ \A i \in 1 .. Len(w) : p[Len(h) + i] = w[i]
  BY <1>1
<1>5. u \in Seq(Int) /\ Len(u) = Len(w) - n /\ \A k \in 1 .. Len(w) - n : u[k] = w[k + n]
  BY BehindBytes
<1>6. \A i \in 1 .. n : s[Len(h) + i] = w[i]
  BY <1>2, <1>3
<1> HIDE DEF s, p, u
<1>7. ASSUME NEW k \in 1 .. Len(s) PROVE s[k] = p[k]
  <2>1. CASE k \in 1 .. Len(h)
    BY <2>1, <1>3, <1>4
  <2>2. CASE k \notin 1 .. Len(h)
    <3> DEFINE i == k - Len(h)
               lh == Len(h)
               lw == Len(w)
    <3>0. /\ k \in 1 .. lh + n /\ k \notin 1 .. lh
          /\ lh \in Nat /\ lw \in Nat /\ n \in Nat /\ n <= lw /\ i = k - lh
      BY <2>2, <1>1, <1>3
    <3> HIDE DEF i, lh, lw
    <3>1. i \in 1 .. n /\ i \in 1 .. Len(w) /\ Len(h) + i = k
      <4>1. i \in 1 .. n /\ i \in 1 .. lw /\ lh + i = k
        BY <3>0
      <4> QED
        BY <4>1 DEF lh, lw
    <3>2. s[Len(h) + i] = w[i] /\ p[Len(h) + i] = w[i]
      BY <3>1, <1>4, <1>6
    <3> QED
      BY <3>1, <3>2
  <2> QED
    BY <2>1, <2>2
<1>8. ASSUME NEW c \in 0 .. Len(s) PROVE Behind(s, c) \o u = Behind(p, c)
  <2> DEFINE f == Behind(s, c)
             g == Behind(p, c)
             q == f \o u
             m == Len(s) - c
  <2>1. /\ c \in Nat /\ m \in Nat /\ c \in 0 .. Len(p) /\ Len(s) \in Nat
        /\ Len(p) - c = m + (Len(w) - n) /\ Len(w) - n \in Nat /\ m + c = Len(h) + n
    BY <1>1, <1>3, <1>4
  <2>2. f \in Seq(Int) /\ Len(f) = m /\ \A k \in 1 .. m : f[k] = s[k + c]
    BY <1>3, BehindBytes
  <2>3. g \in Seq(Int) /\ Len(g) = Len(p) - c /\ \A k \in 1 .. Len(p) - c : g[k] = p[k + c]
    BY <1>4, <2>1, BehindBytes
  <2> HIDE DEF f, g
  <2>4. /\ q \in Seq(Int) /\ Len(q) = Len(f) + Len(u)
        /\ \A k \in 1 .. Len(f) : q[k] = f[k]
        /\ \A k \in 1 .. Len(u) : q[Len(f) + k] = u[k]
    BY <2>2, <1>5, ConcatBytes
  <2>5. m \in Nat /\ Len(q) = m + (Len(w) - n)
    BY <2>1, <2>2, <2>4, <1>5
  <2>6. ASSUME NEW k \in 1 .. m + (Len(w) - n) PROVE q[k] = g[k]
    <3>1. k \in 1 .. Len(p) - c /\ g[k] = p[k + c]
      BY <2>1, <2>3
    <3>2. CASE k \in 1 .. m
      <4>1. k + c \in 1 .. Len(s)
        BY <3>2, <2>1
      <4>2. q[k] = f[k] /\ f[k] = s[k + c] /\ s[k + c] = p[k + c]
        BY <3>2, <4>1, <2>2, <2>4, <1>7
      <4> QED
        BY <3>1, <4>2
    <3>3. CASE k \notin 1 .. m
      <4> DEFINE i == k - m
                 x == i + n
      <4>1. i \in 1 .. Len(w) - n /\ m + i = k /\ x \in 1 .. Len(w) /\ Len(h) + x = k + c
        <5>1. k \in Nat /\ k <= m + (Len(w) - n) /\ k > m
          BY <3>3, <2>1
        <5>2. i + m = k /\ i \in Nat /\ i > 0 /\ i <= Len(w) - n
          BY <5>1, <2>1
        <5>3. c \in Nat /\ Len(h) \in Nat /\ n \in Nat /\ Len(w) \in Nat /\ m \in Nat /\ m + c = Len(h) + n
          BY <2>1, <1>1
        <5> HIDE DEF m, i
        <5>4. i \in 1 .. Len(w) - n /\ m + i = k
          BY <5>1, <5>2, <5>3
        <5>5. i + n \in 1 .. Len(w)
          BY <5>2, <5>3
        <5>6. Len(h) + (i + n) = k + c
          <6>1. Len(h) + (i + n) = (Len(h) + n) + i
            BY <5>2, <5>3
          <6>2. (Len(h) + n) + i = (m + c) + i
            BY <5>3
          <6>3. (m + c) + i = (i + m) + c
            BY <5>2, <5>3
          <6> QED
            BY <5>2, <6>1, <6>2, <6>3
        <5> QED
          BY <5>4, <5>5, <5>6
      <4> HIDE DEF m, i
      <4>2. q[m + i] = u[i]
        BY <4>1, <2>2, <2>4, <1>5
      <4>3. u[i] = w[x]
        BY <4>1, <1>5
      <4> HIDE DEF x
      <4>4. p[Len(h) + x] = w[x]
        BY <4>1, <1>4
      <4> QED
        BY <3>1, <4>1, <4>2, <4>3, <4>4
    <3> QED
      BY <3>2, <3>3
  <2> HIDE DEF m, q
  <2>7. q = g
    BY <2>1, <2>3, <2>4, <2>5, <2>6, SeqEqual
  <2> QED
    BY <2>7 DEF q, f, g
<1>9. /\ s \in Seq(Int) /\ Len(s) = Len(h) + n
      /\ \A k \in 1 .. Len(s) : s[k] = p[k]
      /\ \A c \in 0 .. Len(s) : Behind(s, c) \o u = Behind(p, c)
  BY <1>3, <1>7, <1>8
<1> QED
  BY <1>9 DEF s, p, u, t

-----------------------------------------------------------------------------
(* No header that has arrived whole is thrown away. *)
Skipped(d) == {i \in 1 .. Len(log) : /\ Framed(log[i]) /\ log[i].put >= 4
                                     /\ Done <= log[i].at /\ log[i].at < Done + d}

(* One round of read_packet: the reader skips d bytes; then it waits for   *)
(* more, or takes the packet whose header begins there.                    *)
Waits(d) == Done' = Done + d /\ host'.shown = host.shown
Takes(d, b) ==
  /\ Complete(b) /\ PacketLen(b) \in Nat
  /\ \E j \in 1 .. Len(log) : log[j].at = Done + d /\ log[j].put >= 4 /\ Framed(log[j])
  /\ Done' = (Done + d) + PacketLen(b)
  /\ host'.shown = host.shown \o Shown(host.prog, b[6], SubSeq(b, HdrLen + 1, PacketLen(b)))

(* The reader skips nothing that begins a packet. *)
LEMMA SkipsNoHeader ==
  ASSUME Types, Layout, NEW s \in Seq(Int), NEW r \in Nat, Matches(s, r), NEW d \in 0 .. Len(s),
         Magics(s) = {} => d = 0 \/ d + 3 = Len(s),
         Magics(s) # {} => d + 1 \in Magics(s) /\ \A m \in Magics(s) : d + 1 <= m,
         NEW i \in 1 .. Len(log), Framed(log[i]), log[i].put >= 4,
         r <= log[i].at, log[i].at < r + d
  PROVE  FALSE
<1> DEFINE a == log[i].at
<1>1. a \in Nat /\ d \in Nat /\ Len(s) \in Nat
  BY Entries, EntrySizes
<1>2. r <= a /\ a < r + d
  OBVIOUS
<1>3. Magics(s) # {} => d + 4 <= Len(s)
  <2>1. Magics(s) \subseteq 1 .. Len(s) - 3
    BY DEF Magics
  <2> QED
    BY <1>1, <2>1
<1>4. a + 4 <= r + Len(s)
  <2>1. d = 0 \/ d + 3 = Len(s) \/ d + 4 <= Len(s)
    BY <1>3
  <2> HIDE DEF a
  <2> QED
    BY <1>1, <1>2, <2>1
<1>5. (a + 1) - r \in Magics(s)
  BY <1>4, HeaderIsMagic
<1>6. d + 1 <= (a + 1) - r
  BY <1>5
<1> HIDE DEF a
<1> QED
  BY <1>1, <1>2, <1>6

(* What the reader finds a packet in begins with a header. *)
LEMMA PacketHasHeader ==
  ASSUME Types, Layout, NEW s \in Seq(Int), NEW r \in Nat, Matches(s, r), NEW d \in Nat,
         d + 1 \in Magics(s)
  PROVE  \E j \in 1 .. Len(log) : log[j].at = r + d /\ log[j].put >= 4 /\ Framed(log[j])
<1>1. PICK j \in 1 .. Len(log) : log[j].at + 1 = r + (d + 1) /\ log[j].put >= 4 /\ Framed(log[j])
  BY MagicIsHeader
<1> DEFINE a == log[j].at
<1>2. a \in Nat /\ a + 1 = r + (d + 1)
  BY <1>1, Entries, EntrySizes
<1> HIDE DEF a
<1>3. a = r + d
  BY <1>2
<1> QED
  BY <1>1, <1>3 DEF a

(* Bytes are taken or thrown away from the front only. *)
LEMMA FrontDropped ==
  ASSUME Types, Pending \in Seq(Int), Done \in Nat, Matches(Pending, Done),
         NEW c \in 0 .. Len(Pending), Pending' = Behind(Pending, c),
         log' = log, BytesOut' = BytesOut
  PROVE  InStream' /\ Done' = Done + c
<1> DEFINE r == Done
<1>1. c \in Nat /\ c <= Len(Pending) /\ Len(Pending) \in Nat /\ r \in Nat
  OBVIOUS
<1>2. Behind(Pending, c) \in Seq(Int) /\ Len(Behind(Pending, c)) = Len(Pending) - c
  BY BehindBytes
<1>3. Done' = r + c
  <2>1. BytesOut \in Nat /\ r = BytesOut - Len(Pending) /\ Done' = BytesOut - (Len(Pending) - c)
    BY <1>2, BytesOutTyped DEF Done
  <2> HIDE DEF r
  <2> QED
    BY <1>1, <2>1
<1>4. Matches(Behind(Pending, c), r + c)
  BY BehindMatches
<1>5. Matches(Pending, Done)'
  <2> DEFINE x == Pending'
             y == Done'
             z == Behind(Pending, c)
  <2>1. x = z /\ y = r + c /\ log' = log /\ BytesOut' = BytesOut /\ Matches(z, r + c)
    BY <1>3, <1>4
  <2> HIDE DEF x, y, z, r
  <2>2. /\ y + Len(x) <= BytesOut'
        /\ \A q \in 1 .. Len(x) : \A i \in 1 .. Len(log') :
             log'[i].at < y + q /\ y + q <= EndOf(log'[i])
               => x[q] = ByteOf(log'[i], (y + q) - log'[i].at)
    BY <2>1, Zenon DEF Matches
  <2> QED
    BY <2>2 DEF Matches, x, y
<1>6. r + c >= 0
  BY <1>1
<1> QED
  BY <1>3, <1>5, <1>6 DEF InStream

LEMMA RoundOfReader ==
  ASSUME Types, ReaderTypes, Layout, InStream, ReadSome
  PROVE  /\ log' = log /\ dev' = dev /\ port'.open = port.open /\ port'.reopens = port.reopens
         /\ host'.prog = host.prog
         /\ ReaderTypes' /\ InStream'
         /\ \E d \in Nat, b \in Seq(Int) :
              /\ Skipped(d) = {} /\ Done + d \in Nat /\ Matches(b, Done + d)
              /\ Waits(d) \/ Takes(d, b)
<1>1. PICK n \in Arrived :
       LET buf == Sync(host.buf \o SubSeq(port.wire, 1, n))
       IN /\ port' = [port EXCEPT !.wire = Unread(n)]
          /\ host' =
               IF Complete(buf)
               THEN [host EXCEPT
                       !.buf = Rest(buf),
                       !.shown = host.shown \o Shown(host.prog, buf[6],
                                            SubSeq(buf, HdrLen + 1, PacketLen(buf))),
                       !.pc = IF host.prog = "view" THEN "pump" ELSE "read"]
               ELSE [host EXCEPT !.buf = buf]
  BY DEF ReadSome
<1>2. log' = log /\ dev' = dev
  BY DEF ReadSome
<1> DEFINE w == port.wire
           h == host.buf
           s == h \o SubSeq(w, 1, n)
           b == Sync(s)
           r == Done
<1>3. w \in Seq(Int) /\ Len(w) \in Nat /\ h \in Seq(Int) /\ Len(h) \in Nat /\ n \in 0 .. Len(w)
  BY ReaderFields, ArrivedBytes
<1>4. Unread(n) = Behind(w, n) /\ Behind(w, n) \in Seq(Int)
  <2>1. Unread(n) = Behind(w, n)
    BY DEF Unread, Behind
  <2> HIDE DEF w
  <2> QED
    BY <1>3, <2>1, BehindBytes
<1>5. /\ Pending = h \o w /\ Pending \in Seq(Int) /\ Len(Pending) = Len(h) + Len(w)
      /\ r \in Nat /\ Matches(Pending, r)
  <2>1. BytesOut \in Nat
    BY BytesOutTyped
  <2>2. Done \in Nat
    BY <2>1, ReaderFields DEF Done, InStream
  <2> QED
    BY <2>2, ReaderFields DEF InStream, Pending
<1>6. /\ s \in Seq(Int) /\ Len(s) = Len(h) + n
      /\ \A k \in 1 .. Len(s) : s[k] = Pending[k]
      /\ \A c \in 0 .. Len(s) : Behind(s, c) \o Behind(w, n) = Behind(Pending, c)
  <2> HIDE DEF w, h
  <2> QED
    BY <1>3, <1>5, PartsOfPending DEF s
<1> HIDE DEF w, h, s, b, r
<1>7. Len(s) \in Nat /\ Len(s) <= Len(Pending) /\ Len(Pending) \in Nat
  BY <1>3, <1>5, <1>6
<1>8. Matches(s, r)
  <2>1. 0 + Len(s) <= Len(Pending) /\ \A k \in 1 .. Len(s) : s[k] = Pending[k + 0]
    <3>1. \A k \in 1 .. Len(s) : k + 0 = k
      BY <1>7
    <3> QED
      BY <1>6, <1>7, <3>1
  <2>2. r + 0 = r
    BY <1>5
  <2>3. Matches(s, r + 0)
    <3>1. 0 \in Nat /\ r \in Nat /\ Pending \in Seq(Int) /\ s \in Seq(Int) /\ Matches(Pending, r)
      BY <1>5, <1>6
    <3> QED
      BY <2>1, <3>1, MatchesPiece
  <2> QED
    BY <2>2, <2>3
<1>9. PICK d \in 0 .. Len(s) :
        /\ b = Behind(s, d)
        /\ Magics(s) = {} => (d = 0 \/ d + 3 = Len(s)) /\ ~Complete(b)
        /\ Magics(s) # {} => d + 1 \in Magics(s) /\ \A m \in Magics(s) : d + 1 <= m
  BY <1>6, SyncKeeps DEF b
<1>10. d \in Nat /\ d <= Len(s) /\ b \in Seq(Int) /\ Len(b) = Len(s) - d /\ Len(b) \in Nat
  <2>1. d \in Nat /\ d <= Len(s)
    BY <1>7
  <2>2. Behind(s, d) \in Seq(Int) /\ Len(Behind(s, d)) = Len(s) - d
    BY <1>6, BehindBytes
  <2> QED
    BY <1>7, <1>9, <2>1, <2>2
<1>11. Matches(b, r + d) /\ r + d \in Nat
  <2>1. Matches(Behind(s, d), r + d)
    BY <1>5, <1>6, <1>8, BehindMatches
  <2> QED
    BY <1>5, <1>9, <1>10, <2>1
<1>12. Skipped(d) = {}
  <2> SUFFICES ASSUME NEW i \in 1 .. Len(log), Framed(log[i]), log[i].put >= 4,
                      r <= log[i].at, log[i].at < r + d
               PROVE  FALSE
    BY DEF Skipped, r
  <2> QED
    BY <1>5, <1>6, <1>8, <1>9, SkipsNoHeader
<1>13. /\ port'.open = port.open /\ port'.reopens = port.reopens /\ host'.prog = host.prog
       /\ port' \in PortRecord /\ port'.wire = Behind(w, n)
  BY <1>1, <1>4 DEF ReaderTypes, PortRecord, HostRecord
(* What is left is the end of what was there. *)
<1>14. ASSUME NEW c \in 0 .. Len(s), host'.buf = Behind(s, c)
       PROVE  InStream' /\ Done' = r + c
  <2>1. c \in 0 .. Len(Pending) /\ c \in Nat /\ c <= Len(Pending)
    BY <1>7
  <2>2. Pending' = Behind(Pending, c) /\ BytesOut' = BytesOut
    <3>1. Pending' = Behind(s, c) \o Behind(w, n)
      BY <1>13, <1>14 DEF Pending
    <3>2. BytesOut' = BytesOut
      BY <1>2 DEF BytesOut
    <3> QED
      BY <1>6, <3>1, <3>2
  <2>3. Pending \in Seq(Int) /\ Done \in Nat /\ Matches(Pending, Done)
    BY <1>5 DEF r
  <2>4. c \in 0 .. Len(Pending) /\ log' = log
    BY <1>2, <2>1
  <2>5. InStream' /\ Done' = Done + c
    BY <2>2, <2>3, <2>4, FrontDropped
  <2> QED
    BY <2>5 DEF r
<1>15. CASE ~Complete(b)
  <2>1. host' = [host EXCEPT !.buf = b]
    BY <1>1, <1>15 DEF b, s, w, h
  <2>2. host' \in HostRecord /\ host'.buf = b /\ host'.shown = host.shown
    BY <1>10, <2>1 DEF ReaderTypes, HostRecord
  <2>3. InStream' /\ Done' = r + d
    BY <1>9, <1>14, <2>2
  <2>4. Waits(d)
    BY <2>2, <2>3 DEF Waits, r
  <2> QED
    BY <1>2, <1>10, <1>11, <1>12, <1>13, <2>2, <2>3, <2>4 DEF ReaderTypes, r
<1>16. CASE Complete(b)
  <2> DEFINE N == PacketLen(b)
             sh == Shown(host.prog, b[6], SubSeq(b, HdrLen + 1, N))
  <2>1. PICK j \in 1 .. Len(log) : log[j].at = r + d /\ log[j].put >= 4 /\ Framed(log[j])
    <3>1. d + 1 \in Magics(s)
      BY <1>9, <1>16
    <3> QED
      BY <1>5, <1>6, <1>8, <1>10, <3>1, PacketHasHeader
  <2>2. N \in HdrLen .. Len(b) /\ (sh = <<>> \/ \E px : sh = <<px>> /\ Yields(host.prog, log[j], px))
    BY <1>10, <1>11, <1>16, <2>1, PacketRead
  <2>3. N \in Nat /\ N <= Len(b)
    BY <1>10, <2>2 DEF HdrLen
  <2> HIDE DEF N, sh
  <2>4. sh \in Seq(Int \X Int)
    <3>1. CASE sh = <<>>
      BY <3>1
    <3>2. CASE \E px : sh = <<px>> /\ Yields(host.prog, log[j], px)
      <4>1. PICK px : sh = <<px>> /\ Yields(host.prog, log[j], px)
        BY <3>2
      <4>2. px \in Int \X Int
        BY <4>1 DEF Yields
      <4> DEFINE S == Int \X Int
      <4> HIDE DEF S
      <4>3. px \in S => <<px>> \in Seq(S)
        OBVIOUS
      <4> QED
        BY <4>1, <4>2, <4>3 DEF S
    <3> QED
      BY <2>2, <3>1, <3>2
  <2>5. d + N \in 0 .. Len(s) /\ N \in 0 .. Len(s) - d
    BY <1>7, <1>10, <2>3
  <2>6. Rest(b) = Behind(s, d + N) /\ Behind(s, d + N) \in Seq(Int)
    <3>1. Rest(b) = Behind(b, N)
      BY DEF Rest, Behind, N
    <3>2. Behind(Behind(s, d), N) = Behind(s, d + N)
      BY <1>6, <2>5, BehindBehind
    <3>3. Behind(s, d + N) \in Seq(Int)
      BY <1>6, <2>5, BehindBytes
    <3> QED
      BY <1>9, <3>1, <3>2, <3>3
  <2>7. /\ host' \in HostRecord /\ host'.buf = Behind(s, d + N)
        /\ host'.shown = host.shown \o sh
    <3> DEFINE all == host.shown \o sh
    <3>1. all \in Seq(Int \X Int)
      BY <2>4, ReaderFields
    <3> HIDE DEF all
    <3>2. host' = [host EXCEPT !.buf = Behind(s, d + N), !.shown = all,
                               !.pc = IF host.prog = "view" THEN "pump" ELSE "read"]
      BY <1>1, <1>16, <2>6 DEF b, s, w, h, N, sh, all
    <3>3. host' \in HostRecord /\ host'.buf = Behind(s, d + N) /\ host'.shown = all
      BY <2>6, <3>1, <3>2 DEF ReaderTypes, HostRecord
    <3> QED
      BY <3>3 DEF all
  <2>8. InStream' /\ Done' = r + (d + N)
    BY <1>14, <2>5, <2>7
  <2>9. Done' = (r + d) + N
    BY <1>5, <1>10, <2>3, <2>8
  <2>10. Takes(d, b)
    BY <1>16, <2>1, <2>3, <2>7, <2>9 DEF Takes, N, sh, r
  <2> QED
    BY <1>2, <1>10, <1>11, <1>12, <1>13, <2>7, <2>8, <2>10 DEF ReaderTypes, r
<1> QED
  BY <1>15, <1>16

-----------------------------------------------------------------------------
(* What is shown, and in which order.                                      *)

LEMMA InOrder ==
  ASSUME Types, Layout, NEW i \in 1 .. Len(log), NEW j \in 1 .. Len(log)
  PROVE  /\ log[i].at < log[j].at => i < j
         /\ log[i].at = log[j].at /\ log[i].put > 0 /\ log[j].put > 0 => i = j
<1>1. i \in Nat /\ j \in Nat
  BY DEF Types
<1> DEFINE ai == log[i].at
           aj == log[j].at
           ei == EndOf(log[i])
           ej == EndOf(log[j])
           pi == log[i].put
           pj == log[j].put
<1>2. /\ ai \in Nat /\ pi \in Nat /\ ei = ai + pi /\ aj \in Nat /\ pj \in Nat /\ ej = aj + pj
      /\ (j < i => ej <= ai) /\ (i < j => ei <= aj) /\ (i = j => ai = aj)
  BY Entries, EntrySizes DEF Layout
<1> HIDE DEF ai, aj, ei, ej, pi, pj
<1>3. (ai < aj => i < j) /\ (ai = aj /\ pi > 0 /\ pj > 0 => i = j)
  BY <1>1, <1>2
<1> QED
  BY <1>3 DEF ai, aj, pi, pj

LEMMA PixelOf ==
  \A m \in Nat : Pixel(m)[1] = m /\ Pixel(m) \in Int \X Int
BY DEF Pixel

(* What a packet adds to what is shown. *)
LEMMA AddedToShown ==
  ASSUME NEW s \in Seq(Int \X Int), NEW px \in Int \X Int
  PROVE  /\ Len(s) \in Nat /\ Len(s \o <<px>>) = Len(s) + 1
         /\ \A k \in 1 .. Len(s) : (s \o <<px>>)[k] = s[k]
         /\ (s \o <<px>>)[Len(s) + 1] = px /\ s \o <<>> = s
<1> DEFINE S == Int \X Int
<1> HIDE DEF S
<1>1. s \in Seq(S) /\ px \in S
  BY DEF S
<1> QED
  BY <1>1

LEMMA DoneGrows ==
  ASSUME NEW r \in Nat, NEW d \in Nat, NEW b \in Seq(Int), r = Done, Waits(d) \/ Takes(d, b)
  PROVE  Done' \in Nat /\ r <= Done'
<1>1. CASE Waits(d)
  BY <1>1 DEF Waits
<1>2. CASE Takes(d, b)
  BY <1>2 DEF Takes
<1> QED
  BY <1>1, <1>2

(* A packet that is taken begins with a header that is not done with yet.  *)
LEMMA TakenPacket ==
  ASSUME Types, Layout, NEW d \in Nat, NEW b \in Seq(Int), Done \in Nat,
         Done + d \in Nat, Matches(b, Done + d), Takes(d, b), host.prog \in Programs
  PROVE  \E j \in 1 .. Len(log) :
           /\ log[j].at = Done + d /\ log[j].put >= 4 /\ Framed(log[j]) /\ log[j].at < Done'
           /\ log[j].put >= HdrLen =>
                Done' = log[j].at + log[j].size /\ log[j].at + log[j].size <= BytesOut
           /\ \/ host'.shown = host.shown \o <<>>
              \/ \E px : host'.shown = host.shown \o <<px>> /\ Yields(host.prog, log[j], px)
           /\ log[j].type = EventBin /\ Whole(j) /\ Shows(host.prog, Pixel(log[j].event))
              => host'.shown = host.shown \o << Pixel(log[j].event) >>
<1> DEFINE r == Done
           N == PacketLen(b)
           sh == Shown(host.prog, b[6], SubSeq(b, HdrLen + 1, N))
<1>1. PICK j \in 1 .. Len(log) : log[j].at = r + d /\ log[j].put >= 4 /\ Framed(log[j])
  BY DEF Takes
<1>2. Complete(b) /\ N \in Nat /\ Done' = (r + d) + N /\ host'.shown = host.shown \o sh
  BY DEF Takes
<1>3. /\ N \in HdrLen .. Len(b)
      /\ log[j].put >= HdrLen => N = log[j].size
      /\ sh = <<>> \/ \E px : sh = <<px>> /\ Yields(host.prog, log[j], px)
      /\ /\ log[j].type = EventBin /\ Whole(j)
         /\ Shows(host.prog, Pixel(log[j].event))
         => sh = << Pixel(log[j].event) >>
  BY <1>1, <1>2, PacketRead
<1>4. (r + d) + Len(b) <= BytesOut /\ BytesOut \in Nat /\ Len(b) \in Nat
  BY BytesOutTyped DEF Matches
<1>8. r \in Nat
  OBVIOUS
<1> DEFINE a == log[j].at
           n == log[j].put
           z == log[j].size
           e == Done'
<1>5. a \in Nat /\ z \in Nat
  BY Entries, EntrySizes
<1> HIDE DEF N, sh, r
<1>6. a < e /\ (n >= HdrLen => e = a + z /\ a + z <= BytesOut)
  <2>1. /\ a = r + d /\ e = (r + d) + N /\ N \in Nat /\ N >= 8 /\ N <= Len(b)
        /\ (n >= HdrLen => N = z)
    BY <1>1, <1>2, <1>3, <1>4, <1>8 DEF HdrLen
  <2> HIDE DEF a, n, z, e
  <2> QED
    BY <1>4, <1>5, <1>8, <2>1
<1>7. \/ host'.shown = host.shown \o <<>>
      \/ \E px : host'.shown = host.shown \o <<px>> /\ Yields(host.prog, log[j], px)
  BY <1>2, <1>3
<1> QED
  BY <1>1, <1>2, <1>3, <1>6, <1>7 DEF r

LEMMA ReaderKeepsShown ==
  ASSUME Types, ReaderTypes, Layout, FromPackets, NEW d \in Nat, NEW b \in Seq(Int),
         Done \in Nat, Done + d \in Nat, Matches(b, Done + d), Waits(d) \/ Takes(d, b),
         log' = log, host'.prog = host.prog
  PROVE  FromPackets'
<1> DEFINE shown == host.shown
           new == host'.shown
           r == Done
           e == Done'
<1>1. shown \in Seq(Int \X Int) /\ Len(shown) \in Nat /\ host.prog \in Programs
  BY ReaderFields
<1>2. r \in Nat /\ e \in Nat /\ r <= e
  BY DoneGrows
<1>3. /\ Events' = Events /\ host'.prog = host.prog
      /\ \A j \in Events : log'[j] = log[j] /\ log[j].at \in Nat /\ j \in 1 .. Len(log)
  <2>1. \A j \in Events : j \in 1 .. Len(log)
    BY DEF Events
  <2> QED
    BY <2>1, Entries, EntrySizes DEF Events
<1>4. ASSUME NEW i \in 1 .. Len(shown), OnScreen(shown[i])
      PROVE  /\ \E j \in Events' : /\ shown[i] = Pixel(log'[j].event)
                                   /\ log'[j].put >= HdrLen + 4 /\ log'[j].at < e
             /\ \A k \in 1 .. i - 1 : OnScreen(shown[k]) => shown[k][1] < shown[i][1]
  <2>1. /\ \E j \in Events : /\ shown[i] = Pixel(log[j].event)
                             /\ log[j].put >= HdrLen + 4 /\ log[j].at < r
        /\ \A k \in 1 .. i - 1 : OnScreen(shown[k]) => shown[k][1] < shown[i][1]
    BY <1>4 DEF FromPackets
  <2> HIDE DEF r, e, shown
  <2>2. PICK j \in Events : /\ shown[i] = Pixel(log[j].event)
                            /\ log[j].put >= HdrLen + 4 /\ log[j].at < r
    BY <2>1
  <2>3. log[j].at < e /\ log'[j] = log[j] /\ j \in Events'
    BY <1>2, <1>3, <2>2
  <2> QED
    BY <2>1, <2>2, <2>3
<1>5. CASE new = shown
  BY <1>3, <1>4, <1>5 DEF FromPackets
<1>6. ASSUME NEW j \in 1 .. Len(log), NEW px, new = shown \o <<px>>, Yields(host.prog, log[j], px),
             r <= log[j].at, log[j].at < e
      PROVE  FromPackets'
  <2>1. /\ Len(new) = Len(shown) + 1 /\ \A k \in 1 .. Len(shown) : new[k] = shown[k]
        /\ new[Len(shown) + 1] = px
    <3>1. px \in Int \X Int
      BY <1>6 DEF Yields
    <3> HIDE DEF new, shown
    <3> QED
      BY <1>1, <1>6, <3>1, AddedToShown
  <2>2. ASSUME host.prog = "view", NEW i \in 1 .. Len(new) PROVE OnScreen(new[i])
    <3>1. CASE i \in 1 .. Len(shown)
      BY <2>1, <2>2, <3>1 DEF FromPackets
    <3>2. CASE i \notin 1 .. Len(shown)
      <4>1. i = Len(shown) + 1
        BY <3>2, <2>1, <1>1
      <4>2. OnScreen(px)
        BY <1>6, <2>2 DEF Yields, Shows
      <4> QED
        BY <2>1, <4>1, <4>2
    <3> QED
      BY <3>1, <3>2
  <2>3. ASSUME NEW i \in 1 .. Len(new), OnScreen(new[i])
        PROVE  /\ \E m \in Events' : /\ new[i] = Pixel(log'[m].event)
                                     /\ log'[m].put >= HdrLen + 4 /\ log'[m].at < e
               /\ \A k \in 1 .. i - 1 : OnScreen(new[k]) => new[k][1] < new[i][1]
    <3>1. CASE i \in 1 .. Len(shown)
      <4>1. new[i] = shown[i] /\ \A k \in 1 .. i - 1 : k \in 1 .. Len(shown) /\ new[k] = shown[k]
        <5> DEFINE l == Len(shown)
        <5>1. l \in Nat /\ i \in 1 .. l /\ \A k \in 1 .. l : new[k] = shown[k]
          BY <1>1, <2>1, <3>1
        <5> HIDE DEF l, new, shown
        <5>2. \A k \in 1 .. i - 1 : k \in 1 .. l
          BY <5>1
        <5> QED
          BY <5>1, <5>2 DEF l
      <4> HIDE DEF new, shown, e
      <4> QED
        BY <3>1, <4>1, <1>4, <2>3
    <3>2. CASE i \notin 1 .. Len(shown)
      <4>1. i = Len(shown) + 1 /\ new[i] = px
        BY <3>2, <2>1, <1>1
      <4>2. /\ log[j].type = EventBin /\ px = Pixel(log[j].event) /\ log[j].put >= HdrLen + 4
            /\ j \in Events
        BY <1>6, <2>3, <4>1 DEF Yields, Events
      <4>3. ASSUME NEW k \in 1 .. i - 1, OnScreen(new[k]) PROVE new[k][1] < px[1]
        <5>1. k \in 1 .. Len(shown) /\ new[k] = shown[k]
          BY <4>1, <2>1, <1>1
        <5>2. PICK m \in Events : shown[k] = Pixel(log[m].event) /\ log[m].at < r
          BY <4>3, <5>1 DEF FromPackets
        <5>3. log[m].at < log[j].at
          <6>1. log[m].at \in Nat /\ log[j].at \in Nat
            BY <1>3, <4>2
          <6> HIDE DEF r
          <6> QED
            BY <1>2, <1>6, <5>2, <6>1
        <5>4. m < j
          BY <1>3, <5>3, InOrder
        <5>5. log[m].event < log[j].event
          BY <4>2, <5>4 DEF Layout
        <5>6. log[m].event \in Nat /\ log[j].event \in Nat
          BY <1>3, Entries, EntrySizes
        <5>7. shown[k][1] = log[m].event /\ px[1] = log[j].event
          BY <4>2, <5>2, <5>6, PixelOf
        <5> QED
          BY <5>1, <5>5, <5>7
      <4> QED
        BY <1>3, <1>6, <4>1, <4>2, <4>3
    <3> QED
      BY <3>1, <3>2
  <2> HIDE DEF new, e
  <2> QED
    BY <1>3, <2>2, <2>3 DEF FromPackets, new, e
<1>7. CASE Waits(d)
  BY <1>5, <1>7 DEF Waits
<1>8. CASE Takes(d, b)
  <2>1. PICK j \in 1 .. Len(log) :
           /\ log[j].at = r + d /\ log[j].at < e
           /\ \/ host'.shown = host.shown \o <<>>
              \/ \E px : host'.shown = host.shown \o <<px>> /\ Yields(host.prog, log[j], px)
    BY <1>1, <1>2, <1>8, TakenPacket
  <2>2. r <= log[j].at
    <3> HIDE DEF r
    <3> QED
      BY <1>2, <2>1
  <2>3. CASE host'.shown = host.shown \o <<>>
    <3>1. new = shown
      BY <1>1, <2>3
    <3> QED
      BY <1>5, <3>1
  <2>4. CASE \E px : host'.shown = host.shown \o <<px>> /\ Yields(host.prog, log[j], px)
    <3>1. PICK px : host'.shown = host.shown \o <<px>> /\ Yields(host.prog, log[j], px)
      BY <2>4
    <3> QED
      BY <1>6, <2>1, <2>2, <3>1
  <2> QED
    BY <2>1, <2>3, <2>4
<1> QED
  BY <1>7, <1>8

-----------------------------------------------------------------------------
(* The reader keeps the invariant.                                         *)

LEMMA EventSize ==
  ASSUME NEW e, WellFormed(e), e.type = EventBin
  PROVE  e.size \in {12, 16}
BY EntrySizes DEF EventBin, LogText, Marker, Plain

(* The last entry of a call that writes its payload is a header so far.    *)
LEMMA BecomingIs ==
  ASSUME Types, Layout, PacketOfCall, NEW i \in Events, Becoming(i)
  PROVE  /\ i \in 1 .. Len(log) /\ Framed(log[i]) /\ log[i].put >= HdrLen
         /\ \/ Whole(i) /\ log[i].put = log[i].size
            \/ i = Len(log) /\ log[i].put = HdrLen /\ BytesOut = log[i].at + HdrLen
<1>1. i \in 1 .. Len(log) /\ log[i].type = EventBin
  BY DEF Events
<1>2. log[i].at \in Nat /\ log[i].put \in Nat /\ log[i].size \in {12, 16}
  BY <1>1, Entries, EntrySizes DEF EventBin, LogText, Marker, Plain
<1>3. Framed(log[i])
  BY <1>1 DEF Framed, EventBin, Plain
<1>4. CASE Whole(i)
  <2>1. log[i].put = log[i].size
    BY <1>4 DEF Whole
  <2> QED
    BY <1>1, <1>2, <1>3, <1>4, <2>1 DEF HdrLen
<1>5. CASE i = Len(log) /\ dev.pc = "payload"
  <2>1. log # <<>> /\ log[i].put = HdrLen
    BY <1>5 DEF PacketOfCall, InPacket
  <2>2. BytesOut = log[i].at + HdrLen
    BY <1>5, <2>1, BytesOutIs DEF EndOf
  <2> QED
    BY <1>1, <1>3, <1>5, <2>1, <2>2 DEF HdrLen
<1> QED
  BY <1>4, <1>5 DEF Becoming

LEMMA ReaderKeepsOwed ==
  ASSUME Types, PacketOfCall, ReaderTypes, Layout, OwedAreShown,
         NEW d \in Nat, NEW b \in Seq(Int), Skipped(d) = {},
         Done \in Nat, Done + d \in Nat, Matches(b, Done + d), Waits(d) \/ Takes(d, b),
         log' = log, dev' = dev, host'.prog = host.prog,
         port'.open = port.open, port'.reopens = port.reopens
  PROVE  OwedAreShown'
<1> DEFINE r == Done
           e == Done'
           shown == host.shown
           new == host'.shown
<1>1. shown \in Seq(Int \X Int) /\ Len(shown) \in Nat /\ host.prog \in Programs
  BY ReaderFields
<1>2. r \in Nat /\ e \in Nat /\ r <= e
  BY DoneGrows
<1>3. /\ Events' = Events /\ NoHeaderCut' = NoHeaderCut
      /\ \A i \in Events : /\ Becoming(i)' = Becoming(i) /\ Unhit(i)' = Unhit(i)
                           /\ log'[i] = log[i]
  BY DEF Events, NoHeaderCut, Becoming, Unhit, Whole, Cuts, Cut
(* What was shown is shown. *)
<1>4. new = shown \/ \E px \in Int \X Int : new = shown \o <<px>>
  <2>1. CASE Waits(d)
    BY <2>1 DEF Waits
  <2>2. CASE Takes(d, b)
    <3>1. PICK j \in 1 .. Len(log) :
             \/ host'.shown = host.shown \o <<>>
             \/ \E px : host'.shown = host.shown \o <<px>> /\ Yields(host.prog, log[j], px)
      BY <1>1, <2>2, TakenPacket
    <3>2. CASE host'.shown = host.shown \o <<>>
      BY <1>1, <3>2
    <3>3. CASE \E px : host'.shown = host.shown \o <<px>> /\ Yields(host.prog, log[j], px)
      BY <3>3 DEF Yields
    <3> QED
      BY <3>1, <3>2, <3>3
  <2> QED
    BY <2>1, <2>2
<1>5. ASSUME NEW i \in Events, IsShown(i) PROVE IsShown(i)'
  <2>1. PICK k \in 1 .. Len(shown) : shown[k] = Pixel(log[i].event)
    BY <1>5 DEF IsShown
  <2>2. k \in 1 .. Len(new) /\ new[k] = shown[k]
    <3>1. CASE new = shown
      BY <3>1
    <3>2. CASE \E px \in Int \X Int : new = shown \o <<px>>
      <4>1. PICK px \in Int \X Int : new = shown \o <<px>>
        BY <3>2
      <4> HIDE DEF new, shown
      <4>2. Len(new) = Len(shown) + 1 /\ \A m \in 1 .. Len(shown) : new[m] = shown[m]
        BY <1>1, <4>1, AddedToShown
      <4> QED
        BY <1>1, <4>2
    <3> QED
      BY <1>4, <3>1, <3>2
  <2> QED
    BY <1>3, <2>1, <2>2 DEF IsShown
<1> SUFFICES ASSUME port.open, ~port.reopens, NoHeaderCut, NEW i \in Events, Becoming(i), Unhit(i),
                    Shows(host.prog, Pixel(log[i].event)), log[i].at < e
             PROVE  IsShown(i)'
  BY <1>3 DEF OwedAreShown
<1>6. CASE log[i].at < r
  <2>1. IsShown(i)
    BY <1>6 DEF OwedAreShown
  <2> QED
    BY <1>5, <2>1
<1>7. CASE ~(log[i].at < r)
  <2> DEFINE a == log[i].at
  <2>1. /\ i \in 1 .. Len(log) /\ Framed(log[i]) /\ log[i].put >= HdrLen /\ log[i].put \in Nat
        /\ a \in Nat /\ log[i].type = EventBin
    BY BecomingIs, Entries, EntrySizes DEF Events
  <2>2. r + d <= a
    <3>1. ~(a < r + d)
      <4>1. i \notin Skipped(d)
        OBVIOUS
      <4>2. r <= a /\ log[i].put >= 4
        <5> HIDE DEF a, r
        <5> QED
          BY <1>2, <1>7, <2>1 DEF a, HdrLen
      <4> QED
        BY <2>1, <4>1, <4>2 DEF Skipped
    <3> HIDE DEF a, r
    <3> QED
      BY <1>2, <2>1, <3>1
  <2>3. Takes(d, b)
    <3>1. ~Waits(d)
      <4>1. Waits(d) => e = r + d
        BY DEF Waits
      <4> HIDE DEF a, e, r
      <4> QED
        BY <1>2, <2>1, <2>2, <4>1 DEF a
    <3> QED
      BY <3>1
  <2>4. PICK j \in 1 .. Len(log) :
           /\ log[j].at = Done + d /\ log[j].put >= 4 /\ Framed(log[j])
           /\ log[j].put >= HdrLen =>
                Done' = log[j].at + log[j].size /\ log[j].at + log[j].size <= BytesOut
           /\ log[j].type = EventBin /\ Whole(j) /\ Shows(host.prog, Pixel(log[j].event))
              => host'.shown = host.shown \o << Pixel(log[j].event) >>
    BY <1>1, <2>3, TakenPacket
  <2> DEFINE c == log[j].at
             n == log[j].put
             z == log[j].size
  <2>5. c \in Nat /\ n \in Nat /\ z \in Nat /\ n <= z /\ z >= 8 /\ n >= 4 /\ c = r + d
    <3>1. WellFormed(log[j])
      BY Entries
    <3>2. /\ log[j].at \in Nat /\ log[j].put \in Nat /\ log[j].size \in Nat
          /\ log[j].put <= log[j].size
          /\ \/ log[j].type = EventBin /\ log[j].size \in {12, 16}
             \/ log[j].type = LogText /\ log[j].size = 21
             \/ log[j].type = Marker /\ log[j].size = 8
             \/ log[j].type = Plain
      BY <3>1, EntrySizes
    <3>3. log[j].size >= 8
      BY <2>4, <3>2 DEF Framed
    <3> QED
      BY <2>4, <3>2, <3>3
  (* The packet is that of the event, or one before it. *)
  <2>6. CASE i = j
    <3>1. Whole(i)
      <4>1. ASSUME log[i].put = HdrLen, BytesOut = a + HdrLen PROVE FALSE
        <5>1. z \in {12, 16}
          <6>1. WellFormed(log[i]) /\ log[i].type = EventBin
            BY <2>1, Entries
          <6>2. log[i].size \in {12, 16}
            BY <6>1, EventSize
          <6> QED
            BY <2>6, <6>2
        <5>2. c + z <= BytesOut /\ c = a
          BY <2>4, <2>6, <4>1 DEF HdrLen
        <5> HIDE DEF a, c, z
        <5> QED
          BY <2>1, <4>1, <5>1, <5>2 DEF HdrLen
      <4> QED
        BY <4>1, BecomingIs
    <3>2. host'.shown = host.shown \o << Pixel(log[i].event) >>
      BY <2>1, <2>4, <2>6, <3>1
    <3>3. Pixel(log[i].event) \in Int \X Int
      BY <2>1, Entries, EntrySizes, PixelOf
    <3>4. Len(new) = Len(shown) + 1 /\ new[Len(shown) + 1] = Pixel(log[i].event)
      <4> HIDE DEF new, shown
      <4> QED
        BY <1>1, <3>2, <3>3, AddedToShown DEF new, shown
    <3>5. Len(shown) + 1 \in 1 .. Len(new)
      BY <1>1, <3>4
    <3> QED
      BY <1>3, <3>4, <3>5 DEF IsShown
  <2>7. CASE i # j
    <3>1. c < a
      <4>1. c # a
        <5>1. log[i].put > 0 /\ log[j].put > 0
          BY <2>1, <2>5 DEF HdrLen
        <5> QED
          BY <2>1, <2>7, <5>1, InOrder
      <4> HIDE DEF a, c, r
      <4> QED
        BY <1>2, <2>1, <2>2, <2>5, <4>1
    <3>2. j < i
      BY <2>1, <3>1, InOrder
    <3>3. n >= 8
      <4>1. CASE n = z
        BY <2>5, <4>1
      <4>2. CASE n # z
        <5>1. j \in Cuts
          BY <2>5, <4>2 DEF Cuts, Cut
        <5>2. n \notin 4 .. HdrLen - 1
          BY <5>1 DEF NoHeaderCut
        <5> HIDE DEF n
        <5> QED
          BY <2>5, <5>2 DEF HdrLen
      <4> QED
        BY <4>1, <4>2
    <3>4. e = c + z /\ a < e
      BY <2>4, <3>3 DEF HdrLen
    <3>5. c + z <= a
      <4>1. CASE n = z
        <5>1. EndOf(log[j]) <= log[i].at /\ EndOf(log[j]) = c + n
          BY <2>1, <3>2 DEF Layout, EndOf
        <5> QED
          BY <4>1, <5>1
      <4>2. CASE n # z
        <5>1. j \in Cuts
          BY <2>5, <4>2 DEF Cuts, Cut
        <5>2. log[j].put >= Len(Magic)
          BY <2>5 DEF Magic
        <5>3. log[i].at >= log[j].at + log[j].size
          BY <3>2, <5>1, <5>2 DEF Unhit
        <5> HIDE DEF a, c, z
        <5> QED
          BY <2>1, <2>5, <5>3 DEF a, c, z
      <4> QED
        BY <4>1, <4>2
    <3> HIDE DEF a, c, z, e
    <3> QED
      BY <2>1, <2>5, <3>4, <3>5
  <2> QED
    BY <2>6, <2>7
<1> QED
  BY <1>6, <1>7

LEMMA ReaderKeepsRInv ==
  ASSUME IInv, RInv, ReadSome
  PROVE  RInv'
<1> USE DEF IInv, RInv
<1>1. PICK d \in Nat, b \in Seq(Int) :
        /\ Skipped(d) = {} /\ Done + d \in Nat /\ Matches(b, Done + d)
        /\ Waits(d) \/ Takes(d, b)
  BY RoundOfReader
<1>2. /\ log' = log /\ dev' = dev /\ port'.open = port.open /\ port'.reopens = port.reopens
      /\ host'.prog = host.prog /\ ReaderTypes' /\ InStream'
  BY RoundOfReader
<1>3. Done \in Nat
  BY BytesOutTyped, ReaderFields DEF InStream, Done
<1>4. Layout' /\ CallWrites'
  BY <1>2 DEF Layout, CallWrites, BytesOut, EndOf, Events, Records, Pixel
<1>5. Untouched'
  <2>1. ASSUME port.wire = <<>> PROVE port'.wire = <<>>
    <3>1. Arrived = {0} /\ Unread(0) = SubSeq(<<>>, 1, 0)
      BY <2>1 DEF Arrived, Unread
    <3>2. SubSeq(<<>>, 1, 0) = <<>>
      OBVIOUS
    <3>3. port' = [port EXCEPT !.wire = Unread(0)]
      BY <3>1 DEF ReadSome
    <3> QED
      BY <3>1, <3>2, <3>3 DEF ReaderTypes, PortRecord
  <2> QED
    BY <1>2, <2>1 DEF Untouched
<1>6. FromPackets'
  BY <1>1, <1>2, <1>3, ReaderKeepsShown
<1>7. OwedAreShown'
  BY <1>1, <1>2, <1>3, ReaderKeepsOwed
<1> QED
  BY <1>2, <1>4, <1>5, <1>6, <1>7

-----------------------------------------------------------------------------
(* The firmware writes t, the bytes behind the first o of the packet that  *)
(* is last now: a new one, or the one that a call is writing.              *)
SameButPut(e, f) == e.event = f.event /\ e.type = f.type /\ e.at = f.at /\ e.size = f.size
Grows(n, e, o, t) ==
  /\ log' \in Seq(EntryRecord) /\ Len(log') = n /\ log'[n] = e
  /\ \A i \in 1 .. n - 1 : log'[i] = log[i]
  /\ WellFormed(e) /\ e.at + o = BytesOut /\ e.put = o + Len(t)
  /\ \A m \in 1 .. Len(t) : t[m] = ByteOf(e, o + m)
  /\ e.type = EventBin => \A i \in Events : i < n => log[i].event < e.event
  /\ \/ n = Len(log) + 1 /\ o = 0
     \/ /\ n = Len(log) /\ SameButPut(e, log[n]) /\ log[n].put = o
        /\ o = 0 \/ (o = HdrLen /\ dev.pc = "payload")
  /\ host' = host /\ port' \in PortRecord /\ port'.wire = port.wire \o t
  /\ port'.open = port.open /\ port'.reopens = port.reopens

LEMMA ByteOfSame ==
  ASSUME NEW e, NEW f, SameButPut(e, f), NEW o
  PROVE  ByteOf(e, o) = ByteOf(f, o)
BY DEF SameButPut, ByteOf

LEMMA GrowsFacts ==
  ASSUME Types, Layout, NEW n \in Nat \ {0}, NEW e, NEW o \in Nat, NEW t \in Seq(Int),
         Grows(n, e, o, t)
  PROVE  /\ n \in 1 .. n /\ n - 1 \in Nat /\ Len(log) \in Nat /\ n - 1 <= Len(log)
         /\ Len(log) = n \/ Len(log) = n - 1
         /\ Len(t) \in Nat /\ BytesOut \in Nat /\ BytesOut' = BytesOut + Len(t)
         /\ e.at \in Nat /\ e.at <= BytesOut /\ EndOf(e) = BytesOut + Len(t)
         /\ \A i \in 1 .. n - 1 : i \in 1 .. Len(log) /\ EndOf(log[i]) <= e.at
         /\ Len(log) = n => /\ EndOf(log[n]) = BytesOut /\ SameButPut(e, log[n])
                            /\ n \in 1 .. Len(log)
<1>1. Len(log) \in Nat /\ Len(t) \in Nat /\ BytesOut \in Nat
  BY BytesOutTyped DEF Types
<1>2. Len(log) = n \/ Len(log) = n - 1
  BY <1>1 DEF Grows
<1>3. n \in 1 .. n /\ n - 1 \in Nat /\ n - 1 <= Len(log)
  BY <1>1, <1>2
<1>4. e.at \in Nat /\ e.put \in Nat /\ EndOf(e) = e.at + e.put
  BY EntrySizes DEF Grows
<1> DEFINE a == e.at
           p == e.put
           y == BytesOut
           l == Len(t)
<1>5. a <= y /\ EndOf(e) = y + l
  <2>1. a + o = y /\ p = o + l
    BY DEF Grows
  <2>2. a \in Nat /\ p \in Nat /\ y \in Nat /\ l \in Nat /\ EndOf(e) = a + p
    BY <1>1, <1>4
  <2> HIDE DEF a, p, y, l
  <2> QED
    BY <2>1, <2>2
<1>6. BytesOut' = BytesOut + Len(t)
  <2>1. log' # <<>> /\ Last(log') = e
    BY <1>3 DEF Grows, Last
  <2>2. BytesOut' = e.at + e.put
    BY <2>1 DEF BytesOut
  <2> QED
    BY <1>4, <1>5, <2>2
<1>7. ASSUME Len(log) = n
      PROVE  EndOf(log[n]) = BytesOut /\ SameButPut(e, log[n]) /\ n \in 1 .. Len(log)
  <2>1. log # <<>> /\ n \in 1 .. Len(log)
    BY <1>7, <1>3
  <2>2. SameButPut(e, log[n])
    BY <1>7, <1>1 DEF Grows
  <2> QED
    BY <1>7, <2>1, <2>2, BytesOutIs
<1>8. ASSUME NEW i \in 1 .. n - 1
      PROVE  i \in 1 .. Len(log) /\ EndOf(log[i]) <= e.at
  <2>1. i \in 1 .. Len(log) /\ i < n
    BY <1>1, <1>3, <1>8
  <2>2. CASE Len(log) = n
    <3>1. EndOf(log[i]) <= log[n].at
      BY <1>7, <2>1, <2>2 DEF Layout
    <3> QED
      BY <1>7, <2>1, <2>2, <3>1 DEF SameButPut
  <2>3. CASE Len(log) = n - 1
    <3>1. EndOf(log[i]) <= BytesOut
      BY <2>1, Entries
    <3>2. o = 0
      BY <2>3 DEF Grows
    <3>3. e.at = BytesOut
      BY <1>4, <3>2 DEF Grows
    <3> QED
      BY <2>1, <3>1, <3>3
  <2> QED
    BY <1>2, <2>2, <2>3
<1> QED
  BY <1>1, <1>2, <1>3, <1>4, <1>5, <1>6, <1>7, <1>8

LEMMA GrowsKeepsLayout ==
  ASSUME Types, Layout, NEW n \in Nat \ {0}, NEW e, NEW o \in Nat, NEW t \in Seq(Int),
         Grows(n, e, o, t)
  PROVE  Layout'
<1> DEFINE y == BytesOut
           l == Len(t)
           a == e.at
<1>1. /\ n \in 1 .. n /\ n - 1 \in Nat /\ y \in Nat /\ l \in Nat
      /\ BytesOut' = y + l /\ a \in Nat /\ a <= y /\ EndOf(e) = y + l
      /\ \A i \in 1 .. n - 1 : i \in 1 .. Len(log) /\ EndOf(log[i]) <= a
      /\ Len(log) = n => EndOf(log[n]) = y /\ SameButPut(e, log[n])
      /\ Len(log) = n \/ Len(log) = n - 1
  BY GrowsFacts
<1>2. Len(log') = n /\ log'[n] = e /\ WellFormed(e) /\ \A i \in 1 .. n - 1 : log'[i] = log[i]
  BY DEF Grows
<1>3. \A i \in 1 .. n : i = n \/ i \in 1 .. n - 1
  BY <1>1
<1> HIDE DEF a
<1>4. ASSUME NEW i \in 1 .. Len(log')
      PROVE  /\ log'[i].size \in SizesOf(log'[i].type) /\ log'[i].put <= log'[i].size
             /\ log'[i].type = Plain => log'[i].put = log'[i].size
             /\ EndOf(log'[i]) <= BytesOut'
  <2>1. CASE i = n
    BY <1>1, <1>2, <2>1 DEF WellFormed
  <2>2. CASE i # n
    <3>1. i \in 1 .. n - 1 /\ log'[i] = log[i] /\ i \in 1 .. Len(log)
      BY <1>1, <1>2, <1>3, <2>2
    <3>2. WellFormed(log[i]) /\ EndOf(log[i]) \in Nat /\ EndOf(log[i]) <= BytesOut
      BY <3>1, Entries, EntrySizes
    <3> DEFINE z == EndOf(log[i])
    <3>3. z <= BytesOut'
      <4>1. z \in Nat /\ z <= y
        BY <3>2
      <4> HIDE DEF z, y, l
      <4> QED
        BY <1>1, <4>1
    <3> QED
      BY <3>1, <3>2, <3>3 DEF WellFormed
  <2> QED
    BY <2>1, <2>2
<1>5. ASSUME NEW i \in 1 .. Len(log'), NEW j \in 1 .. Len(log'), i < j
      PROVE  EndOf(log'[i]) <= log'[j].at
  <2>1. i \in 1 .. n - 1 /\ log'[i] = log[i] /\ i \in 1 .. Len(log)
    BY <1>1, <1>2, <1>5
  <2>2. CASE j = n
    BY <1>1, <1>2, <2>1, <2>2 DEF a
  <2>3. CASE j # n
    <3>1. j \in 1 .. n - 1 /\ log'[j] = log[j] /\ j \in 1 .. Len(log)
      BY <1>1, <1>2, <1>3, <2>3
    <3> QED
      BY <1>5, <2>1, <3>1 DEF Layout
  <2> QED
    BY <2>2, <2>3
<1>6. ASSUME NEW p \in 1 .. BytesOut'
      PROVE  \E i \in 1 .. Len(log') : log'[i].at < p /\ p <= EndOf(log'[i])
  <2> HIDE DEF y, l
  <2>1. CASE p <= a
    <3>1. p \in 1 .. y
      BY <1>1, <1>6, <2>1
    <3>2. PICK i \in 1 .. Len(log) : log[i].at < p /\ p <= EndOf(log[i])
      BY <3>1 DEF Layout, y
    <3>3. i # n
      <4>1. ASSUME i = n PROVE FALSE
        <5>1. Len(log) = n
          BY <1>1, <4>1
        <5>2. log[n].at = a
          BY <1>1, <5>1 DEF SameButPut, a
        <5> QED
          BY <1>1, <1>6, <2>1, <3>2, <4>1, <5>2
      <4> QED
        BY <4>1
    <3>4. i \in 1 .. n - 1
      BY <1>1, <3>2, <3>3
    <3>5. log'[i] = log[i] /\ i \in 1 .. Len(log')
      BY <1>1, <1>2, <3>4
    <3> QED
      BY <3>2, <3>5
  <2>2. CASE ~(p <= a)
    <3>1. a < p /\ p <= EndOf(e)
      BY <1>1, <1>6, <2>2
    <3> QED
      BY <1>1, <1>2, <3>1 DEF a
  <2> QED
    BY <2>1, <2>2
<1>7. ASSUME NEW i \in Events', NEW j \in Events', i < j
      PROVE  log'[i].event < log'[j].event
  <2>1. i \in 1 .. n - 1 /\ log'[i] = log[i] /\ i \in 1 .. Len(log) /\ i \in Events /\ i < n
    BY <1>1, <1>2, <1>7 DEF Events
  <2>2. CASE j = n
    BY <1>2, <1>7, <2>1, <2>2 DEF Grows, Events
  <2>3. CASE j # n
    <3>1. j \in 1 .. n - 1 /\ log'[j] = log[j] /\ j \in 1 .. Len(log) /\ j \in Events
      BY <1>1, <1>2, <1>3, <1>7, <2>3 DEF Events
    <3> QED
      BY <1>7, <2>1, <3>1 DEF Layout
  <2> QED
    BY <2>2, <2>3
<1> QED
  BY <1>4, <1>5, <1>6, <1>7 DEF Layout

-----------------------------------------------------------------------------
(* A piece more keeps what the stream and the screen are.                  *)

LEMMA GrowsInStream ==
  ASSUME Types, Layout, ReaderTypes, InStream,
         NEW n \in Nat \ {0}, NEW e, NEW o \in Nat, NEW t \in Seq(Int), Grows(n, e, o, t)
  PROVE  InStream' /\ Done' = Done
<1> DEFINE r == Done
           p == Pending
           x == Pending'
           y == BytesOut
           l == Len(t)
           a == e.at
<1>1. /\ n \in 1 .. n /\ n - 1 \in Nat /\ y \in Nat /\ l \in Nat
      /\ BytesOut' = y + l /\ a \in Nat /\ a <= y
      /\ \A i \in 1 .. n - 1 : i \in 1 .. Len(log)
      /\ Len(log) = n => EndOf(log[n]) = y /\ SameButPut(e, log[n]) /\ n \in 1 .. Len(log)
      /\ Len(log) = n \/ Len(log) = n - 1
  BY GrowsFacts
<1>2. Len(log') = n /\ log'[n] = e /\ \A i \in 1 .. n - 1 : log'[i] = log[i]
  BY DEF Grows
<1>3. p \in Seq(Int) /\ Len(p) \in Nat /\ Done = BytesOut - Len(p)
  BY ReaderFields DEF Done
<1>4. r \in Nat /\ r + Len(p) = y /\ Matches(p, r)
  <2>1. r = y - Len(p) /\ r >= 0 /\ Matches(p, r)
    BY <1>3 DEF InStream
  <2> HIDE DEF r, y, p
  <2> QED
    BY <1>1, <1>3, <2>1
<1>5. /\ x \in Seq(Int) /\ Len(x) = Len(p) + l /\ \A k \in 1 .. Len(p) : x[k] = p[k]
      /\ \A k \in 1 .. l : x[Len(p) + k] = t[k]
  <2>1. x = host.buf \o (port.wire \o t)
    BY DEF Pending, Grows
  <2>2. x = p \o t
    <3> DEFINE bb == host.buf
               w == port.wire
    <3>1. bb \in Seq(Int) /\ w \in Seq(Int)
      BY ReaderFields
    <3>2. p = bb \o w /\ x = bb \o (w \o t)
      BY <2>1 DEF Pending
    <3> HIDE DEF bb, w, p, x
    <3>3. bb \o (w \o t) = (bb \o w) \o t
      BY <3>1, ConcatThree, Zenon
    <3> QED
      BY <3>2, <3>3
  <2> HIDE DEF p, x
  <2> QED
    BY <1>3, <2>2, ConcatBytes
<1>6. Done' = r
  <2>1. Done' = BytesOut' - Len(x)
    BY DEF Done
  <2> DEFINE lp == Len(p)
             lx == Len(x)
             z == BytesOut'
  <2>2. /\ r \in Nat /\ lp \in Nat /\ y \in Nat /\ l \in Nat
        /\ r + lp = y /\ lx = lp + l /\ z = y + l /\ Done' = z - lx
    BY <1>1, <1>3, <1>4, <1>5, <2>1
  <2> HIDE DEF r, lp, lx, y, l, z
  <2> QED
    BY <2>2
<1>7. ASSUME NEW q \in 1 .. Len(x), NEW i \in 1 .. n,
             log'[i].at < r + q, r + q <= EndOf(log'[i])
      PROVE  x[q] = ByteOf(log'[i], (r + q) - log'[i].at)
  <2> HIDE DEF r, x, p, y, l, a
  <2>0. q \in Nat /\ r + q \in Nat
    BY <1>4
  <2>1. CASE q \in 1 .. Len(p)
    <3>0. x[q] = p[q] /\ r + q <= y
      <4>1. x[q] = p[q]
        BY <1>5, <2>1
      <4>2. q <= Len(p)
        BY <1>3, <2>1
      <4> QED
        BY <1>3, <1>4, <2>0, <4>1, <4>2
    <3>1. CASE i = n
      <4>1. Len(log) = n
        <5>1. ASSUME Len(log) = n - 1 PROVE FALSE
          <6>1. o = 0
            BY <1>1, <5>1 DEF Grows
          <6>2. e.at + 0 = BytesOut
            BY <6>1 DEF Grows
          <6>3. a + 0 = y /\ a < r + q
            BY <1>2, <1>7, <3>1, <6>2 DEF a, y
          <6> QED
            BY <1>1, <2>0, <3>0, <6>3
        <5> QED
          BY <1>1, <5>1
      <4>2. /\ EndOf(log[n]) = y /\ SameButPut(e, log[n]) /\ n \in 1 .. Len(log)
            /\ log[n].at = e.at
        BY <1>1, <4>1 DEF SameButPut
      <4>3. log[n].at < r + q /\ r + q <= EndOf(log[n])
        BY <1>2, <1>7, <3>0, <3>1, <4>2
      <4>4. p[q] = ByteOf(log[n], (r + q) - log[n].at)
        BY <1>4, <2>1, <4>2, <4>3, Zenon DEF Matches
      <4>5. ByteOf(e, (r + q) - e.at) = ByteOf(log[n], (r + q) - e.at)
        BY <4>2, ByteOfSame
      <4> QED
        BY <1>2, <3>0, <3>1, <4>2, <4>4, <4>5
    <3>2. CASE i # n
      <4>1. i \in 1 .. n - 1
        BY <1>1, <3>2
      <4>2. i \in 1 .. Len(log) /\ log'[i] = log[i]
        BY <1>1, <1>2, <4>1
      <4>3. log[i].at < r + q /\ r + q <= EndOf(log[i])
        BY <1>7, <4>2
      <4>4. p[q] = ByteOf(log[i], (r + q) - log[i].at)
        BY <1>4, <2>1, <4>2, <4>3, Zenon DEF Matches
      <4> QED
        BY <3>0, <4>2, <4>4
    <3> QED
      BY <3>1, <3>2
  <2>2. CASE q \notin 1 .. Len(p)
    <3> DEFINE m == q - Len(p)
    <3>1. m \in 1 .. l /\ Len(p) + m = q
      <4>1. q \in 1 .. Len(p) + l /\ Len(p) \in Nat /\ l \in Nat
        BY <1>1, <1>3, <1>5
      <4>2. q > Len(p) /\ q <= Len(p) + l
        BY <4>1, <2>2
      <4> QED
        BY <4>1, <4>2
    <3>2. r + q = y + m
      <4>1. r + (Len(p) + m) = (r + Len(p)) + m
        BY <1>3, <1>4, <3>1
      <4> HIDE DEF m
      <4> QED
        BY <1>4, <3>1, <4>1
    <3> HIDE DEF m
    <3>3. x[q] = t[m] /\ t[m] = ByteOf(e, o + m)
      <4>1. x[q] = t[m]
        <5>1. x[Len(p) + m] = t[m]
          BY <1>5, <3>1
        <5> QED
          BY <3>1, <5>1
      <4> QED
        BY <3>1, <4>1 DEF Grows, l
    <3>4. i = n
      <4>1. ASSUME i # n PROVE FALSE
        <5>1. i \in 1 .. n - 1
          BY <1>1, <4>1
        <5>2. i \in 1 .. Len(log) /\ log'[i] = log[i]
          BY <1>1, <1>2, <5>1
        <5>3. EndOf(log[i]) <= y /\ EndOf(log[i]) \in Nat
          BY <5>2, Entries, EntrySizes DEF y
        <5>4. y + m <= EndOf(log[i])
          BY <1>7, <3>2, <5>2
        <5> QED
          BY <1>1, <3>1, <5>3, <5>4
      <4> QED
        BY <4>1
    <3>5. (r + q) - a = o + m
      <4>1. a + o = y
        BY DEF Grows, a, y
      <4>2. a \in Nat /\ o \in Nat /\ y \in Nat /\ m \in Nat
        BY <1>1, <3>1
      <4>3. (y + m) - a = o + m
        BY <4>1, <4>2
      <4> QED
        BY <3>2, <4>3
    <3> QED
      BY <1>2, <3>3, <3>4, <3>5 DEF a
  <2> QED
    BY <2>1, <2>2
<1>8. r + Len(x) <= BytesOut'
  <2> HIDE DEF r, x, p, y, l
  <2> QED
    BY <1>1, <1>3, <1>4, <1>5
<1>9. Matches(Pending, Done)'
  <2> DEFINE z == Done'
  <2>1. z = r
    BY <1>6
  <2> HIDE DEF x, z
  <2>2. /\ z + Len(x) <= BytesOut'
        /\ \A q \in 1 .. Len(x) : \A i \in 1 .. Len(log') :
             log'[i].at < z + q /\ z + q <= EndOf(log'[i])
               => x[q] = ByteOf(log'[i], (z + q) - log'[i].at)
    BY <1>2, <1>7, <1>8, <2>1
  <2> QED
    BY <2>2 DEF Matches, x, z
<1> QED
  BY <1>4, <1>6, <1>9 DEF InStream

LEMMA GrowsKeepsShown ==
  ASSUME Types, Layout, ReaderTypes, FromPackets, Done' = Done,
         NEW n \in Nat \ {0}, NEW e, NEW o \in Nat, NEW t \in Seq(Int), Grows(n, e, o, t)
  PROVE  FromPackets'
<1>1. /\ n \in 1 .. n /\ n - 1 \in Nat /\ Len(t) \in Nat
      /\ Len(log) = n => SameButPut(e, log[n]) /\ n \in 1 .. Len(log)
      /\ Len(log) = n \/ Len(log) = n - 1
  BY GrowsFacts
<1>2. /\ Len(log') = n /\ log'[n] = e /\ \A i \in 1 .. n - 1 : log'[i] = log[i]
      /\ e.put = o + Len(t) /\ host' = host
  BY DEF Grows
<1>3. ASSUME NEW j \in Events
      PROVE  /\ j \in Events' /\ log'[j].event = log[j].event /\ log'[j].at = log[j].at
             /\ log[j].put >= HdrLen + 4 => log'[j].put >= HdrLen + 4
  <2>1. j \in 1 .. Len(log) /\ log[j].type = EventBin
    BY DEF Events
  <2>2. CASE j = n
    <3>1. Len(log) = n
      BY <1>1, <2>1, <2>2
    <3>2. SameButPut(e, log[n]) /\ log[n].put = o
      BY <1>1, <3>1 DEF Grows
    <3>3. log[n].put >= HdrLen + 4 => e.put >= HdrLen + 4
      BY <1>1, <1>2, <3>2 DEF HdrLen
    <3> QED
      BY <1>1, <1>2, <2>1, <2>2, <3>2, <3>3 DEF SameButPut, Events
  <2>3. CASE j # n
    <3>1. j \in 1 .. n - 1 /\ log'[j] = log[j] /\ j \in 1 .. Len(log')
      BY <1>1, <1>2, <2>1, <2>3
    <3> QED
      BY <2>1, <3>1 DEF Events
  <2> QED
    BY <2>2, <2>3
<1>4. ASSUME NEW i \in 1 .. Len(host.shown), OnScreen(host.shown[i])
      PROVE  \E j \in Events' : /\ host.shown[i] = Pixel(log'[j].event)
                                /\ log'[j].put >= HdrLen + 4 /\ log'[j].at < Done
  <2>1. PICK j \in Events : /\ host.shown[i] = Pixel(log[j].event)
                            /\ log[j].put >= HdrLen + 4 /\ log[j].at < Done
    BY <1>4 DEF FromPackets
  <2> QED
    BY <1>3, <2>1
<1> QED
  BY <1>2, <1>4 DEF FromPackets

LEMMA GrowsKeepsOwed ==
  ASSUME Types, Layout, ReaderTypes, InStream, OwedAreShown, Done' = Done,
         NEW n \in Nat \ {0}, NEW e, NEW o \in Nat, NEW t \in Seq(Int), Grows(n, e, o, t)
  PROVE  OwedAreShown'
<1>1. /\ n \in 1 .. n /\ n - 1 \in Nat /\ BytesOut \in Nat /\ e.at \in Nat
      /\ \A i \in 1 .. n - 1 : i \in 1 .. Len(log)
      /\ Len(log) = n => SameButPut(e, log[n]) /\ n \in 1 .. Len(log)
      /\ Len(log) = n \/ Len(log) = n - 1
  BY GrowsFacts
<1>2. /\ Len(log') = n /\ log'[n] = e /\ \A i \in 1 .. n - 1 : log'[i] = log[i]
      /\ e.at + o = BytesOut /\ host' = host
      /\ port'.open = port.open /\ port'.reopens = port.reopens
  BY DEF Grows
<1>3. Done \in Int /\ Done <= BytesOut
  BY <1>1, ReaderFields DEF Done
<1>4. ASSUME NEW j \in 1 .. n - 1
      PROVE  (j \in Cuts' <=> j \in Cuts) /\ log'[j] = log[j]
  BY <1>1, <1>2, <1>4 DEF Cuts, Cut
<1>5. NoHeaderCut' => NoHeaderCut
  <2> SUFFICES ASSUME NoHeaderCut', NEW i \in Cuts PROVE log[i].put \notin 4 .. HdrLen - 1
    BY DEF NoHeaderCut
  <2>1. i \in 1 .. Len(log)
    BY DEF Cuts
  <2>2. CASE i \in 1 .. n - 1
    BY <1>4, <2>2 DEF NoHeaderCut
  <2>3. CASE i \notin 1 .. n - 1
    <3>1. i = n /\ Len(log) = n
      BY <1>1, <2>1, <2>3
    <3>2. log[n].put = o /\ (o = 0 \/ o = HdrLen)
      BY <1>1, <3>1 DEF Grows
    <3> QED
      BY <3>1, <3>2 DEF HdrLen
  <2> QED
    BY <2>2, <2>3
<1>6. ASSUME NEW i \in 1 .. n, i \in 1 .. Len(log), log'[i].at = log[i].at, Unhit(i)'
      PROVE  Unhit(i)
  <2> SUFFICES ASSUME NEW j \in Cuts, j < i, log[j].put >= Len(Magic)
               PROVE  log[i].at >= log[j].at + log[j].size
    BY DEF Unhit
  <2>1. j \in 1 .. n - 1
    BY <1>1 DEF Cuts
  <2> QED
    BY <1>4, <1>6, <2>1 DEF Unhit
<1> SUFFICES ASSUME port.open, ~port.reopens, NoHeaderCut, NEW i \in Events', Becoming(i)',
                    Unhit(i)', Shows(host.prog, Pixel(log'[i].event)), log'[i].at < Done
             PROVE  IsShown(i)'
  BY <1>2, <1>5 DEF OwedAreShown
<1>7. i \in 1 .. n /\ log'[i].type = EventBin
  BY <1>2 DEF Events
<1>8. CASE i = n
  <2>1. o # 0
    <3>1. ASSUME o = 0 PROVE FALSE
      BY <1>1, <1>2, <1>3, <1>8, <3>1
    <3> QED
      BY <3>1
  <2>2. Len(log) = n /\ SameButPut(e, log[n]) /\ dev.pc = "payload" /\ n \in 1 .. Len(log)
    BY <1>1, <2>1 DEF Grows
  <2>3. /\ n \in Events /\ Becoming(n) /\ log'[n].event = log[n].event
        /\ log'[n].at = log[n].at
    BY <1>2, <1>7, <1>8, <2>2 DEF SameButPut, Events, Becoming
  <2>4. Unhit(n)
    BY <1>1, <1>6, <1>8, <2>2, <2>3
  <2>5. IsShown(n)
    BY <1>8, <2>3, <2>4 DEF OwedAreShown
  <2> QED
    BY <1>2, <1>8, <2>3, <2>5 DEF IsShown
<1>9. CASE i # n
  <2>1. i \in 1 .. n - 1 /\ i \in 1 .. Len(log) /\ log'[i] = log[i]
    BY <1>1, <1>2, <1>7, <1>9
  <2>2. i \in Events /\ Becoming(i)
    BY <1>2, <1>7, <1>9, <2>1 DEF Events, Becoming, Whole
  <2>3. Unhit(i)
    BY <1>6, <1>7, <2>1
  <2>4. IsShown(i)
    BY <2>1, <2>2, <2>3 DEF OwedAreShown
  <2> QED
    BY <1>2, <2>1, <2>4 DEF IsShown
<1> QED
  BY <1>8, <1>9

LEMMA StreamGrows ==
  ASSUME Types, Layout, ReaderTypes, InStream, FromPackets, OwedAreShown,
         NEW n \in Nat \ {0}, NEW e, NEW o \in Nat, NEW t \in Seq(Int), Grows(n, e, o, t)
  PROVE  Layout' /\ ReaderTypes' /\ InStream' /\ FromPackets' /\ OwedAreShown'
<1>1. Layout'
  BY GrowsKeepsLayout
<1>2. InStream' /\ Done' = Done
  BY GrowsInStream
<1>3. FromPackets' /\ OwedAreShown'
  BY <1>2, GrowsKeepsShown, GrowsKeepsOwed
<1>4. ReaderTypes'
  BY DEF ReaderTypes, Grows
<1> QED
  BY <1>1, <1>2, <1>3, <1>4

-----------------------------------------------------------------------------
(* Steps that write nothing and take nothing from the stream.              *)
LEMMA SameStream ==
  ASSUME ReaderTypes, Layout, InStream, FromPackets, OwedAreShown,
         log' = log, port' = port, host' \in HostRecord, host'.prog = host.prog,
         host'.buf = host.buf, host'.shown = host.shown,
         dev'.pc = "payload" => dev.pc = "payload"
  PROVE  ReaderTypes' /\ Layout' /\ InStream' /\ FromPackets' /\ OwedAreShown'
<1>1. /\ BytesOut' = BytesOut /\ Events' = Events /\ Pending' = Pending /\ Done' = Done
  BY DEF BytesOut, Events, Pending, Done
<1>2. ReaderTypes'
  BY DEF ReaderTypes
<1>3. Layout'
  BY <1>1 DEF Layout, EndOf
<1>4. InStream'
  BY <1>1 DEF InStream, Matches, EndOf
<1>5. FromPackets'
  BY <1>1 DEF FromPackets
<1>6. OwedAreShown'
  <2>1. NoHeaderCut' = NoHeaderCut
    BY DEF NoHeaderCut, Cuts, Cut
  <2>2. ASSUME NEW i \in Events
        PROVE  /\ Becoming(i)' => Becoming(i)
               /\ Unhit(i)' = Unhit(i) /\ IsShown(i)' = IsShown(i)
    BY DEF Becoming, Whole, Unhit, Cuts, Cut, IsShown
  <2> QED
    BY <1>1, <2>1, <2>2 DEF OwedAreShown
<1> QED
  BY <1>2, <1>3, <1>4, <1>5, <1>6

LEMMA UsedFromNowOn ==
  ASSUME Untouched, dev.pc # "wait_dtr", port'.open = port.open, port'.reopens = port.reopens
  PROVE  Untouched'
BY DEF Untouched

LEMMA FrontBytes ==
  ASSUME NEW w \in Seq(Int), NEW n \in 0 .. Len(w)
  PROVE  /\ SubSeq(w, 1, n) \in Seq(Int) /\ Len(SubSeq(w, 1, n)) = n
         /\ \A k \in 1 .. n : SubSeq(w, 1, n)[k] = w[k]
<1>1. Len(w) \in Nat /\ n \in Nat /\ n <= Len(w)
  OBVIOUS
<1>2. 1 \in Int /\ n \in Int /\ \A i \in 1 .. n : w[i] \in Int
  BY <1>1
<1>3. /\ SubSeq(w, 1, n) \in Seq(Int) /\ Len(SubSeq(w, 1, n)) = IF 1 <= n THEN n - 1 + 1 ELSE 0
      /\ \A k \in 1 .. n - 1 + 1 : SubSeq(w, 1, n)[k] = w[1 + k - 1]
  BY <1>2, SubSeqProperties
<1>4. (IF 1 <= n THEN n - 1 + 1 ELSE 0) = n /\ n - 1 + 1 = n /\ \A k \in 1 .. n : 1 + k - 1 = k
  BY <1>1
<1> QED
  BY <1>3, <1>4

(* What a call that begins, goes on or returns leaves of the events.       *)
LEMMA ReturnKeepsCalls ==
  ASSUME IInv, CallWrites, Return, Events' = Events,
         \A i \in Events : log'[i].event = log[i].event
  PROVE  CallWrites'
<1>1. dev'.pc = "idle" /\ dev'.event = dev.event
  BY ReturnsTyped DEF IInv
<1> QED
  BY <1>1 DEF CallWrites, InPacket

LEMMA SameEvents ==
  ASSUME log' = log
  PROVE  Events' = Events /\ \A i \in Events : log'[i].event = log[i].event
BY DEF Events

LEMMA OpenedKeepsRInv ==
  ASSUME IInv, RInv, TerminalOpened
  PROVE  RInv'
<1>1. /\ dev.pc = "wait_dtr" /\ port.open /\ dev' = [dev EXCEPT !.pc = "idle"]
      /\ port' = port /\ host' = host /\ log' = log
  BY DEF TerminalOpened, DtrAsserted
<1>2. dev'.pc = "idle" /\ dev'.event = dev.event /\ log = <<>>
  BY <1>1 DEF IInv, Types, DevRecord, PacketOfCall
<1>3. ReaderTypes' /\ Layout' /\ InStream' /\ FromPackets' /\ OwedAreShown'
  <2>1. host' \in HostRecord
    BY <1>1 DEF RInv, ReaderTypes
  <2> QED
    BY <1>1, <1>2, <2>1, SameStream DEF RInv
<1>4. CallWrites'
  BY <1>1, <1>2 DEF RInv, CallWrites, Events, InPacket
<1>5. Untouched'
  BY <1>1 DEF Untouched
<1> QED
  BY <1>3, <1>4, <1>5 DEF RInv

LEMMA EventKeepsRInv ==
  ASSUME IInv, RInv, OnEvent
  PROVE  RInv'
<1>1. /\ dev.pc = "idle" /\ port' = port /\ host' = host /\ log' = log
      /\ dev' = [dev EXCEPT !.pc = IF sink.enabled THEN "send" ELSE "idle",
                            !.event = dev.event + 1]
  BY DEF OnEvent
<1>2. /\ dev'.pc \in {"send", "idle"} /\ dev'.event = dev.event + 1 /\ dev.event \in Nat
  BY <1>1 DEF IInv, Types, DevRecord
<1>3. ReaderTypes' /\ Layout' /\ InStream' /\ FromPackets' /\ OwedAreShown'
  <2>1. host' \in HostRecord
    BY <1>1 DEF RInv, ReaderTypes
  <2> QED
    BY <1>1, <1>2, <2>1, SameStream DEF RInv
<1>4. CallWrites'
  <2>1. ASSUME NEW i \in Events
        PROVE  log[i].event < dev.event + 1 /\ log[i].event <= dev.event + 1
    <3>1. i \in 1 .. Len(log)
      BY DEF Events
    <3>2. log[i].event \in Nat
      BY <3>1, Entries, EntrySizes DEF IInv, RInv
    <3>3. log[i].event <= dev.event
      BY DEF RInv, CallWrites
    <3> QED
      BY <1>2, <3>2, <3>3
  <2> QED
    BY <1>1, <1>2, <2>1, SameEvents DEF CallWrites, InPacket
<1>5. Untouched'
  BY <1>1, UsedFromNowOn DEF RInv
<1> QED
  BY <1>3, <1>4, <1>5 DEF RInv

LEMMA ChangeKeepsRInv ==
  ASSUME IInv, RInv, Settings \/ ResetSink
  PROVE  RInv'
<1>1. /\ dev.pc = "idle" /\ port' = port /\ host' = host /\ log' = log
      /\ dev' = [dev EXCEPT !.changes = dev.changes + 1]
  BY DEF Settings, ResetSink, Extra, Changed
<1>2. dev'.pc = "idle" /\ dev'.event = dev.event
  BY <1>1 DEF IInv, Types, DevRecord
<1>3. ReaderTypes' /\ Layout' /\ InStream' /\ FromPackets' /\ OwedAreShown'
  <2>1. host' \in HostRecord
    BY <1>1 DEF RInv, ReaderTypes
  <2> QED
    BY <1>1, <1>2, <2>1, SameStream DEF RInv
<1>4. CallWrites'
  BY <1>1, <1>2, SameEvents DEF RInv, CallWrites, InPacket
<1>5. Untouched'
  BY <1>1, UsedFromNowOn DEF RInv
<1> QED
  BY <1>3, <1>4, <1>5 DEF RInv

LEMMA FailedKeepsRInv ==
  ASSUME IInv, RInv, dev.pc # "wait_dtr", Return, port' = port, host' = host, log' = log
  PROVE  RInv'
<1>1. dev'.pc = "idle"
  BY ReturnsTyped DEF IInv
<1>2. ReaderTypes' /\ Layout' /\ InStream' /\ FromPackets' /\ OwedAreShown'
  <2>1. host' \in HostRecord
    BY DEF RInv, ReaderTypes
  <2> QED
    BY <1>1, <2>1, SameStream DEF RInv
<1>3. CallWrites'
  BY ReturnKeepsCalls, SameEvents DEF RInv
<1>4. Untouched'
  BY UsedFromNowOn DEF RInv
<1> QED
  BY <1>2, <1>3, <1>4 DEF RInv

LEMMA SendKeepsRInv ==
  ASSUME IInv, RInv, SendEvent
  PROVE  RInv'
<1>1. dev.pc = "send" /\ dev.type = EventBin /\ port' = port /\ host' = host /\ log' = log
  BY DEF SendEvent, IInv, PacketOfCall
<1>2. CASE ~port.open
  BY <1>1, <1>2, FailedKeepsRInv DEF SendEvent, ReturnFailed
<1>3. CASE port.open
  <2>1. dev' = [dev EXCEPT !.pc = "write", !.rec = Record]
    BY <1>3 DEF SendEvent
  <2>2. dev'.pc = "write" /\ dev'.event = dev.event /\ dev'.type = EventBin /\ dev'.rec = Record
    BY <1>1, <2>1 DEF IInv, Types, DevRecord
  <2>3. ReaderTypes' /\ Layout' /\ InStream' /\ FromPackets' /\ OwedAreShown'
    <3>1. host' \in HostRecord
      BY <1>1 DEF RInv, ReaderTypes
    <3> QED
      BY <1>1, <2>2, <3>1, SameStream DEF RInv
  <2>4. Record \in Records /\ Records' = Records
    BY <2>2 DEF Record, Records
  <2>5. CallWrites'
    <3>1. \A i \in Events : log[i].event <= dev.event /\ log[i].event < dev.event
      BY <1>1 DEF RInv, CallWrites
    <3> QED
      BY <1>1, <2>2, <2>4, <3>1, SameEvents
      DEF CallWrites, InPacket, EventBin, LogText, Marker
  <2>6. Untouched'
    BY <1>1, UsedFromNowOn DEF RInv
  <2> QED
    BY <2>3, <2>5, <2>6 DEF RInv
<1> QED
  BY <1>2, <1>3

-----------------------------------------------------------------------------
(* Texts and lines that are not framed.                                    *)

LEMMA AppendBytes ==
  ASSUME NEW s \in Seq(Int), NEW x \in Int
  PROVE  /\ Append(s, x) \in Seq(Int) /\ Len(Append(s, x)) = Len(s) + 1
         /\ Append(s, x)[Len(s) + 1] = x
         /\ \A m \in 1 .. Len(s) : Append(s, x)[m] = s[m]
OBVIOUS

LEMMA LineBytes ==
  LET line == Append(Text, 10)
  IN /\ line \in Seq(Int) /\ Len(line) = 14
     /\ \A m \in 1 .. 14 : line[m] = IF m = 14 THEN 10 ELSE 91
<1>1. Text \in Seq(Int) /\ Len(Text) = 13 /\ \A m \in 1 .. 13 : Text[m] = 91
  BY DEF Text
<1> DEFINE tt == Text
<1> HIDE DEF tt
<1>2. tt \in Seq(Int) /\ Len(tt) = 13 /\ \A m \in 1 .. 13 : tt[m] = 91
  BY <1>1 DEF tt
<1>3. /\ Append(tt, 10) \in Seq(Int) /\ Len(Append(tt, 10)) = Len(tt) + 1
      /\ Append(tt, 10)[Len(tt) + 1] = 10
      /\ \A m \in 1 .. Len(tt) : Append(tt, 10)[m] = tt[m]
  <2> DEFINE x == 10
  <2>1. x \in Int /\ tt \in Seq(Int)
    BY <1>2
  <2> HIDE DEF x
  <2>2. /\ Append(tt, x) \in Seq(Int) /\ Len(Append(tt, x)) = Len(tt) + 1
        /\ Append(tt, x)[Len(tt) + 1] = x
        /\ \A m \in 1 .. Len(tt) : Append(tt, x)[m] = tt[m]
    BY <2>1, AppendBytes
  <2> QED
    BY <2>2 DEF x
<1>4. Len(tt) + 1 = 14
  BY <1>2
<1>5. /\ Append(tt, 10) \in Seq(Int) /\ Len(Append(tt, 10)) = 14 /\ Append(tt, 10)[14] = 10
      /\ \A m \in 1 .. 13 : Append(tt, 10)[m] = 91
  BY <1>2, <1>3, <1>4
<1>6. \A m \in 1 .. 14 : m = 14 \/ (m \in 1 .. 13 /\ m # 14)
  OBVIOUS
<1>7. /\ Append(tt, 10) \in Seq(Int) /\ Len(Append(tt, 10)) = 14
      /\ \A m \in 1 .. 14 : Append(tt, 10)[m] = IF m = 14 THEN 10 ELSE 91
  BY <1>5, <1>6
<1> QED
  BY <1>7 DEF tt

LEMMA PlainBytes ==
  ASSUME NEW e, e.type = Plain, NEW o
  PROVE  ByteOf(e, o) = IF o = 14 THEN 10 ELSE 91
BY DEF ByteOf, Plain, LogText, EventBin

LEMMA Kinds ==
  /\ EventBin = 2 /\ LogText = 1 /\ Marker = 4 /\ Plain = 0
  /\ SizesOf(EventBin) = {12, 16} /\ SizesOf(LogText) = {21} /\ SizesOf(Marker) = {8}
  /\ SizesOf(Plain) = 1 .. 14 /\ HdrLen = 8
BY DEF SizesOf, HdrLen, EventBin, LogText, Marker, Plain

(* A new entry at the end of the log. *)
LEMMA Appended ==
  ASSUME Types, NEW e \in EntryRecord, log' = Append(log, e)
  PROVE  /\ log' \in Seq(EntryRecord) /\ Len(log) \in Nat /\ Len(log') = Len(log) + 1
         /\ log'[Len(log) + 1] = e /\ Len(log) + 1 \in Nat \ {0}
         /\ (Len(log) + 1) - 1 = Len(log)
         /\ \A i \in 1 .. Len(log) : log'[i] = log[i]
         /\ \A i : i \in Events' => i \in Events \/ (i = Len(log) + 1 /\ e.type = EventBin)
         /\ \A i \in Events : i \in 1 .. Len(log) /\ log'[i] = log[i]
<1>1. /\ log' \in Seq(EntryRecord) /\ Len(log) \in Nat /\ Len(log') = Len(log) + 1
      /\ log'[Len(log) + 1] = e /\ \A i \in 1 .. Len(log) : log'[i] = log[i]
  BY DEF Types
<1>2. ASSUME NEW i \in Events' PROVE i \in Events \/ (i = Len(log) + 1 /\ e.type = EventBin)
  <2>1. i \in 1 .. Len(log) + 1 /\ log'[i].type = EventBin
    BY <1>1 DEF Events
  <2>2. CASE i = Len(log) + 1
    BY <1>1, <2>1, <2>2
  <2>3. CASE i # Len(log) + 1
    <3>1. i \in 1 .. Len(log)
      BY <1>1, <2>1, <2>3
    <3> QED
      BY <1>1, <2>1, <3>1 DEF Events
  <2> QED
    BY <2>2, <2>3
<1>3. \A i \in Events : i \in 1 .. Len(log)
  BY DEF Events
<1>4. Len(log) + 1 \in Nat \ {0} /\ (Len(log) + 1) - 1 = Len(log)
  BY <1>1
<1> QED
  BY <1>1, <1>2, <1>3, <1>4

LEMMA TextKeepsRInv ==
  ASSUME IInv, RInv, SendText
  PROVE  RInv'
<1>1. dev.pc = "idle" /\ host' = host /\ dev.type = EventBin
  BY DEF SendText, Extra, IInv, PacketOfCall
<1>2. host' \in HostRecord
  BY <1>1 DEF RInv, ReaderTypes
<1>3. ASSUME NEW type \in {LogText, Marker}, NEW text, WriteText(type, text),
             type = LogText => text = Text, type = Marker => text = <<>>
      PROVE  RInv'
  <2>1. /\ dev' = [dev EXCEPT !.pc = "write", !.texts = dev.texts + 1, !.type = type, !.rec = text]
        /\ port' = port /\ log' = log
    BY <1>3 DEF WriteText
  <2>2. dev'.pc = "write" /\ dev'.event = dev.event /\ dev'.type = type /\ dev'.rec = text
    BY <2>1 DEF IInv, Types, DevRecord
  <2>3. ReaderTypes' /\ Layout' /\ InStream' /\ FromPackets' /\ OwedAreShown'
    BY <1>1, <1>2, <2>1, <2>2, SameStream DEF RInv
  <2>4. CallWrites'
    BY <1>3, <2>1, <2>2, SameEvents, Kinds DEF RInv, CallWrites, InPacket
  <2>5. Untouched'
    BY <1>1, <2>1, UsedFromNowOn DEF RInv
  <2> QED
    BY <2>3, <2>4, <2>5 DEF RInv
<1>4. CASE PlainLine
  <2> DEFINE line == Append(Text, 10)
  <2>0. line \in Seq(Int) /\ Len(line) = 14 /\ \A m \in 1 .. 14 : line[m] = IF m = 14 THEN 10 ELSE 91
    BY LineBytes
  <2>1. dev' = [dev EXCEPT !.texts = dev.texts + 1]
    BY <1>4 DEF PlainLine
  <2>2. dev'.pc = "idle" /\ dev'.event = dev.event
    BY <1>1, <2>1 DEF IInv, Types, DevRecord
  <2>3. CASE port' = port /\ log' = log
    <3>1. port' = port /\ log' = log
      BY <2>3
    <3>2. ReaderTypes' /\ Layout' /\ InStream' /\ FromPackets' /\ OwedAreShown'
      BY <1>1, <1>2, <2>2, <3>1, SameStream DEF RInv
    <3>3. CallWrites'
      BY <2>2, <3>1, SameEvents DEF RInv, CallWrites, InPacket
    <3>4. Untouched'
      BY <1>1, <3>1, UsedFromNowOn DEF RInv
    <3> QED
      BY <3>2, <3>3, <3>4 DEF RInv
  <2>4. ASSUME NEW k \in 1 .. 14, port' = [port EXCEPT !.wire = port.wire \o SubSeq(line, 1, k)],
               log' = Append(log, Entry(0, Plain, k, k))
        PROVE  RInv'
    <3> DEFINE piece == SubSeq(line, 1, k)
               e == Entry(0, Plain, k, k)
               n == Len(log) + 1
    <3>0. k \in Nat /\ k \in 0 .. 14 /\ \A m \in 1 .. k : m \in 1 .. 14
      OBVIOUS
    <3>1. /\ piece \in Seq(Int) /\ Len(piece) = k
          /\ \A m \in 1 .. k : piece[m] = IF m = 14 THEN 10 ELSE 91
      <4>1. /\ piece \in Seq(Int) /\ Len(piece) = k
            /\ \A m \in 1 .. k : piece[m] = line[m]
        <5> HIDE DEF line
        <5> QED
          BY <2>0, <3>0, FrontBytes
      <4>2. ASSUME NEW m \in 1 .. k
            PROVE  piece[m] = IF m = 14 THEN 10 ELSE 91
        <5> HIDE DEF line, piece
        <5>1. m \in 1 .. 14 /\ piece[m] = line[m]
          BY <3>0, <4>1
        <5>2. line[m] = IF m = 14 THEN 10 ELSE 91
          BY <2>0, <5>1
        <5> QED
          BY <5>1, <5>2
      <4> HIDE DEF line, piece
      <4> QED
        BY <4>1, <4>2
    <3>2. port' = [port EXCEPT !.wire = port.wire \o piece] /\ log' = Append(log, e)
      BY <2>4
    <3>3. /\ e \in EntryRecord /\ e.type = Plain /\ e.put = k /\ e.size = k /\ e.at = BytesOut
          /\ BytesOut \in Nat
      BY <3>0, BytesOutTyped DEF IInv, Entry, EntryRecord, Plain
    <3> HIDE DEF piece, e
    <3>4. /\ log' \in Seq(EntryRecord) /\ Len(log) \in Nat /\ Len(log') = Len(log) + 1
          /\ log'[Len(log) + 1] = e /\ n \in Nat \ {0} /\ n - 1 = Len(log)
          /\ \A i \in 1 .. Len(log) : log'[i] = log[i]
          /\ \A i : i \in Events' => i \in Events \/ (i = n /\ e.type = EventBin)
          /\ \A i \in Events : i \in 1 .. Len(log) /\ log'[i] = log[i]
      BY <3>2, <3>3, Appended DEF IInv
    <3>5. e.type # EventBin
      BY <3>3 DEF Plain, EventBin
    <3>6. Grows(n, e, 0, piece)
      <4>1. WellFormed(e)
        BY <3>0, <3>3, Kinds DEF WellFormed
      <4>2. ASSUME NEW m \in 1 .. k
            PROVE  piece[m] = ByteOf(e, m)
        <5>1. ByteOf(e, m) = IF m = 14 THEN 10 ELSE 91
          BY <3>3, PlainBytes
        <5>2. piece[m] = IF m = 14 THEN 10 ELSE 91
          BY <3>1
        <5> QED
          BY <5>1, <5>2
      <4>3. \A m \in 1 .. Len(piece) : piece[m] = ByteOf(e, 0 + m)
        BY <3>1, <4>2
      <4>4. /\ port' \in PortRecord /\ port'.wire = port.wire \o piece
            /\ port'.open = port.open /\ port'.reopens = port.reopens
        <5> DEFINE w == port.wire \o piece
        <5>1. w \in Seq(Int)
          BY <3>1, ReaderFields DEF RInv
        <5> HIDE DEF w
        <5>2. port' = [port EXCEPT !.wire = w] /\ port \in PortRecord
          BY <3>2 DEF w, RInv, ReaderTypes
        <5>3. /\ port' \in PortRecord /\ port'.wire = w
              /\ port'.open = port.open /\ port'.reopens = port.reopens
          BY <5>1, <5>2 DEF PortRecord
        <5> QED
          BY <5>3 DEF w
      <4>5. e.at + 0 = BytesOut /\ e.put = 0 + Len(piece)
        BY <3>1, <3>3
      <4> HIDE DEF n
      <4>6. Len(log') = n /\ log'[n] = e /\ n = Len(log) + 1 /\ \A i \in 1 .. n - 1 : log'[i] = log[i]
        BY <3>4 DEF n
      <4> QED
        BY <1>1, <3>4, <3>5, <4>1, <4>3, <4>4, <4>5, <4>6 DEF Grows
    <3> HIDE DEF n
    <3>7. ReaderTypes' /\ Layout' /\ InStream' /\ FromPackets' /\ OwedAreShown'
      BY <3>1, <3>4, <3>6, StreamGrows DEF IInv, RInv
    <3>8. CallWrites'
      BY <2>2, <3>4, <3>5 DEF RInv, CallWrites, InPacket
    <3>9. Untouched'
      BY <1>1, <3>6, UsedFromNowOn DEF RInv, Grows
    <3> QED
      BY <3>7, <3>8, <3>9 DEF RInv
  <2>5. \/ port' = port /\ log' = log
        \/ \E k \in 1 .. 14 : /\ port' = [port EXCEPT !.wire = port.wire \o SubSeq(line, 1, k)]
                              /\ log' = Append(log, Entry(0, Plain, k, k))
    <3>1. PICK k \in Taken(line) :
            IF port.open /\ k # 0
            THEN /\ port' = [port EXCEPT !.wire = port.wire \o SubSeq(line, 1, k)]
                 /\ log' = Append(log, Entry(0, Plain, k, k))
            ELSE UNCHANGED <<port, log>>
      BY <1>4 DEF PlainLine
    <3>2. k \in 0 .. 14
      <4> HIDE DEF line
      <4> QED
        BY <2>0, StreamAssumption DEF Taken
    <3>3. k # 0 => k \in 1 .. 14
      BY <3>2
    <3> HIDE DEF line
    <3> QED
      BY <3>1, <3>3
  <2> QED
    BY <2>3, <2>4, <2>5
<1>5. \/ WriteText(LogText, Text) \/ WriteText(Marker, <<>>) \/ PlainLine
  BY DEF SendText, SendMarker
<1>6. LogText # Marker
  BY DEF LogText, Marker
<1> QED
  BY <1>3, <1>4, <1>5, <1>6, Zenon

LEMMA CallRec ==
  ASSUME IInv, RInv, dev.pc \in {"write"} \cup InPacket
  PROVE  /\ dev.rec \in Seq(Int)
         /\ \/ dev.type = EventBin /\ dev.rec \in Records /\ Len(dev.rec) \in {4, 8}
            \/ dev.type = LogText /\ dev.rec = Text /\ Len(dev.rec) = 13
            \/ dev.type = Marker /\ dev.rec = <<>> /\ Len(dev.rec) = 0
<1>1. dev.rec \in Seq(Int) /\ dev.type \in {EventBin, LogText, Marker}
  BY DEF IInv, Types, DevRecord
<1>2. CASE dev.type = EventBin
  <2>1. dev.rec \in Records
    BY <1>2 DEF RInv, CallWrites
  <2>2. Len(dev.rec) \in {4, 8}
    BY <2>1 DEF Records
  <2> QED
    BY <1>1, <1>2, <2>1, <2>2
<1>3. CASE dev.type = LogText
  <2>1. dev.rec = Text
    BY <1>3 DEF RInv, CallWrites
  <2>2. Len(Text) = 13
    BY DEF Text
  <2> QED
    BY <1>1, <1>3, <2>1, <2>2
<1>4. CASE dev.type = Marker
  <2>1. dev.rec = <<>>
    BY <1>4 DEF RInv, CallWrites
  <2> QED
    BY <1>1, <1>4, <2>1
<1> QED
  BY <1>1, <1>2, <1>3, <1>4

LEMMA WriteKeepsRInv ==
  ASSUME IInv, RInv, StreamWrite
  PROVE  RInv'
<1>1. dev.pc = "write" /\ port' = port /\ host' = host
  BY DEF StreamWrite
<1>2. CASE ~port.open
  BY <1>1, <1>2, FailedKeepsRInv DEF StreamWrite, ReturnFailed
<1>3. CASE port.open
  <2> DEFINE z == HdrLen + Len(dev.rec)
             e == Entry(dev.event, dev.type, 0, z)
             n == Len(log) + 1
  <2>1. dev' = [dev EXCEPT !.pc = "header"] /\ log' = Append(log, e)
    BY <1>3 DEF StreamWrite
  <2>2. /\ dev'.pc = "header" /\ dev'.event = dev.event /\ dev'.type = dev.type
        /\ dev'.rec = dev.rec
    BY <2>1 DEF IInv, Types, DevRecord
  <2>3. z \in Nat /\ z \in SizesOf(dev.type)
    <3>1. \/ dev.type = EventBin /\ Len(dev.rec) \in {4, 8}
          \/ dev.type = LogText /\ Len(dev.rec) = 13
          \/ dev.type = Marker /\ Len(dev.rec) = 0
      BY <1>1, CallRec
    <3>2. CASE dev.type = EventBin /\ Len(dev.rec) \in {4, 8}
      <4>1. z \in {12, 16}
        <5>1. z = HdrLen + Len(dev.rec) /\ HdrLen = 8
          BY Kinds DEF z
        <5>2. CASE Len(dev.rec) = 4
          BY <5>1, <5>2
        <5>3. CASE Len(dev.rec) = 8
          BY <5>1, <5>3
        <5> QED
          BY <3>2, <5>2, <5>3
      <4> QED
        BY <3>2, <4>1, Kinds
    <3>3. CASE dev.type = LogText /\ Len(dev.rec) = 13
      <4>1. z = 21
        BY <3>3, Kinds DEF z
      <4> QED
        BY <3>3, <4>1, Kinds
    <3>4. CASE dev.type = Marker /\ Len(dev.rec) = 0
      <4>1. z = 8
        BY <3>4, Kinds DEF z
      <4> QED
        BY <3>4, <4>1, Kinds
    <3> QED
      BY <3>1, <3>2, <3>3, <3>4
  <2> HIDE DEF z
  <2>4. /\ e \in EntryRecord /\ e.type = dev.type /\ e.put = 0 /\ e.size = z
        /\ e.at = BytesOut /\ e.event = dev.event /\ BytesOut \in Nat
        /\ dev.type \in {EventBin, LogText, Marker}
    <3>1. dev.type \in {EventBin, LogText, Marker} /\ dev.event \in Nat
      BY DEF IInv, Types, DevRecord
    <3>2. dev.type \in 0 .. 4
      BY <3>1 DEF EventBin, LogText, Marker
    <3> QED
      BY <2>3, <3>1, <3>2, BytesOutTyped DEF IInv, Entry, EntryRecord
  <2> HIDE DEF e
  <2>5. /\ log' \in Seq(EntryRecord) /\ Len(log) \in Nat /\ Len(log') = Len(log) + 1
        /\ log'[Len(log) + 1] = e /\ n \in Nat \ {0} /\ n - 1 = Len(log)
        /\ \A i \in 1 .. Len(log) : log'[i] = log[i]
        /\ \A i : i \in Events' => i \in Events \/ (i = n /\ e.type = EventBin)
        /\ \A i \in Events : i \in 1 .. Len(log) /\ log'[i] = log[i]
    BY <2>1, <2>4, Appended DEF IInv
  <2>6. Grows(n, e, 0, <<>>)
    <3>1. WellFormed(e)
      BY <2>3, <2>4 DEF WellFormed, Plain, EventBin, LogText, Marker
    <3>2. e.at + 0 = BytesOut /\ e.put = 0 + Len(<<>>) /\ \A m \in 1 .. Len(<<>>) : FALSE
      BY <2>4
    <3>3. e.type = EventBin => \A i \in Events : log[i].event < e.event
      BY <1>1, <2>4 DEF RInv, CallWrites
    <3>4. /\ port' \in PortRecord /\ port'.wire = port.wire \o <<>>
          /\ port'.open = port.open /\ port'.reopens = port.reopens
      BY <1>1, ReaderFields DEF RInv, ReaderTypes
    <3> HIDE DEF n
    <3>5. Len(log') = n /\ log'[n] = e /\ n = Len(log) + 1 /\ \A i \in 1 .. n - 1 : log'[i] = log[i]
      BY <2>5 DEF n
    <3> QED
      BY <1>1, <2>5, <3>1, <3>2, <3>3, <3>4, <3>5 DEF Grows
  <2> HIDE DEF n
  <2>7. ReaderTypes' /\ Layout' /\ InStream' /\ FromPackets' /\ OwedAreShown'
    <3>1. <<>> \in Seq(Int)
      OBVIOUS
    <3> QED
      BY <2>5, <2>6, <3>1, StreamGrows DEF IInv, RInv
  <2>8. CallWrites'
    <3>1. \A i \in Events' : log'[i].event <= dev'.event
      <4>1. \A i \in Events : log'[i].event <= dev.event
        BY <2>5 DEF RInv, CallWrites
      <4>2. log'[n].event <= dev.event
        <5>1. log'[n].event = dev.event /\ dev.event \in Nat
          BY <2>4, <2>5 DEF n, IInv, Types, DevRecord
        <5> QED
          BY <5>1
      <4> QED
        BY <2>2, <2>5, <4>1, <4>2
    <3>2. Records' = Records
      BY <2>2 DEF Records
    <3>3. /\ dev'.type = EventBin => dev'.rec \in Records
          /\ dev'.type = LogText => dev'.rec = Text
          /\ dev'.type = Marker => dev'.rec = <<>>
      BY <1>1, <2>2 DEF RInv, CallWrites
    <3>4. dev'.pc \in InPacket => log'[Len(log')].event = dev'.event
      BY <2>2, <2>4, <2>5
    <3> QED
      BY <2>2, <3>1, <3>2, <3>3, <3>4 DEF CallWrites
  <2>9. Untouched'
    BY <1>1, UsedFromNowOn DEF RInv
  <2> QED
    BY <2>7, <2>8, <2>9 DEF RInv
<1> QED
  BY <1>2, <1>3

-----------------------------------------------------------------------------
(* A piece of the header or of the payload is written. *)
LEMMA PieceGrows ==
  ASSUME IInv, RInv, dev.pc \in InPacket, NEW buf \in Seq(Int), NEW k \in Taken(buf),
         Fwrite(buf, k), host' = host,
         NEW o \in {0, HdrLen}, o = IF dev.pc = "header" THEN 0 ELSE HdrLen,
         o + Len(buf) <= HdrLen + Len(dev.rec),
         \A m \in 1 .. Len(buf) : buf[m] = ByteOf(log[Len(log)], o + m)
  PROVE  /\ ReaderTypes' /\ Layout' /\ InStream' /\ FromPackets' /\ OwedAreShown' /\ Untouched'
         /\ Events' = Events /\ \A i \in Events : log'[i].event = log[i].event
         /\ Len(log') = Len(log) /\ log'[Len(log)].event = log[Len(log)].event
<1> DEFINE n == Len(log)
           last == log[n]
           t == SubSeq(buf, 1, k)
           e == [event |-> last.event, type |-> last.type, at |-> last.at,
                 put |-> last.put + k, size |-> last.size]
<1>1. /\ log # <<>> /\ last.size = HdrLen + Len(dev.rec) /\ last.put = o
  BY DEF IInv, PacketOfCall, InPacket
<1>2. k \in 0 .. Len(buf) /\ k \in Nat /\ Len(buf) \in Nat /\ Len(dev.rec) \in Nat
  <2>1. Len(dev.rec) \in Nat
    BY Numbers DEF IInv
  <2> QED
    BY <2>1, StreamAssumption DEF Taken
<1>3. /\ n \in Nat \ {0} /\ n \in 1 .. n /\ last \in EntryRecord /\ DOMAIN log = 1 .. n
      /\ \A i \in 1 .. n - 1 : i \in 1 .. n /\ i # n
  BY <1>1 DEF IInv, Types
<1>4. t \in Seq(Int) /\ Len(t) = k /\ \A m \in 1 .. k : t[m] = buf[m]
  BY <1>2, FrontBytes
<1>5. e \in EntryRecord /\ [last EXCEPT !.put = @ + k] = e /\ SameButPut(e, last)
  <2>0. last \in EntryRecord
    BY <1>3
  <2>1. [last EXCEPT !.put = @ + k] = e
    <3> HIDE DEF last
    <3> QED
      BY <2>0 DEF EntryRecord
  <2>2. last.put + k \in Nat
    <3> HIDE DEF last
    <3>1. last.put \in Nat
      BY <2>0 DEF EntryRecord
    <3> QED
      BY <1>2, <3>1
  <2>3. e \in EntryRecord
    BY <1>3, <2>2 DEF EntryRecord
  <2> QED
    BY <2>1, <2>3 DEF SameButPut
<1>6. e.put = o + k /\ e.at = last.at /\ e.size = last.size /\ e.type = last.type
      /\ e.event = last.event
  BY <1>1
<1>7. log' = [log EXCEPT ![n] = e]
  BY <1>5 DEF Fwrite
<1> HIDE DEF e, t
<1>8. /\ log' \in Seq(EntryRecord) /\ Len(log') = n /\ log'[n] = e
      /\ \A i \in 1 .. n : i # n => log'[i] = log[i]
  BY <1>3, <1>5, <1>7 DEF IInv, Types
<1>9. Grows(n, e, o, t)
  <2>1. WellFormed(last) /\ last.at \in Nat
    BY <1>3, Entries, EntrySizes DEF IInv, RInv
  <2>2. WellFormed(e)
    <3>1. e.put <= e.size
      <4>1. o \in Nat /\ o + k <= HdrLen + Len(dev.rec)
        <5>1. o \in Nat /\ HdrLen \in Nat
          BY DEF HdrLen
        <5> DEFINE z == HdrLen + Len(dev.rec)
                   l == Len(buf)
        <5>2. k <= l /\ l \in Nat /\ z \in Nat /\ o + l <= z
          BY <1>2, <5>1
        <5> HIDE DEF z, l
        <5>3. o + k <= z
          BY <1>2, <5>1, <5>2
        <5> QED
          BY <5>1, <5>3 DEF z
      <4> QED
        BY <1>1, <1>6, <4>1
    <3>2. last.type # Plain
      <4>1. last.type = dev.type
        BY DEF IInv, PacketOfCall
      <4> QED
        BY <4>1, Kinds DEF IInv, Types, DevRecord
    <3> QED
      BY <1>5, <1>6, <2>1, <3>1, <3>2 DEF WellFormed
  <2>3. e.at + o = BytesOut
    <3>1. BytesOut = EndOf(last)
      BY <1>1, BytesOutIs DEF IInv
    <3> QED
      BY <1>1, <1>6, <3>1 DEF EndOf
  <2>4. \A m \in 1 .. Len(t) : t[m] = ByteOf(e, o + m)
    <3>1. \A m \in 1 .. k : m \in 1 .. Len(buf) /\ buf[m] = ByteOf(last, o + m)
      BY <1>2
    <3>2. \A m \in 1 .. k : ByteOf(e, o + m) = ByteOf(last, o + m)
      BY <1>5, ByteOfSame
    <3> QED
      BY <1>4, <3>1, <3>2
  <2>5. e.type = EventBin => \A i \in Events : i < n => log[i].event < e.event
    <3> SUFFICES ASSUME e.type = EventBin, NEW i \in Events, i < n PROVE log[i].event < e.event
      OBVIOUS
    <3>1. n \in Events
      BY <1>3, <1>6 DEF Events
    <3> QED
      BY <1>6, <3>1 DEF RInv, Layout
  <2>6. o = 0 \/ (o = HdrLen /\ dev.pc = "payload")
    BY DEF InPacket
  <2>7. /\ port' \in PortRecord /\ port'.wire = port.wire \o t
        /\ port'.open = port.open /\ port'.reopens = port.reopens
    <3> DEFINE w == port.wire \o t
    <3>1. w \in Seq(Int)
      BY <1>4, ReaderFields DEF RInv
    <3> HIDE DEF w
    <3>2. port' = [port EXCEPT !.wire = w] /\ port \in PortRecord
      BY DEF w, t, Fwrite, RInv, ReaderTypes
    <3>3. /\ port' \in PortRecord /\ port'.wire = w
          /\ port'.open = port.open /\ port'.reopens = port.reopens
      BY <3>1, <3>2 DEF PortRecord
    <3> QED
      BY <3>3 DEF w
  <2>8. e.put = o + Len(t)
    BY <1>4, <1>6
  <2>9. \A i \in 1 .. n - 1 : log'[i] = log[i]
    BY <1>3, <1>8
  <2> QED
    BY <1>1, <1>5, <1>8, <2>2, <2>3, <2>4, <2>5, <2>6, <2>7, <2>8, <2>9 DEF Grows
<1>10. o \in Nat
  BY DEF HdrLen
<1>11. ReaderTypes' /\ Layout' /\ InStream' /\ FromPackets' /\ OwedAreShown'
  <2> HIDE DEF n
  <2> QED
    BY <1>3, <1>4, <1>9, <1>10, StreamGrows DEF IInv, RInv
<1>12. Untouched'
  <2>1. dev.pc # "wait_dtr"
    BY DEF InPacket
  <2> QED
    BY <1>9, <2>1, UsedFromNowOn DEF RInv, Grows
<1>13. \A i \in 1 .. n : log'[i].type = log[i].type /\ log'[i].event = log[i].event
  <2> SUFFICES ASSUME NEW i \in 1 .. n
               PROVE  log'[i].type = log[i].type /\ log'[i].event = log[i].event
    OBVIOUS
  <2>1. CASE i = n
    BY <1>6, <1>8, <2>1
  <2>2. CASE i # n
    BY <1>8, <2>2
  <2> QED
    BY <2>1, <2>2
<1>14. Events' = Events
  BY <1>8, <1>13 DEF Events
<1> QED
  BY <1>3, <1>8, <1>11, <1>12, <1>13, <1>14 DEF Events

LEMMA HeaderBytes ==
  ASSUME IInv, RInv, dev.pc \in InPacket
  PROVE  LET hdr == Header(dev.type, Len(dev.rec))
         IN /\ hdr \in Seq(Int) /\ Len(hdr) = HdrLen
            /\ \A m \in 1 .. HdrLen : hdr[m] = ByteOf(log[Len(log)], m)
<1> DEFINE e == log[Len(log)]
           l == Len(dev.rec)
           x == <<1, dev.type, l % 256, l \div 256>>
           hdr == Magic \o x
<1>1. log # <<>> /\ e.type = dev.type /\ e.size = HdrLen + l
  BY DEF IInv, PacketOfCall
<1>2. l \in {0, 4, 8, 13} /\ dev.type \in {EventBin, LogText, Marker}
  BY CallRec DEF InPacket
<1>3. l % 256 = l /\ l \div 256 = 0 /\ l \in Int /\ dev.type \in Int
  <2>1. l % 256 = l /\ l \div 256 = 0 /\ l \in Int
    <3> HIDE DEF l
    <3> QED
      BY <1>2
  <2>2. dev.type \in Int
    BY <1>2, Kinds
  <2> QED
    BY <2>1, <2>2
<1>4. WellFormed(e) /\ Framed(e)
  <2>1. Len(log) \in 1 .. Len(log)
    BY <1>1 DEF IInv, Types
  <2> QED
    BY <1>1, <1>2, <2>1, Entries, Kinds DEF IInv, RInv, Framed
<1>5. e.size - 8 = l
  <2> HIDE DEF l
  <2> QED
    BY <1>1, <1>3, Kinds
<1>6. /\ \A o \in 1 .. 4 : ByteOf(e, o) = Magic[o]
      /\ ByteOf(e, 5) = 1 /\ ByteOf(e, 6) = dev.type /\ ByteOf(e, 7) = l /\ ByteOf(e, 8) = 0
  BY <1>1, <1>4, <1>5, EntryBytes
<1>7. x = <<1, dev.type, l, 0>>
  BY <1>3
<1> DEFINE ty == dev.type
<1> HIDE DEF l, e, ty
<1>8. /\ hdr \in Seq(Int) /\ Len(hdr) = 8
      /\ \A o \in 1 .. 4 : hdr[o] = Magic[o]
      /\ hdr[5] = 1 /\ hdr[6] = ty /\ hdr[7] = l /\ hdr[8] = 0
  <2>1. Magic \in Seq(Int) /\ Len(Magic) = 4
    BY DEF Magic
  <2>2. x \in Seq(Int) /\ Len(x) = 4 /\ x[1] = 1 /\ x[2] = ty /\ x[3] = l /\ x[4] = 0
    <3>1. x = <<1, ty, l, 0>> /\ ty \in Int /\ l \in Int
      BY <1>3, <1>7 DEF ty
    <3> HIDE DEF x
    <3> QED
      BY <3>1
  <2> HIDE DEF x
  <2>3. /\ hdr \in Seq(Int) /\ Len(hdr) = Len(Magic) + Len(x)
        /\ \A k \in 1 .. Len(Magic) : hdr[k] = Magic[k]
        /\ \A k \in 1 .. Len(x) : hdr[Len(Magic) + k] = x[k]
    BY <2>1, <2>2, ConcatBytes
  <2> HIDE DEF hdr
  <2>4. \A k \in 1 .. 4 : hdr[4 + k] = x[k]
    BY <2>1, <2>2, <2>3
  <2>5. hdr[4 + 1] = x[1] /\ hdr[4 + 2] = x[2] /\ hdr[4 + 3] = x[3] /\ hdr[4 + 4] = x[4]
    BY <2>4
  <2>6. 4 + 1 = 5 /\ 4 + 2 = 6 /\ 4 + 3 = 7 /\ 4 + 4 = 8
    OBVIOUS
  <2> QED
    BY <2>1, <2>2, <2>3, <2>5, <2>6
<1> HIDE DEF hdr
<1>9. \A m \in 1 .. 8 : m \in 1 .. 4 \/ m = 5 \/ m = 6 \/ m = 7 \/ m = 8
  OBVIOUS
<1>10. \A m \in 1 .. 8 : hdr[m] = ByteOf(e, m)
  BY <1>6, <1>8, <1>9 DEF ty
<1>11. Header(dev.type, Len(dev.rec)) = hdr
  BY DEF Header, hdr, l
<1> QED
  BY <1>8, <1>10, <1>11, Kinds DEF e

LEMMA RecordBytes ==
  ASSUME IInv, RInv, dev.pc \in InPacket
  PROVE  \A m \in 1 .. Len(dev.rec) : dev.rec[m] = ByteOf(log[Len(log)], HdrLen + m)
<1> DEFINE e == log[Len(log)]
           r == dev.rec
<1>1. e.type = dev.type /\ e.size = HdrLen + Len(r) /\ e.event = dev.event /\ HdrLen = 8
  BY Kinds DEF IInv, RInv, PacketOfCall, CallWrites
<1>2. \/ dev.type = EventBin /\ r \in Records
      \/ dev.type = LogText /\ r = Text
      \/ dev.type = Marker /\ r = <<>>
  BY CallRec DEF InPacket
<1>3. CASE dev.type = Marker /\ r = <<>>
  BY <1>3
<1>4. CASE dev.type = LogText /\ r = Text
  <2>1. Len(r) = 13 /\ \A m \in 1 .. 13 : r[m] = 91
    BY <1>4 DEF Text
  <2>2. \A o \in 9 .. 21 : ByteOf(e, o) = 91
    BY <1>1, <1>4 DEF ByteOf, Plain, LogText, EventBin, HdrLen
  <2>3. \A m \in 1 .. 13 : 8 + m \in 9 .. 21
    OBVIOUS
  <2> QED
    BY <1>1, <2>1, <2>2, <2>3
<1>5. CASE dev.type = EventBin /\ r \in Records
  <2> DEFINE px == Pixel(dev.event)
  <2>1. /\ \A o \in 13 .. 16 : ByteOf(e, o) = 0
        /\ ByteOf(e, 9) = (IF e.size = 12 THEN RecNots ELSE RecTicks) /\ ByteOf(e, 10) = FlagOn
        /\ ByteOf(e, 11) = px[1] /\ ByteOf(e, 12) = px[2]
    BY <1>1, <1>5 DEF ByteOf, Plain, LogText, EventBin, HdrLen
  <2> HIDE DEF px, e
  <2>2. CASE r = <<RecTicks, FlagOn, px[1], px[2], 0, 0, 0, 0>>
    <3>1. Len(r) = 8
      BY <2>2
    <3>2. e.size # 12
      BY <1>1, <3>1
    <3>3. \A m \in 1 .. 8 : \/ m = 1 /\ 8 + m = 9
                            \/ m = 2 /\ 8 + m = 10
                            \/ m = 3 /\ 8 + m = 11
                            \/ m = 4 /\ 8 + m = 12
                            \/ m \in 5 .. 8 /\ 8 + m \in 13 .. 16
      OBVIOUS
    <3>4. r[1] = RecTicks /\ r[2] = FlagOn /\ r[3] = px[1] /\ r[4] = px[2]
          /\ \A m \in 5 .. 8 : r[m] = 0
      BY <2>2
    <3> HIDE DEF r
    <3>5. \A m \in 1 .. 8 : r[m] = ByteOf(e, 8 + m)
      BY <2>1, <3>2, <3>3, <3>4
    <3> QED
      BY <1>1, <3>1, <3>5 DEF r, e
  <2>3. CASE r = <<RecNots, FlagOn, px[1], px[2]>>
    <3>1. Len(r) = 4
      BY <2>3
    <3>2. e.size = 12
      BY <1>1, <3>1
    <3>3. \A m \in 1 .. 4 : \/ m = 1 /\ 8 + m = 9
                            \/ m = 2 /\ 8 + m = 10
                            \/ m = 3 /\ 8 + m = 11
                            \/ m = 4 /\ 8 + m = 12
      OBVIOUS
    <3>4. r[1] = RecNots /\ r[2] = FlagOn /\ r[3] = px[1] /\ r[4] = px[2]
      BY <2>3
    <3> HIDE DEF r
    <3>5. \A m \in 1 .. 4 : r[m] = ByteOf(e, 8 + m)
      BY <2>1, <3>2, <3>3, <3>4
    <3> QED
      BY <1>1, <3>1, <3>5 DEF r, e
  <2> QED
    BY <1>5, <2>2, <2>3 DEF Records, px
<1> QED
  BY <1>2, <1>3, <1>4, <1>5

-----------------------------------------------------------------------------
(* One lemma for each action.                                              *)

LEMMA HeaderKeepsRInv ==
  ASSUME IInv, RInv, WriteHeader
  PROVE  RInv'
<1>1. dev.pc = "header" /\ dev.pc \in InPacket /\ host' = host
  BY DEF WriteHeader, InPacket
<1>2. CASE ~port.open /\ ReturnFailed /\ UNCHANGED <<usb, port, log>>
  BY <1>1, <1>2, FailedKeepsRInv DEF ReturnFailed
<1>3. ASSUME NEW hdr, hdr = Header(dev.type, Len(dev.rec)), NEW k \in Taken(hdr), Fwrite(hdr, k),
             IF k = HdrLen THEN HeaderWritten ELSE ReturnFailed /\ UNCHANGED usb
      PROVE  RInv'
  <2>1. /\ hdr \in Seq(Int) /\ Len(hdr) = HdrLen /\ HdrLen = 8
        /\ \A m \in 1 .. HdrLen : hdr[m] = ByteOf(log[Len(log)], m)
    BY <1>1, <1>3, HeaderBytes, Kinds
  <2>2. Len(dev.rec) \in Nat
    BY Numbers DEF IInv
  <2>3. 0 + Len(hdr) <= HdrLen + Len(dev.rec)
    BY <2>1, <2>2
  <2>4. \A m \in 1 .. Len(hdr) : hdr[m] = ByteOf(log[Len(log)], 0 + m)
    BY <2>1
  <2>5. /\ ReaderTypes' /\ Layout' /\ InStream' /\ FromPackets' /\ OwedAreShown' /\ Untouched'
        /\ Events' = Events /\ \A i \in Events : log'[i].event = log[i].event
        /\ Len(log') = Len(log) /\ log'[Len(log)].event = log[Len(log)].event
    <3> HIDE DEF IInv, RInv
    <3> QED
      BY <1>1, <1>3, <2>1, <2>3, <2>4, PieceGrows
  <2>6. CASE Return
    BY <2>5, <2>6, ReturnKeepsCalls DEF RInv
  <2>7. CASE dev' = [dev EXCEPT !.pc = "payload"]
    <3>1. /\ dev'.pc = "payload" /\ dev'.type = dev.type /\ dev'.event = dev.event
          /\ dev'.rec = dev.rec
      BY <2>7 DEF IInv, Types, DevRecord
    <3>2. Records' = Records
      BY <3>1 DEF Records
    <3>3. CallWrites'
      BY <1>1, <2>5, <3>1, <3>2 DEF RInv, CallWrites
    <3> QED
      BY <2>5, <3>3 DEF RInv
  <2> QED
    BY <1>3, <2>6, <2>7 DEF HeaderWritten, ReturnSent, ReturnFailed
<1> QED
  BY <1>1, <1>2, <1>3 DEF WriteHeader

LEMMA PayloadKeepsRInv ==
  ASSUME IInv, RInv, WritePayload
  PROVE  RInv'
<1>1. dev.pc = "payload" /\ dev.pc \in InPacket /\ host' = host
  BY DEF WritePayload, InPacket
<1>2. CASE ~port.open /\ ReturnFailed /\ UNCHANGED <<usb, port, log>>
  BY <1>1, <1>2, FailedKeepsRInv DEF ReturnFailed
<1>3. ASSUME NEW k \in Taken(dev.rec), Fwrite(dev.rec, k),
             IF k = Len(dev.rec) THEN ReturnSent ELSE ReturnFailed /\ UNCHANGED usb
      PROVE  RInv'
  <2>1. dev.rec \in Seq(Int) /\ Len(dev.rec) \in Nat
    BY Numbers DEF IInv
  <2>2. HdrLen + Len(dev.rec) <= HdrLen + Len(dev.rec)
    BY <2>1, Kinds
  <2>3. /\ ReaderTypes' /\ Layout' /\ InStream' /\ FromPackets' /\ OwedAreShown' /\ Untouched'
        /\ Events' = Events /\ \A i \in Events : log'[i].event = log[i].event
    BY <1>1, <1>3, <2>1, <2>2, RecordBytes, PieceGrows
  <2>4. Return
    BY <1>3 DEF ReturnSent, ReturnFailed
  <2> QED
    BY <2>3, <2>4, ReturnKeepsCalls DEF RInv
<1> QED
  BY <1>1, <1>2, <1>3 DEF WritePayload

-----------------------------------------------------------------------------
LEMMA OpenKeepsRInv ==
  ASSUME IInv, RInv, NEW prog \in Programs, Open(prog)
  PROVE  RInv'
<1> DEFINE w == port.wire
           h == host.buf
<1>1. PICK n \in Arrived \cup {0} : port' = [port EXCEPT !.open = TRUE, !.wire = Unread(n)]
  BY DEF Open
<1>2. /\ ~port.open /\ log' = log /\ dev' = dev
      /\ host' = [prog |-> prog, buf |-> <<>>, shown |-> <<>>,
                  pc |-> IF prog = "view" THEN "ui" ELSE "read"]
  BY DEF Open
<1>3. /\ w \in Seq(Int) /\ h \in Seq(Int) /\ n \in 0 .. Len(w)
      /\ Len(w) \in Nat /\ Len(h) \in Nat /\ Pending = h \o w
      /\ Pending \in Seq(Int) /\ Len(Pending) = Len(h) + Len(w)
  BY <1>1, ReaderFields, ArrivedBytes DEF RInv, Pending
<1>4. Unread(n) = Behind(w, n)
  BY DEF Unread, Behind
<1> HIDE DEF w, h
<1>5. Behind(w, n) \in Seq(Int) /\ Len(Behind(w, n)) = Len(w) - n
  BY <1>3, BehindBytes
<1>6. ReaderTypes'
  <2> DEFINE v == Behind(w, n)
  <2>1. port' = [port EXCEPT !.open = TRUE, !.wire = v] /\ v \in Seq(Int) /\ port \in PortRecord
    BY <1>1, <1>4, <1>5 DEF RInv, ReaderTypes
  <2> HIDE DEF v
  <2>2. port' \in PortRecord
    BY <2>1 DEF PortRecord
  <2>3. <<>> \in Seq(Int) /\ <<>> \in Seq(Int \X Int)
    OBVIOUS
  <2>4. host' \in HostRecord
    BY <1>2, <2>3 DEF HostRecord
  <2> QED
    BY <2>2, <2>4 DEF ReaderTypes
<1>7. /\ port'.open = TRUE /\ port'.reopens = port.reopens /\ port'.wire = Behind(w, n)
      /\ host'.buf = <<>> /\ host'.shown = <<>> /\ host'.prog = prog
  BY <1>1, <1>2, <1>4 DEF RInv, ReaderTypes, PortRecord
<1>8. Pending' = Behind(Pending, Len(h) + n) /\ Len(h) + n \in 0 .. Len(Pending)
  <2> DEFINE s == h \o SubSeq(w, 1, n)
             c == Len(h) + n
             u == Behind(w, n)
  <2>1. /\ s \in Seq(Int) /\ Len(s) = c
        /\ \A k \in 0 .. Len(s) : Behind(s, k) \o u = Behind(Pending, k)
    BY <1>3, PartsOfPending
  <2>2. c \in 0 .. Len(s) /\ c \in 0 .. Len(Pending)
    <3>1. c \in Nat /\ c <= Len(Pending)
      BY <1>3
    <3> HIDE DEF c
    <3> QED
      BY <1>3, <2>1, <3>1
  <2>3. Behind(s, c) = <<>>
    <3>1. Behind(s, c) \in Seq(Int) /\ Len(Behind(s, c)) = Len(s) - c
      <4> HIDE DEF s, c
      <4> QED
        BY <2>1, <2>2, BehindBytes
    <3>2. Len(s) - c = 0
      <4> HIDE DEF s, c
      <4> QED
        BY <2>1, <2>2
    <3> QED
      BY <3>1, <3>2, EmptySeq
  <2>4. Behind(s, c) \o u = Behind(Pending, c)
    BY <2>1, <2>2
  <2> HIDE DEF c, u, s
  <2>5. Pending' = <<>> \o u
    BY <1>7 DEF Pending, u
  <2> QED
    BY <2>2, <2>3, <2>4, <2>5 DEF c
<1>9. BytesOut \in Nat /\ Done \in Nat /\ Matches(Pending, Done)
  <2>1. BytesOut \in Nat
    BY BytesOutTyped DEF IInv
  <2> QED
    BY <1>3, <2>1 DEF RInv, InStream, Done
<1>10. InStream'
  <2>1. BytesOut' = BytesOut
    BY <1>2 DEF BytesOut
  <2> QED
    BY <1>2, <1>3, <1>8, <1>9, <2>1, FrontDropped DEF IInv
<1>11. Layout' /\ CallWrites'
  BY <1>2 DEF RInv, Layout, CallWrites, BytesOut, EndOf, Events, Records
<1>12. Untouched'
  BY <1>7 DEF Untouched
<1>13. FromPackets'
  BY <1>7 DEF FromPackets
<1>14. OwedAreShown'
  <2>1. ~port.reopens => Events' = {}
    BY <1>2 DEF RInv, Untouched, IInv, PacketOfCall, Events
  <2> QED
    BY <1>7, <2>1 DEF OwedAreShown
<1> QED
  BY <1>6, <1>10, <1>11, <1>12, <1>13, <1>14 DEF RInv

LEMMA CloseKeepsRInv ==
  ASSUME IInv, RInv, Close
  PROVE  RInv'
<1> DEFINE w == port.wire
           h == host.buf
<1>1. /\ log' = log /\ dev' = dev
      /\ port' = [port EXCEPT !.open = FALSE, !.reopens = TRUE]
      /\ host' = [host EXCEPT !.pc = "closed", !.buf = <<>>]
  BY DEF Close
<1>2. /\ w \in Seq(Int) /\ h \in Seq(Int) /\ Len(w) \in Nat /\ Len(h) \in Nat
      /\ Pending = h \o w /\ Pending \in Seq(Int) /\ Len(Pending) = Len(h) + Len(w)
      /\ \A k \in 1 .. Len(w) : Pending[Len(h) + k] = w[k]
  BY ReaderFields DEF RInv, Pending
<1>3. /\ ReaderTypes' /\ port'.open = FALSE /\ port'.reopens = TRUE /\ port'.wire = w
      /\ host'.buf = <<>> /\ host'.shown = host.shown /\ host'.prog = host.prog
  <2>1. port \in PortRecord /\ host \in HostRecord /\ <<>> \in Seq(Int)
    BY DEF RInv, ReaderTypes
  <2>2. /\ port' \in PortRecord /\ port'.open = FALSE /\ port'.reopens = TRUE
        /\ port'.wire = port.wire
    BY <1>1, <2>1 DEF PortRecord
  <2>3. /\ host' \in HostRecord /\ host'.buf = <<>> /\ host'.shown = host.shown
        /\ host'.prog = host.prog
    BY <1>1, <2>1 DEF HostRecord
  <2> QED
    BY <2>2, <2>3 DEF ReaderTypes
<1> HIDE DEF w, h
<1>4. Len(h) \in 0 .. Len(Pending) /\ Pending' = Behind(Pending, Len(h))
  <2> DEFINE c == Len(h)
             g == Behind(Pending, c)
  <2>1. c \in Nat /\ c \in 0 .. Len(Pending) /\ Len(Pending) - c = Len(w)
    BY <1>2
  <2>2. /\ g \in Seq(Int) /\ Len(g) = Len(Pending) - c
        /\ \A k \in 1 .. Len(Pending) - c : g[k] = Pending[k + c]
    <3> HIDE DEF c
    <3> QED
      BY <1>2, <2>1, BehindBytes
  <2> HIDE DEF g
  <2>3. \A k \in 1 .. Len(w) : g[k] = w[k]
    <3> SUFFICES ASSUME NEW k \in 1 .. Len(w) PROVE g[k] = w[k]
      OBVIOUS
    <3>1. k + c = c + k
      BY <2>1
    <3>2. g[k] = Pending[k + c]
      BY <2>1, <2>2
    <3>3. Pending[c + k] = w[k]
      BY <1>2
    <3> QED
      BY <3>1, <3>2, <3>3
  <2>4. g = w
    BY <1>2, <2>1, <2>2, <2>3, SeqEqual
  <2>5. Pending' = <<>> \o w /\ <<>> \o w = w
    BY <1>2, <1>3 DEF Pending
  <2> QED
    BY <2>1, <2>4, <2>5 DEF g
<1>5. BytesOut \in Nat /\ Done \in Nat /\ Matches(Pending, Done)
  <2>1. BytesOut \in Nat
    BY BytesOutTyped DEF IInv
  <2> QED
    BY <1>2, <2>1 DEF RInv, InStream, Done
<1>6. InStream' /\ Done' = Done + Len(h)
  <2>1. BytesOut' = BytesOut
    BY <1>1 DEF BytesOut
  <2> QED
    BY <1>1, <1>2, <1>4, <1>5, <2>1, FrontDropped DEF IInv
<1>7. Layout' /\ CallWrites'
  BY <1>1 DEF RInv, Layout, CallWrites, BytesOut, EndOf, Events, Records
<1>8. Untouched' /\ OwedAreShown'
  BY <1>3 DEF Untouched, OwedAreShown
<1>9. FromPackets'
  <2>1. Waits(Len(h))
    BY <1>3, <1>6 DEF Waits
  <2>2. Done + Len(h) \in Nat /\ Matches(Behind(Pending, Len(h)), Done + Len(h))
    <3> DEFINE c == Len(h)
               r == Done
               p == Pending
    <3>1. c \in 0 .. Len(p) /\ p \in Seq(Int) /\ c \in Nat /\ r \in Nat /\ Matches(p, r)
      BY <1>2, <1>4, <1>5
    <3> HIDE DEF c, r, p
    <3>2. r + c \in Nat /\ Matches(Behind(p, c), r + c)
      BY <3>1, BehindMatches DEF IInv
    <3> QED
      BY <3>2 DEF c, r, p
  <2>3. Behind(Pending, Len(h)) \in Seq(Int)
    BY <1>2, <1>4, BehindBytes
  <2> QED
    BY <1>1, <1>2, <1>3, <1>5, <2>1, <2>2, <2>3, ReaderKeepsShown DEF IInv, RInv
<1> QED
  BY <1>3, <1>6, <1>7, <1>8, <1>9 DEF RInv

(* Window events and the pump leave the stream and the screen alone. *)
LEMMA FrameKeepsRInv ==
  ASSUME IInv, RInv, Frame \/ PumpDeadline \/ PumpReads
  PROVE  RInv'
<1>1. /\ log' = log /\ dev' = dev /\ port' = port
      /\ \E p \in {"ui", "pump", "read"} : host' = [host EXCEPT !.pc = p]
  BY DEF Frame, PumpDeadline, PumpReads
<1>2. /\ host' \in HostRecord /\ host'.prog = host.prog /\ host'.buf = host.buf
      /\ host'.shown = host.shown
  BY <1>1 DEF RInv, ReaderTypes, HostRecord
<1>3. ReaderTypes' /\ Layout' /\ InStream' /\ FromPackets' /\ OwedAreShown'
  BY <1>1, <1>2, SameStream DEF RInv
<1>4. CallWrites' /\ Untouched'
  BY <1>1 DEF RInv, CallWrites, Untouched, Events, Records
<1> QED
  BY <1>3, <1>4 DEF RInv

LEMMA InitRInv ==
  ASSUME Init
  PROVE  RInv
<1>1. /\ dev = [pc |-> "wait_dtr", event |-> 0, texts |-> 0, changes |-> 0,
                type |-> EventBin, rec |-> <<>>]
      /\ port = [open |-> FALSE, wire |-> <<>>, reopens |-> FALSE]
      /\ log = <<>>
      /\ \E p \in Programs : host = [prog |-> p, pc |-> "closed", buf |-> <<>>, shown |-> <<>>]
  BY DEF Init
<1>2. ReaderTypes
  BY <1>1 DEF ReaderTypes, PortRecord, HostRecord
<1>3. BytesOut = 0 /\ Events = {} /\ Pending = <<>> /\ Done = 0
  <2>1. BytesOut = 0 /\ Events = {}
    BY <1>1 DEF BytesOut, Events
  <2>2. host.buf = <<>> /\ port.wire = <<>>
    BY <1>1
  <2>3. Pending = <<>>
    BY <2>2 DEF Pending
  <2>4. Len(Pending) = 0
    BY <2>3
  <2>5. Done = 0
    BY <2>1, <2>4 DEF Done
  <2> QED
    BY <2>1, <2>3, <2>5
<1>4. Layout
  BY <1>1, <1>3 DEF Layout
<1>5. CallWrites /\ Untouched /\ FromPackets /\ OwedAreShown
  BY <1>1, <1>3 DEF CallWrites, InPacket, Untouched, FromPackets, OwedAreShown
<1>6. InStream
  BY <1>1, <1>3 DEF InStream, Matches
<1> QED
  BY <1>2, <1>4, <1>5, <1>6 DEF RInv

LEMMA NextKeepsRInv ==
  ASSUME IInv, RInv, [Next]_vars
  PROVE  RInv'
<1>1. CASE UNCHANGED vars
  <2>1. log' = log /\ dev' = dev /\ port' = port /\ host' = host
    BY <1>1 DEF vars
  <2>2. host' \in HostRecord
    BY <2>1 DEF RInv, ReaderTypes
  <2>3. ReaderTypes' /\ Layout' /\ InStream' /\ FromPackets' /\ OwedAreShown'
    BY <2>1, <2>2, SameStream DEF RInv
  <2>4. CallWrites' /\ Untouched'
    BY <2>1 DEF RInv, CallWrites, Untouched, Events, Records
  <2> QED
    BY <2>3, <2>4 DEF RInv
<1>2. CASE Device
  BY <1>2, OpenedKeepsRInv, EventKeepsRInv, ChangeKeepsRInv, TextKeepsRInv, SendKeepsRInv,
     WriteKeepsRInv, HeaderKeepsRInv, PayloadKeepsRInv DEF Device, InCall
<1>3. CASE Host
  BY <1>3, FrameKeepsRInv, ReaderKeepsRInv DEF Host
<1>4. CASE Close \/ \E prog \in Programs : Open(prog)
  BY <1>4, CloseKeepsRInv, OpenKeepsRInv
<1> QED
  BY <1>1, <1>2, <1>3, <1>4 DEF Next

(* FramedStreamReader: what a program shows on the screen since it was     *)
(* started are events whose row and column were written, each at most once *)
(* and in the order in which they were reported, however the writes were   *)
(* cut, whatever texts lie between and wherever it joined the stream.      *)
THEOREM ShownCorrect == Spec => []ShownAreSent
<1>1. Init => IInv /\ RInv
  BY InitRInv, FirmwareInductive
<1>2. (IInv /\ RInv) /\ [Next]_vars => (IInv /\ RInv)'
  BY NextKeepsRInv, FirmwareInductive
<1>3. IInv /\ RInv => ShownAreSent
  BY DEF RInv, FromPackets, ShownAreSent
<1> QED
  BY <1>1, <1>2, <1>3, PTL DEF Spec

(* "host can resync using magic", hal_stdio.c: a program that has read the *)
(* stream from its start shows each event that is owed, once it has taken  *)
(* its packet, for any number of short writes outside a header.            *)
THEOREM ResyncCorrect == Spec => []CutCostsItsLength
<1>1. Init => IInv /\ RInv
  BY InitRInv, FirmwareInductive
<1>2. (IInv /\ RInv) /\ [Next]_vars => (IInv /\ RInv)'
  BY NextKeepsRInv, FirmwareInductive
<1>3. IInv /\ RInv => CutCostsItsLength
  <2> SUFFICES ASSUME IInv, RInv, port.open, ~port.reopens, NoHeaderCut, NEW i \in Owed, Consumed(i)
               PROVE  IsShown(i)
    BY DEF CutCostsItsLength
  <2>1. i \in Events /\ Whole(i) /\ Unhit(i) /\ Shows(host.prog, Pixel(log[i].event))
    BY DEF Owed
  <2>2. log[i].at < Done
    <3> DEFINE a == log[i].at
               p == log[i].put
               y == BytesOut
               lw == Len(port.wire)
               lh == Len(host.buf)
    <3>1. i \in 1 .. Len(log) /\ log[i].type = EventBin
      BY <2>1 DEF Events
    <3>2. a \in Nat /\ log[i].size \in {12, 16} /\ p = log[i].size
      BY <2>1, <3>1, Entries, EntrySizes, EventSize DEF IInv, RInv, Whole
    <3>3. y \in Nat /\ lw \in Nat /\ lh \in Nat /\ Done = y - (lh + lw)
      BY BytesOutTyped, ReaderFields DEF IInv, RInv, Done
    <3>4. a + p <= y - lw - lh
      BY DEF Consumed
    <3>5. p \in Nat /\ p > 0
      BY <3>2
    <3> HIDE DEF a, p, y, lw, lh
    <3>6. a < y - (lh + lw)
      BY <3>2, <3>3, <3>4, <3>5
    <3> QED
      BY <3>3, <3>6 DEF a
  <2> QED
    BY <2>1, <2>2 DEF RInv, OwedAreShown, Becoming
<1> QED
  BY <1>1, <1>2, <1>3, PTL DEF Spec

=============================================================================
