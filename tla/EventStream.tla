---------------------------- MODULE EventStream ----------------------------
(***************************************************************************)
(* The way of an event from the burst assembler to the host's screen:      *)
(* aer_event_sink.c counts it, usb_stream.c makes a record of it,          *)
(* hal/hal_stdio.c writes header and payload of a packet to the USB port,  *)
(* and FramedStreamReader of scripts/view_events.py and print_events.py    *)
(* cuts packets out of the bytes again.  Between events the firmware may   *)
(* write log lines, framed or plain, and markers to the same port.         *)
(*                                                                         *)
(* The terminal may come and go at any time, and a write may be short.     *)
(* Bytes are numbers, because the reader takes lengths and types from      *)
(* whatever follows a magic.  The n-th event is the pixel Pixel(n), so     *)
(* that the order of events can be seen.                                   *)
(***************************************************************************)
EXTENDS Integers, Sequences, FiniteSets, SequencesExt, FiniteSetsExt

CONSTANTS
  MaxEvents,   \* bound: events the assembler reports, and texts; up to 31
               \* events have a pixel of the screen each
  MaxExtras,   \* bound: log lines, markers, and changes of the settings
  MaxCuts,     \* bound: packets with a short write
  CutPoints,   \* bound: after how many bytes a short write ends
  ReadSizes,   \* bound: how many of the bytes sent have arrived when the host reads
  Programs,    \* which of "view" (view_events.py) and "print" (print_events.py)
  ExtrasAt     \* bound: they come only after these many events

ASSUME StreamAssumption ==
  /\ MaxEvents \in Nat /\ MaxExtras \in Nat /\ MaxCuts \in Nat
  /\ CutPoints \subseteq Nat /\ ReadSizes \subseteq Nat \ {0}
  /\ Programs \subseteq {"view", "print"}
  /\ ExtrasAt \subseteq Nat

VARIABLES
  sink,  \* aer_event_sink_t: enabled and its three counters
  usb,   \* g_cfg.timestamps_enabled and g_stats of usb_stream.c
  dev,   \* where the firmware is in a call that writes, the packet's type and payload
  port,  \* the USB port: open (DTR), bytes on their way, opened before
  host,  \* the program on the host: its place, its buffer, what it showed
  log    \* history: each packet begun, where, its size and how much of it was
         \* written; a plain line is listed with type Plain, for as many
         \* bytes as printf took of it

vars == <<sink, usb, dev, port, host, log>>

Magic == <<65, 69, 82, 83>>   \* "AERS"
HdrLen == 8
LogText  == 1                 \* HAL_STREAM_LOG_TEXT
EventBin == 2                 \* HAL_STREAM_EVENT_BIN
Marker   == 4                 \* HAL_STREAM_MARKER
Plain    == 0
RecNots  == 1                 \* USB_EVT_REC_V1_NOTS
RecTicks == 2                 \* USB_EVT_REC_V1_TICKS
FlagOn   == 1                 \* USB_EVT_FLAG_ON

Pixel(n) == <<n, 31 - n>>
OnScreen(px) == px[1] \in 0 .. 31 /\ px[2] \in 0 .. 31

-----------------------------------------------------------------------------
(* The firmware.  The definitions marked "mutant" are plausible bugs in    *)
(* the definition that follows them; nothing else uses them.               *)

ZeroSink == [enabled |-> TRUE, emitted |-> 0, sent_ok |-> 0, failed |-> 0]
ZeroUsb  == [timestamps |-> TRUE, sent |-> 0, dropped |-> 0]

(* main() waits for the terminal before it sets anything up. *)
DtrAsserted == port.open
TerminalOpened ==
  /\ dev.pc = "wait_dtr"
  /\ DtrAsserted
  /\ usb' = ZeroUsb /\ sink' = ZeroSink
  /\ dev' = [dev EXCEPT !.pc = "idle"]
  /\ UNCHANGED <<port, host, log>>

(* aer_event_sink_on_event: forwarded, or counted as failed when disabled *)
OnEvent ==
  /\ dev.pc = "idle" /\ dev.event + dev.texts < MaxEvents
  /\ sink' = [sink EXCEPT !.emitted = @ + 1,
                          !.failed  = IF sink.enabled THEN @ ELSE @ + 1]
  /\ dev' = [dev EXCEPT !.pc = IF sink.enabled THEN "send" ELSE "idle",
                        !.event = @ + 1]
  /\ UNCHANGED <<usb, port, host, log>>

(* The record of the event; its four tick bytes spell no magic. *)
Record ==
  LET px == Pixel(dev.event)
  IN IF usb.timestamps THEN <<RecTicks, FlagOn, px[1], px[2], 0, 0, 0, 0>>
                       ELSE <<RecNots, FlagOn, px[1], px[2]>>

Header(type, len) == Magic \o <<1, type, len % 256, len \div 256>>

BytesOut == IF log = <<>> THEN 0 ELSE Last(log).at + Last(log).put
Entry(event, type, put, size) ==
  [event |-> event, type |-> type, at |-> BytesOut, put |-> put, size |-> size]

(* fwrite and printf take the first k bytes of what they are given, all    *)
(* of them unless MaxCuts and CutPoints allow less.                        *)
Whole(i) == log[i].put = log[i].size
Cut(i)   == log[i].put \notin {0, log[i].size}
Cuts     == {i \in 1 .. Len(log) : Cut(i)}
Taken(buf) == {k \in CutPoints : k < Len(buf)} \cup {Len(buf)}

(* hal_vlogf.  Every text of a log begins with the time in brackets and    *)
(* spells no magic.                                                        *)
Text == [i \in 1 .. 13 |-> 91]
WriteText(type, text) ==
  /\ dev' = [dev EXCEPT !.pc = "write", !.texts = @ + 1, !.type = type, !.rec = text]
  /\ UNCHANGED <<port, log>>

(* A line that is not framed goes to printf at once, which may be short.   *)
PlainLine ==
  /\ dev' = [dev EXCEPT !.texts = @ + 1]
  /\ LET line == Append(Text, 10)
     IN \E k \in Taken(line) :
          /\ k < Len(line) => Cardinality(Cuts) < MaxCuts
          /\ IF port.open /\ k # 0
             THEN /\ port' = [port EXCEPT !.wire = @ \o SubSeq(line, 1, k)]
                  /\ log' = Append(log, Entry(0, Plain, k, k))
             ELSE UNCHANGED <<port, log>>

(* hal_stream_marker; the text of a marker may be empty. *)
SendMarker == WriteText(Marker, <<>>)

Extra == /\ dev.pc = "idle" /\ dev.event \in ExtrasAt
         /\ dev.texts + dev.changes < MaxExtras

(* Logs are framed or not as hal_stdio_set_packetized was last told.  A    *)
(* line above g_log_level is not written at all.                           *)
SendText ==
  /\ Extra /\ dev.event + dev.texts < MaxEvents
  /\ WriteText(LogText, Text) \/ SendMarker \/ PlainLine
  /\ UNCHANGED <<sink, usb, host>>

(* The result of a text is ignored; that of an event goes to the sink, and *)
(* only usb_stream_send_event counts what it sent.                         *)
Return == dev' = [dev EXCEPT !.pc = "idle", !.type = EventBin, !.rec = <<>>]
ReturnFailed ==
  /\ Return
  /\ sink' = IF dev.type = EventBin THEN [sink EXCEPT !.failed = @ + 1] ELSE sink
ReturnSent ==
  /\ Return
  /\ IF dev.type = EventBin
     THEN /\ usb' = [usb EXCEPT !.sent = @ + 1]
          /\ sink' = [sink EXCEPT !.sent_ok = @ + 1]
     ELSE UNCHANGED <<usb, sink>>

(* usb_stream_send_event tests the connection first ... *)
SendEvent ==
  /\ dev.pc = "send"
  /\ \/ /\ ~port.open
        /\ usb' = [usb EXCEPT !.dropped = @ + 1]
        /\ ReturnFailed
     \/ /\ port.open
        /\ dev' = [dev EXCEPT !.pc = "write", !.rec = Record]
        /\ UNCHANGED <<usb, sink>>
  /\ UNCHANGED <<port, host, log>>

(* ... hal_stream_write tests it again before it begins the packet, ... *)
StreamWrite ==
  /\ dev.pc = "write"
  /\ \/ /\ ~port.open
        /\ ReturnFailed
        /\ UNCHANGED log
     \/ /\ port.open
        /\ dev' = [dev EXCEPT !.pc = "header"]
        /\ log' = Append(log, Entry(dev.event, dev.type, 0, HdrLen + Len(dev.rec)))
        /\ UNCHANGED sink
  /\ UNCHANGED <<usb, port, host>>

(* ... and write_bytes_locked before each of the two writes. *)
Fwrite(buf, k) ==
  /\ port.open
  /\ k < Len(buf) => Cardinality(Cuts \ {Len(log)}) < MaxCuts
  /\ port' = [port EXCEPT !.wire = @ \o SubSeq(buf, 1, k)]
  /\ log' = [log EXCEPT ![Len(log)].put = @ + k]

(* A packet without payload ends with its header. *)
HeaderWritten ==
  IF dev.rec = <<>> THEN ReturnSent
  ELSE dev' = [dev EXCEPT !.pc = "payload"] /\ UNCHANGED <<usb, sink>>
WriteHeader ==
  /\ dev.pc = "header"
  /\ \/ /\ ~port.open
        /\ ReturnFailed
        /\ UNCHANGED <<usb, port, log>>
     \/ LET hdr == Header(dev.type, Len(dev.rec))
        IN \E k \in Taken(hdr) :
             /\ Fwrite(hdr, k)
             /\ IF k = HdrLen THEN HeaderWritten ELSE ReturnFailed /\ UNCHANGED usb
  /\ UNCHANGED host

WritePayloadUnchecked ==                                         \* mutant
  /\ dev.pc = "payload"
  /\ \/ /\ ~port.open
        /\ ReturnFailed
        /\ UNCHANGED <<usb, port, log>>
     \/ \E k \in Taken(dev.rec) : Fwrite(dev.rec, k) /\ ReturnSent
  /\ UNCHANGED host
WritePayload ==
  /\ dev.pc = "payload"
  /\ \/ /\ ~port.open
        /\ ReturnFailed
        /\ UNCHANGED <<usb, port, log>>
     \/ \E k \in Taken(dev.rec) :
          /\ Fwrite(dev.rec, k)
          /\ IF k = Len(dev.rec) THEN ReturnSent ELSE ReturnFailed /\ UNCHANGED usb
  /\ UNCHANGED host

(* aer_event_sink_set_enabled, usb_stream_set_timestamps_enabled *)
Changed == dev' = [dev EXCEPT !.changes = @ + 1]
Settings ==
  /\ Extra /\ Changed
  /\ \/ sink' = [sink EXCEPT !.enabled = ~@] /\ UNCHANGED usb
     \/ usb' = [usb EXCEPT !.timestamps = ~@] /\ UNCHANGED sink
  /\ UNCHANGED <<port, host, log>>

(* aer_event_sink_reset *)
ResetSink ==
  /\ Extra /\ Changed
  /\ sink' = [ZeroSink EXCEPT !.enabled = sink.enabled]
  /\ UNCHANGED <<usb, port, host, log>>

InCall == SendEvent \/ StreamWrite \/ WriteHeader \/ WritePayload
Device == TerminalOpened \/ OnEvent \/ SendText \/ InCall \/ Settings \/ ResetSink

-----------------------------------------------------------------------------
(* The host. *)

(* How many bytes ser.read(ser.in_waiting or 1) may return. *)
Arrived == IF port.wire = <<>> THEN {0} ELSE {Min({n, Len(port.wire)}) : n \in ReadSizes}
Unread(n) == SubSeq(port.wire, n + 1, Len(port.wire))

(* A program opens the port; the bytes that had arrived are flushed. *)
Open(prog) ==
  /\ ~port.open
  /\ \E n \in Arrived \cup {0} : port' = [port EXCEPT !.open = TRUE, !.wire = Unread(n)]
  /\ host' = [prog |-> prog, buf |-> <<>>, shown |-> <<>>,
              pc |-> IF prog = "view" THEN "ui" ELSE "read"]
  /\ UNCHANGED <<sink, usb, dev, log>>

(* It ends, or is ended, anywhere. *)
Close ==
  /\ port.open
  /\ port' = [port EXCEPT !.open = FALSE, !.reopens = TRUE]
  /\ host' = [host EXCEPT !.pc = "closed", !.buf = <<>>]
  /\ UNCHANGED <<sink, usb, dev, log>>

(* view_events.py: window events and drawing, then the pump ... *)
Frame ==
  /\ host.pc = "ui"
  /\ host' = [host EXCEPT !.pc = "pump"]
  /\ UNCHANGED <<sink, usb, dev, port, log>>

(* ... which ends after 5 ms ... *)
PumpDeadline ==
  /\ host.pc = "pump"
  /\ host' = [host EXCEPT !.pc = "ui"]
  /\ UNCHANGED <<sink, usb, dev, port, log>>

(* ... or when ser.in_waiting is 0, and otherwise calls read_packet. *)
PumpEmpty ==
  /\ port.wire = <<>>
  /\ PumpDeadline

PumpReads ==
  /\ host.pc = "pump" /\ port.wire # <<>>
  /\ host' = [host EXCEPT !.pc = "read"]
  /\ UNCHANGED <<sink, usb, dev, port, log>>

-----------------------------------------------------------------------------
(* FramedStreamReader.read_packet *)

Magics(buf) == {i \in 1 .. Len(buf) - 3 : SubSeq(buf, i, i + 3) = Magic}

(* Without a magic the last three bytes are kept, with one what begins there. *)
SyncForgets(buf) ==                                              \* mutant
  IF Magics(buf) = {} THEN <<>> ELSE SubSeq(buf, Min(Magics(buf)), Len(buf))
Sync(buf) ==
  IF Magics(buf) = {} THEN SubSeq(buf, Max({1, Len(buf) - 2}), Len(buf))
  ELSE SubSeq(buf, Min(Magics(buf)), Len(buf))

PacketLen(buf) == HdrLen + buf[7] + 256 * buf[8]
CompleteLate(buf) ==                                             \* mutant
  Magics(buf) # {} /\ Len(buf) >= HdrLen /\ Len(buf) > PacketLen(buf)
Complete(buf) == Magics(buf) # {} /\ Len(buf) >= HdrLen /\ Len(buf) >= PacketLen(buf)

(* view_events.py draws the pixels of the screen, print_events.py prints all. *)
Shows(prog, px) == prog = "print" \/ OnScreen(px)

(* The ON events of a payload that the program shows, read record by       *)
(* record up to one that is unknown or too short.                          *)
RecLen(rec_type) == IF rec_type = RecNots THEN 4 ELSE 8
OnEvents(prog, payload) ==
  LET from[i \in Nat] ==
        IF \/ i > Len(payload)
           \/ payload[i] \notin {RecNots, RecTicks}
           \/ i + RecLen(payload[i]) - 1 > Len(payload)
        THEN <<>>
        ELSE LET px == <<payload[i + 2], payload[i + 3]>>
             IN (IF payload[i + 1] % 2 = FlagOn /\ Shows(prog, px) THEN <<px>> ELSE <<>>)
                \o from[i + RecLen(payload[i])]
  IN from[1]

Shown(prog, ptype, payload) ==
  IF ptype = EventBin THEN OnEvents(prog, payload) ELSE <<>>

RestForgotten(buf) == buf                                        \* mutant
Rest(buf) == SubSeq(buf, PacketLen(buf) + 1, Len(buf))

(* One round of the loop of read_packet, and what the caller does with a packet. *)
ReadSome ==
  /\ host.pc = "read"
  /\ \E n \in Arrived :
       LET buf == Sync(host.buf \o SubSeq(port.wire, 1, n))
       IN /\ port' = [port EXCEPT !.wire = Unread(n)]
          /\ host' =
               IF Complete(buf)
               THEN [host EXCEPT
                       !.buf = Rest(buf),
                       !.shown = @ \o Shown(host.prog, buf[6],
                                            SubSeq(buf, HdrLen + 1, PacketLen(buf))),
                       !.pc = IF host.prog = "view" THEN "pump" ELSE "read"]
               ELSE [host EXCEPT !.buf = buf]
  /\ UNCHANGED <<sink, usb, dev, log>>

Host == Frame \/ PumpDeadline \/ PumpReads \/ ReadSome

-----------------------------------------------------------------------------
Init ==
  /\ sink = ZeroSink /\ usb = ZeroUsb
  /\ dev = [pc |-> "wait_dtr", event |-> 0, texts |-> 0, changes |-> 0,
            type |-> EventBin, rec |-> <<>>]
  /\ port = [open |-> FALSE, wire |-> <<>>, reopens |-> FALSE]
  /\ host \in {[prog |-> p, pc |-> "closed", buf |-> <<>>, shown |-> <<>>] : p \in Programs}
  /\ log = <<>>

Next == Device \/ Host \/ Close \/ \E prog \in Programs : Open(prog)

(* A call of the sink goes on to its end, and so do the host's programs:   *)
(* a frame follows a frame, and a pump that finds bytes in every frame     *)
(* reads some of them some time.                                           *)
Spec ==
  /\ Init /\ [][Next]_vars
  /\ WF_vars(InCall)
  /\ WF_vars(Frame) /\ WF_vars(PumpEmpty) /\ SF_vars(PumpReads) /\ WF_vars(ReadSome)

-----------------------------------------------------------------------------
Calling == dev.pc \in {"send", "write", "header", "payload"}
Events == {i \in 1 .. Len(log) : log[i].type = EventBin}

(* The counters of the two layers tell the truth about the bytes: each     *)
(* event since the reset of the sink is sent, failed or in the call, and   *)
(* usb_stream says it sent exactly the packets that are whole, however the *)
(* connection came and went between the tests of it.                       *)
CountersAgree ==
  /\ sink.emitted = sink.sent_ok + sink.failed + (IF Calling /\ dev.type = EventBin THEN 1 ELSE 0)
  /\ usb.sent = Cardinality({i \in Events : Whole(i)})
  /\ usb.dropped + usb.sent <= dev.event

(* The reader resynchronises without inventing, repeating or reordering:   *)
(* what it shows on the screen since it was started are events whose row   *)
(* and column were written, each at most once and in order; and a viewer   *)
(* draws inside its window whatever bytes it is sent.                      *)
ShownAreSent ==
  /\ host.prog = "view" => \A i \in 1 .. Len(host.shown) : OnScreen(host.shown[i])
  /\ \A i \in 1 .. Len(host.shown) : OnScreen(host.shown[i]) =>
       /\ \E j \in Events : /\ host.shown[i] = Pixel(log[j].event)
                            /\ log[j].put >= HdrLen + 4
       /\ \A k \in 1 .. i - 1 : OnScreen(host.shown[k]) => host.shown[k][1] < host.shown[i][1]

(* A packet cut between its magic and the end of its header makes the      *)
(* reader take the next magic for a length of thousands of bytes.          *)
NoHeaderCut == \A i \in Cuts : log[i].put \notin 4 .. HdrLen - 1

(* The events that begin behind what each cut packet before them still     *)
(* lacked when the next one was begun; a packet cut in its magic lacks     *)
(* nothing, because it is none to the reader.  The viewer owes only those  *)
(* of the screen.                                                          *)
Unhit(i) == \A j \in Cuts :
  j < i /\ log[j].put >= Len(Magic) => log[i].at >= log[j].at + log[j].size
Owed == {i \in Events : Whole(i) /\ Unhit(i) /\ Shows(host.prog, Pixel(log[i].event))}

(* The reader has taken all of packet i from the stream. *)
Consumed(i) == log[i].at + log[i].put <= BytesOut - Len(port.wire) - Len(host.buf)

IsShown(i) == \E j \in 1 .. Len(host.shown) : host.shown[j] = Pixel(log[i].event)

(* "host can resync using magic", hal_stdio.c: a cut packet costs itself   *)
(* and what its missing bytes overlap, the next event or more if it was a  *)
(* long line, and no more, unless the cut is inside a header.              *)
CutCostsItsLength ==
  port.open /\ ~port.reopens /\ NoHeaderCut =>
    \A i \in Owed : Consumed(i) => IsShown(i)

(* A program that saw the stream from its start shows every packet that is *)
(* owed: print_events.py does ...                                          *)
FirstLook == port.open /\ ~port.reopens
CatchesUp(prog) ==
  (host.prog = prog /\ FirstLook)
    ~> (~FirstLook \/ ~NoHeaderCut \/ \A i \in Owed : IsShown(i))
PrinterCatchesUp == CatchesUp("print")

(* ... and view_events.py should, "pull as many packets as are available   *)
(* quickly", here even when no packet is ever cut.                         *)
ViewerCatchesUp == CatchesUp("view")

(* The window of view_events.py is served again and again while packets    *)
(* come, if it saw the stream from its start, no packet is left unfinished *)
(* and no line was written plainly: a packet that has arrived whole never  *)
(* keeps the reader waiting for the next one.                              *)
Unfinished == IF Calling THEN Cuts \ {Len(log)} ELSE Cuts
PlainLines == {i \in 1 .. Len(log) : log[i].type = Plain}
WindowIsServed ==
  (host.prog = "view" /\ FirstLook)
    ~> (~FirstLook \/ Unfinished \cup PlainLines # {} \/ host.pc = "ui")
=============================================================================
