------------------------------- MODULE Sendme -------------------------------
(***************************************************************************)
(* Flow control on one direction of a Tor circuit: core/or/sendme.c,       *)
(* core/or/congestion_control_common.c, congestion_control_flow.c, and the *)
(* parts of core/or/relay.c and core/mainloop/ that stop and start the     *)
(* streams.  The sending edge packages what its streams read into DATA     *)
(* cells while the circuit's window allows it; the receiving edge answers  *)
(* with circuit SENDMEs (authenticated by the digest of a DATA cell) and,  *)
(* per stream, with stream SENDMEs (fixed windows) or XON and XOFF         *)
(* (congestion control).                                                   *)
(*                                                                         *)
(* An edge is one thread: a handler runs to its end before the edge does   *)
(* anything else, and nobody sees what it queues before.  What is left of  *)
(* the sender's current handler is agenda, one cell or one stream per      *)
(* step.  A cell's digest is its number on the circuit.                    *)
(***************************************************************************)
EXTENDS Integers, Sequences, FiniteSets, SequencesExt

CONSTANTS
  StreamList,   \* the circuit's list of streams, in its order
  NoStream,     \* stream id 0: a cell of the circuit itself
  CircStart,    \* CIRCWINDOW_START, which is also CIRCWINDOW_START_MAX
  CircInc,      \* CIRCWINDOW_INCREMENT
  CircWindow,   \* consensus parameter circwindow
  StreamStart,  \* STREAMWINDOW_START
  StreamInc,    \* STREAMWINDOW_INCREMENT
  SendmeInc,    \* cc->sendme_inc
  Cwnds,        \* the congestion windows Vegas may decide on
  CellqHigh,    \* consensus parameters cellq_high
  CellqLow,     \* and cellq_low
  XoffLimit,    \* cc_xoff_client, cc_xoff_exit
  Burst,        \* MAX_EXPECTED_CELL_BURST
  OutbufLimit,  \* what connection_outbuf_too_full accepts
  Data,         \* bound: the cells of data the application writes to a stream
  MaxControl    \* bound: cells other than DATA that the sender sends

Streams == ToSet(StreamList)

ASSUME StreamAssumption ==
  StreamList \in Seq(Streams) /\ NoStream \notin Streams /\ IsInjective(StreamList)
ASSUME WindowAssumption ==
  /\ {CircStart, CircInc, CircWindow, StreamStart, StreamInc, SendmeInc,
      CellqHigh, CellqLow} \subseteq Nat \ {0}
  /\ CircWindow \in CircInc..CircStart
  /\ StreamStart >= StreamInc
  /\ Cwnds \subseteq Nat /\ \A w \in Cwnds : w >= SendmeInc
ASSUME BoundAssumption == 
  /\ {XoffLimit, Burst, OutbufLimit, MaxControl} \subseteq Nat
  /\ Data \in [Streams -> Nat]

VARIABLES
  cc,             \* the circuit has a congestion control object
  src,            \* cells of data on each stream's socket
  inbuf,          \* cells of data in conn->inbuf
  reading,        \* the stream's read event is added
  xoff_received,  \* conn->xoff_received
  stream_window,  \* conn->package_window
  package_window, \* circ->package_window (fixed windows)
  inflight,       \* cc->inflight
  cwnd,           \* cc->cwnd
  digests,        \* circ->sendme_last_digests
  sent,           \* cells sent on the circuit: the number of the last one
  controls,       \* how many of them were not DATA
  queue,          \* the circuit's cells that wait for the channel
  blocked,        \* circ->circuit_blocked_on_n_chan (p_chan at an exit)
  agenda,         \* what is left of the sender's handler
  net,            \* cells between the sender's channel and the receiver
  deliver_window, \* the receiver's circ->deliver_window
  sendme_digest,  \* the receiver's recorded digest
  outbuf,         \* cells of data in the receiving stream's outbuf
  stream_deliver, \* conn->deliver_window
  xoff_sent,      \* conn->xoff_sent
  rate_sent,      \* conn->ewma_rate_last_sent is not 0
  back,           \* cells from the receiver to the sender
  closed          \* an edge closed the circuit for a protocol violation

streamVars == <<src, inbuf, reading, xoff_received, stream_window>>
windowVars == <<package_window, inflight, cwnd, digests>>
queueVars == <<sent, controls, queue, blocked>>
receiverVars == <<deliver_window, sendme_digest, outbuf, stream_deliver,
                  xoff_sent, rate_sent>>
vars == <<cc, streamVars, windowVars, queueVars, agenda, net, receiverVars,
          back, closed>>

Cells == [n : Nat, s : Streams \cup {NoStream}]
Replies == [type : {"SENDME", "XON", "XOFF"}, s : Streams \cup {NoStream},
            n : Nat]
Ops == {"start", "resume", "unblock", "pack", "count", "round", "visit"}

\* The counters are within their windows, and what waits is well formed.
TypeOK ==
  /\ cc \in BOOLEAN /\ blocked \in BOOLEAN /\ closed \in BOOLEAN
  /\ {src, inbuf, outbuf} \subseteq [Streams -> Nat]
  /\ \A s \in Streams : src[s] + inbuf[s] + outbuf[s] <= Data[s]
  /\ {reading, xoff_received, xoff_sent, rate_sent} \subseteq [Streams -> BOOLEAN]
  /\ stream_window \in [Streams -> 0..StreamStart]
  /\ stream_deliver \in [Streams -> 0..StreamStart]
  /\ package_window \in 0..CircStart /\ deliver_window \in 0..CircStart
  /\ inflight \in Nat /\ cwnd \in Cwnds
  /\ sent \in Nat /\ controls \in 0..MaxControl /\ sendme_digest \in 0..sent
  /\ digests \in Seq(1..sent)
  /\ queue \in Seq(Cells) /\ net \in Seq(Cells) /\ back \in Seq(Replies)
  /\ agenda \in Seq([op : Ops, s : Streams \cup {NoStream}, n : Int])

Init ==
  /\ cc \in BOOLEAN
  /\ src = Data
  /\ inbuf = [s \in Streams |-> 0] /\ outbuf = inbuf
  /\ reading = [s \in Streams |-> TRUE]
  /\ xoff_received = [s \in Streams |-> FALSE]
  /\ xoff_sent = xoff_received /\ rate_sent = xoff_received
  /\ stream_window = [s \in Streams |-> StreamStart]
  /\ stream_deliver = stream_window
  /\ package_window = CircWindow /\ deliver_window = CircStart
  /\ inflight = 0 /\ cwnd \in Cwnds
  /\ digests = <<>> /\ sent = 0 /\ controls = 0 /\ sendme_digest = 0
  /\ queue = <<>> /\ net = <<>> /\ back = <<>> /\ agenda = <<>>
  /\ blocked = FALSE /\ closed = FALSE

-----------------------------------------------------------------------------
(* Windows. *)

\* congestion_control_get_package_window
PackageWindow ==
  IF ~cc THEN package_window ELSE IF inflight > cwnd THEN 0 ELSE cwnd - inflight

\* sendme_get_inc_count
Inc == IF cc THEN SendmeInc ELSE CircInc

\* variant: compares the count after the cell, as if it were called later
SentCellForSendmeLate ==
  IF cc THEN inflight # 0 /\ inflight % SendmeInc = 0
  ELSE package_window # CircStart /\ package_window % CircInc = 0

\* circuit_sent_cell_for_sendme, called before the cell is counted
SentCellForSendme ==
  IF cc THEN inflight # 0 /\ (inflight + 1) % SendmeInc = 0
  ELSE package_window # CircStart /\ (package_window - 1) % CircInc = 0

\* variant: the count of the cells before this one
SendmeCellIsNextLate == (CircStart - deliver_window) % Inc = 0

\* circuit_sendme_cell_is_next, called before the cell is counted
SendmeCellIsNext == (CircStart - (deliver_window - 1)) % Inc = 0

\* An entry of the agenda: the operation, the stream and, in a round, the cells
\* there is room for.
Step(op, s) == [op |-> op, s |-> s, n |-> 0]

-----------------------------------------------------------------------------
(* The sender's handlers, one step at a time. *)

\* The streams that stop reading when a cell is appended to the circuit's
\* queue (append_cell_to_circuit_queue, set_block_state_for_streams).
StoppedByQueue(s) ==
  IF blocked THEN {s} ELSE IF Len(queue) + 1 >= CellqHigh THEN Streams ELSE {}

Enqueue(s) ==
  /\ sent' = sent + 1
  /\ queue' = Append(queue, [n |-> sent + 1, s |-> s])
  /\ blocked' = (blocked \/ Len(queue) + 1 >= CellqHigh)

\* circuit_consider_stop_edge_reading where the window is empty
StopAll == reading' = [s \in Streams |-> FALSE]

\* One cell of connection_edge_package_raw_inbuf: connection_edge_send_command
\* records the digest and counts the cell, then the stream counts it; a stream
\* that has received an XOFF stops, and so does everyone if the window is empty.
PackageCell(s) ==
  LET xoff == cc /\ xoff_received[s]
      stopped == StoppedByQueue(s)
                   \cup (IF ~xoff THEN {}
                         ELSE IF PackageWindow = 1 THEN Streams ELSE {s})
  IN /\ inbuf' = [inbuf EXCEPT ![s] = @ - 1]
     /\ Enqueue(s)
     /\ digests' = IF SentCellForSendme THEN Append(digests, sent + 1) ELSE digests
     /\ inflight' = IF cc THEN inflight + 1 ELSE inflight
     /\ package_window' = IF cc THEN package_window ELSE package_window - 1
     /\ stream_window' = IF cc THEN stream_window
                         ELSE [stream_window EXCEPT ![s] = @ - 1]
     /\ reading' = [t \in Streams |-> reading[t] /\ t \notin stopped]
     /\ UNCHANGED <<src, xoff_received, cwnd, controls>>

\* One turn of the loop of connection_edge_package_raw_inbuf without max_cells.
Pack(s) ==
  /\ agenda # <<>> /\ Head(agenda).op = "pack" /\ Head(agenda).s = s
  /\ \/ /\ PackageWindow <= 0
        /\ StopAll
        /\ agenda' = Tail(agenda)
        /\ UNCHANGED <<src, inbuf, xoff_received, stream_window, windowVars, queueVars>>
     \/ /\ PackageWindow > 0 /\ stream_window[s] <= 0
        /\ reading' = [reading EXCEPT ![s] = FALSE]
        /\ agenda' = Tail(agenda)
        /\ UNCHANGED <<src, inbuf, xoff_received, stream_window, windowVars, queueVars>>
     \/ /\ PackageWindow > 0 /\ stream_window[s] > 0 /\ inbuf[s] = 0
        /\ agenda' = Tail(agenda)
        /\ UNCHANGED <<streamVars, windowVars, queueVars>>
     \/ /\ PackageWindow > 0 /\ stream_window[s] > 0 /\ inbuf[s] > 0
        /\ PackageCell(s)
        /\ agenda' = IF cc /\ xoff_received[s] THEN Tail(agenda) ELSE agenda
  /\ UNCHANGED <<cc, net, receiverVars, back, closed>>

\* variant: only adds the read event
ThenPackNever(s) == <<>>

\* connection_start_reading also processes what the inbuf still holds.
ThenPack(s) == IF inbuf[s] > 0 THEN <<Step("pack", s)>> ELSE <<>>

\* variant: the callers' conditions without the XOFF
SkippedXoff(e) ==
  \/ e.op = "resume" /\ stream_window[e.s] <= 0
  \/ e.op = "unblock" /\ reading[e.s]

\* connection_start_reading refuses a stream with an XOFF; its callers skip a
\* stream without a window (circuit_resume_edge_reading_helper) or one that
\* reads already (set_block_state_for_streams).
Skipped(e) ==
  \/ xoff_received[e.s]
  \/ e.op = "resume" /\ stream_window[e.s] <= 0
  \/ e.op = "unblock" /\ reading[e.s]

\* A stream that is resumed is then counted, an XOFF or not.
ThenCount(e) ==
  IF e.op = "resume" /\ stream_window[e.s] > 0 THEN <<Step("count", e.s)>> ELSE <<>>

StartReading(s) ==
  /\ agenda # <<>> /\ Head(agenda).op \in {"start", "resume", "unblock"}
  /\ Head(agenda).s = s
  /\ LET e == Head(agenda)
     IN /\ reading' = [reading EXCEPT ![s] = @ \/ ~Skipped(e)]
        /\ agenda' = (IF Skipped(e) THEN <<>> ELSE ThenPack(s))
                       \o ThenCount(e) \o Tail(agenda)
  /\ UNCHANGED <<cc, src, inbuf, xoff_received, stream_window, windowVars,
                 queueVars, net, receiverVars, back, closed>>

\* n_packaging_streams of circuit_resume_edge_reading_helper: one stream with
\* something in its inbuf is enough for a round.
CountStream(s) ==
  /\ agenda # <<>> /\ Head(agenda).op = "count" /\ Head(agenda).s = s
  /\ agenda' = IF inbuf[s] > 0 /\ Last(agenda).op # "round"
               THEN Append(Tail(agenda), Step("round", NoStream)) ELSE Tail(agenda)
  /\ UNCHANGED <<cc, streamVars, windowVars, queueVars, net, receiverVars,
                 back, closed>>

\* The round of circuit_resume_edge_reading_helper: how much to package.
Round ==
  /\ agenda # <<>> /\ Head(agenda).op = "round"
  /\ LET room == CellqHigh - Len(queue)
         max == IF room < PackageWindow THEN room ELSE PackageWindow
     IN agenda' = [i \in DOMAIN StreamList |->
                     [op |-> "visit", s |-> StreamList[i], n |-> max]]
  /\ UNCHANGED <<cc, streamVars, windowVars, queueVars, net, receiverVars,
                 back, closed>>

\* The stream at the head of a round packages: max_cells is its share of n,
\* rounded up, and positive when n is.
MayPackage(s) ==
  stream_window[s] > 0 /\ inbuf[s] > 0 /\ PackageWindow > 0 /\ Head(agenda).n > 0

\* The round's turn of one stream.  Only a stream with an XOFF can package
\* here (OnlyXoffInRounds), and its turn ends after one cell, before max_cells
\* is decremented: packaged_this_round stays 0, so there is no second round.
Visit(s) ==
  /\ agenda # <<>> /\ Head(agenda).op = "visit" /\ Head(agenda).s = s
  /\ \/ /\ MayPackage(s)
        /\ PackageCell(s)
        /\ agenda' = IF PackageWindow = 1 THEN <<>> ELSE Tail(agenda)
     \/ /\ ~MayPackage(s) /\ stream_window[s] > 0 /\ PackageWindow <= 0
        /\ StopAll
        /\ agenda' = <<>>
        /\ UNCHANGED <<src, inbuf, xoff_received, stream_window, windowVars, queueVars>>
     \/ /\ ~MayPackage(s) /\ (stream_window[s] <= 0 \/ PackageWindow > 0)
        /\ agenda' = Tail(agenda)
        /\ UNCHANGED <<streamVars, windowVars, queueVars>>
  /\ UNCHANGED <<cc, net, receiverVars, back, closed>>

Handler ==
  Round \/ \E s \in Streams : Pack(s) \/ StartReading(s) \/ CountStream(s) \/ Visit(s)

-----------------------------------------------------------------------------
(* What makes the sender run a handler. *)

\* A handler runs to its end; a closed circuit does nothing.
Idle == agenda = <<>> /\ ~closed

\* connection_handle_read: k cells of data arrive in the inbuf.
ReadEvent(s) ==
  /\ Idle /\ reading[s] /\ src[s] > 0
  /\ \E k \in 1..src[s] : /\ src' = [src EXCEPT ![s] = @ - k]
                          /\ inbuf' = [inbuf EXCEPT ![s] = @ + k]
  /\ agenda' = <<Step("pack", s)>>
  /\ UNCHANGED <<cc, reading, xoff_received, stream_window, windowVars,
                 queueVars, net, receiverVars, back, closed>>

\* relay_send_command_from_edge with a command other than DATA.
SendControl ==
  /\ Idle /\ controls < MaxControl
  /\ controls' = controls + 1
  /\ Enqueue(NoStream)
  /\ reading' = [t \in Streams |-> reading[t] /\ t \notin StoppedByQueue(NoStream)]
  /\ UNCHANGED <<cc, src, inbuf, xoff_received, stream_window, windowVars,
                 agenda, net, receiverVars, back, closed>>

\* channel_flush_from_first_active_circuit: one cell leaves; a blocked circuit
\* whose queue is short again starts its streams.
FlushCell ==
  /\ Idle /\ queue # <<>>
  /\ queue' = Tail(queue) /\ net' = Append(net, Head(queue))
  /\ LET unblock == blocked /\ Len(queue) - 1 <= CellqLow
     IN /\ blocked' = (blocked /\ ~unblock)
        /\ agenda' = IF unblock
                     THEN [i \in DOMAIN StreamList |-> Step("unblock", StreamList[i])]
                     ELSE <<>>
  /\ UNCHANGED <<cc, streamVars, windowVars, sent, controls, receiverVars,
                 back, closed>>

\* The order in which circuit_resume_edge_reading_helper starts the streams,
\* from a random one on.
ResumeFrom(i) ==
  [j \in DOMAIN StreamList |->
     Step("resume", StreamList[((i + j - 2) % Len(StreamList)) + 1])]

CloseCircuit ==
  /\ closed' = TRUE
  /\ UNCHANGED <<cc, streamVars, windowVars, queueVars, agenda, net, receiverVars>>

\* sendme_is_valid: the first recorded digest is the one in the cell.
SendmeIsValid(c) == digests # <<>> /\ Head(digests) = c.n

\* congestion_control_vegas_process_sendme: the window is what Vegas makes of
\* the round trip, the cells of one SENDME are no longer in flight.
AckedVegas ==
  /\ inflight' = inflight - SendmeInc /\ cwnd' \in Cwnds
  /\ UNCHANGED package_window

\* sendme_process_circuit_level_impl
AckedWindow ==
  /\ package_window' = package_window + CircInc
  /\ UNCHANGED <<inflight, cwnd>>

\* process_sendme_cell for stream id 0, and circuit_resume_edge_reading
CircuitSendme(c) ==
  /\ c.type = "SENDME" /\ c.s = NoStream
  /\ IF ~SendmeIsValid(c) \/ (~cc /\ package_window + CircInc > CircStart)
     THEN CloseCircuit
     ELSE /\ digests' = Tail(digests)
          /\ IF cc THEN AckedVegas ELSE AckedWindow
          /\ \E i \in DOMAIN StreamList :
               agenda' = IF blocked THEN <<>> ELSE ResumeFrom(i)
          /\ UNCHANGED <<cc, streamVars, queueVars, net, receiverVars, closed>>

\* process_sendme_cell for a stream
StreamSendme(c) ==
  /\ c.type = "SENDME" /\ c.s # NoStream
  /\ IF cc \/ stream_window[c.s] + StreamInc > StreamStart
     THEN CloseCircuit
     ELSE /\ stream_window' = [stream_window EXCEPT ![c.s] = @ + StreamInc]
          /\ agenda' = IF blocked THEN <<>> ELSE <<Step("start", c.s), Step("pack", c.s)>>
          /\ UNCHANGED <<cc, src, inbuf, reading, xoff_received, windowVars,
                         queueVars, net, receiverVars, closed>>

\* circuit_process_stream_xoff and circuit_process_stream_xon
StreamXonXoff(c) ==
  /\ c.type \in {"XON", "XOFF"}
  /\ xoff_received' = [xoff_received EXCEPT ![c.s] = (c.type = "XOFF")]
  /\ reading' = [reading EXCEPT ![c.s] = @ /\ c.type = "XON"]
  /\ agenda' = IF c.type = "XON" /\ xoff_received[c.s] THEN <<Step("start", c.s)>>
               ELSE <<>>
  /\ UNCHANGED <<cc, src, inbuf, stream_window, windowVars, queueVars, net,
                 receiverVars, closed>>

ReceiveReply ==
  /\ Idle /\ back # <<>> /\ back' = Tail(back)
  /\ LET c == Head(back) IN CircuitSendme(c) \/ StreamSendme(c) \/ StreamXonXoff(c)

-----------------------------------------------------------------------------
(* The receiver. *)

Repeat(k, c) == [i \in 1..k |-> c]

\* sendme_connection_edge_consider_sending: how many stream SENDMEs a deliver
\* window of d and the outbuf call for.
StreamSendmes(d, buffered) ==
  IF buffered > OutbufLimit THEN 0 ELSE (StreamStart - d) \div StreamInc

\* variant: one cell, whatever the window was raised by
StreamSendmeCellsOne(s, k) ==
  Repeat(IF k > 0 THEN 1 ELSE 0, [type |-> "SENDME", s |-> s, n |-> 0])

StreamSendmeCells(s, k) == Repeat(k, [type |-> "SENDME", s |-> s, n |-> 0])

\* circuit_receive_relay_cell: a cell of the circuit itself can be recorded
\* but not counted.
ReceiveControl ==
  /\ Idle /\ net # <<>> /\ Head(net).s = NoStream
  /\ net' = Tail(net)
  /\ sendme_digest' = IF SendmeCellIsNext THEN Head(net).n ELSE sendme_digest
  /\ UNCHANGED <<cc, streamVars, windowVars, queueVars, agenda, deliver_window,
                 outbuf, stream_deliver, xoff_sent, rate_sent, back, closed>>

\* sendme_circuit_consider_sending: how many circuit SENDMEs it sends.
CircuitSendmes(d) == (CircStart - d) \div Inc

\* flow_control_decide_xoff, called before the cell is in the outbuf
WantsXoff(s) == outbuf[s] > XoffLimit /\ ~xoff_sent[s]

\* The XON with a new rate that flow_control_decide_xon may send while no XOFF
\* is outstanding: whether the rate has changed enough is left open.
RateXon(s) == {<<>>} \cup (IF cc /\ ~xoff_sent[s] /\ rate_sent[s]
                          THEN {<<[type |-> "XON", s |-> s, n |-> 0]>>} ELSE {})

\* circuit_send_stream_xon: the rate it sends may be 0.
RateAfter(s, xon) ==
  \E r \in IF xon = <<>> THEN {rate_sent[s]} ELSE BOOLEAN :
    rate_sent' = [rate_sent EXCEPT ![s] = r]

\* A DATA cell: the circuit's SENDMEs, then the stream's answer.
ReceiveData ==
  /\ Idle /\ net # <<>> /\ Head(net).s # NoStream
  /\ LET s == Head(net).s
         digest == IF SendmeCellIsNext THEN Head(net).n ELSE sendme_digest
         d == deliver_window - 1
         k == CircuitSendmes(d)
         sd == stream_deliver[s] - 1
         sk == IF cc THEN 0 ELSE StreamSendmes(sd, outbuf[s] + 1)
         circ == Repeat(k, [type |-> "SENDME", s |-> NoStream, n |-> digest])
         xoff == IF cc /\ WantsXoff(s) THEN <<[type |-> "XOFF", s |-> s, n |-> 0]>>
                 ELSE <<>>
         xons == IF outbuf[s] > Burst /\ xoff = <<>> THEN RateXon(s) ELSE {<<>>}
     IN /\ net' = Tail(net)
        /\ IF d < 0 \/ (~cc /\ sd < 0)
           THEN /\ closed' = TRUE
                /\ UNCHANGED <<receiverVars, back>>
           ELSE /\ sendme_digest' = digest
                /\ deliver_window' = d + k * Inc
                /\ \E xon \in xons :
                     /\ back' = back \o circ \o xoff \o xon \o StreamSendmeCells(s, sk)
                     /\ RateAfter(s, xon)
                /\ outbuf' = [outbuf EXCEPT ![s] = @ + 1]
                /\ stream_deliver' = IF cc THEN stream_deliver
                     ELSE [stream_deliver EXCEPT ![s] = sd + sk * StreamInc]
                /\ xoff_sent' = [xoff_sent EXCEPT ![s] = @ \/ xoff # <<>>]
                /\ UNCHANGED closed
  /\ UNCHANGED <<cc, streamVars, windowVars, queueVars, agenda>>

\* flow_control_decide_xon while an XOFF is outstanding
WantsXon(s, left) == xoff_sent[s] /\ left = 0

\* connection_handle_write_impl: k cells of data go to the application;
\* flow_control_decide_xon (also with a rate that changed), or the stream's
\* SENDMEs that a full outbuf held back.
Drain(s) ==
  /\ Idle /\ outbuf[s] > 0
  /\ \E k \in 1..outbuf[s] :
       LET left == outbuf[s] - k
           sk == IF cc THEN 0 ELSE StreamSendmes(stream_deliver[s], left)
       IN /\ outbuf' = [outbuf EXCEPT ![s] = left]
          /\ stream_deliver' = [stream_deliver EXCEPT ![s] = @ + sk * StreamInc]
          /\ \E xon \in IF cc /\ WantsXon(s, left)
                        THEN {<<[type |-> "XON", s |-> s, n |-> 0]>>} ELSE RateXon(s) :
               /\ back' = back \o xon \o StreamSendmeCells(s, sk)
               /\ xoff_sent' = [xoff_sent EXCEPT ![s] = @ /\ xon = <<>>]
               /\ RateAfter(s, xon)
  /\ UNCHANGED <<cc, streamVars, windowVars, queueVars, agenda, net,
                 deliver_window, sendme_digest, closed>>

-----------------------------------------------------------------------------
Next ==
  \/ Round
  \/ \E s \in Streams : Pack(s) \/ StartReading(s) \/ CountStream(s) \/ Visit(s)
  \/ SendControl \/ FlushCell \/ ReceiveReply \/ ReceiveControl \/ ReceiveData
  \/ \E s \in Streams : ReadEvent(s) \/ Drain(s)

Spec == Init /\ [][Next]_vars

\* The main loops of both edges and the channels between them go on, the
\* application writes what it has and reads what it gets.
FairSpec ==
  /\ Spec
  /\ WF_vars(Handler) /\ WF_vars(FlushCell) /\ WF_vars(ReceiveReply)
  /\ WF_vars(ReceiveControl \/ ReceiveData)
  /\ \A s \in Streams : WF_vars(ReadEvent(s)) /\ WF_vars(Drain(s))

-----------------------------------------------------------------------------
(* Properties. *)

\* The places in a sequence of cells where one of the set C is.
At(q, C) == {i \in DOMAIN q : q[i] \in C}
Count(q, C) == Cardinality(At(q, C))

\* How many cells of C there are up to place x.
Rank(q, C, x) == Cardinality({i \in At(q, C) : i <= x})

\* The cells that have not reached the receiver, the oldest first.
Flow == net \o queue

DataOf(S) == [n : Nat, s : S]
SendmesFor(s) == [type : {"SENDME"}, s : {s}, n : Nat]
WordsTo(s) == [type : {"XON", "XOFF"}, s : {s}, n : Nat]

\* Edges that follow the protocol never close the circuit: no SENDME with a
\* digest that is not the first one recorded (sendme_is_valid), no window above
\* its maximum (sendme_process_circuit_level_impl, sendme_process_stream_level)
\* and no deliver window below 0 (connection_edge_process_relay_cell).
CircuitStaysOpen == ~closed

\* Every cell the sender counts as in flight is queued, on its way, counted by
\* the receiver or acknowledged by a SENDME on its way.
Unacked == IF cc THEN inflight ELSE CircWindow - package_window

CircuitCredit ==
  ~closed =>
    Unacked = Count(Flow, DataOf(Streams)) + (CircStart - deliver_window)
                + Inc * Count(back, SendmesFor(NoStream))

\* The same for a stream's fixed window.
StreamCredit ==
  ~closed /\ ~cc => \A s \in Streams :
    StreamStart - stream_window[s] =
      Count(Flow, DataOf({s})) + (StreamStart - stream_deliver[s])
        + StreamInc * Count(back, SendmesFor(s))

\* No credit is lost or gained, whatever the interleaving: not the circuit's
\* (inflight or the fixed package window) and not a stream's, whose SENDMEs a
\* full outbuf holds back until it drains (sendme_connection_edge_consider_
\* sending is called from three places and must send none twice).
CreditConserved == CircuitCredit /\ StreamCredit

\* The digests the sender has recorded are, in order, those of the SENDMEs on
\* their way and then those of cells the receiver has not seen.
DigestsInOrder ==
  LET circ == SendmesFor(NoStream)
  IN ~closed =>
       /\ Len(digests) >= Count(back, circ)
       /\ \A x \in At(back, circ) : digests[Rank(back, circ, x)] = back[x].n
       /\ \A i \in Count(back, circ) + 1..Len(digests) :
            \E x \in DOMAIN Flow : Flow[x].n = digests[i]

\* circuit_sent_cell_for_sendme: "Return true iff the next cell we send will
\* result in the other endpoint sending a SENDME" - so the digest of every cell
\* that did is recorded when its SENDME is on the way.
SendmesAreExpected ==
  \A i \in DOMAIN back :
    back[i].type = "SENDME" /\ back[i].s = NoStream => back[i].n \in ToSet(digests)

\* The last XON or XOFF for s in q says what the receiver has sent; if there is
\* none, the sender has received it.
Agreed(q, s, received, told) ==
  LET words == At(q, WordsTo(s))
  IN IF words = {} THEN told = received
     ELSE \E x \in words : (\A y \in words : y <= x) /\ told = (q[x].type = "XOFF")

\* Both edges agree on a stream's XOFF once the cells on their way have come.
XoffAgrees ==
  \A s \in Streams : Agreed(back, s, xoff_received[s], xoff_sent[s])

\* An XOFF is obeyed until its XON: a rate XON never undoes an XOFF that was
\* sent after it, and a stream that was told to stop is not read from, whatever
\* starts the others (circuit_resume_edge_reading, set_block_state_for_streams):
\* "we know not to resume reading on this edge conn until we get an XON".
XoffObeyed == XoffAgrees /\ \A s \in Streams : xoff_received[s] => ~reading[s]

\* connection_start_reading has emptied the inbuf of every other stream, or the
\* window, before circuit_resume_edge_reading_helper divides what is left of the
\* window: no stream that may read waits for its turn in a round.
OnlyXoffInRounds ==
  \A s \in Streams :
    /\ agenda # <<>> /\ Head(agenda).op = "visit" /\ Head(agenda).s = s
    /\ MayPackage(s)
    => xoff_received[s]

\* Everything the application writes reaches the other side: no stream stays
\* stopped and no data stays in an inbuf, however windows, XOFFs and a full
\* circuit queue stop and start the streams (connection_start_reading: "If this
\* is not done here, we risk having data lingering in the inbuf forever").
AllDelivered ==
  <>(queue = <<>> /\ net = <<>> /\ \A s \in Streams :
       src[s] = 0 /\ inbuf[s] = 0 /\ outbuf[s] = 0)

=============================================================================
