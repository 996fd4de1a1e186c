--------------------------- MODULE StreamDecoder ---------------------------
(***************************************************************************)
(* MvmeStreamDecoder (core/StreamDecoder.cpp): from the datagrams of the   *)
(* MVLC to waveform histories.  The unit is the 32-bit word, reduced to    *)
(* its type and the fields the decoder reads; tag is the event a word      *)
(* belongs to, which the decoder never looks at.  The controller packs     *)
(* readout frames into numbered packets without regard to frame            *)
(* boundaries; the network may lose, repeat or swap packets.               *)
(***************************************************************************)
EXTENDS Integers, Sequences, SequencesExt, FiniteSets

CONSTANTS
    Modulus,          \* packet numbers wrap: 2^12 in the code
    PacketWords,      \* payload words the controller puts in one packet
    HistoryCapacity,  \* MdppWaveformHistoryCapacity, 100 in the code
    Events,           \* the readout events, in order: [channel, source, samples]
    MaxFaults         \* losses, repetitions and swaps

DecoderAssumption ==
    /\ Modulus \in Nat /\ Modulus > MaxFaults + 1
    /\ PacketWords \in Nat \ {0} /\ HistoryCapacity \in Nat \ {0}

VARIABLES
    sent,      \* events handed to the controller so far
    outbox,    \* words of them not yet in a packet
    wire,      \* packets in the network
    packets,   \* every packet ever sent, in order
    arrived,   \* indices of the packets handed to the decoder, in order
    faults,    \* [lost, other]: what the network did
    dec        \* the decoder

vars == <<sent, outbox, wire, packets, arrived, faults, dec>>

NoHeaderPointer == -1
NoPacket == -1

Word(t, n, tag) == [t |-> t, n |-> n, tag |-> tag]

\* A readout event: one stack frame around one block of the module.
BlockOf(e) ==
    <<Word("module", 0, e), Word("channel", Events[e].channel, e),
      [t |-> "sample", n |-> Events[e].samples, tag |-> e,
       source |-> Events[e].source]>>
    \o [i \in 1..Events[e].samples |-> [t |-> "sample", n |-> 3, tag |-> e,
                                        source |-> 0]]
    \o <<Word("time", 0, e)>>

FrameOf(e) ==
    <<Word("stack", Len(BlockOf(e)) + 1, e), Word("block", Len(BlockOf(e)), e)>>
    \o BlockOf(e)

-----------------------------------------------------------------------------
NewDecoder ==
    [pending |-> <<>>, last |-> NoPacket, stack |-> 0, block |-> 0,
     data |-> <<>>, history |-> <<>>, lost |-> 0, malformed |-> 0]

ResetFrameAssembly(d) == [d EXCEPT !.stack = 0, !.block = 0, !.data = <<>>]

Malformed(d) == [d EXCEPT !.malformed = @ + 1]

\* HasSameSampleConfiguration of two waveforms of one channel.
HasSameSampleConfiguration(v, w) ==
    v.source = w.source /\ Len(v.tags) = Len(w.tags)

\* The history of a channel, as the waveforms still kept of it.
HistoryOf(d, channel) == SelectSeq(d.history, LAMBDA w : w.channel = channel)

\* A new waveform: another configuration empties the history of its channel,
\* a full history loses its oldest entry.
AddWaveform(d, w) ==
    LET mine == HistoryOf(d, w.channel)
        rest == SelectSeq(d.history, LAMBDA v : v.channel # w.channel)
        kept == IF mine # <<>> /\ ~HasSameSampleConfiguration(Last(mine), w)
                THEN <<>>
                ELSE IF Len(mine) = HistoryCapacity THEN Tail(mine)
                ELSE mine
    IN  [d EXCEPT !.history = rest \o Append(kept, w)]

\* One turn of the loop of DecodeBlockFrame at word i; s is [d, next, channel].
\* The words before next were taken with an earlier one.
DecodeWord(s, i) ==
    LET b == s.d.data
        w == b[i]
        body == SubSeq(b, i + 1, i + w.n)
        wave == [channel |-> s.channel, source |-> w.source,
                 head |-> w.tag, time |-> Last(b).tag,
                 tags |-> [k \in 1..w.n |-> body[k].tag]]
    IN  IF i < s.next THEN s
        ELSE IF w.t = "channel" THEN [s EXCEPT !.channel = w.n]
        ELSE IF w.t # "sample" \/ s.channel < 0 THEN s
        ELSE IF w.n = 0 \/ i + w.n > Len(b) THEN [s EXCEPT !.d = Malformed(@)]
        ELSE [s EXCEPT !.next = i + w.n + 1,
                       !.d = IF \A k \in 1..w.n : body[k].t = "sample"
                             THEN AddWaveform(@, wave) ELSE Malformed(@)]

DecodeWords(d) ==
    FoldLeft(DecodeWord, [d |-> d, next |-> 2, channel |-> -1],
             [i \in 1..Len(d.data) |-> i]).d

DecodeBlockFrame(d) ==
    IF Len(d.data) < 3 \/ d.data[1].t # "module" THEN d ELSE DecodeWords(d)

ProcessStackWord(d, w) ==
    IF d.block > 0
    THEN IF d.stack = 0 THEN ResetFrameAssembly(Malformed(d))
         ELSE LET e == [d EXCEPT !.data = Append(@, w), !.block = @ - 1,
                                 !.stack = @ - 1]
              IN  IF e.block = 0 THEN [DecodeBlockFrame(e) EXCEPT !.data = <<>>]
                  ELSE e
    ELSE IF d.stack > 0
    THEN IF w.t # "block" THEN [d EXCEPT !.stack = @ - 1]
         ELSE IF w.n > d.stack - 1 THEN ResetFrameAssembly(Malformed(d))
         ELSE [d EXCEPT !.stack = @ - 1, !.block = w.n, !.data = <<>>]
    ELSE IF w.t \in {"stack", "continuation"} THEN [d EXCEPT !.stack = w.n]
    ELSE d

\* Mutant: a loss is counted, but the frame in assembly goes on.
CheckPacketNumberGoesOn(d, number) ==
    LET gap == (number - (d.last + 1)) % Modulus
    IN  IF d.last = NoPacket THEN [d EXCEPT !.last = number]
        ELSE [d EXCEPT !.lost = @ + gap, !.last = number]

\* What the packet number says: everything in between is lost, and a frame
\* in assembly cannot be continued.
CheckPacketNumber(d, number) ==
    LET expected == (d.last + 1) % Modulus
        gap == (number - expected) % Modulus
    IN  IF d.last = NoPacket \/ gap = 0 THEN [d EXCEPT !.last = number]
        ELSE [ResetFrameAssembly(d) EXCEPT !.lost = @ + gap, !.last = number]

\* ProcessEthernetPacket for a packet of the data channel.
ProcessEthernetPacket(d, p) ==
    LET e == CheckPacketNumber(d, p.number)
        from == IF e.stack = 0 THEN p.pointer ELSE 0
    IN  IF from = NoHeaderPointer THEN e
        ELSE IF e.stack = 0 /\ from >= Len(p.words) THEN Malformed(e)
        ELSE FoldLeft(ProcessStackWord, e, SubSeq(p.words, from + 1, Len(p.words)))

\* ProcessPendingData: a whole packet, a system frame, or a word of neither
\* kind is taken from the front of the pending data.
ProcessPendingData(d) ==
    LET p == Head(d.pending)
        e == [d EXCEPT !.pending = Tail(@)]
    IN  CASE p.kind = "packet" -> ProcessEthernetPacket(e, p)
          [] p.kind = "system" -> [ResetFrameAssembly(e) EXCEPT !.last = NoPacket]
          [] OTHER -> ResetFrameAssembly(Malformed(e))

Consume(d, datagram) ==
    ProcessPendingData([d EXCEPT !.pending = Append(@, datagram)])

-----------------------------------------------------------------------------
Init ==
    /\ sent = 0 /\ outbox = <<>> /\ wire = <<>> /\ packets = <<>>
    /\ arrived = <<>>
    /\ faults = [lost |-> 0, other |-> 0]
    /\ dec = NewDecoder

MayFail == faults.lost + faults.other < MaxFaults

\* The module delivers an event.
Readout ==
    /\ sent < Len(Events) /\ Len(outbox) < PacketWords
    /\ sent' = sent + 1
    /\ outbox' = outbox \o FrameOf(sent + 1)
    /\ UNCHANGED <<wire, packets, arrived, faults, dec>>

\* The controller fills a packet; its header points at the first stack
\* header in it.
SendPacket ==
    /\ Len(outbox) >= PacketWords \/ (outbox # <<>> /\ sent = Len(Events))
    /\ LET n == IF Len(outbox) < PacketWords THEN Len(outbox) ELSE PacketWords
           words == SubSeq(outbox, 1, n)
           headers == {i \in 1..n : words[i].t = "stack"}
           first == CHOOSE i \in headers : \A j \in headers : i <= j
           p == [kind |-> "packet", index |-> Len(packets) + 1,
                 number |-> Len(packets) % Modulus, words |-> words,
                 pointer |-> IF headers = {} THEN NoHeaderPointer ELSE first - 1]
       IN  /\ outbox' = SubSeq(outbox, n + 1, Len(outbox))
           /\ packets' = Append(packets, p)
           /\ wire' = Append(wire, p)
    /\ UNCHANGED <<sent, arrived, faults, dec>>

\* The receiver thread takes the next packet, or one that overtook it.
Deliver ==
    \E i \in 1..2 :
        /\ i <= Len(wire) /\ (i = 2 => MayFail)
        /\ dec' = Consume(dec, wire[i])
        /\ arrived' = Append(arrived, wire[i].index)
        /\ wire' = RemoveAt(wire, i)
        /\ faults' = [faults EXCEPT !.other = IF i = 2 THEN @ + 1 ELSE @]
        /\ UNCHANGED <<sent, outbox, packets>>

Lose ==
    /\ wire # <<>> /\ MayFail
    /\ wire' = Tail(wire)
    /\ faults' = [faults EXCEPT !.lost = @ + 1]
    /\ UNCHANGED <<sent, outbox, packets, arrived, dec>>

Repeat ==
    /\ wire # <<>> /\ MayFail
    /\ wire' = <<Head(wire)>> \o wire
    /\ faults' = [faults EXCEPT !.other = @ + 1]
    /\ UNCHANGED <<sent, outbox, packets, arrived, dec>>

\* A system frame or stray words between two packets.
Stray ==
    /\ MayFail
    /\ \E kind \in {"system", "junk"} : dec' = Consume(dec, [kind |-> kind])
    /\ faults' = [faults EXCEPT !.other = @ + 1]
    /\ UNCHANGED <<sent, outbox, wire, packets, arrived>>

Finished ==
    /\ sent = Len(Events) /\ outbox = <<>> /\ wire = <<>>
    /\ UNCHANGED vars

Next ==
    \/ Readout \/ SendPacket \/ Deliver \/ Lose \/ Repeat \/ Stray \/ Finished

Spec == Init /\ [][Next]_vars

-----------------------------------------------------------------------------
Waves == {dec.history[i] : i \in 1..Len(dec.history)}

\* A waveform in a history is one the module recorded: its header, all its
\* samples and its time stamp are of one event, with that event's channel and
\* length, whatever packets were lost, repeated, swapped or interrupted
\* (StreamDecoder.cpp ProcessEthernetPacket, ProcessStackWord).
NoSplicedWaveform ==
    \A w \in Waves :
        /\ w.channel = Events[w.head].channel
        /\ Len(w.tags) = Events[w.head].samples
        /\ w.time = w.head
        /\ \A k \in 1..Len(w.tags) : w.tags[k] = w.head

\* The packets that carry a word of event e.
PacketsOf(e) ==
    {i \in 1..Len(packets) :
        \E k \in 1..Len(packets[i].words) : packets[i].words[k].tag = e}

Arrived == {arrived[i] : i \in 1..Len(arrived)}

\* The events that arrived whole.
Whole == {e \in 1..sent : /\ PacketsOf(e) # {}
                          /\ PacketsOf(e) \subseteq Arrived
                          /\ \A k \in 1..Len(outbox) : outbox[k].tag # e}

\* While packets are only lost, an event all of whose packets arrived is the
\* latest of its channel or older than it: losing one packet costs the events
\* in it and no other.
WholeEventsDecoded ==
    (faults.other = 0 /\ Whole # {}) =>
        \A e \in Whole :
            \E w \in Waves : w.channel = Events[e].channel /\ w.head >= e

\* While packets are only lost, the reported loss is exactly the number of
\* packets missing between the first and the last one that arrived.
LossIsCounted ==
    faults.other = 0 =>
        dec.lost = IF arrived = <<>> THEN 0
                   ELSE Last(arrived) - arrived[1] + 1 - Len(arrived)

\* All waveforms kept for a channel have one sample configuration, and no
\* more of them are kept than the capacity.
HistoryIsUniform ==
    /\ \A v, w \in Waves :
          v.channel = w.channel => HasSameSampleConfiguration(v, w)
    /\ \A w \in Waves : Len(HistoryOf(dec, w.channel)) <= HistoryCapacity
=============================================================================
