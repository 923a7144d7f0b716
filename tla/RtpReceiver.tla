---------------------------- MODULE RtpReceiver ----------------------------
(***************************************************************************)
(* esp-raop-receiver/src/rtp.c: the jitter buffer of one session.  Packets *)
(* arrive over UDP, lost, repeated and out of order; their 16-bit sequence *)
(* numbers wrap; the RTP thread keeps them in a ring from ab_read to       *)
(* ab_write and hands frames on in order, silence for those that are       *)
(* missing when they are due.  RECORD and FLUSH come from the RTSP thread  *)
(* and say which packet is the first to be heard.                          *)
(*                                                                         *)
(* Packets are numbered from 1 as the sender sends them; a sequence number *)
(* is what is left of that in seq_t.  Whether a frame is late, due or      *)
(* early is the clock's choice at each step.  Requests to resend are not   *)
(* modelled: a packet may arrive late or again, asked for or not.          *)
(***************************************************************************)
EXTENDS Integers

CONSTANTS
  SeqSpace,       \* values of seq_t: 65536
  BufferFrames,   \* buffer_frames
  MaxGap,         \* latency / frame_size: a larger gap resets the buffer
  FirstSeq,       \* sequence number of packet 0, which is not sent
  MaxPacket,      \* bound: packets sent
  Jump,           \* bound: packets lost in a row, plus one
  Lag             \* bound: how far behind the newest a packet arrives

ASSUME RtpAssumption ==
  /\ SeqSpace \in Nat /\ BufferFrames \in Nat \ {0} /\ MaxGap \in Nat
  /\ 2 * BufferFrames <= SeqSpace
  /\ FirstSeq \in 0 .. SeqSpace - 1
  /\ MaxPacket \in Nat \ {0} /\ Jump \in Nat \ {0} /\ Lag \in Nat

VARIABLES
  state,          \* RTP_WAIT, RTP_STREAM, RTP_PLAY
  first_seqno,    \* the first packet to be heard, or -1
  ab_read, ab_write,
  ready,          \* the packet in each slot that is ready, or 0
  synced,         \* synchro.status has both of its flags
  thread,         \* what the RTP thread does: it has the mutex unless "select"
  packet,         \* the packet it has received
  recorded,       \* RECORD has come: the sender may send
  newest,         \* the newest packet that has arrived
  heard,          \* the last packet handed on, or 0
  first,          \* history: the first packet the sender wants heard
  overrun,        \* history: frames to be read shared a slot since the last reset
  stale           \* history: a gap left ready frames behind since the last reset

vars == <<state, first_seqno, ab_read, ab_write, ready, synced, thread, packet,
          recorded, newest, heard, first, overrun, stale>>

Packet == 1 .. MaxPacket
seq_t == 0 .. SeqSpace - 1
Slots == 0 .. BufferFrames - 1

SeqOf(n) == (FirstSeq + n) % SeqSpace
BUFIDX(s) == s % BufferFrames
Next_(s) == (s + 1) % SeqSpace
Distance(a, b) == (b + SeqSpace - a) % SeqSpace

\* The signed difference in 16 bits is positive.
seq_order(a, b) == Distance(a, b) \in 1 .. (SeqSpace \div 2) - 1

TypeOK ==
  /\ state \in {"WAIT", "STREAM", "PLAY"}
  /\ first_seqno \in seq_t \cup {-1}
  /\ ab_read \in seq_t /\ ab_write \in seq_t
  /\ ready \in [Slots -> Packet \cup {0}]
  /\ synced \in BOOLEAN /\ recorded \in BOOLEAN /\ overrun \in BOOLEAN /\ stale \in BOOLEAN
  /\ thread \in {"select", "discard", "store", "push"}
  /\ packet \in Packet \cup {0} /\ newest \in Packet \cup {0}
  /\ heard \in Packet \cup {0} /\ first \in 0 .. MaxPacket + Jump

NoneReady == [i \in Slots |-> 0]

\* rtp_init
Init ==
  /\ state = "WAIT" /\ first_seqno = -1
  /\ ab_read = 0 /\ ab_write = 0 /\ ready = NoneReady
  /\ synced = FALSE /\ thread = "select" /\ packet = 0
  /\ recorded = FALSE /\ newest = 0 /\ heard = 0 /\ first = 0
  /\ overrun = FALSE /\ stale = FALSE

ThreadAt(from, to) == thread = from /\ thread' = to

-----------------------------------------------------------------------------
(* The RTSP thread *)

\* rtp_record takes no mutex; the sender's packets follow its answer.  Without a
\* sequence number, a FLUSH is to say which packet is first.
rtp_record ==
  /\ ~recorded /\ recorded' = TRUE
  /\ \/ first_seqno' = SeqOf(1) /\ first' = 1
     \/ first_seqno' = -1 /\ UNCHANGED first
  /\ state' = "WAIT"
  /\ UNCHANGED <<ab_read, ab_write, ready, synced, thread, packet, newest, heard,
                 overrun, stale>>

\* rtp_flush.  A sender that flushes a playing stream names a packet it has not
\* sent; one that answers RTP_STREAM may name one that has arrived.
rtp_flush(n) ==
  /\ recorded /\ thread = "select"
  /\ n <= newest + Jump /\ (n > newest \/ state = "STREAM")
  /\ first_seqno' = SeqOf(n) /\ first' = n
  /\ IF state = "PLAY"
     THEN ready' = NoneReady /\ state' = "WAIT" /\ overrun' = FALSE /\ stale' = FALSE
     ELSE UNCHANGED <<ready, state, overrun, stale>>
  /\ UNCHANGED <<ab_read, ab_write, synced, thread, packet, recorded, newest, heard>>

-----------------------------------------------------------------------------
(* The RTP thread *)

\* Control and timing packets: both clocks are known from now on.
Synchronise ==
  /\ thread = "select" /\ ~synced /\ synced' = TRUE
  /\ UNCHANGED <<state, first_seqno, ab_read, ab_write, ready, thread, packet,
                 recorded, newest, heard, first, overrun, stale>>

\* Slip: a packet from before the FLUSH is taken for the first one.
BelowNothing(n) == FALSE

Below(n) == first_seqno # -1 /\ seq_order(SeqOf(n), first_seqno)

Arrives(n) ==
  /\ recorded /\ thread = "select"
  /\ newest - Lag <= n /\ n <= newest + Jump
  /\ newest' = IF n > newest THEN n ELSE newest
  /\ UNCHANGED <<synced, recorded, heard, first, overrun, stale>>

\* The head of buffer_put_packet: a packet below the first one is ignored, ...
IgnorePacket(n) ==
  /\ Arrives(n) /\ Below(n)
  /\ UNCHANGED <<state, first_seqno, ab_read, ab_write, ready, thread, packet>>

\* ... the first packet starts the ring, and playing if it is known to be first, ...
StartRing(n) ==
  /\ Arrives(n) /\ ~Below(n) /\ state = "WAIT"
  /\ ab_read' = SeqOf(n) /\ ab_write' = SeqOf(n - 1)
  /\ state' = IF first_seqno # -1 THEN "PLAY" ELSE "STREAM"
  /\ first_seqno' = -1
  /\ packet' = n /\ thread' = "store"
  /\ UNCHANGED ready

\* ... and one that comes after the awaited FLUSH ends the wait for it.
TakePacket(n) ==
  /\ Arrives(n) /\ ~Below(n) /\ state # "WAIT"
  /\ thread' = IF /\ state = "STREAM" /\ first_seqno # -1
                   /\ seq_order(first_seqno, Next_(SeqOf(n)))
                THEN "discard" ELSE "store"
  /\ packet' = n
  /\ UNCHANGED <<state, first_seqno, ab_read, ab_write, ready>>

\* The loop that discards frames below the first one and frames that are missing.
Discard ==
  /\ thread = "discard"
  /\ IF seq_order(ab_read, first_seqno) \/ ready[BUFIDX(ab_read)] = 0
     THEN /\ ready' = [ready EXCEPT ![BUFIDX(ab_read)] = 0]
          /\ ab_read' = Next_(ab_read)
          /\ UNCHANGED <<state, first_seqno, thread>>
     ELSE /\ state' = "PLAY" /\ first_seqno' = -1 /\ thread' = "store"
          /\ UNCHANGED <<ready, ab_read>>
  /\ UNCHANGED <<ab_write, synced, packet, recorded, newest, heard, first, overrun, stale>>

Expected == SeqOf(packet) = Next_(ab_write)
Newer == ~Expected /\ seq_order(ab_write, SeqOf(packet))
\* Slip: whatever is not newer is recovered, read or not.
RecoveredThoughRead == ~Expected /\ ~Newer
Recovered == ~Expected /\ ~Newer /\ seq_order(ab_read, Next_(SeqOf(packet)))
TooManyMissing ==
  Newer /\ MaxGap # 0 /\ seq_order(MaxGap, Distance(ab_write, SeqOf(packet)) - 1)

\* Reading is farther on than the frame that is to be written next.
Passed == seq_order(Next_(ab_write), ab_read)

\* Two frames to be read up to s have one slot: they are more than the ring has, or
\* the wrap of seq_t, no multiple of the ring, has brought their slots together.
SharesSlot(s) ==
  \E j, k \in 0 .. Distance(ab_read, s) :
    j # k /\ BUFIDX((ab_read + j) % SeqSpace) = BUFIDX((ab_read + k) % SeqSpace)

\* Frames that are ready in slots other than that of s.
OthersReady(s) == \E i \in Slots \ {BUFIDX(s)} : ready[i] # 0

\* The tail of buffer_put_packet: the frame is decoded into its slot.  After too
\* many missing frames reading goes on at this packet; the slots it leaves behind
\* keep their flags.
StorePacket ==
  /\ ThreadAt("store", "push")
  /\ Expected \/ Newer \/ Recovered
  /\ ab_write' = IF Recovered THEN ab_write ELSE SeqOf(packet)
  /\ ab_read' = IF TooManyMissing THEN SeqOf(packet) ELSE ab_read
  /\ ready' = [ready EXCEPT ![BUFIDX(SeqOf(packet))] = packet]
  /\ overrun' = (overrun \/ (~Recovered /\ ~TooManyMissing /\ ~Passed
                                /\ SharesSlot(SeqOf(packet))))
  /\ stale' = (stale \/ (TooManyMissing /\ OthersReady(SeqOf(packet))))
  /\ UNCHANGED <<state, first_seqno, synced, packet, recorded, newest, heard, first>>

PacketTooLate ==
  /\ ThreadAt("store", "select") /\ packet' = 0
  /\ ~Expected /\ ~Newer /\ ~Recovered
  /\ UNCHANGED <<state, first_seqno, ab_read, ab_write, ready, synced, recorded,
                 newest, heard, first, overrun, stale>>

\* Slip: the loop ends where the indexes meet, not where they pass.
PushFrameUntilEqual ==
  /\ thread = "push" /\ state = "PLAY" /\ synced
  /\ heard' = ready[BUFIDX(ab_read)]
  /\ ready' = [ready EXCEPT ![BUFIDX(ab_read)] = 0]
  /\ ab_read' = Next_(ab_read)
  /\ IF Next_(ab_read) # ab_write
     THEN UNCHANGED <<thread, packet>>
     ELSE thread' = "select" /\ packet' = 0
  /\ UNCHANGED <<state, first_seqno, ab_write, synced, recorded, newest, first, overrun, stale>>

\* buffer_push_packet, one turn of its loop: the frame at ab_read is handed on,
\* or dropped when its time has passed; a missing one is passed over, as silence
\* or as discarded.
PushFrame ==
  /\ thread = "push" /\ state = "PLAY" /\ synced
  /\ \/ heard' = ready[BUFIDX(ab_read)] /\ ready[BUFIDX(ab_read)] # 0
     \/ UNCHANGED heard
  /\ ready' = [ready EXCEPT ![BUFIDX(ab_read)] = 0]
  /\ ab_read' = Next_(ab_read)
  /\ IF seq_order(Next_(ab_read), ab_write)
     THEN UNCHANGED <<thread, packet>>
     ELSE thread' = "select" /\ packet' = 0
  /\ UNCHANGED <<state, first_seqno, ab_write, synced, recorded, newest, first, overrun, stale>>

\* Nothing may be played yet, or the next frame is missing and not due.
PushEnds ==
  /\ ThreadAt("push", "select") /\ packet' = 0
  /\ state = "PLAY" /\ synced => ready[BUFIDX(ab_read)] = 0
  /\ UNCHANGED <<state, first_seqno, ab_read, ab_write, ready, synced, recorded,
                 newest, heard, first, overrun, stale>>

RtpThread ==
  \/ Discard \/ StorePacket \/ PacketTooLate \/ PushFrame \/ PushEnds

Next ==
  \/ rtp_record \/ Synchronise \/ RtpThread
  \/ \E n \in 1 .. MaxPacket + Jump : rtp_flush(n)
  \/ \E n \in Packet : IgnorePacket(n) \/ StartRing(n) \/ TakePacket(n)

\* The thread is scheduled; nothing is assumed of the sender and the network.
Spec == Init /\ [][Next]_vars /\ WF_vars(RtpThread)

-----------------------------------------------------------------------------
(* Properties *)

ReadingHasNotPassed ==
  /\ thread = "push" => ~seq_order(ab_write, ab_read)
  /\ thread = "select" /\ state = "PLAY" => ~Passed

\* The frames that are to be read, if there are any, are the packets of the numbers
\* they will be read for.
ReadyForTheirNumbers ==
  state # "WAIT" /\ ab_read # Next_(ab_write) =>
    \A s \in seq_t :
      /\ Distance(ab_read, s) <= Distance(ab_read, ab_write)
      /\ ready[BUFIDX(s)] # 0
      => SeqOf(ready[BUFIDX(s)]) = s

HeardFollows == heard' # heard => heard' > heard /\ heard' >= first

\* "There is always at least one frame in the buffer" when frames are handed on:
\* reading never passes writing, across the wrap, while no frames have shared a slot
\* and no gap has left ready frames behind (rtp.c, the comment in buffer_push_packet).
AtLeastOneFrame == ~overrun /\ ~stale => ReadingHasNotPassed

\* A ready frame that is still to be read is the packet of the sequence number it
\* will be read for, under the same two provisos (rtp.c, the slot an index shares
\* with the packets a ring's length before).
FrameInPlace == ~overrun /\ ~stale => ReadyForTheirNumbers

\* What is heard follows the sender's order, each packet once, and nothing from
\* before the last FLUSH, however late packets arrive, under the same two provisos
\* (rtp.c, first_seqno against the late packets that follow a FLUSH).
HeardInOrder == [][~overrun /\ ~stale => HeardFollows]_vars

\* The three after a gap as well, which the code does not keep: the slots that the
\* "reset" of too many missing frames leaves behind keep their flags, and their
\* frames are read for later numbers.
AtLeastOneFrameAfterGaps == ~overrun => ReadingHasNotPassed
FrameInPlaceAfterGaps == ~overrun => ReadyForTheirNumbers
HeardInOrderAfterGaps == [][~overrun => HeardFollows]_vars

\* The RTP thread gives the mutex back after each packet: the discarding of frames
\* comes to the first one that is wanted (rtp.c, buffer_put_packet).
DiscardEnds == thread = "discard" ~> thread = "select"
=============================================================================
