------------------------------- MODULE NetLog -------------------------------
(***************************************************************************)
(* components/net_log: every log line is pushed into a byte ring, framed   *)
(* by its length, by whatever task logs it (net_log_ring.cpp); one task    *)
(* sends the ring to one TCP client at a time (net_log.cpp).  A task that  *)
(* logs never waits: its push evicts the oldest lines, one at a time, and  *)
(* a line whose task finds the mutex taken is skipped.  The client comes,  *)
(* stalls, goes away and is replaced.                                      *)
(*                                                                         *)
(* A byte of the ring is <<line, k>>: the k-th byte of that line's frame.  *)
(* Logical positions do not wrap: they have 64 bits.  A send that takes    *)
(* part of a line counts as sent, in the code and here.                    *)
(*                                                                         *)
(* What is read past the end of the storage is not what was written there. *)
(* The bytes of a line that come out wrong are modelled.  A length prefix  *)
(* that comes out wrong is recorded in misread, and there the task that    *)
(* read it stops: the code takes text for lengths from then on, and no     *)
(* property speaks of it.                                                  *)
(***************************************************************************)
EXTENDS Integers, Sequences, FiniteSets

CONSTANTS
  Capacity,     \* CONFIG_NET_LOG_RING_BYTES
  Prefix,       \* bytes of the length prefix: 2
  Length,       \* the lengths of the lines that will be logged, in order
  MaxClients    \* bound: connections

ASSUME NetLogAssumption ==
  /\ Capacity \in Nat \ {0} /\ Prefix \in Nat \ {0}
  /\ Length \in Seq(Nat \ {0}) /\ MaxClients \in Nat

VARIABLES
  storage, total_written, buffered, dropped_lines,   \* LineRing
  logged,       \* lines logged so far
  pushing,      \* the line whose task holds the mutex in push(), or 0
  client,       \* client_fd: the number of the connection, 0 for none
  accepted,     \* connections accepted so far
  waiting,      \* a connection waits to be accepted
  readable,     \* the client has closed its end
  sender,       \* where sender_task is
  cursor,       \* send_cursor
  before,       \* cursor_before
  hand,         \* the line read: its bytes
  holding,      \* holding_lock
  skipped,      \* history: lines lost to a contended mutex
  misread,      \* history: a length prefix was read past the end of the storage
  heard         \* history: the last line the client was sent, or 0

ring == <<storage, total_written, buffered, dropped_lines>>
logger == <<ring, logged, pushing, skipped, misread>>
sending == <<client, accepted, waiting, readable, sender, cursor, before, hand, holding,
             heard>>
vars == <<logger, sending>>

Lines == 1 .. Len(Length)
Cells == 0 .. Capacity - 1
NoByte == <<0, 0>>
Frame(i) == Prefix + Length[i]

TypeOK ==
  /\ storage \in [Cells -> ({0} \cup Lines) \X Nat]
  /\ total_written \in Nat /\ buffered \in 0 .. Capacity /\ dropped_lines \in Nat
  /\ logged \in 0 .. Len(Length) /\ pushing \in 0 .. Len(Length)
  /\ heard \in 0 .. Len(Length)
  /\ client \in 0 .. MaxClients /\ accepted \in 0 .. MaxClients
  /\ waiting \in BOOLEAN /\ readable \in BOOLEAN /\ holding \in BOOLEAN
  /\ misread \in BOOLEAN
  /\ sender \in {"select", "drain", "send"}
  /\ cursor \in Nat /\ before \in Nat
  /\ hand \in Seq(({0} \cup Lines) \X Nat) /\ skipped \subseteq Lines

\* begin() and start(): the ring and the sender are there, the lock is created.
Init ==
  /\ storage = [c \in Cells |-> NoByte]
  /\ total_written = 0 /\ buffered = 0 /\ dropped_lines = 0
  /\ logged = 0 /\ pushing = 0
  /\ client = 0 /\ accepted = 0 /\ waiting = FALSE /\ readable = FALSE
  /\ sender = "select" /\ cursor = 0 /\ before = 0 /\ hand = <<>>
  /\ holding = FALSE /\ skipped = {} /\ heard = 0 /\ misread = FALSE

-----------------------------------------------------------------------------
(* LineRing *)

Byte(at) == storage[at % Capacity]
Oldest == total_written - buffered

\* read_bytes(): the k-th byte from a position on.  Past the end of the storage the
\* source stands at storage_ + first, which is the k-th byte of the storage.
ReadByte(at, k) ==
  LET phys == at % Capacity
  IN IF phys + k < Capacity THEN storage[phys + k] ELSE storage[k]

\* The prefix at a position lies across the end of the storage.
Split(at) == (at % Capacity) + Prefix > Capacity

\* What a prefix says that does not: the length of the line whose frame starts there.
FrameAt(at) == Frame(Byte(at)[1])

\* write_bytes(), both parts of it.
Written(i) ==
  [c \in Cells |->
     LET k == (c - total_written) % Capacity
     IN IF k < Frame(i) THEN <<i, k>> ELSE storage[c]]

\* net_vprintf() on some task: the mutex is free, ...
Log ==
  /\ pushing = 0
  /\ logged < Len(Length) /\ logged' = logged + 1
  /\ pushing' = logged + 1
  /\ UNCHANGED <<ring, sending, skipped, misread>>

\* ... or another task is in push() or the sender in read_line(), and the line is
\* not waited for.
LogContended ==
  /\ pushing # 0 \/ sender = "drain"
  /\ logged < Len(Length) /\ logged' = logged + 1
  /\ skipped' = skipped \cup {logged + 1}
  /\ UNCHANGED <<ring, pushing, sending, misread>>

\* push(): a frame that can never be stored is dropped, ...
DropLine ==
  /\ pushing # 0 /\ Frame(pushing) > Capacity
  /\ dropped_lines' = dropped_lines + 1 /\ pushing' = 0
  /\ UNCHANGED <<storage, total_written, buffered, logged, sending, skipped, misread>>

\* Slip: an eviction is not counted.
EvictUncounted ==
  /\ pushing # 0 /\ Frame(pushing) <= Capacity
  /\ buffered + Frame(pushing) > Capacity /\ ~Split(Oldest)
  /\ buffered' = buffered - FrameAt(Oldest)
  /\ UNCHANGED <<storage, total_written, dropped_lines, logged, pushing, sending, skipped,
                 misread>>

\* ... the oldest lines make room for one that can be, ...
EvictLine ==
  /\ pushing # 0 /\ Frame(pushing) <= Capacity
  /\ buffered + Frame(pushing) > Capacity /\ ~Split(Oldest)
  /\ buffered' = buffered - FrameAt(Oldest) /\ dropped_lines' = dropped_lines + 1
  /\ UNCHANGED <<storage, total_written, logged, pushing, sending, skipped,
                 misread>>

\* ... and it is written behind the newest.
WriteLine ==
  /\ pushing # 0 /\ buffered + Frame(pushing) <= Capacity
  /\ storage' = Written(pushing)
  /\ total_written' = total_written + Frame(pushing)
  /\ buffered' = buffered + Frame(pushing)
  /\ pushing' = 0
  /\ UNCHANGED <<dropped_lines, logged, sending, skipped, misread>>

-----------------------------------------------------------------------------
(* The client *)

Connect ==
  /\ ~waiting /\ accepted < MaxClients /\ waiting' = TRUE
  /\ UNCHANGED <<logger, client, accepted, readable, sender, cursor, before, hand,
                 holding, heard>>

HangUp ==
  /\ client # 0 /\ ~readable /\ readable' = TRUE
  /\ UNCHANGED <<logger, client, accepted, waiting, sender, cursor, before, hand,
                 holding, heard>>

-----------------------------------------------------------------------------
(* sender_task *)

\* hold_for_client: the lock may be refused, and is not asked for twice.
HoldForClient(wanted) == holding' \in {holding, wanted}

\* A new client replaces the one that was there and is sent the backlog.
Accept ==
  /\ sender = "select" /\ waiting /\ waiting' = FALSE
  /\ accepted' = accepted + 1 /\ client' = accepted + 1 /\ readable' = FALSE
  /\ HoldForClient(TRUE)
  /\ cursor' = 0 /\ heard' = 0
  /\ sender' = "drain"
  /\ UNCHANGED <<logger, before, hand>>

ClientClosed ==
  /\ sender = "select" /\ client # 0 /\ readable
  /\ client' = 0 /\ readable' = FALSE
  /\ HoldForClient(FALSE)
  /\ UNCHANGED <<logger, accepted, waiting, sender, cursor, before, hand, heard>>

\* Slip: the task waits for the sockets however long they are silent.
SelectWaits ==
  /\ sender = "select" /\ waiting
  /\ sender' = IF client # 0 THEN "drain" ELSE "select"
  /\ UNCHANGED <<logger, client, accepted, waiting, readable, cursor, before, hand,
                 holding, heard>>

\* Nothing on the sockets for 200 ms, or nothing that matters.
SelectTimesOut ==
  /\ sender = "select"
  /\ sender' = IF client # 0 THEN "drain" ELSE "select"
  /\ UNCHANGED <<logger, client, accepted, waiting, readable, cursor, before, hand,
                 holding, heard>>

\* Slip: a position that has been evicted is read all the same.
ClampedNot(at) == at

\* "skip data since evicted"
Clamped(at) == IF at < Oldest THEN Oldest ELSE at

\* read_line() under the mutex.
ReadLine ==
  /\ sender = "drain" /\ pushing = 0
  /\ before' = cursor
  /\ LET at == Clamped(cursor)
     IN IF at >= total_written
        THEN cursor' = at /\ sender' = "select" /\ UNCHANGED hand
        ELSE /\ ~Split(at)
             /\ hand' = [k \in 1 .. FrameAt(at) - Prefix |-> ReadByte(at + Prefix, k - 1)]
             /\ cursor' = at + FrameAt(at) /\ sender' = "send"
  /\ UNCHANGED <<logger, client, accepted, waiting, readable, holding, heard>>

\* push() or read_line() reads a prefix that lies across the end: its second byte is
\* one of the text.
MisreadPrefix ==
  /\ \/ /\ pushing # 0 /\ Frame(pushing) <= Capacity
        /\ buffered + Frame(pushing) > Capacity /\ Split(Oldest)
     \/ /\ sender = "drain" /\ pushing = 0
        /\ Clamped(cursor) < total_written /\ Split(Clamped(cursor))
  /\ misread' = TRUE
  /\ UNCHANGED <<ring, logged, pushing, skipped, sending>>

Send(to) == sender = "send" /\ sender' = to /\ hand' = <<>>

\* Slip: the position is taken back after every send, stalled or not.
SentAndTakenBack ==
  /\ Send("drain") /\ heard' = hand[1][1] /\ cursor' = before
  /\ UNCHANGED <<logger, client, accepted, waiting, readable, before, holding>>

Sent ==
  /\ Send("drain") /\ heard' = hand[1][1]
  /\ UNCHANGED <<logger, client, accepted, waiting, readable, cursor, before, holding>>

\* The window stayed full for 200 ms: the line is kept for the next pass.
SendStalls ==
  /\ Send("select") /\ cursor' = before
  /\ UNCHANGED <<logger, client, accepted, waiting, readable, before, holding, heard>>

\* The client is gone; the lock is not let go.
SendFails ==
  /\ Send("select") /\ client' = 0 /\ readable' = FALSE
  /\ UNCHANGED <<logger, accepted, waiting, cursor, before, holding, heard>>

SenderTask ==
  \/ Accept \/ ClientClosed \/ SelectTimesOut \/ ReadLine
  \/ Sent \/ SendStalls \/ SendFails

Push == DropLine \/ EvictLine \/ WriteLine

Next ==
  \/ Log \/ LogContended \/ Push \/ MisreadPrefix
  \/ Connect \/ HangUp \/ SenderTask

\* The tasks run, and a client that stays takes what it is sent again and again.
Fairness ==
  /\ WF_vars(Push) /\ WF_vars(MisreadPrefix)
  /\ WF_vars(Accept \/ ClientClosed \/ SelectTimesOut) /\ WF_vars(ReadLine)
  /\ WF_vars(Sent \/ SendStalls \/ SendFails) /\ SF_vars(Sent)

Spec == Init /\ [][Next]_vars /\ Fairness

-----------------------------------------------------------------------------
(* Properties *)

Retained == {Byte(Oldest + k)[1] : k \in 0 .. buffered - 1}
TooLong == {i \in 1 .. logged : Frame(i) > Capacity}
Evicted == (1 .. logged) \ (Retained \cup skipped \cup TooLong \cup {pushing})

\* What is sent is one line, whole but for its bytes past the end of the storage: the
\* cursor always stands at the start of a frame, though lines are evicted under it, the
\* ring wraps and a stalled send rewinds it (net_log_ring.cpp, read_line).
LinesUpToTheEnd ==
  sender = "send" /\ ~misread =>
    \E i \in 1 .. logged :
      /\ Len(hand) = Length[i]
      /\ \A k \in 1 .. Length[i] :
           ((cursor - Length[i]) % Capacity) + k <= Capacity
             => hand[k] = <<i, Prefix + k - 1>>

Accounted == Cardinality(Retained) + dropped_lines + (IF pushing = 0 THEN 0 ELSE 1)

\* Every line that got the mutex is in the ring or counted as dropped, or its task is
\* still in push(): one line may evict several, and some fit no ring
\* (net_log_ring.cpp, push).  It says nothing of the lines that did not get it.
EveryLineCounted == ~misread => Accounted = logged - Cardinality(skipped)

SendsLine == sender = "send" /\ sender' = "drain"

\* One client is sent the lines in order from the oldest that was there on, and each
\* send is of a later line than the one before, never of that line again; a line it is
\* not sent has been evicted, was too long, or found the mutex taken (net_log.cpp,
\* send_cursor over accept, stall and retry).
HeardWithoutGap ==
  [][client' = client /\ (SendsLine \/ heard' # heard) /\ ~misread =>
       /\ heard' > heard
       /\ heard + 1 .. heard' - 1 \subseteq Evicted' \cup TooLong \cup skipped]_vars

\* A client that stays and reads is sent every line the ring still has (net_log.cpp,
\* the bounded wait and the retry).
LinesArrive ==
  \A i \in Lines, c \in 1 .. MaxClients :
    i \in Retained /\ client = c ~>
      i \notin Retained \/ heard >= i \/ client # c \/ misread

-----------------------------------------------------------------------------
(* Statements of the sources that the code does not keep *)

\* "A reader always gets back whole lines in the order they were written, never a
\* partial split across a push/read race or a wraparound" (net_log_ring.hpp): the rest
\* of a line that lies across the end of the storage is read from the wrong place.
WholeLines ==
  sender = "send" =>
    \E i \in 1 .. logged : hand = [k \in 1 .. Length[i] |-> <<i, Prefix + k - 1>>]

\* "This is the number to surface to an operator - a silently truncated log is the
\* exact failure mode this exists to prevent" (net_log_ring.hpp): a line whose task
\* finds the mutex taken is counted nowhere (net_log.cpp, net_vprintf).
EveryLossCounted == ~misread => Accounted = logged

\* "The lock is held exactly while somebody is connected" (net_log.cpp, the comment
\* on light sleep): SendFails keeps it.  No run asserts it.
LockOnlyWhileWatched == holding => client # 0
=============================================================================
