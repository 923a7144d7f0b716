------------------------ MODULE AirplaySessionProofs ------------------------
(***************************************************************************)
(* The safety invariants of the audio stream and of the AirPlay session    *)
(* that uses it, proved for any set of tones and sweeps and whatever may   *)
(* fail.                                                                   *)
(***************************************************************************)
EXTENDS AirplaySession, FiniteSetTheorems, TLAPS

\* The token is taken, or about to be given by the one who has made it.
Busy(p) == player[p] \notin {"none", "seed", "given"}
Opening(c) == call[c] \in {"made", "open"}

\* Whoever is past the head of a write or a close has the mutex, and a write
\* finds the stream open until it has ended.
MutexInv ==
  /\ \A c \in Callers : call[c] \in {"write", "armed", "close"} <=> mutex = c
  /\ callback = "closing" <=> mutex = "watchdog"
  /\ \A c \in Callers : call[c] \in {"write", "armed"} => streamOpen

HolderInv ==
  /\ token = 1 => /\ \A p \in Players : ~Busy(p)
                  /\ \A c \in Callers : ~Opening(c)
                  /\ ~streamOpen
  /\ created /\ token = 0 => \/ \E p \in Players : Busy(p)
                             \/ \E c \in Callers : Opening(c)
                             \/ streamOpen
  /\ \A p, q \in Players : Busy(p) /\ Busy(q) => p = q
  /\ \A c, d \in Callers : Opening(c) /\ Opening(d) => c = d
  /\ \A p \in Players, c \in Callers : ~(Busy(p) /\ Opening(c))
  /\ streamOpen => /\ \A p \in Players : ~Busy(p)
                   /\ \A c \in Callers : ~Opening(c)
  /\ codec = "stream" <=> streamOpen

\* The first semaphore's token is out exactly while there is a holder, and there is
\* at most one.  Before it is made there is nothing to give.
TokenInv ==
  /\ ~created => /\ token = 0 /\ ~raced
                 /\ \A p \in Players : player[p] \in {"none", "seed"}
                 /\ \A c \in Callers : call[c] \notin {"made", "given", "open"}
                 /\ ~streamOpen
  /\ ~raced => HolderInv
  /\ ampActive => streamOpen

AudioInv == AudioTypeOK /\ MutexInv /\ TokenInv /\ AmplifierRestsLow

\* Which task is in which call, and how the update's phase goes with the life of
\* the RTSP thread.
PhaseInv ==
  /\ call[Rtsp] # "none" => \/ rtsp = "opening" /\ call[Rtsp] \in SeedSteps \cup {"open"}
                            \/ release[Rtsp] = "closing" /\ call[Rtsp] = "close"
  /\ call[Output] \in {"none", "write", "armed"} /\ call[Updater] \in {"none", "close"}
  /\ release[Rtsp] # "none" => rtsp = "ending"
  /\ release[Updater] # "none" => update \in {"release", "cleanup"}
  /\ rtsp \in {"setup", "opening", "rtp", "ending"} => ~rtp
  /\ rtsp = "gone" => ~running
  /\ handle /\ update \notin {"join", "cleanup"} => running
  /\ update \in {"release", "deinit", "join", "cleanup"} => handle
  /\ update = "cleanup" \/ ~handle => rtsp = "gone" /\ ~rtp
  /\ update = "done" => ~handle

AtRest == ~icon /\ power = "on" /\ ~session /\ ~shown /\ ~streamOpen
Cleared == ~icon /\ power = "on" /\ ~session /\ ~streamOpen

\* The task that ends the session brings it back to rest step by step, and
\* nothing is acquired until the next SETUP.
RestInv == ~left =>
  /\ savedPower = "on"
  /\ ~rtp /\ rtsp \in {"accept", "serve", "reading"} => AtRest
  /\ rtsp = "ending" /\ release[Rtsp] = "closing" /\ call[Rtsp] = "none" => ~streamOpen
  /\ release[Rtsp] = "clear" => Cleared
  /\ rtsp = "ending" /\ release[Rtsp] = "none" => AtRest
  /\ rtsp = "gone" /\ ~rtp /\ release[Updater] = "none" => AtRest
  /\ rtsp = "gone" /\ ~rtp /\ release[Updater] = "closing" /\ call[Updater] = "none"
       => ~streamOpen
  /\ rtsp = "gone" /\ ~rtp /\ release[Updater] = "clear" => Cleared

IInv == TypeOK /\ AudioInv /\ PhaseInv /\ RestInv
-----------------------------------------------------------------------------
(* The audio stream *)

\* The steps of a tone or sweep task keep the token, the amplifier and the mutex.
LEMMA PlayerStep ==
  ASSUME AudioInv, NEW p \in Players, PlayerNext(p)
  PROVE  AudioInv'
<1> USE DEF AudioInv, AudioTypeOK, MutexInv, TokenInv, HolderInv, AmplifierRestsLow,
            Busy, Opening, CallSteps, PlayerSteps, SeedSteps, slotVars, streamVars, PlayerAt
<1>1. CASE RequestTone(p)
  <2>1. AudioTypeOK'
    BY <1>1 DEF RequestTone, ClaimStep, Take, Release
  <2>2. MutexInv'
    BY <1>1 DEF RequestTone, ClaimStep, Take, Release
  <2>3. TokenInv'
    BY <1>1 DEF RequestTone, ClaimStep, Take, Release
  <2>4. AmplifierRestsLow'
    BY <1>1 DEF RequestTone, ClaimStep, Take, Release
  <2>5. QED
    BY <2>1, <2>2, <2>3, <2>4
<1>2. CASE SeedForTone(p)
  <2>1. AudioTypeOK'
    <3>1. created' \in BOOLEAN /\ token' \in {0, 1} /\ raced' \in BOOLEAN
      BY <1>2 DEF SeedForTone, ClaimStep, Take, Release
    <3>2. player' \in [Players -> PlayerSteps]
      BY <1>2 DEF SeedForTone, ClaimStep, Take, Release
    <3>3. QED
      BY <1>2, <3>1, <3>2 DEF SeedForTone
  <2>2. MutexInv'
    BY <1>2 DEF SeedForTone, ClaimStep, Take, Release
  <2>3. TokenInv'
    BY <1>2 DEF SeedForTone, ClaimStep, Take, Release
  <2>4. AmplifierRestsLow'
    BY <1>2 DEF SeedForTone, ClaimStep, Take, Release
  <2>5. QED
    BY <2>1, <2>2, <2>3, <2>4
<1>3. CASE StartTask(p)
  <2>1. AudioTypeOK'
    BY <1>3 DEF StartTask
  <2>2. MutexInv'
    BY <1>3 DEF StartTask
  <2>3. TokenInv'
    BY <1>3 DEF StartTask
  <2>4. AmplifierRestsLow'
    BY <1>3 DEF StartTask
  <2>5. QED
    BY <2>1, <2>2, <2>3, <2>4
<1>4. CASE TaskNotCreated(p)
  <2>1. AudioTypeOK'
    BY <1>4 DEF TaskNotCreated, Release
  <2>2. MutexInv'
    BY <1>4 DEF TaskNotCreated, Release
  <2>3. TokenInv'
    BY <1>4 DEF TaskNotCreated, Release
  <2>4. AmplifierRestsLow'
    BY <1>4 DEF TaskNotCreated, Release
  <2>5. QED
    BY <2>1, <2>2, <2>3, <2>4
<1>5. CASE OpenForTone(p)
  <2>1. AudioTypeOK'
    BY <1>5 DEF OpenForTone
  <2>2. MutexInv'
    BY <1>5 DEF OpenForTone
  <2>3. TokenInv'
    BY <1>5 DEF OpenForTone
  <2>4. AmplifierRestsLow'
    BY <1>5 DEF OpenForTone
  <2>5. QED
    BY <2>1, <2>2, <2>3, <2>4
<1>6. CASE LeadIn(p)
  <2>1. AudioTypeOK'
    <3>1. amp' \in {0, 1} /\ speaker' \in BOOLEAN /\ player' \in [Players -> PlayerSteps]
      BY <1>6 DEF LeadIn
    <3>2. QED
      BY <1>6, <3>1 DEF LeadIn
  <2>2. MutexInv'
    BY <1>6 DEF LeadIn
  <2>3. TokenInv'
    BY <1>6 DEF LeadIn
  <2>4. AmplifierRestsLow'
    BY <1>6 DEF LeadIn
  <2>5. QED
    BY <2>1, <2>2, <2>3, <2>4
<1>7. CASE DropAmplifier(p)
  <2>1. AudioTypeOK'
    BY <1>7 DEF DropAmplifier
  <2>2. MutexInv'
    BY <1>7 DEF DropAmplifier
  <2>3. TokenInv'
    BY <1>7 DEF DropAmplifier
  <2>4. AmplifierRestsLow'
    BY <1>7 DEF DropAmplifier
  <2>5. QED
    BY <2>1, <2>2, <2>3, <2>4
<1>8. CASE AfterStep(p)
  <2>1. AudioTypeOK'
    BY <1>8 DEF AfterStep
  <2>2. MutexInv'
    BY <1>8 DEF AfterStep
  <2>3. TokenInv'
    BY <1>8 DEF AfterStep
  <2>4. AmplifierRestsLow'
    BY <1>8 DEF AfterStep
  <2>5. QED
    BY <2>1, <2>2, <2>3, <2>4
<1>9. CASE EndTask(p)
  <2>1. AudioTypeOK'
    BY <1>9 DEF EndTask, Release
  <2>2. MutexInv'
    BY <1>9 DEF EndTask, Release
  <2>3. TokenInv'
    BY <1>9 DEF EndTask, Release
  <2>4. AmplifierRestsLow'
    BY <1>9 DEF EndTask, Release
  <2>5. QED
    BY <2>1, <2>2, <2>3, <2>4
<1>10. QED
  BY <1>1, <1>2, <1>3, <1>4, <1>5, <1>6, <1>7, <1>8, <1>9 DEF PlayerNext

\* So do the calls of the stream's users.
LEMMA CallStep ==
  ASSUME AudioInv, NEW c \in Callers,
         CallNext(c) \/ CallOpen(c) \/ CallWrite(c) \/ CallClose(c)
  PROVE  AudioInv'
<1> USE CallersAssumption
    DEF AudioInv, AudioTypeOK, MutexInv, TokenInv, HolderInv, AmplifierRestsLow,
        Busy, Opening, CallSteps, PlayerSteps, SeedSteps, slotVars, CallAt
<1>1. CASE Open(c)
  <2>1. AudioTypeOK'
    BY <1>1 DEF Open, Arm, Release
  <2>2. MutexInv'
    BY <1>1 DEF Open, Arm, Release
  <2>3. TokenInv'
    BY <1>1 DEF Open, Arm, Release
  <2>4. AmplifierRestsLow'
    BY <1>1 DEF Open, Arm, Release
  <2>5. QED
    BY <2>1, <2>2, <2>3, <2>4
<1>2. CASE ArmInWrite(c)
  <2>1. AudioTypeOK'
    BY <1>2 DEF ArmInWrite, Arm
  <2>2. MutexInv'
    BY <1>2 DEF ArmInWrite, Arm
  <2>3. TokenInv'
    BY <1>2 DEF ArmInWrite, Arm
  <2>4. AmplifierRestsLow'
    BY <1>2 DEF ArmInWrite, Arm
  <2>5. QED
    BY <2>1, <2>2, <2>3, <2>4
<1>3. CASE FinishWrite(c)
  <2>1. AudioTypeOK'
    BY <1>3 DEF FinishWrite, CloseStreamLocked, Answer, Release
  <2>2. MutexInv'
    <3>1. mutex = c /\ callback # "closing" /\ callback' = callback /\ mutex' = None
      BY <1>3 DEF FinishWrite, CloseStreamLocked, Answer, Release
    <3>2. \A d \in Callers : call'[d] = IF d = c THEN "none" ELSE call[d]
      BY <1>3 DEF FinishWrite, CloseStreamLocked, Answer, Release
    <3>3. \A d \in Callers : d # c => call[d] \notin {"write", "armed", "close"}
      BY <3>1
    <3>4. QED
      BY <3>1, <3>2, <3>3, <1>3 DEF FinishWrite, CloseStreamLocked, Answer, Release
  <2>3. TokenInv'
    BY <1>3 DEF FinishWrite, CloseStreamLocked, Answer, Release
  <2>4. AmplifierRestsLow'
    BY <1>3 DEF FinishWrite, CloseStreamLocked, Answer, Release
  <2>5. QED
    BY <2>1, <2>2, <2>3, <2>4
<1>4. CASE FinishClose(c)
  <2>1. AudioTypeOK'
    BY <1>4 DEF FinishClose, CloseStreamLocked, Release
  <2>2. MutexInv'
    <3>1. mutex = c /\ callback # "closing" /\ callback' = callback /\ mutex' = None
      BY <1>4 DEF FinishClose, CloseStreamLocked, Release
    <3>2. \A d \in Callers : call'[d] = IF d = c THEN "none" ELSE call[d]
      BY <1>4 DEF FinishClose, CloseStreamLocked, Release
    <3>3. \A d \in Callers : d # c => call[d] \notin {"write", "armed", "close"}
      BY <3>1
    <3>4. QED
      BY <3>1, <3>2, <3>3, <1>4 DEF FinishClose, CloseStreamLocked, Release
  <2>3. TokenInv'
    BY <1>4 DEF FinishClose, CloseStreamLocked, Release
  <2>4. AmplifierRestsLow'
    BY <1>4 DEF FinishClose, CloseStreamLocked, Release
  <2>5. QED
    BY <2>1, <2>2, <2>3, <2>4
<1>5. CASE CallOpen(c)
  <2>1. AudioTypeOK'
    BY <1>5 DEF CallOpen, ClaimStep, Take, Release
  <2>2. MutexInv'
    BY <1>5 DEF CallOpen, ClaimStep, Take, Release
  <2>3. TokenInv'
    BY <1>5 DEF CallOpen, ClaimStep, Take, Release
  <2>4. AmplifierRestsLow'
    BY <1>5 DEF CallOpen, ClaimStep, Take, Release
  <2>5. QED
    BY <2>1, <2>2, <2>3, <2>4
<1>6. CASE CallWrite(c)
  <2>1. AudioTypeOK'
    BY <1>6 DEF CallWrite, Answer
  <2>2. MutexInv'
    BY <1>6 DEF CallWrite, Answer
  <2>3. TokenInv'
    BY <1>6 DEF CallWrite, Answer
  <2>4. AmplifierRestsLow'
    BY <1>6 DEF CallWrite, Answer
  <2>5. QED
    BY <2>1, <2>2, <2>3, <2>4
<1>7. CASE CallClose(c)
  <2>1. AudioTypeOK'
    BY <1>7 DEF CallClose
  <2>2. MutexInv'
    <3>1. mutex = None /\ callback # "closing" /\ callback' = callback /\ mutex' = c
      BY <1>7 DEF CallClose
    <3>2. \A d \in Callers : call'[d] = IF d = c THEN "close" ELSE call[d]
      BY <1>7 DEF CallClose
    <3>3. \A d \in Callers : d # c => call[d] \notin {"write", "armed", "close"}
      BY <3>1
    <3>4. QED
      BY <3>1, <3>2, <3>3, <1>7 DEF CallClose
  <2>3. TokenInv'
    BY <1>7 DEF CallClose
  <2>4. AmplifierRestsLow'
    BY <1>7 DEF CallClose
  <2>5. QED
    BY <2>1, <2>2, <2>3, <2>4
<1>8. CASE SeedForStream(c)
  <2>1. AudioTypeOK'
    <3>1. created' \in BOOLEAN /\ token' \in {0, 1} /\ raced' \in BOOLEAN
      BY <1>8 DEF SeedForStream, ClaimStep, Take, Release
    <3>2. call' \in [Callers -> CallSteps]
      BY <1>8 DEF SeedForStream, ClaimStep, Take, Release
    <3>3. QED
      BY <1>8, <3>1, <3>2 DEF SeedForStream
  <2>2. MutexInv'
    BY <1>8 DEF SeedForStream, ClaimStep, Take, Release
  <2>3. TokenInv'
    BY <1>8 DEF SeedForStream, ClaimStep, Take, Release
  <2>4. AmplifierRestsLow'
    BY <1>8 DEF SeedForStream, ClaimStep, Take, Release
  <2>5. QED
    BY <2>1, <2>2, <2>3, <2>4
<1>9. QED
  BY <1>1, <1>2, <1>3, <1>4, <1>5, <1>6, <1>7, <1>8 DEF CallNext

\* So does the watchdog, whoever is in a call when it fires.
LEMMA WatchdogStep ==
  ASSUME AudioInv, WatchdogNext
  PROVE  AudioInv'
<1> USE CallersAssumption
    DEF AudioInv, AudioTypeOK, MutexInv, TokenInv, HolderInv, AmplifierRestsLow,
        Busy, Opening, CallSteps, PlayerSteps, SeedSteps, slotVars
<1>1. CASE WatchdogExpires
  BY <1>1 DEF WatchdogExpires
<1>2. CASE WatchdogGivesUp
  BY <1>2 DEF WatchdogGivesUp
<1>3. CASE WatchdogTakes
  BY <1>3 DEF WatchdogTakes
<1>4. CASE WatchdogCloses
  <2>1. AudioTypeOK'
    BY <1>4 DEF WatchdogCloses, CloseStreamLocked, Release
  <2>2. MutexInv'
    BY <1>4 DEF WatchdogCloses, CloseStreamLocked, Release
  <2>3. TokenInv'
    BY <1>4 DEF WatchdogCloses, CloseStreamLocked, Release
  <2>4. AmplifierRestsLow'
    BY <1>4 DEF WatchdogCloses, CloseStreamLocked, Release
  <2>5. QED
    BY <2>1, <2>2, <2>3, <2>4
<1>5. QED
  BY <1>1, <1>2, <1>3, <1>4 DEF WatchdogNext

-----------------------------------------------------------------------------
(* The session *)

\* A step of the audio module: calls only move on, and only the RTSP thread's
\* call opens the stream.
LEMMA AudioFacts ==
  ASSUME IInv, AudioStep
  PROVE  /\ AudioInv'
         /\ UNCHANGED sessionVars
         /\ \A c \in Callers :
              call'[c] # call[c] =>
                \/ call'[c] = "none" /\ (call[c] = "close" => ~streamOpen')
                \/ call[c] = "write" /\ call'[c] = "armed"
                \/ call[c] \in SeedSteps /\ call'[c] \in SeedSteps \cup {"open"}
         /\ streamOpen' => streamOpen \/ call[Rtsp] = "open"
<1> USE DEF IInv
<1>0. UNCHANGED sessionVars
  BY AudioStep DEF AudioStep
<1>1. CASE \E c \in Callers : CallNext(c)
  <2>1. PICK c \in Callers : CallNext(c)
    BY <1>1
  <2>2. AudioInv'
    BY <2>1, CallStep
  <2>3. call \in [Callers -> CallSteps]
    BY DEF AudioInv, AudioTypeOK
  <2>4. ASSUME NEW to, call' = [call EXCEPT ![c] = to]
        PROVE  \A d \in Callers : call'[d] = IF d = c THEN to ELSE call[d]
    BY <2>3, <2>4
  <2>5. CASE Open(c)
    <3>1. call[c] = "open" /\ call' = [call EXCEPT ![c] = "none"]
      BY <2>5 DEF Open, CallAt
    <3>2. c = Rtsp
      BY <3>1, AirplayAssumption DEF PhaseInv
    <3>3. QED
      BY <1>0, <2>2, <2>4, <3>1, <3>2
  <2>6. CASE ArmInWrite(c)
    <3>1. /\ call[c] = "write" /\ call' = [call EXCEPT ![c] = "armed"]
          /\ streamOpen' = streamOpen
      BY <2>6 DEF ArmInWrite, CallAt
    <3>2. QED
      BY <1>0, <2>2, <2>4, <3>1
  <2>7. CASE FinishWrite(c) \/ FinishClose(c)
    <3>1. /\ call[c] \in {"armed", "close"} /\ call' = [call EXCEPT ![c] = "none"]
          /\ streamOpen' => streamOpen
          /\ call[c] = "close" => ~streamOpen'
      BY <2>7 DEF FinishWrite, FinishClose, CallAt, CloseStreamLocked
    <3>2. QED
      BY <1>0, <2>2, <2>4, <3>1
  <2>8. CASE SeedForStream(c)
    <3>1. PICK from \in SeedSteps, to \in {"made", "given", "open", "none"} :
            call[c] = from /\ call' = [call EXCEPT ![c] = to] /\ streamOpen' = streamOpen
      BY <2>8 DEF SeedForStream, CallAt
    <3>2. call[c] # "close"
      BY <3>1 DEF SeedSteps
    <3>3. to \in SeedSteps \cup {"open", "none"}
      BY DEF SeedSteps
    <3>4. QED
      BY <1>0, <2>2, <2>4, <3>1, <3>2, <3>3
  <2>9. QED
    BY <2>1, <2>5, <2>6, <2>7, <2>8 DEF CallNext
<1>2. CASE \E p \in Players : PlayerNext(p)
  <2>1. PICK p \in Players : PlayerNext(p)
    BY <1>2
  <2>2. UNCHANGED streamVars
    BY <2>1 DEF PlayerNext, RequestTone, SeedForTone, StartTask, TaskNotCreated, OpenForTone, LeadIn,
       DropAmplifier, AfterStep, EndTask
  <2>3. QED
    BY <1>0, <2>1, <2>2, PlayerStep DEF streamVars
<1>3. CASE WatchdogNext
  <2>1. call' = call /\ (streamOpen' => streamOpen)
    BY <1>3 DEF WatchdogNext, WatchdogExpires, WatchdogGivesUp, WatchdogTakes,
       WatchdogCloses, CloseStreamLocked
  <2>2. QED
    BY <1>0, <1>3, <2>1, WatchdogStep
<1>4. QED
  BY <1>1, <1>2, <1>3, AudioStep DEF AudioStep

LEMMA AudioKeepsIInv ==
  ASSUME IInv, AudioStep
  PROVE  IInv'
<1>1. AudioInv' /\ UNCHANGED sessionVars
  BY AudioFacts
<1>2. TypeOK'
  BY <1>1 DEF IInv, TypeOK, AudioInv, sessionVars, RtspSteps, UpdateSteps, Releasers
<1>3. PhaseInv'
  BY <1>1, AudioFacts, AirplayAssumption DEF IInv, PhaseInv, SeedSteps, sessionVars
<1>4. RestInv'
  BY <1>1, AudioFacts, AirplayAssumption
     DEF IInv, PhaseInv, RestInv, AtRest, Cleared, SeedSteps, sessionVars
<1>5. QED
  BY <1>1, <1>2, <1>3, <1>4 DEF IInv

\* The steps that leave the audio module alone.
LEMMA AudioKept ==
  ASSUME AudioInv, UNCHANGED audioVars
  PROVE  AudioInv'
BY DEF AudioInv, AudioTypeOK, MutexInv, TokenInv, HolderInv, AmplifierRestsLow, Busy,
   Opening, audioVars, slotVars

\* The steps of the RTSP thread.
LEMMA RtspStep ==
  ASSUME IInv, RtspNext
  PROVE  IInv'
<1> USE AirplayAssumption DEF IInv, RtspSteps, UpdateSteps, Releasers
<1>1. CASE Accept
  <2>1. AudioInv'
    BY <1>1, AudioKept DEF Accept
  <2>2. TypeOK'
    BY <1>1, <2>1 DEF TypeOK, AudioInv, Accept, RtspAt
  <2>3. PhaseInv'
    BY <1>1 DEF PhaseInv, audioVars, Accept, RtspAt
  <2>4. RestInv'
    BY <1>1 DEF PhaseInv, RestInv, AtRest, Cleared, audioVars, Accept, RtspAt
  <2>5. QED
    BY <2>1, <2>2, <2>3, <2>4
<1>2. CASE Setup
  <2>1. AudioInv'
    BY <1>2, AudioKept DEF Setup
  <2>2. TypeOK'
    BY <1>2, <2>1 DEF TypeOK, AudioInv, Setup, RtspAt
  <2>3. PhaseInv'
    BY <1>2 DEF PhaseInv, audioVars, Setup, RtspAt
  <2>4. RestInv'
    BY <1>2 DEF PhaseInv, RestInv, AtRest, Cleared, audioVars, Setup, RtspAt
  <2>5. QED
    BY <2>1, <2>2, <2>3, <2>4
<1>3. CASE SetupStream
  <2>1. AudioInv'
    BY <1>3, CallStep, AirplayAssumption DEF SetupStream, Releasers
  <2>2. TypeOK'
    BY <1>3, <2>1 DEF TypeOK, AudioInv, SetupStream, RtspAt, CallOpen
  <2>3. PhaseInv'
    <3>1. PICK to \in {"seed", "open", "none"} : call' = [call EXCEPT ![Rtsp] = to]
      BY <1>3 DEF SetupStream, CallOpen, CallAt
    <3>2. \A c \in Callers : call'[c] = IF c = Rtsp THEN to ELSE call[c]
      BY <3>1 DEF TypeOK, AudioTypeOK
    <3>3. to \in SeedSteps \cup {"open", "none"}
      BY DEF SeedSteps
    <3>4. QED
      BY <1>3, <3>2, <3>3 DEF PhaseInv, SetupStream, RtspAt
  <2>4. RestInv'
    BY <1>3 DEF PhaseInv, RestInv, AtRest, Cleared, audioVars, SetupStream, RtspAt, CallOpen, CallAt
  <2>5. QED
    BY <2>1, <2>2, <2>3, <2>4
<1>4. CASE SetupPublish
  <2>1. AudioInv'
    BY <1>4, AudioKept DEF SetupPublish
  <2>2. TypeOK'
    BY <1>4, <2>1 DEF TypeOK, AudioInv, SetupPublish, RtspAt
  <2>3. PhaseInv'
    BY <1>4 DEF PhaseInv, audioVars, SetupPublish, RtspAt
  <2>4. RestInv'
    BY <1>4 DEF PhaseInv, RestInv, AtRest, Cleared, audioVars, SetupPublish, RtspAt
  <2>5. QED
    BY <2>1, <2>2, <2>3, <2>4
<1>5. CASE SetupRtp
  <2>1. AudioInv'
    BY <1>5, AudioKept DEF SetupRtp
  <2>2. TypeOK'
    <3>1. AudioTypeOK'
      BY <2>1 DEF AudioInv
    <3>2. rtp' \in BOOLEAN /\ left' \in BOOLEAN /\ rtsp' \in RtspSteps
      BY <1>5 DEF TypeOK, SetupRtp, RtspAt
    <3>3. QED
      BY <1>5, <3>1, <3>2 DEF TypeOK, SetupRtp, RtspAt
  <2>3. PhaseInv'
    BY <1>5 DEF PhaseInv, audioVars, SetupRtp, RtspAt
  <2>4. RestInv'
    BY <1>5 DEF PhaseInv, RestInv, AtRest, Cleared, audioVars, SetupRtp, RtspAt
  <2>5. QED
    BY <2>1, <2>2, <2>3, <2>4
<1>6. CASE Record
  <2>1. AudioInv'
    BY <1>6, AudioKept DEF Record
  <2>2. TypeOK'
    BY <1>6, <2>1 DEF TypeOK, AudioInv, Record, RtspAt
  <2>3. PhaseInv'
    BY <1>6 DEF PhaseInv, audioVars, Record, RtspAt
  <2>4. RestInv'
    BY <1>6 DEF PhaseInv, RestInv, AtRest, Cleared, audioVars, Record, RtspAt
  <2>5. QED
    BY <2>1, <2>2, <2>3, <2>4
<1>7. CASE Flush
  <2>1. AudioInv'
    BY <1>7, AudioKept DEF Flush
  <2>2. TypeOK'
    <3>1. AudioTypeOK'
      BY <2>1 DEF AudioInv
    <3>2. playing' \in BOOLEAN /\ shown' \in BOOLEAN /\ rtsp' \in RtspSteps
      BY <1>7 DEF TypeOK, Flush, RtspAt
    <3>3. QED
      BY <1>7, <3>1, <3>2 DEF TypeOK, Flush, RtspAt
  <2>3. PhaseInv'
    BY <1>7 DEF PhaseInv, audioVars, Flush, RtspAt
  <2>4. RestInv'
    BY <1>7 DEF PhaseInv, RestInv, AtRest, Cleared, audioVars, Flush, RtspAt
  <2>5. QED
    BY <2>1, <2>2, <2>3, <2>4
<1>8. CASE EndSession
  <2>1. AudioInv'
    BY <1>8, AudioKept DEF EndSession
  <2>2. TypeOK'
    BY <1>8, <2>1 DEF TypeOK, AudioInv, EndSession, RtspAt, BeginRelease
  <2>3. PhaseInv'
    BY <1>8 DEF PhaseInv, audioVars, EndSession, RtspAt, BeginRelease
  <2>4. RestInv'
    BY <1>8 DEF TypeOK, AudioTypeOK, PhaseInv, RestInv, AtRest, Cleared, audioVars, EndSession, RtspAt, BeginRelease
  <2>5. QED
    BY <2>1, <2>2, <2>3, <2>4
<1>9. CASE SessionEnded
  <2>1. AudioInv'
    BY <1>9, AudioKept DEF SessionEnded
  <2>2. TypeOK'
    BY <1>9, <2>1 DEF TypeOK, AudioInv, SessionEnded, RtspAt
  <2>3. PhaseInv'
    BY <1>9 DEF PhaseInv, audioVars, SessionEnded, RtspAt
  <2>4. RestInv'
    BY <1>9 DEF PhaseInv, RestInv, AtRest, Cleared, audioVars, SessionEnded, RtspAt
  <2>5. QED
    BY <2>1, <2>2, <2>3, <2>4
<1>10. CASE Hangup
  <2>1. AudioInv'
    BY <1>10, AudioKept DEF Hangup
  <2>2. TypeOK'
    BY <1>10, <2>1 DEF TypeOK, AudioInv, Hangup, RtspAt
  <2>3. PhaseInv'
    BY <1>10 DEF PhaseInv, audioVars, Hangup, RtspAt
  <2>4. RestInv'
    BY <1>10 DEF PhaseInv, RestInv, AtRest, Cleared, audioVars, Hangup, RtspAt
  <2>5. QED
    BY <2>1, <2>2, <2>3, <2>4
<1>11. CASE RtspStops
  <2>1. AudioInv'
    BY <1>11, AudioKept DEF RtspStops
  <2>2. TypeOK'
    BY <1>11, <2>1 DEF TypeOK, AudioInv, RtspStops
  <2>3. PhaseInv'
    BY <1>11 DEF PhaseInv, audioVars, RtspStops
  <2>4. RestInv'
    BY <1>11 DEF PhaseInv, RestInv, AtRest, Cleared, audioVars, RtspStops
  <2>5. QED
    BY <2>1, <2>2, <2>3, <2>4
<1>12. CASE Read
  <2>1. AudioInv'
    BY <1>12, AudioKept DEF Read
  <2>2. TypeOK'
    BY <1>12, <2>1 DEF TypeOK, AudioInv, Read, RtspAt
  <2>3. PhaseInv'
    BY <1>12 DEF PhaseInv, audioVars, Read, RtspAt
  <2>4. RestInv'
    BY <1>12 DEF PhaseInv, RestInv, AtRest, Cleared, audioVars, Read, RtspAt
  <2>5. QED
    BY <2>1, <2>2, <2>3, <2>4
<1>13. CASE Served
  <2>1. AudioInv'
    BY <1>13, AudioKept DEF Served
  <2>2. TypeOK'
    BY <1>13, <2>1 DEF TypeOK, AudioInv, Served, RtspAt
  <2>3. PhaseInv'
    BY <1>13 DEF PhaseInv, audioVars, Served, RtspAt
  <2>4. RestInv'
    BY <1>13 DEF PhaseInv, RestInv, AtRest, Cleared, audioVars, Served, RtspAt
  <2>5. QED
    BY <2>1, <2>2, <2>3, <2>4
<1>14. CASE Stand
  <2>1. AudioInv'
    BY <1>14, AudioKept DEF Stand
  <2>2. TypeOK'
    BY <1>14, <2>1 DEF TypeOK, AudioInv, Stand, RtspAt
  <2>3. PhaseInv'
    BY <1>14 DEF PhaseInv, audioVars, Stand, RtspAt
  <2>4. RestInv'
    BY <1>14 DEF PhaseInv, RestInv, AtRest, Cleared, audioVars, Stand, RtspAt
  <2>5. QED
    BY <2>1, <2>2, <2>3, <2>4
<1>15. QED
  BY <1>1, <1>2, <1>3, <1>4, <1>5, <1>6, <1>7, <1>8, <1>9, <1>10, <1>11, <1>12, <1>13, <1>14
     DEF RtspNext

\* The steps of a release, on either task.
LEMMA ReleaseStep ==
  ASSUME IInv, NEW t \in Releasers, Release_(t)
  PROVE  IInv'
<1> USE AirplayAssumption DEF IInv, RtspSteps, UpdateSteps, Releasers
<1>1. CASE ReleaseStream(t)
  <2>1. AudioInv'
    BY <1>1, CallStep, AirplayAssumption DEF ReleaseStream, Releasers
  <2>2. TypeOK'
    BY <1>1, <2>1 DEF TypeOK, AudioInv, ReleaseStream, CallClose
  <2>3. PhaseInv'
    BY <1>1 DEF TypeOK, AudioTypeOK, PhaseInv, audioVars, ReleaseStream, CallClose, CallAt
  <2>4. RestInv'
    BY <1>1 DEF TypeOK, AudioTypeOK, PhaseInv, RestInv, AtRest, Cleared, audioVars, ReleaseStream, CallClose, CallAt
  <2>5. QED
    BY <2>1, <2>2, <2>3, <2>4
<1>2. CASE ReleaseRadioAndIcon(t)
  <2>1. AudioInv'
    BY <1>2, AudioKept DEF ReleaseRadioAndIcon
  <2>2. TypeOK'
    <3>1. AudioTypeOK'
      BY <2>1 DEF AudioInv
    <3>2. icon' \in BOOLEAN /\ power' \in {"on", "off"} /\ session' \in BOOLEAN
      BY <1>2 DEF TypeOK, ReleaseRadioAndIcon
    <3>3. QED
      BY <1>2, <3>1, <3>2 DEF TypeOK, ReleaseRadioAndIcon
  <2>3. PhaseInv'
    BY <1>2 DEF PhaseInv, audioVars, ReleaseRadioAndIcon
  <2>4. RestInv'
    BY <1>2 DEF PhaseInv, RestInv, AtRest, Cleared, audioVars, ReleaseRadioAndIcon
  <2>5. QED
    BY <2>1, <2>2, <2>3, <2>4
<1>3. CASE ReleaseRegistry(t)
  <2>1. AudioInv'
    BY <1>3, AudioKept DEF ReleaseRegistry
  <2>2. TypeOK'
    <3>1. AudioTypeOK'
      BY <2>1 DEF AudioInv
    <3>2. shown' \in BOOLEAN
      BY <1>3 DEF TypeOK, ReleaseRegistry
    <3>3. QED
      BY <1>3, <3>1, <3>2 DEF TypeOK, ReleaseRegistry
  <2>3. PhaseInv'
    BY <1>3 DEF PhaseInv, audioVars, ReleaseRegistry
  <2>4. RestInv'
    BY <1>3 DEF PhaseInv, RestInv, AtRest, Cleared, audioVars, ReleaseRegistry
  <2>5. QED
    BY <2>1, <2>2, <2>3, <2>4
<1>4. QED
  BY <1>1, <1>2, <1>3 DEF Release_

\* The steps of the update that quiesces.
LEMMA UpdateStep ==
  ASSUME IInv, UpdateNext
  PROVE  IInv'
<1> USE AirplayAssumption DEF IInv, RtspSteps, UpdateSteps, Releasers
<1>1. CASE Quiesce
  <2>1. AudioInv'
    BY <1>1, AudioKept DEF Quiesce
  <2>2. TypeOK'
    BY <1>1, <2>1 DEF TypeOK, AudioInv, Quiesce
  <2>3. PhaseInv'
    BY <1>1 DEF PhaseInv, audioVars, Quiesce
  <2>4. RestInv'
    BY <1>1 DEF PhaseInv, RestInv, AtRest, Cleared, audioVars, Quiesce
  <2>5. QED
    BY <2>1, <2>2, <2>3, <2>4
<1>2. CASE QuiesceAudio
  <2>1. AudioInv'
    BY <1>2, CallStep, AirplayAssumption DEF QuiesceAudio, Releasers
  <2>2. TypeOK'
    BY <1>2, <2>1 DEF TypeOK, AudioInv, QuiesceAudio, UpdateAt, CallClose
  <2>3. PhaseInv'
    BY <1>2 DEF PhaseInv, audioVars, QuiesceAudio, UpdateAt, CallClose, CallAt
  <2>4. RestInv'
    BY <1>2 DEF PhaseInv, RestInv, AtRest, Cleared, audioVars, QuiesceAudio, UpdateAt, CallClose, CallAt
  <2>5. QED
    BY <2>1, <2>2, <2>3, <2>4
<1>3. CASE QuiesceAirplay
  <2>1. AudioInv'
    BY <1>3, AudioKept DEF QuiesceAirplay
  <2>2. TypeOK'
    BY <1>3, <2>1 DEF TypeOK, AudioInv, QuiesceAirplay, UpdateAt, BeginRelease
  <2>3. PhaseInv'
    BY <1>3 DEF TypeOK, AudioTypeOK, PhaseInv, audioVars, QuiesceAirplay, UpdateAt, BeginRelease
  <2>4. RestInv'
    BY <1>3 DEF TypeOK, AudioTypeOK, PhaseInv, RestInv, AtRest, Cleared, audioVars, QuiesceAirplay, UpdateAt, BeginRelease
  <2>5. QED
    BY <2>1, <2>2, <2>3, <2>4
<1>4. CASE Deinit
  <2>1. AudioInv'
    BY <1>4, AudioKept DEF Deinit
  <2>2. TypeOK'
    BY <1>4, <2>1 DEF TypeOK, AudioInv, Deinit, UpdateAt
  <2>3. PhaseInv'
    BY <1>4 DEF PhaseInv, audioVars, Deinit, UpdateAt
  <2>4. RestInv'
    BY <1>4 DEF PhaseInv, RestInv, AtRest, Cleared, audioVars, Deinit, UpdateAt
  <2>5. QED
    BY <2>1, <2>2, <2>3, <2>4
<1>5. CASE StopRtsp
  <2>1. AudioInv'
    BY <1>5, AudioKept DEF StopRtsp
  <2>2. TypeOK'
    <3>1. AudioTypeOK'
      BY <2>1 DEF AudioInv
    <3>2. running' \in BOOLEAN /\ update' \in UpdateSteps
      BY <1>5 DEF TypeOK, StopRtsp, UpdateAt
    <3>3. QED
      BY <1>5, <3>1, <3>2 DEF TypeOK, StopRtsp, UpdateAt
  <2>3. PhaseInv'
    BY <1>5 DEF PhaseInv, audioVars, StopRtsp, UpdateAt
  <2>4. RestInv'
    BY <1>5 DEF PhaseInv, RestInv, AtRest, Cleared, audioVars, StopRtsp, UpdateAt
  <2>5. QED
    BY <2>1, <2>2, <2>3, <2>4
<1>6. CASE CleanUp
  <2>1. AudioInv'
    BY <1>6, AudioKept DEF CleanUp
  <2>2. TypeOK'
    BY <1>6, <2>1 DEF TypeOK, AudioInv, CleanUp, UpdateAt, BeginRelease
  <2>3. PhaseInv'
    BY <1>6 DEF TypeOK, AudioTypeOK, PhaseInv, audioVars, CleanUp, UpdateAt, BeginRelease
  <2>4. RestInv'
    BY <1>6 DEF TypeOK, AudioTypeOK, PhaseInv, RestInv, AtRest, Cleared, audioVars, CleanUp, UpdateAt, BeginRelease
  <2>5. QED
    BY <2>1, <2>2, <2>3, <2>4
<1>7. CASE Deinitialised
  <2>1. AudioInv'
    BY <1>7, AudioKept DEF Deinitialised
  <2>2. TypeOK'
    <3>1. AudioTypeOK'
      BY <2>1 DEF AudioInv
    <3>2. handle' \in BOOLEAN /\ update' \in UpdateSteps
      BY <1>7 DEF TypeOK, Deinitialised, UpdateAt
    <3>3. QED
      BY <1>7, <3>1, <3>2 DEF TypeOK, Deinitialised, UpdateAt
  <2>3. PhaseInv'
    BY <1>7 DEF PhaseInv, audioVars, Deinitialised, UpdateAt
  <2>4. RestInv'
    BY <1>7 DEF PhaseInv, RestInv, AtRest, Cleared, audioVars, Deinitialised, UpdateAt
  <2>5. QED
    BY <2>1, <2>2, <2>3, <2>4
<1>8. QED
  BY <1>1, <1>2, <1>3, <1>4, <1>5, <1>6, <1>7 DEF UpdateNext

\* The first packet, a frame and the heartbeat.
LEMMA PlayStep ==
  ASSUME IInv, Play \/ LoseThread \/ Feed \/ Heartbeat
  PROVE  IInv'
<1> USE AirplayAssumption DEF IInv, RtspSteps, UpdateSteps, Releasers
<1>1. CASE Play
  <2>1. AudioInv'
    BY <1>1, AudioKept DEF Play
  <2>2. TypeOK'
    BY <1>1, <2>1 DEF TypeOK, AudioInv, Play
  <2>3. PhaseInv'
    BY <1>1 DEF PhaseInv, audioVars, Play
  <2>4. RestInv'
    BY <1>1 DEF PhaseInv, RestInv, AtRest, Cleared, audioVars, Play
  <2>5. QED
    BY <2>1, <2>2, <2>3, <2>4
<1>2. CASE Feed
  <2>1. AudioInv'
    BY <1>2, CallStep, AirplayAssumption DEF Feed, Releasers
  <2>2. TypeOK'
    BY <1>2, <2>1 DEF TypeOK, AudioInv, Feed, CallWrite, sessionVars
  <2>3. PhaseInv'
    BY <1>2 DEF TypeOK, AudioTypeOK, PhaseInv, audioVars, Feed, CallWrite, sessionVars, CallAt
  <2>4. RestInv'
    BY <1>2 DEF PhaseInv, RestInv, AtRest, Cleared, audioVars, Feed, CallWrite, sessionVars, CallAt
  <2>5. QED
    BY <2>1, <2>2, <2>3, <2>4
<1>3. CASE Heartbeat
  <2>1. AudioInv'
    BY <1>3, AudioKept DEF Heartbeat
  <2>2. TypeOK'
    BY <1>3, <2>1 DEF TypeOK, AudioInv, Heartbeat
  <2>3. PhaseInv'
    BY <1>3 DEF PhaseInv, audioVars, Heartbeat
  <2>4. RestInv'
    BY <1>3 DEF PhaseInv, RestInv, AtRest, Cleared, audioVars, Heartbeat
  <2>5. QED
    BY <2>1, <2>2, <2>3, <2>4
<1>4. CASE LoseThread
  <2>1. AudioInv'
    BY <1>4, AudioKept DEF LoseThread
  <2>2. TypeOK'
    BY <1>4, <2>1 DEF TypeOK, AudioInv, LoseThread
  <2>3. PhaseInv'
    BY <1>4 DEF PhaseInv, audioVars, LoseThread
  <2>4. RestInv'
    BY <1>4 DEF PhaseInv, RestInv, AtRest, Cleared, audioVars, LoseThread
  <2>5. QED
    BY <2>1, <2>2, <2>3, <2>4
<1>5. QED
  BY <1>1, <1>2, <1>3, <1>4

-----------------------------------------------------------------------------
\* A receiver that was just started is at rest.
LEMMA InitInv == Init => IInv
<1> SUFFICES ASSUME Init PROVE IInv
  OBVIOUS
<1> USE CallersAssumption, AirplayAssumption
    DEF Init, AudioInit, SessionInit, RtspSteps, UpdateSteps, Releasers
<1>1. AudioTypeOK
  BY DEF AudioTypeOK, CallSteps, PlayerSteps, SeedSteps, slotVars
<1>2. TypeOK
  BY <1>1, Zenon DEF TypeOK
<1>3. MutexInv /\ TokenInv /\ AmplifierRestsLow
  BY DEF MutexInv, TokenInv, HolderInv, AmplifierRestsLow, Busy, Opening
<1>4. PhaseInv /\ RestInv
  BY DEF PhaseInv, RestInv, AtRest, Cleared
<1>5. QED
  BY <1>1, <1>2, <1>3, <1>4 DEF IInv, AudioInv

LEMMA StepInv == IInv /\ [Next]_vars => IInv'
<1> SUFFICES ASSUME IInv, [Next]_vars PROVE IInv'
  OBVIOUS
<1>1. CASE Next
  BY <1>1, AudioKeepsIInv, RtspStep, UpdateStep, PlayStep, ReleaseStep DEF Next
<1>2. CASE UNCHANGED vars
  <2>1. AudioInv'
    BY <1>2, AudioKept DEF IInv, vars
  <2>2. TypeOK' /\ PhaseInv' /\ RestInv'
    BY <1>2, <2>1 DEF IInv, AudioInv, TypeOK, PhaseInv, RestInv, AtRest, Cleared, vars,
       audioVars, sessionVars, RtspSteps, UpdateSteps, Releasers
  <2>3. QED
    BY <2>1, <2>2 DEF IInv
<1>3. QED
  BY <1>1, <1>2

\* One token and one holder at most, counted.
LEMMA HoldersCounted == TokenInv /\ AudioTypeOK => OneSoundAtATime
<1> SUFFICES ASSUME TokenInv, AudioTypeOK, ~raced PROVE OneSoundAtATime
  BY DEF OneSoundAtATime
<1> DEFINE P == {p \in Players : player[p] \notin {"none", "seed", "given"}}
           C == {c \in Callers : call[c] \in {"made", "open"}}
           S == IF streamOpen THEN 1 ELSE 0
           Count == Cardinality(P) + Cardinality(C) + S + token
<1>1. Cardinality({}) = 0
  BY FS_EmptySet
<1>2. \A x : Cardinality({x}) = 1
  BY FS_Singleton
<1>3. HolderInv /\ token \in {0, 1} /\ created \in BOOLEAN /\ streamOpen \in BOOLEAN
  BY DEF TokenInv, AudioTypeOK
<1>4. SUFFICES Count = (IF created THEN 1 ELSE 0)
  BY <1>3 DEF OneSoundAtATime, HolderInv
<1>5. CASE ~created
  <2>1. P = {} /\ C = {} /\ S = 0 /\ token = 0
    BY <1>5 DEF TokenInv
  <2>2. Cardinality(P) = 0 /\ Cardinality(C) = 0
    BY <1>1, <2>1, Zenon
  <2> HIDE DEF P, C, S
  <2>3. QED
    BY <1>5, <2>1, <2>2
<1>6. CASE created /\ token = 1
  <2>1. P = {} /\ C = {} /\ S = 0
    BY <1>3, <1>6 DEF HolderInv, Busy, Opening
  <2>2. Cardinality(P) = 0 /\ Cardinality(C) = 0
    BY <1>1, <2>1, Zenon
  <2> HIDE DEF P, C, S
  <2>3. QED
    BY <1>6, <2>1, <2>2
<1>7. CASE created /\ token = 0
  <2>1. CASE \E p \in Players : Busy(p)
    <3>1. PICK p \in Players : Busy(p)
      BY <2>1
    <3>2. P = {p} /\ C = {} /\ S = 0
      BY <1>3, <3>1 DEF HolderInv, Busy, Opening
    <3>3. Cardinality(P) = 1 /\ Cardinality(C) = 0
      BY <1>1, <1>2, <3>2, Zenon
    <3> HIDE DEF P, C, S
    <3>4. QED
      BY <1>7, <3>2, <3>3
  <2>2. CASE \E c \in Callers : Opening(c)
    <3>1. PICK c \in Callers : Opening(c)
      BY <2>2
    <3>2. P = {} /\ C = {c} /\ S = 0
      BY <1>3, <3>1 DEF HolderInv, Busy, Opening
    <3>3. Cardinality(P) = 0 /\ Cardinality(C) = 1
      BY <1>1, <1>2, <3>2, Zenon
    <3> HIDE DEF P, C, S
    <3>4. QED
      BY <1>7, <3>2, <3>3
  <2>3. CASE streamOpen
    <3>1. P = {} /\ C = {} /\ S = 1
      BY <1>3, <2>3 DEF HolderInv, Busy, Opening
    <3>2. Cardinality(P) = 0 /\ Cardinality(C) = 0
      BY <1>1, <3>1, Zenon
    <3> HIDE DEF P, C, S
    <3>3. QED
      BY <1>7, <3>1, <3>2
  <2>4. QED
    BY <1>3, <1>7, <2>1, <2>2, <2>3 DEF HolderInv
<1>8. QED
  BY <1>3, <1>5, <1>6, <1>7

-----------------------------------------------------------------------------
\* The inductive invariant holds in every reachable state.
THEOREM Invariance == Spec => []IInv
BY InitInv, StepInv, PTL DEF Spec

\* The variables of both modules keep their ranges.
THEOREM TypeCorrect == Spec => []TypeOK
<1>1. IInv => TypeOK
  BY DEF IInv
<1>2. QED
  BY <1>1, Invariance, PTL

\* The playback token is out exactly while one tone, sweep or stream has it, for
\* any number of tones and sweeps and any faults of the codec, through the making
\* of its semaphore too unless two first claims make one each.
THEOREM OneSoundOnly == Spec => []OneSoundAtATime
<1>1. IInv => OneSoundAtATime
  BY HoldersCounted DEF IInv, AudioInv
<1>2. QED
  BY <1>1, Invariance, PTL

\* Every path drops the amplifier and the speaker's icon with it, unless two first
\* claims have made a semaphore each.
THEOREM AmplifierLow == Spec => []AmplifierRestsLow
<1>1. IInv => AmplifierRestsLow
  BY DEF IInv, AudioInv
<1>2. QED
  BY <1>1, Invariance, PTL

\* Without a session, AirPlay's icon, the radio and the panel are at rest, whichever
\* task ended the last one.
THEOREM SessionsEndAtRest == Spec => []RestsWithoutSession
<1>1. IInv => RestsWithoutSession
  BY DEF IInv, RestInv, AtRest, RestsWithoutSession
<1>2. QED
  BY <1>1, Invariance, PTL

\* After both hooks have run no thread of the receiver is left and the stream is
\* closed.
THEOREM QuiescedForGood == Spec => []QuiescedStaysQuiet
<1>1. IInv => QuiescedStaysQuiet
  BY DEF IInv, PhaseInv, RestInv, AtRest, QuiescedStaysQuiet
<1>2. QED
  BY <1>1, Invariance, PTL
=============================================================================
