---------------------------- MODULE OtaConfirm ----------------------------
(***************************************************************************)
(* The confirmation of a network push, ota_confirm.cpp: request_confirm()  *)
(* on the HTTP task and answer_confirm() on the LVGL thread, which share   *)
(* two atomics and a binary semaphore and no lock.  Every access to them   *)
(* is a step of its own.  The HTTP server runs one handler at a time, so   *)
(* one request follows the other.                                          *)
(*                                                                         *)
(* request, yesIn, givenIn and yesFor record history and guard nothing.    *)
(***************************************************************************)
EXTENDS Naturals

CONSTANT MaxRequests   \* bound: pushes offered per behaviour

ASSUME MaxRequestsAssumption == MaxRequests \in Nat

VARIABLES
    pending,   \* g_pending
    accepted,  \* g_accepted
    signal,    \* g_answered holds its token
    asker,     \* where request_confirm() is
    signalled, \* its local of that name
    consent,   \* its local "accepted"
    outcome,   \* what it returned
    prompt,    \* the request on the published prompt, 0 when none is
    panel,     \* the request on the LVGL thread's copy of it
    answerer,  \* where answer_confirm() is
    answer,    \* its argument
    request,   \* the current request
    yesIn,     \* the request whose g_accepted the last yes was stored in
    givenIn,   \* the request in which the last token was given
    yesFor     \* the request the panel showed when the last yes was pressed

askerVars == <<asker, signalled, consent, outcome, request>>
answererVars == <<answerer, answer>>
historyVars == <<yesIn, givenIn, yesFor>>
confirmVars == <<pending, accepted, signal, askerVars, prompt, panel, answererVars, historyVars>>

-----------------------------------------------------------------------------
\* request_confirm()

Claim ==
    /\ asker = "idle" /\ request < MaxRequests
    /\ ~pending /\ pending' = TRUE
    /\ asker' = "claimed" /\ request' = request + 1
    /\ outcome' = "none"
    /\ UNCHANGED <<accepted, signal, signalled, consent, prompt, panel, answererVars, historyVars>>

\* Slip: a token left over is not cleared.
NoDrain ==
    /\ asker = "claimed" /\ asker' = "drained"
    /\ UNCHANGED <<pending, accepted, signal, signalled, consent, outcome, request, prompt,
                   panel, answererVars, historyVars>>

Drain ==
    /\ asker = "claimed" /\ asker' = "drained"
    /\ signal' = FALSE
    /\ UNCHANGED <<pending, accepted, signalled, consent, outcome, request, prompt, panel,
                   answererVars, historyVars>>

\* Slip: the last answer is left standing.
NoClear ==
    /\ asker = "drained" /\ asker' = "cleared"
    /\ UNCHANGED <<pending, accepted, signal, signalled, consent, outcome, request, prompt,
                   panel, answererVars, historyVars>>

Clear ==
    /\ asker = "drained" /\ asker' = "cleared"
    /\ accepted' = FALSE
    /\ UNCHANGED <<pending, signal, signalled, consent, outcome, request, prompt, panel,
                   answererVars, historyVars>>

ShowPrompt ==
    /\ asker = "cleared" /\ asker' = "waiting"
    /\ prompt' = request
    /\ UNCHANGED <<pending, accepted, signal, signalled, consent, outcome, request, panel,
                   answererVars, historyVars>>

\* The wait for the token ends, with it or without it.
Take ==
    /\ asker = "waiting" /\ asker' = "taken"
    /\ signalled' = signal
    /\ signal' = FALSE
    /\ UNCHANGED <<pending, accepted, consent, outcome, request, prompt, panel, answererVars,
                   historyVars>>

ReadAnswer ==
    /\ asker = "taken" /\ asker' = "read"
    /\ consent' = accepted
    /\ UNCHANGED <<pending, accepted, signal, signalled, outcome, request, prompt, panel,
                   answererVars, historyVars>>

Release ==
    /\ asker = "read" /\ asker' = "released"
    /\ pending' = FALSE
    /\ UNCHANGED <<accepted, signal, signalled, consent, outcome, request, prompt, panel,
                   answererVars, historyVars>>

\* Slip: a timeout returns with the prompt still up.
ReturnFromTimeout ==
    /\ asker = "released" /\ asker' = "idle"
    /\ prompt' = IF signalled THEN 0 ELSE prompt
    /\ outcome' = IF ~signalled THEN "TimedOut" ELSE IF consent THEN "Accepted" ELSE "Rejected"
    /\ UNCHANGED <<pending, accepted, signal, signalled, consent, request, panel, answererVars,
                   historyVars>>

Return ==
    /\ asker = "released" /\ asker' = "idle"
    /\ prompt' = 0
    /\ outcome' = CASE ~signalled -> "TimedOut"
                    [] signalled /\ consent -> "Accepted"
                    [] signalled /\ ~consent -> "Rejected"
    /\ UNCHANGED <<pending, accepted, signal, signalled, consent, request, panel, answererVars,
                   historyVars>>

\* Any other publisher of the OTA state replaces the prompt.
PublishOver ==
    /\ prompt # 0 /\ prompt' = 0
    /\ UNCHANGED <<pending, accepted, signal, askerVars, panel, answererVars, historyVars>>

-----------------------------------------------------------------------------
\* The LVGL thread: a tick takes the published state over, then handles the
\* buttons against it.

Tick ==
    /\ answerer = "idle"
    /\ panel' = prompt
    /\ UNCHANGED <<pending, accepted, signal, askerVars, prompt, answererVars, historyVars>>

\* A button under the prompt: answer_confirm() up to its read of g_pending.
Press(yes) ==
    /\ answerer = "idle" /\ panel # 0
    /\ pending /\ answerer' = "checked"
    /\ answer' = yes
    /\ UNCHANGED <<pending, accepted, signal, askerVars, prompt, panel, historyVars>>

\* The request whose flag a store, and whose token a give, now reaches.
ClearedRequest == IF asker \in {"claimed", "drained"} THEN request - 1 ELSE request
DrainedRequest == IF asker = "claimed" THEN request - 1 ELSE request

StoreAnswer ==
    /\ answerer = "checked" /\ answerer' = "stored"
    /\ accepted' = answer
    /\ yesIn' = IF answer THEN ClearedRequest ELSE yesIn
    /\ yesFor' = IF answer THEN panel ELSE yesFor
    /\ UNCHANGED <<pending, signal, askerVars, prompt, panel, answer, givenIn>>

GiveSignal ==
    /\ answerer = "stored" /\ answerer' = "idle"
    /\ signal' = TRUE
    /\ givenIn' = DrainedRequest
    /\ UNCHANGED <<pending, accepted, askerVars, prompt, panel, answer, yesIn, yesFor>>

-----------------------------------------------------------------------------
ConfirmInit ==
    /\ pending = FALSE /\ accepted = FALSE /\ signal = FALSE
    /\ asker = "idle" /\ signalled = FALSE /\ consent = FALSE /\ outcome = "none"
    /\ prompt = 0 /\ panel = 0
    /\ answerer = "idle" /\ answer = FALSE
    /\ request = 0 /\ yesIn = 0 /\ givenIn = 0 /\ yesFor = 0

Ask == Drain \/ Clear \/ ShowPrompt \/ Take \/ ReadAnswer \/ Release \/ Return
Answer == StoreAnswer \/ GiveSignal

ConfirmNext ==
    \/ Claim \/ Ask
    \/ PublishOver
    \/ Tick \/ \E yes \in BOOLEAN : Press(yes) \/ Answer

ConfirmSpec == ConfirmInit /\ [][ConfirmNext]_confirmVars

\* A wait ends at its timeout; the LVGL timer ticks; nobody need press.
ConfirmFairSpec == ConfirmSpec /\ WF_confirmVars(Ask) /\ WF_confirmVars(Answer) /\ WF_confirmVars(Tick)

-----------------------------------------------------------------------------
Askers == {"idle", "claimed", "drained", "cleared", "waiting", "taken", "read", "released"}

\* Every variable keeps its type.
ConfirmTypeOK ==
    /\ pending \in BOOLEAN /\ accepted \in BOOLEAN /\ signal \in BOOLEAN
    /\ asker \in Askers /\ signalled \in BOOLEAN /\ consent \in BOOLEAN
    /\ outcome \in {"none", "Accepted", "Rejected", "TimedOut"}
    /\ prompt \in 0..MaxRequests /\ panel \in 0..MaxRequests
    /\ answerer \in {"idle", "checked", "stored"} /\ answer \in BOOLEAN
    /\ request \in 0..MaxRequests
    /\ yesIn \in 0..MaxRequests /\ givenIn \in 0..MaxRequests /\ yesFor \in 0..MaxRequests

\* No answer is banked: a request that was answered was woken by a token
\* given after it cleared the leftovers (ota_confirm.cpp:32, 44-46).
NoBankedAnswer == outcome \in {"Accepted", "Rejected"} => givenIn = request

\* Firmware is accepted only on a yes that was stored after this request
\* cleared the flag: a yes left by an earlier request, even one whose token
\* arrives late, never accepts (ota_confirm.cpp:47).
AcceptedInThisRequest == outcome = "Accepted" => yesIn = request

\* The buttons always get their meaning back: once pushes stop coming the
\* panel is rid of the prompt, answered or not (ui_app.cpp:481).
ButtonsComeBack == <>[](panel = 0)

-----------------------------------------------------------------------------
\* ota_confirm.hpp:25: "peer is shown on the prompt so the answer is about a
\* specific request": a yes accepts the push that the panel showed. The code does
\* not keep this, and no run asserts it.
AnswerIsForThisRequest == outcome = "Accepted" => yesFor = request
=============================================================================
