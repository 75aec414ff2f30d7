------------------------------ MODULE AiAgent ------------------------------
(* The AI agent addon: the panel of the right hand side (AiAgentPanel), the  *)
(* chat client under it (AiAgentClient) and what MainWindow lends them, the  *)
(* terminal of the active session.  A prompt starts a loop of turns: the     *)
(* model answers, the shell commands in its answer are queued, each runs     *)
(* once it is confirmed or passes a list of first words, the terminal is      *)
(* observed two seconds later, and that goes back to the model.              *)
EXTENDS Naturals, Sequences, SequencesExt

CONSTANTS
    Replies,     \* what the model may answer: sequences of fenced blocks
    Sessions,    \* terminals that may be active
    NoSession,   \* no terminal is active
    MaxSteps     \* kMaxAgentSteps, turns of the model after one prompt

ASSUME AgentConstants == MaxSteps \in Nat \ {0} /\ NoSession \notin Sessions

VARIABLES
    agent,       \* the panel and its client
    active       \* the session MainWindow injects into and captures from

(* A line is known by what the code looks at: whether it is a comment, has  *)
(* a risky word or redirection, is a compound (;, &&, ||), and for each      *)
(* stage of its pipeline whether the first word is on the list of readers;   *)
(* and by what it does, "writes", which the code does not look at.  The test *)
(* is meant to find the read-only commands, but it is one of words: behind a *)
(* reader's name a line may write (find -delete, sysctl -w, ls & touch f).   *)
IsAutoApproved(c) ==
    /\ ~c.risky
    /\ ~c.compound
    /\ c.stages # <<>>
    /\ \A i \in DOMAIN c.stages : c.stages[i] = "reader"

(* Every closed fence with a shell language adds its lines, comments        *)
(* excepted; a fence inside the reasoning counts like any other.             *)
CommandsOf(text) ==
    LET fences == SelectSeq(text, LAMBDA b : b.shell /\ b.closed)
    IN FlattenSeq([i \in DOMAIN fences |-> SelectSeq(fences[i].lines, LAMBDA l : ~l.comment)])

(* An answer whose transfer broke off after n blocks: the next one is open. *)
CutOff(text, n) ==
    [i \in 1..(n + 1) |-> IF i <= n THEN text[i] ELSE [text[i] EXCEPT !.closed = FALSE]]

NoPanel ==
    [exists |-> FALSE, visible |-> FALSE, phase |-> "Idle", queue |-> <<>>, index |-> 1,
     autoRun |-> FALSE, steps |-> 0, confirm |-> FALSE, timer |-> FALSE, paint |-> FALSE,
     stream |-> FALSE, request |-> "none", mute |-> FALSE, granted |-> {}, ran |-> <<>>]

(* activate() hands the bridge to MainWindow, which builds a hidden panel.  *)
Activated(a) == [NoPanel EXCEPT !.exists = TRUE]

(* deactivate() destroys the panel with its timers and its client.          *)
Deactivated(a) == NoPanel

(* The client has at most one request; an older one is aborted unheard.     *)
Abort(a) == [a EXCEPT !.request = "none", !.mute = FALSE]
Chat(a) == [Abort(a) EXCEPT !.request = "asked"]

BeginStreamUi(a) == [a EXCEPT !.phase = "Thinking", !.stream = TRUE]
EndStreamUi(a) == [a EXCEPT !.stream = FALSE, !.paint = FALSE]
OnStreamDelta(a) == [(IF a.stream THEN a ELSE BeginStreamUi(a)) EXCEPT !.paint = TRUE]

SendEnabled(a) == a.phase \in {"Idle", "AwaitingConfirm"}
StopEnabled(a) == a.phase # "Idle"

GoIdle(a) == [a EXCEPT !.phase = "Idle", !.confirm = FALSE]

MutKeepRunAll(a) == [a EXCEPT !.queue = <<>>, !.index = 1, !.granted = {}]

EmptyQueue(a) == [a EXCEPT !.queue = <<>>, !.index = 1, !.autoRun = FALSE, !.granted = {}]

MutUncountedTurn(a) ==
    IF a.steps >= MaxSteps
    THEN GoIdle(a)
    ELSE Chat([BeginStreamUi(a) EXCEPT !.confirm = FALSE])

(* A turn is counted and asked for, or the loop ends at the step limit.     *)
RequestModelTurn(a) ==
    IF a.steps >= MaxSteps
    THEN GoIdle(a)
    ELSE Chat([BeginStreamUi(a) EXCEPT !.steps = @ + 1, !.confirm = FALSE])

(* The command goes into the terminal that is active now; without one the   *)
(* loop ends.  "ran" notes what ran last and whether the user had agreed.    *)
RunCurrentAction(a) ==
    CASE a.index \notin DOMAIN a.queue -> GoIdle(a)
      [] a.index \in DOMAIN a.queue /\ active = NoSession -> [GoIdle(a) EXCEPT !.autoRun = FALSE]
      [] OTHER -> [a EXCEPT !.phase = "Observing", !.confirm = FALSE, !.timer = TRUE,
                            !.ran = <<[command |-> a.queue[a.index],
                                       granted |-> a.index \in a.granted]>>]

ShowNextPendingAction(a) ==
    CASE a.index \notin DOMAIN a.queue -> GoIdle(a)
      [] a.index \in DOMAIN a.queue /\ IsAutoApproved(a.queue[a.index]) -> RunCurrentAction(a)
      [] OTHER -> [a EXCEPT !.phase = "AwaitingConfirm", !.confirm = TRUE]

GoOn(a) == IF a.autoRun THEN RunCurrentAction(a) ELSE ShowNextPendingAction(a)

HandleAssistant(a, text) ==
    LET q == [Abort(EndStreamUi(a)) EXCEPT !.queue = CommandsOf(text), !.index = 1, !.granted = {}]
    IN IF q.queue = <<>> THEN GoIdle(q) ELSE GoOn(q)

HandleFailure(a) == [GoIdle(Abort(EndStreamUi(a))) EXCEPT !.autoRun = FALSE]

(* The queue goes on, or the finished batch is reported to the model.       *)
FinishObserve(a) ==
    LET n == [a EXCEPT !.timer = FALSE, !.index = @ + 1]
    IN IF n.index \in DOMAIN n.queue THEN GoOn(n) ELSE RequestModelTurn(EmptyQueue(n))

SkipCurrentAction(a) ==
    LET n == [a EXCEPT !.index = @ + 1, !.autoRun = FALSE]
    IN IF n.index \in DOMAIN n.queue THEN ShowNextPendingAction(n) ELSE RequestModelTurn(EmptyQueue(n))

MutStopLeavesTimer(a) == GoIdle(EmptyQueue(Abort(EndStreamUi(a))))

StopAgent(a) == GoIdle(EmptyQueue([Abort(EndStreamUi(a)) EXCEPT !.timer = FALSE]))

-----------------------------------------------------------------------------
(* The user, the timers and the network.                                     *)

AgentInit == agent = NoPanel /\ active \in Sessions \cup {NoSession}

Usable == agent.exists /\ agent.visible

TogglePanel == agent.exists /\ agent' = [agent EXCEPT !.visible = ~@] /\ UNCHANGED active

SubmitPrompt ==
    /\ Usable /\ SendEnabled(agent)
    /\ agent' = RequestModelTurn([EmptyQueue(agent) EXCEPT !.steps = 0, !.confirm = FALSE])
    /\ UNCHANGED active

ConfirmRun ==
    /\ Usable /\ agent.confirm
    /\ agent' = RunCurrentAction([agent EXCEPT !.autoRun = FALSE, !.granted = @ \cup {agent.index}])
    /\ UNCHANGED active

RunAllRemaining ==
    /\ Usable /\ agent.confirm /\ agent.index + 1 \in DOMAIN agent.queue
    /\ agent' = RunCurrentAction([agent EXCEPT !.autoRun = TRUE,
                                               !.granted = DOMAIN agent.queue])
    /\ UNCHANGED active

Skip == Usable /\ agent.confirm /\ agent' = SkipCurrentAction(agent) /\ UNCHANGED active

Stop == Usable /\ StopEnabled(agent) /\ agent' = StopAgent(agent) /\ UNCHANGED active

SwitchSession == active' \in (Sessions \cup {NoSession}) \ {active} /\ UNCHANGED agent

StreamDelta ==
    /\ agent.request # "none"
    /\ agent' = OnStreamDelta([agent EXCEPT !.request = "answering"])
    /\ UNCHANGED active

(* The repaint timer: it writes the phase as well.                          *)
FlushStreamUi ==
    /\ agent.paint
    /\ agent' = [agent EXCEPT !.paint = FALSE, !.phase = IF agent.stream THEN "Thinking" ELSE @]
    /\ UNCHANGED active

(* The answer is complete, or the connection broke after the stream began:  *)
(* what has arrived is then taken for the answer.                            *)
Answered ==
    /\ agent.request # "none"
    /\ \E text \in Replies :
          \/ agent' = HandleAssistant(agent, text)
          \/ /\ agent.request = "answering"
             /\ \E n \in 0..(Len(text) - 1) : agent' = HandleAssistant(agent, CutOff(text, n))
    /\ UNCHANGED active

(* Nothing usable arrived: no base address, an HTTP error, an empty body.   *)
AnswerFails ==
    /\ agent.request # "none"
    /\ agent' = HandleFailure(agent)
    /\ UNCHANGED active

(* A transfer timeout that the library reports as a cancelled operation is  *)
(* swallowed: neither finished nor failed is emitted.                        *)
AnswerSwallowed ==
    /\ agent.request # "none"
    /\ agent' = [agent EXCEPT !.request = "none", !.mute = TRUE]
    /\ UNCHANGED active

ObserveTimeout == agent.timer /\ agent' = FinishObserve(agent) /\ UNCHANGED active

Answers == Answered \/ AnswerFails \/ AnswerSwallowed

AgentUser == TogglePanel \/ SubmitPrompt \/ ConfirmRun \/ RunAllRemaining \/ Skip \/ Stop
                \/ SwitchSession

AgentWorks == StreamDelta \/ FlushStreamUi \/ Answers \/ ObserveTimeout

-----------------------------------------------------------------------------
Phases == {"Idle", "Thinking", "AwaitingConfirm", "Observing"}

(* What runs in a terminal and does not pass the list was confirmed by the  *)
(* user after the answer that asked for it, by Run or by Run all: no         *)
(* confirmation outlives its batch, a stop or a new prompt.  It does not say *)
(* that what runs unconfirmed only reads: a command that writes and passes   *)
(* the list runs unasked, though the panel calls it read-only.               *)
UnlistedAreConfirmed ==
    \A i \in DOMAIN agent.ran : ~IsAutoApproved(agent.ran[i].command) => agent.ran[i].granted

(* Each phase is backed by what will end it: a request under way, the       *)
(* observation timer, or a box that asks for the next command of the queue.  *)
(* The exception is a timeout the client swallowed: the panel says Thinking  *)
(* until the user stops it.                                                  *)
PhaseHasCause ==
    /\ agent.phase \in Phases /\ agent.steps \in 0..MaxSteps
    /\ agent.phase = "Thinking" <=> agent.request # "none" \/ agent.mute
    /\ agent.phase = "Observing" <=> agent.timer
    /\ agent.phase = "AwaitingConfirm" <=> agent.confirm
    /\ agent.confirm => agent.index \in DOMAIN agent.queue

(* The loop pauses by itself: it is idle or waits for the user in the end,  *)
(* however often the model asks for one more command that passes the list.   *)
Pausing == agent.phase \in {"Idle", "AwaitingConfirm"} \/ agent.mute
AgentPauses == []<>Pausing
=============================================================================
