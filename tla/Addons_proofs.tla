---------------------------- MODULE Addons_proofs ----------------------------
(* Proofs about the addon marketplace and the AI agent in it, for any set of   *)
(* addons, any number of versions, any answers and any budget.                 *)
EXTENDS Addons, TLAPS

(* The panel of the agent, for any answers of the model, any sessions and any *)
(* step limit: each handler keeps the panel in order.                          *)
Fields == DOMAIN NoPanel

(* "here" says whether the panel is alive: no handler brings it to life or     *)
(* destroys it.                                                                *)
Shape(here, a) ==
    /\ a = [f \in Fields |-> a[f]]
    /\ a.exists = here /\ here \in BOOLEAN
    /\ a.steps \in 0..MaxSteps /\ a.index \in Nat
    /\ a.stream \in BOOLEAN /\ a.mute \in BOOLEAN /\ a.timer \in BOOLEAN
    /\ a.confirm \in BOOLEAN /\ a.autoRun \in BOOLEAN

(* What ran last was agreed to; Run all agrees to every command of the queue.  *)
Approved(a) ==
    /\ \A i \in DOMAIN a.ran : a.ran[i].granted \/ IsAutoApproved(a.ran[i].command)
    /\ a.autoRun => DOMAIN a.queue \subseteq a.granted

(* Each phase has its cause, and no other phase's cause.  While the model is   *)
(* asked there is no Run all: the queue it was said of is gone.                *)
Phased(a) ==
    /\ a.phase \in Phases
    /\ a.phase = "Thinking" <=> a.request # "none" \/ a.mute
    /\ a.phase = "Observing" <=> a.timer
    /\ a.phase = "AwaitingConfirm" <=> a.confirm
    /\ a.confirm => a.index \in DOMAIN a.queue
    /\ a.stream => a.phase = "Thinking"
    /\ a.phase = "Thinking" => ~a.autoRun

PanelInv(here, a) == Shape(here, a) /\ Approved(a) /\ Phased(a)

(* Between two phases: nothing is on its way that could change the panel.      *)
Calm(here, a) ==
    /\ Shape(here, a) /\ Approved(a)
    /\ ~a.stream /\ a.request = "none" /\ ~a.mute /\ ~a.timer

-----------------------------------------------------------------------------
(* The steps the handlers are made of                                          *)

LEMMA FieldsAre ==
    Fields = {"exists", "visible", "phase", "queue", "index", "autoRun", "steps", "confirm",
              "timer", "paint", "stream", "request", "mute", "granted", "ran"}
  BY DEF Fields, NoPanel

LEMMA NoPanelInv == PanelInv(FALSE, NoPanel) /\ PanelInv(TRUE, Activated(agent))
  BY AgentConstants DEF NoPanel, Activated, Fields, PanelInv, Shape, Approved, Phased, Phases

LEMMA GoIdleInv == ASSUME NEW here, NEW a, Calm(here, a) PROVE PanelInv(here, GoIdle(a))
  BY FieldsAre DEF Calm, GoIdle, PanelInv, Shape, Approved, Phased, Phases

(* EndStreamUi and Abort make any panel calm that is not observing.            *)
LEMMA AbortCalms ==
    ASSUME NEW here, NEW a, PanelInv(here, a)
    PROVE  /\ ~a.timer => Calm(here, Abort(EndStreamUi(a)))
           /\ Calm(here, [Abort(EndStreamUi(a)) EXCEPT !.timer = FALSE])
  BY FieldsAre DEF Calm, Abort, EndStreamUi, PanelInv, Shape, Approved, Phased

LEMMA EmptyQueueCalm ==
    ASSUME NEW here, NEW a, Calm(here, a)
    PROVE  Calm(here, EmptyQueue(a)) /\ ~EmptyQueue(a).autoRun
  BY FieldsAre DEF Calm, EmptyQueue, Shape, Approved

LEMMA RequestModelTurnInv ==
    ASSUME NEW here, NEW a, Calm(here, a), ~a.autoRun
    PROVE  PanelInv(here, RequestModelTurn(a))
  <1>1. CASE a.steps >= MaxSteps
    BY <1>1, GoIdleInv DEF RequestModelTurn
  <1>2. CASE ~(a.steps >= MaxSteps)
    <2>1. a.steps + 1 \in 0..MaxSteps
      BY <1>2, AgentConstants DEF Calm, Shape
    <2> QED
      BY <1>2, <2>1, FieldsAre
      DEF RequestModelTurn, Chat, Abort, BeginStreamUi, Calm, PanelInv, Shape, Approved,
          Phased, Phases
  <1> QED
    BY <1>1, <1>2

(* A command runs only if it was agreed to or passes the list.                 *)
LEMMA RunCurrentActionInv ==
    ASSUME NEW here, NEW a, Calm(here, a),
           a.index \in DOMAIN a.queue =>
               a.index \in a.granted \/ IsAutoApproved(a.queue[a.index])
    PROVE  PanelInv(here, RunCurrentAction(a))
  <1>1. CASE a.index \notin DOMAIN a.queue
    BY <1>1, GoIdleInv DEF RunCurrentAction
  <1>2. CASE a.index \in DOMAIN a.queue /\ active = NoSession
    BY <1>2, GoIdleInv, FieldsAre
    DEF RunCurrentAction, GoIdle, Calm, PanelInv, Shape, Approved, Phased, Phases
  <1>3. CASE a.index \in DOMAIN a.queue /\ active # NoSession
    <2> DEFINE r == RunCurrentAction(a)
    <2>1. r = [a EXCEPT !.phase = "Observing", !.confirm = FALSE, !.timer = TRUE,
                        !.ran = <<[command |-> a.queue[a.index],
                                   granted |-> a.index \in a.granted]>>]
      BY <1>3 DEF RunCurrentAction
    <2>2. \A i \in DOMAIN r.ran : r.ran[i].granted \/ IsAutoApproved(r.ran[i].command)
      <3> DEFINE e == [command |-> a.queue[a.index], granted |-> a.index \in a.granted]
      <3>1. r.ran = <<e>>
        BY <2>1, FieldsAre DEF Calm, Shape
      <3>2. e.granted \/ IsAutoApproved(e.command)
        BY <1>3
      <3> HIDE DEF r, e
      <3> QED
        BY <3>1, <3>2
    <2>3. Shape(here, r) /\ Phased(r)
      BY <1>3, <2>1, FieldsAre DEF Calm, Shape, Phased, Phases
    <2>4. r.autoRun => DOMAIN r.queue \subseteq r.granted
      BY <2>1, FieldsAre DEF Calm, Shape, Approved
    <2> QED
      BY <2>2, <2>3, <2>4 DEF PanelInv, Approved
  <1> QED
    BY <1>1, <1>2, <1>3

LEMMA ShowNextInv == ASSUME NEW here, NEW a, Calm(here, a) PROVE PanelInv(here, ShowNextPendingAction(a))
  <1>1. CASE a.index \notin DOMAIN a.queue
    BY <1>1, GoIdleInv DEF ShowNextPendingAction
  <1>2. CASE a.index \in DOMAIN a.queue /\ IsAutoApproved(a.queue[a.index])
    BY <1>2, RunCurrentActionInv DEF ShowNextPendingAction
  <1>3. CASE a.index \in DOMAIN a.queue /\ ~IsAutoApproved(a.queue[a.index])
    BY <1>3, FieldsAre DEF ShowNextPendingAction, Calm, PanelInv, Shape, Approved, Phased, Phases
  <1> QED
    BY <1>1, <1>2, <1>3

LEMMA GoOnInv == ASSUME NEW here, NEW a, Calm(here, a) PROVE PanelInv(here, GoOn(a))
  <1>1. CASE a.autoRun
    BY <1>1, RunCurrentActionInv DEF GoOn, Calm, Approved
  <1>2. CASE ~a.autoRun
    BY <1>2, ShowNextInv DEF GoOn
  <1> QED
    BY <1>1, <1>2

-----------------------------------------------------------------------------
(* The handlers                                                                *)

(* An answer can only come while the model is asked: Run all is over, so that  *)
(* no command of the new queue counts as agreed to.                            *)
LEMMA HandleAssistantInv ==
    ASSUME NEW here, NEW a, PanelInv(here, a), a.request # "none", NEW text
    PROVE  PanelInv(here, HandleAssistant(a, text))
  <1> DEFINE c == Abort(EndStreamUi(a))
             q == [c EXCEPT !.queue = CommandsOf(text), !.index = 1, !.granted = {}]
  <1>1. Calm(here, c) /\ ~c.autoRun
    BY AbortCalms, FieldsAre DEF PanelInv, Phased, Shape, Abort, EndStreamUi
  <1>2. Calm(here, q)
    BY <1>1, FieldsAre DEF Calm, Shape, Approved
  <1>3. PanelInv(here, GoIdle(q)) /\ PanelInv(here, GoOn(q))
    BY <1>2, GoIdleInv, GoOnInv
  <1>4. HandleAssistant(a, text) = IF q.queue = <<>> THEN GoIdle(q) ELSE GoOn(q)
    BY DEF HandleAssistant
  <1> HIDE DEF c, q
  <1> QED
    BY <1>3, <1>4

LEMMA HandleFailureInv ==
    ASSUME NEW here, NEW a, PanelInv(here, a), a.request # "none"
    PROVE  PanelInv(here, HandleFailure(a))
  <1> DEFINE g == GoIdle(Abort(EndStreamUi(a)))
  <1>1. Calm(here, Abort(EndStreamUi(a)))
    BY AbortCalms, FieldsAre DEF PanelInv, Phased, Shape
  <1>2. PanelInv(here, g)
    BY <1>1, GoIdleInv
  <1>3. HandleFailure(a) = [g EXCEPT !.autoRun = FALSE]
    BY DEF HandleFailure
  <1> HIDE DEF g
  <1> QED
    BY <1>2, <1>3, FieldsAre DEF PanelInv, Shape, Approved, Phased

LEMMA FinishObserveInv == ASSUME NEW here, NEW a, PanelInv(here, a), a.timer PROVE PanelInv(here, FinishObserve(a))
  <1> DEFINE n == [a EXCEPT !.timer = FALSE, !.index = @ + 1]
  <1>1. Shape(here, n)
    <2>1. n = [f \in Fields |-> n[f]]
      BY FieldsAre DEF PanelInv, Shape
    <2>2. n.exists = here /\ here \in BOOLEAN /\ n.steps \in 0..MaxSteps /\ n.index \in Nat
      BY FieldsAre DEF PanelInv, Shape
    <2>3. /\ n.stream \in BOOLEAN /\ n.mute \in BOOLEAN /\ n.timer \in BOOLEAN
          /\ n.confirm \in BOOLEAN /\ n.autoRun \in BOOLEAN
      BY FieldsAre DEF PanelInv, Shape
    <2> QED
      BY <2>1, <2>2, <2>3 DEF Shape
  <1>6. n.stream = a.stream /\ n.request = a.request /\ n.mute = a.mute /\ ~n.timer
    BY FieldsAre DEF PanelInv, Shape, Phased
  <1>2. Approved(n)
    BY FieldsAre DEF PanelInv, Shape, Approved
  <1>3. ~a.stream /\ a.request = "none" /\ ~a.mute
    BY DEF PanelInv, Phased
  <1>4. Calm(here, n)
    BY <1>1, <1>2, <1>3, <1>6 DEF Calm
  <1>5. PanelInv(here, GoOn(n)) /\ PanelInv(here, RequestModelTurn(EmptyQueue(n)))
    BY <1>4, GoOnInv, EmptyQueueCalm, RequestModelTurnInv
  <1> QED
    BY <1>5 DEF FinishObserve

LEMMA SkipInv == ASSUME NEW here, NEW a, PanelInv(here, a), a.confirm PROVE PanelInv(here, SkipCurrentAction(a))
  <1> DEFINE n == [a EXCEPT !.index = @ + 1, !.autoRun = FALSE]
  <1>1. Shape(here, n)
    <2>1. n = [f \in Fields |-> n[f]]
      BY FieldsAre DEF PanelInv, Shape
    <2>2. n.exists = here /\ here \in BOOLEAN /\ n.steps \in 0..MaxSteps /\ n.index \in Nat
      BY FieldsAre DEF PanelInv, Shape
    <2>3. /\ n.stream \in BOOLEAN /\ n.mute \in BOOLEAN /\ n.timer \in BOOLEAN
          /\ n.confirm \in BOOLEAN /\ n.autoRun \in BOOLEAN
      BY FieldsAre DEF PanelInv, Shape
    <2> QED
      BY <2>1, <2>2, <2>3 DEF Shape
  <1>6. n.stream = a.stream /\ n.request = a.request /\ n.mute = a.mute /\ ~n.timer
    BY FieldsAre DEF PanelInv, Shape, Phased
  <1>2. Approved(n)
    BY FieldsAre DEF PanelInv, Shape, Approved
  <1>3. ~a.stream /\ a.request = "none" /\ ~a.mute
    BY DEF PanelInv, Phased
  <1>4. Calm(here, n)
    BY <1>1, <1>2, <1>3, <1>6 DEF Calm
  <1>5. PanelInv(here, ShowNextPendingAction(n)) /\ PanelInv(here, RequestModelTurn(EmptyQueue(n)))
    BY <1>4, ShowNextInv, EmptyQueueCalm, RequestModelTurnInv
  <1> QED
    BY <1>5 DEF SkipCurrentAction

LEMMA StopInv == ASSUME NEW here, NEW a, PanelInv(here, a) PROVE PanelInv(here, StopAgent(a))
  <1> DEFINE c == [Abort(EndStreamUi(a)) EXCEPT !.timer = FALSE]
  <1>1. Calm(here, c)
    BY AbortCalms
  <1>2. StopAgent(a) = GoIdle(EmptyQueue(c))
    BY DEF StopAgent
  <1> HIDE DEF c
  <1> QED
    BY <1>1, <1>2, EmptyQueueCalm, GoIdleInv

-----------------------------------------------------------------------------
(* The steps of the user, of the timers and of the network                     *)

LEMMA UserKeepsPanel == ASSUME NEW here, PanelInv(here, agent), AgentUser PROVE PanelInv(here, agent')
  <1>1. CASE TogglePanel
    BY <1>1, FieldsAre DEF TogglePanel, PanelInv, Shape, Approved, Phased
  <1>2. CASE SubmitPrompt
    <2> DEFINE e == EmptyQueue(agent)
               c == [e EXCEPT !.steps = 0, !.confirm = FALSE]
    <2>1. ~agent.stream /\ agent.request = "none" /\ ~agent.mute /\ ~agent.timer
      BY <1>2 DEF SubmitPrompt, SendEnabled, PanelInv, Phased
    <2>2. Calm(here, e) /\ ~e.autoRun
      BY <2>1, EmptyQueueCalm DEF Calm, PanelInv
    <2> HIDE DEF e
    <2>3. Shape(here, c)
      <3>1. c = [f \in Fields |-> c[f]]
        BY <2>2, FieldsAre DEF Calm, Shape
      <3>2. c.exists = here /\ here \in BOOLEAN /\ c.steps \in 0..MaxSteps /\ c.index \in Nat
        BY <2>2, FieldsAre, AgentConstants DEF Calm, Shape
      <3>3. /\ c.stream \in BOOLEAN /\ c.mute \in BOOLEAN /\ c.timer \in BOOLEAN
            /\ c.confirm \in BOOLEAN /\ c.autoRun \in BOOLEAN
        BY <2>2, FieldsAre DEF Calm, Shape
      <3> QED
        BY <3>1, <3>2, <3>3 DEF Shape
    <2>4. ~c.stream /\ c.request = "none" /\ ~c.mute /\ ~c.timer /\ ~c.autoRun
      BY <2>2, FieldsAre DEF Calm, Shape
    <2>5. Approved(c)
      BY <2>2, FieldsAre DEF Calm, Shape, Approved
    <2>6. PanelInv(here, RequestModelTurn(c))
      BY <2>3, <2>4, <2>5, RequestModelTurnInv DEF Calm
    <2> QED
      BY <1>2, <2>6 DEF SubmitPrompt, e
  <1>3. CASE ConfirmRun
    <2> DEFINE c == [agent EXCEPT !.autoRun = FALSE, !.granted = @ \cup {agent.index}]
    <2>1. Calm(here, c) /\ c.index \in c.granted
      BY <1>3, FieldsAre DEF ConfirmRun, Calm, PanelInv, Shape, Approved, Phased
    <2> QED
      BY <1>3, <2>1, RunCurrentActionInv DEF ConfirmRun
  <1>4. CASE RunAllRemaining
    <2> DEFINE c == [agent EXCEPT !.autoRun = TRUE, !.granted = DOMAIN agent.queue]
    <2>1. Calm(here, c) /\ c.index \in c.granted
      BY <1>4, FieldsAre DEF RunAllRemaining, Calm, PanelInv, Shape, Approved, Phased
    <2> QED
      BY <1>4, <2>1, RunCurrentActionInv DEF RunAllRemaining
  <1>5. CASE Skip
    BY <1>5, SkipInv DEF Skip
  <1>6. CASE Stop
    BY <1>6, StopInv DEF Stop
  <1>7. CASE SwitchSession
    BY <1>7 DEF SwitchSession
  <1> QED
    BY <1>1, <1>2, <1>3, <1>4, <1>5, <1>6, <1>7 DEF AgentUser

LEMMA WorkKeepsPanel == ASSUME NEW here, PanelInv(here, agent), AgentWorks PROVE PanelInv(here, agent')
  <1>1. CASE StreamDelta
    BY <1>1, FieldsAre
    DEF StreamDelta, OnStreamDelta, BeginStreamUi, PanelInv, Shape, Approved, Phased, Phases
  <1>2. CASE FlushStreamUi
    BY <1>2, FieldsAre DEF FlushStreamUi, PanelInv, Shape, Approved, Phased, Phases
  <1>3. CASE Answered
    BY <1>3, HandleAssistantInv DEF Answered
  <1>4. CASE AnswerFails
    BY <1>4, HandleFailureInv DEF AnswerFails
  <1>5. CASE AnswerSwallowed
    BY <1>5, FieldsAre DEF AnswerSwallowed, PanelInv, Shape, Approved, Phased
  <1>6. CASE ObserveTimeout
    BY <1>6, FinishObserveInv DEF ObserveTimeout
  <1> QED
    BY <1>1, <1>2, <1>3, <1>4, <1>5, <1>6 DEF AgentWorks, Answers

-----------------------------------------------------------------------------

(* The marketplace, and the panel inside it.                                   *)
StoreShape ==
    /\ store = [busy |-> store.busy, catalog |-> store.catalog,
                hasCatalog |-> store.hasCatalog, job |-> store.job]
    /\ store.catalog \in [Ids -> Versions]
    /\ store.hasCatalog \in BOOLEAN
    /\ enabled \in [Ids -> BOOLEAN]
    /\ remote \in [Ids -> Versions]

HostShape ==
    /\ host = [started |-> host.started, installed |-> host.installed, loaded |-> host.loaded]
    /\ host.started \in BOOLEAN
    /\ host.loaded \in [Ids -> Nat]

(* The version under way is one the repository has listed, of an addon that    *)
(* has no files: while the store is busy no other operation can bring them.    *)
JobIsNew ==
    store.busy = "install" =>
        /\ store.job.id \in Ids \ Installed(disk)
        /\ store.job.version \in Versions \ {0}

Whole(d, t) ==
    /\ d \in [Ids -> [manifest : Nat, plugin : Nat]]
    /\ \A id \in Installed(d) \ t : d[id].plugin = d[id].manifest /\ d[id].plugin \in Versions

(* An Install button, enabled or not, is for what the catalog lists.           *)
RowsInv ==
    /\ ListIsTrue
    /\ \A id \in Ids : rows[id] \in {"install", "waiting"} =>
          store.hasCatalog /\ store.catalog[id] # 0

MarketInv == StoreShape /\ Whole(disk, torn) /\ JobIsNew /\ RowsInv /\ HostShape /\ HostMatchesDisk

-----------------------------------------------------------------------------
(* The agent's panel under the host                                            *)

LEMMA InitPanel == Init => PanelInv(agent.exists, agent)
  BY NoPanelInv DEF Init, AgentInit, PanelInv, Shape

(* The host leaves the panel alone, destroys it or brings up a fresh one.      *)
LEMMA MarketKeepsPanel ==
    ASSUME PanelInv(agent.exists, agent),
           UNCHANGED agent \/ agent' = NoPanel \/ agent' = Activated(agent)
    PROVE  PanelInv(agent'.exists, agent')
  <1>1. CASE UNCHANGED agent
    BY <1>1
  <1>2. CASE agent' = NoPanel
    BY <1>2, NoPanelInv DEF PanelInv, Shape
  <1>3. CASE agent' = Activated(agent)
    BY <1>3, NoPanelInv DEF PanelInv, Shape
  <1> QED
    BY <1>1, <1>2, <1>3

LEMMA HostTellsAgent ==
    ASSUME NEW h, HostBecomes(h)
    PROVE  UNCHANGED agent \/ agent' = NoPanel \/ agent' = Activated(agent)
  BY DEF HostBecomes, TellAgent, Deactivated

LEMMA StepKeepsPanel ==
    ASSUME PanelInv(agent.exists, agent), [Next]_vars
    PROVE  PanelInv(agent'.exists, agent')
  <1>1. CASE UserActs
    BY <1>1, HostTellsAgent, MarketKeepsPanel
    DEF UserActs, RefreshCatalog, InstallBundled, FinishInstall, InstallRemote, RemoveAddon,
        SetAddonEnabled
  <1>2. CASE AgentActs
    <2>1. PanelInv(agent.exists, agent')
      BY <1>2, UserKeepsPanel DEF AgentActs
    <2> QED
      BY <2>1 DEF PanelInv, Shape
  <1>3. CASE Fault
    BY <1>3, HostTellsAgent, MarketKeepsPanel
    DEF Fault, InstallBundled, DownloadReply, FinishInstall, RemoveFails, CrashInInstall,
        CrashInRemove, Publish, Restart, StartsFrom
  <1>4. CASE StoreWorks
    BY <1>4, HostTellsAgent, MarketKeepsPanel
    DEF StoreWorks, CatalogReply, DownloadReply, FinishInstall, DownloadFails, InstallFails
  <1>5. CASE HostStarts
    BY <1>5, HostTellsAgent, MarketKeepsPanel DEF HostStarts, FirstReload
  <1>6. CASE AgentGoesOn
    <2>1. PanelInv(agent.exists, agent')
      BY <1>6, WorkKeepsPanel DEF AgentGoesOn
    <2> QED
      BY <2>1 DEF PanelInv, Shape
  <1>7. CASE UNCHANGED vars
    BY <1>7 DEF vars
  <1> QED
    BY <1>1, <1>2, <1>3, <1>4, <1>5, <1>6, <1>7 DEF Next

(* Nothing runs in a terminal that the user has not agreed to after the        *)
(* answer that asked for it, unless it passes the list of first words (which   *)
(* is not to say that it only reads), and each phase of the panel is backed by *)
(* what will end it, whatever the model answers and however the host reloads   *)
(* its addons (AiAgentPanel, AiAgentClient).                                   *)
THEOREM PanelIsInvariant == Spec => []PanelInv(agent.exists, agent)
  <1>1. Init => PanelInv(agent.exists, agent)
    BY InitPanel
  <1>2. PanelInv(agent.exists, agent) /\ [Next]_vars => PanelInv(agent.exists, agent)'
    BY StepKeepsPanel
  <1> QED
    BY <1>1, <1>2, PTL DEF Spec

(* A command that does not pass the list of first words runs only when the     *)
(* user agreed to it after the answer that asked for it: agreeing to one batch *)
(* is not agreeing to the next (AiAgentPanel::runCurrentAction).  What passes  *)
(* the list is not covered, whether it reads or writes.                        *)
THEOREM UnlistedNeedConsent == Spec => []UnlistedAreConfirmed
  <1>1. PanelInv(agent.exists, agent) => UnlistedAreConfirmed
    BY DEF PanelInv, Approved, UnlistedAreConfirmed
  <1> QED
    BY <1>1, PanelIsInvariant, PTL

(* Each phase is backed by what will end it (AiAgentPanel::setPhase).          *)
THEOREM PanelNeverHangs == Spec => []PhaseHasCause
  <1>1. PanelInv(agent.exists, agent) => PhaseHasCause
    BY DEF PanelInv, Shape, Phased, PhaseHasCause
  <1> QED
    BY <1>1, PanelIsInvariant, PTL
-----------------------------------------------------------------------------
(* The steps the operations of the market are made of                          *)

LEMMA RebuildRows ==
    ASSUME rows' = RebuildAddonsList(store', disk')
    PROVE  RowsInv'
  BY DEF RebuildAddonsList, RowsInv, ListIsTrue

(* What is whole, installed and enabled is loaded after a reload, and nothing  *)
(* else, whatever was loaded before.                                           *)
LEMMA ReloadLoads ==
    ASSUME NEW h, h.loaded \in [Ids -> Nat], NEW d, NEW t, NEW en, Whole(d, t), en \in [Ids -> BOOLEAN]
    PROVE  LET r == ReloadInstalled(h, d, en)
           IN /\ r = [started |-> TRUE, installed |-> r.installed, loaded |-> r.loaded]
              /\ r.loaded \in [Ids -> Nat]
              /\ \A id \in Ids \ t : r.loaded[id] # 0 <=> id \in Loadable(d, en)
  <1> DEFINE r == ReloadInstalled(h, d, en)
  <1>1. /\ r = [started |-> TRUE, installed |-> r.installed, loaded |-> r.loaded]
        /\ r.loaded = [id \in Ids |->
              IF id \notin Installed(d) \/ ~en[id] THEN 0
              ELSE IF h.loaded[id] # 0 THEN h.loaded[id]
              ELSE IF id \in Loadable(d, en) THEN d[id].plugin ELSE 0]
    BY DEF ReloadInstalled
  <1> HIDE DEF r
  <1>2. r.loaded \in [Ids -> Nat]
    BY <1>1 DEF Whole
  <1>3. ASSUME NEW id \in Ids \ t
        PROVE  r.loaded[id] # 0 <=> id \in Loadable(d, en)
    <2>1. id \in Loadable(d, en) =>
              id \in Installed(d) /\ en[id] /\ d[id].plugin # 0
      BY DEF Loadable
    <2>2. id \in Installed(d) => d[id].manifest # 0
      BY DEF Installed
    <2>3. id \in Installed(d) => d[id].plugin \in Versions \ {0}
      BY <2>2 DEF Whole
    <2>4. id \in Installed(d) /\ en[id] => id \in Loadable(d, en)
      BY <2>3 DEF Loadable
    <2> QED
      BY <1>1, <2>1, <2>4
  <1> QED
    BY <1>1, <1>2, <1>3 DEF r

LEMMA AgentIsTold ==
    ASSUME agent.exists <=> host.loaded[Agent] # 0, NEW h, HostBecomes(h)
    PROVE  agent'.exists <=> h.loaded[Agent] # 0
  BY DEF HostBecomes, TellAgent, Activated, Deactivated, NoPanel

LEMMA HostReloads ==
    ASSUME HostMatchesDisk, NEW h, h.loaded \in [Ids -> Nat],
           Whole(disk', torn'), enabled' \in [Ids -> BOOLEAN],
           HostBecomes(ReloadInstalled(h, disk', enabled'))
    PROVE  HostShape' /\ HostMatchesDisk'
  <1> DEFINE r == ReloadInstalled(h, disk', enabled')
  <1>1. host' = r /\ (agent'.exists <=> r.loaded[Agent] # 0)
    BY AgentIsTold DEF HostBecomes, HostMatchesDisk
  <1>2. /\ r = [started |-> TRUE, installed |-> r.installed, loaded |-> r.loaded]
        /\ r.loaded \in [Ids -> Nat]
        /\ \A id \in Ids \ torn' : r.loaded[id] # 0 <=> id \in Loadable(disk', enabled')
    BY ReloadLoads
  <1>3. /\ host' = [started |-> TRUE, installed |-> host'.installed, loaded |-> host'.loaded]
        /\ host'.loaded = r.loaded
    BY <1>1, <1>2
  <1> HIDE DEF r
  <1>4. HostShape'
    <2>1. host'.started = TRUE /\ host'.loaded \in [Ids -> Nat]
      BY <1>2, <1>3
    <2>2. host' = [started |-> host'.started, installed |-> host'.installed,
                   loaded |-> host'.loaded]
      BY <1>3, <2>1
    <2> QED
      BY <2>1, <2>2 DEF HostShape
  <1>5. \A id \in Ids \ torn' : host'.loaded[id] # 0 <=> id \in Loadable(disk', enabled')
    BY <1>2, <1>3
  <1> QED
    BY <1>1, <1>3, <1>4, <1>5 DEF HostMatchesDisk, Loadable, Installed
(* The host is left alone: what was loaded is as loadable as before.           *)
LEMMA HostUntouched ==
    ASSUME HostShape, HostMatchesDisk, UNCHANGED <<host, agent>>, torn \subseteq torn',
           \A id \in Ids \ torn' : id \in Loadable(disk, enabled)'
                                       <=> id \in Loadable(disk, enabled)
    PROVE  HostShape' /\ HostMatchesDisk'
  BY DEF HostShape, HostMatchesDisk

-----------------------------------------------------------------------------
(* The operations of the market                                                *)

LEMMA MergeShapes ==
    ASSUME NEW s, NEW listed, listed \in [Ids -> Versions],
           s = [busy |-> s.busy, catalog |-> s.catalog, hasCatalog |-> s.hasCatalog,
                job |-> s.job],
           s.hasCatalog \in BOOLEAN
    PROVE  LET m == MergeBundled(s, listed)
           IN /\ m = [busy |-> m.busy, catalog |-> m.catalog, hasCatalog |-> m.hasCatalog,
                      job |-> m.job]
              /\ m.catalog \in [Ids -> Versions] /\ m.hasCatalog \in BOOLEAN
              /\ m.busy = s.busy /\ m.job = s.job /\ (s.hasCatalog => m.hasCatalog)
  <1> DEFINE m == MergeBundled(s, listed)
             c == [id \in Ids |-> IF id \in Bundled THEN 1 ELSE listed[id]]
             k == s.hasCatalog \/ Bundled # {}
  <1>1. c \in [Ids -> Versions] /\ k \in BOOLEAN
    BY AddonConstants DEF Versions
  <1>2. m = [s EXCEPT !.catalog = c, !.hasCatalog = k]
    BY DEF MergeBundled
  <1>3. s.hasCatalog => k
    OBVIOUS
  <1> HIDE DEF m, c, k
  <1> QED
    BY <1>1, <1>2, <1>3 DEF m

(* Whatever the outcome of an installation: it began with an addon that has    *)
(* no files, so that the plugin it leaves behind is not one that was loaded.   *)
LEMMA InstallKeepsMarket ==
    ASSUME MarketInv, NEW id \in Ids \ Installed(disk), NEW v \in Versions \ {0},
           NEW outcome \in InstallFaults \cup {"ok"}, FinishInstall(store, id, v, outcome)
    PROVE  MarketInv'
  <1>1. StoreShape' /\ JobIsNew'
    BY DEF MarketInv, StoreShape, FinishInstall, Ended, JobIsNew
  <1>2. RowsInv'
    BY RebuildRows DEF FinishInstall
  <1>3. /\ FilesAfter(outcome, v, disk[id]) \in [manifest : Nat, plugin : Nat]
        /\ outcome = "ok" => FilesAfter(outcome, v, disk[id]) = [manifest |-> v, plugin |-> v]
        /\ outcome \notin {"ok", "short"} => FilesAfter(outcome, v, disk[id]).manifest = 0
    BY AddonConstants
    DEF MarketInv, Whole, FilesAfter, NoFiles, Versions, Broken, InstallFaults, Installed
  <1>4. disk' = [disk EXCEPT ![id] = FilesAfter(outcome, v, disk[id])]
    BY DEF FinishInstall
  <1>5. Whole(disk', torn')
    <2>1. disk' \in [Ids -> [manifest : Nat, plugin : Nat]]
      BY <1>3, <1>4 DEF MarketInv, Whole
    <2>2. ASSUME NEW i \in Installed(disk') \ torn'
          PROVE  disk'[i].plugin = disk'[i].manifest /\ disk'[i].plugin \in Versions
      <3>1. CASE i = id
        BY <1>3, <1>4, <2>2, <3>1 DEF MarketInv, Whole, FinishInstall, Installed
      <3>2. CASE i # id
        BY <1>4, <2>2, <3>2 DEF MarketInv, Whole, FinishInstall, Installed
      <3> QED
        BY <3>1, <3>2
    <2> QED
      BY <2>1, <2>2 DEF Whole
  <1>6. HostShape' /\ HostMatchesDisk'
    <2>1. CASE outcome \in {"ok", "short"}
      <3>1. enabled' \in [Ids -> BOOLEAN]
        BY <2>1 DEF FinishInstall, MarketInv, StoreShape
      <3>2. HostBecomes(ReloadInstalled(host, disk', enabled'))
        BY <2>1 DEF FinishInstall
      <3> QED
        BY <1>5, <3>1, <3>2, HostReloads DEF MarketInv, HostShape
    <2>2. CASE outcome \notin {"ok", "short"}
      <3>1. UNCHANGED <<enabled, host, agent, torn>>
        BY <2>2 DEF FinishInstall
      <3>2. ASSUME NEW i \in Ids
            PROVE  i \in Loadable(disk, enabled)' <=> i \in Loadable(disk, enabled)
        BY <1>3, <1>4, <2>2, <3>1 DEF MarketInv, Whole, Loadable, Installed
      <3> QED
        BY <3>1, <3>2, HostUntouched DEF MarketInv
    <2> QED
      BY <2>1, <2>2
  <1> QED
    BY <1>1, <1>2, <1>5, <1>6 DEF MarketInv
LEMMA RemovalKeepsMarket ==
    ASSUME MarketInv, NEW id \in Ids, RemoveAddon(id) \/ RemoveFails(id)
    PROVE  MarketInv'
  <1>1. StoreShape' /\ JobIsNew'
    BY DEF MarketInv, StoreShape, RemoveAddon, RemoveFails, JobIsNew
  <1>2. RowsInv'
    BY RebuildRows DEF RemoveAddon, RemoveFails
  <1>3. CASE RemoveAddon(id)
    <2>1. Whole(disk', torn')
      BY <1>3 DEF MarketInv, Whole, RemoveAddon, NoFiles, Installed
    <2>2. UnloadAddon(host, id).loaded \in [Ids -> Nat] /\ enabled' \in [Ids -> BOOLEAN]
      BY <1>3 DEF MarketInv, HostShape, StoreShape, UnloadAddon, RemoveAddon
    <2>3. HostShape' /\ HostMatchesDisk'
      BY <1>3, <2>1, <2>2, HostReloads DEF MarketInv, RemoveAddon
    <2> QED
      BY <1>1, <1>2, <2>1, <2>3 DEF MarketInv
  <1>4. CASE RemoveFails(id)
    <2>1. PICK left \in FilesLeft(disk[id]) : disk' = [disk EXCEPT ![id] = left]
      BY <1>4 DEF RemoveFails
    <2>2. left \in [manifest : Nat, plugin : Nat]
      BY DEF FilesLeft, MarketInv, Whole
    <2>3. Whole(disk', torn')
      BY <1>4, <2>1, <2>2 DEF MarketInv, Whole, RemoveFails, Installed
    <2>4. ASSUME NEW i \in Ids \ torn'
          PROVE  i \in Loadable(disk, enabled)' <=> i \in Loadable(disk, enabled)
      BY <1>4, <2>1, <2>4 DEF RemoveFails, MarketInv, Whole, Loadable, Installed
    <2>5. HostShape' /\ HostMatchesDisk'
      BY <1>4, <2>4, HostUntouched DEF RemoveFails, MarketInv
    <2> QED
      BY <1>1, <1>2, <2>3, <2>5 DEF MarketInv
  <1> QED
    BY <1>3, <1>4

LEMMA TogglesKeepMarket ==
    ASSUME MarketInv, FirstReload \/ \E id \in Ids : SetAddonEnabled(id)
    PROVE  MarketInv'
  <1>1. /\ StoreShape' /\ JobIsNew' /\ RowsInv' /\ Whole(disk', torn')
        /\ enabled' \in [Ids -> BOOLEAN]
    <2>1. rows' = RebuildAddonsList(store', disk')
      BY DEF FirstReload, SetAddonEnabled
    <2> QED
      BY <2>1, RebuildRows DEF FirstReload, SetAddonEnabled, MarketInv, StoreShape, JobIsNew
  <1>2. HostShape' /\ HostMatchesDisk'
    <2>1. CASE FirstReload
      BY <1>1, <2>1, HostReloads DEF FirstReload, MarketInv, HostShape
    <2>2. ASSUME NEW id \in Ids, SetAddonEnabled(id)
          PROVE  HostShape' /\ HostMatchesDisk'
      <3> DEFINE h == IF enabled'[id] THEN host ELSE UnloadAddon(host, id)
      <3>1. h.loaded \in [Ids -> Nat]
        BY DEF MarketInv, HostShape, UnloadAddon
      <3>2. HostBecomes(ReloadInstalled(h, disk', enabled'))
        BY <2>2 DEF SetAddonEnabled
      <3> HIDE DEF h
      <3> QED
        BY <1>1, <3>1, <3>2, HostReloads DEF MarketInv
    <2> QED
      BY <2>1, <2>2
  <1> QED
    BY <1>1, <1>2 DEF MarketInv

(* The catalog, the download and the repository touch no file.                 *)
LEMMA CatalogKeepsMarket ==
    ASSUME MarketInv,
           \/ RefreshCatalog \/ CatalogReply \/ DownloadFails
           \/ \E id \in Ids : InstallRemote(id) \/ Publish(id)
    PROVE  MarketInv'
  <1>1. Whole(disk', torn') /\ HostShape' /\ HostMatchesDisk'
    BY ZenonT(60) DEF MarketInv, HostShape, HostMatchesDisk, Loadable, Installed, RefreshCatalog,
           CatalogReply, DownloadFails, InstallFails, InstallRemote, Publish
  <1>2. NothingListed \in [Ids -> Versions]
    BY AddonConstants DEF NothingListed, Versions
  <1>3. CASE RefreshCatalog
    BY <1>1, <1>2, <1>3, MergeShapes, RebuildRows
    DEF MarketInv, StoreShape, JobIsNew, RowsInv, ListIsTrue, RefreshCatalog
  <1>4. CASE CatalogReply
    <2>1. PICK s \in {Ended(store), [Ended(store) EXCEPT !.hasCatalog = TRUE]},
               listed \in {NothingListed, remote} : store' = MergeBundled(s, listed)
      BY <1>4 DEF CatalogReply
    <2>2. /\ s = [busy |-> s.busy, catalog |-> s.catalog, hasCatalog |-> s.hasCatalog,
                  job |-> s.job]
          /\ s.busy = "no" /\ s.hasCatalog \in BOOLEAN /\ (store.hasCatalog => s.hasCatalog)
      BY DEF Ended, MarketInv, StoreShape
    <2>3. listed \in [Ids -> Versions]
      BY <1>2 DEF MarketInv, StoreShape
    <2>4. StoreShape' /\ JobIsNew' /\ (store.hasCatalog => store'.hasCatalog)
      BY <1>4, <2>1, <2>2, <2>3, MergeShapes
      DEF MarketInv, StoreShape, JobIsNew, CatalogReply
    <2>5. RowsInv'
      <3>1. CASE store'.hasCatalog
        BY <1>4, <3>1, RebuildRows DEF CatalogReply
      <3>2. CASE ~store'.hasCatalog
        BY <1>4, <2>4, <3>2 DEF MarketInv, RowsInv, ListIsTrue, CatalogReply, Installed
      <3> QED
        BY <3>1, <3>2
    <2> QED
      BY <1>1, <2>4, <2>5 DEF MarketInv
  <1>5. CASE DownloadFails
    BY <1>1, <1>5, RebuildRows
    DEF MarketInv, StoreShape, JobIsNew, DownloadFails, InstallFails, Ended
  <1>6. ASSUME NEW id \in Ids, InstallRemote(id)
        PROVE  MarketInv'
    BY <1>1, <1>6
    DEF MarketInv, StoreShape, JobIsNew, RowsInv, ListIsTrue, InstallRemote, Installed
  <1>7. ASSUME NEW id \in Ids, Publish(id)
        PROVE  MarketInv'
    BY <1>1, <1>7, AddonConstants
    DEF MarketInv, StoreShape, JobIsNew, RowsInv, ListIsTrue, Publish, Installed, Versions
  <1> QED
    BY <1>3, <1>4, <1>5, <1>6, <1>7
(* The program comes back with a fresh store and a fresh host; what the        *)
(* directories look like is the previous run's doing.                          *)
LEMMA StartsClean ==
    ASSUME MarketInv, StartsFrom(disk'), Whole(disk', torn')
    PROVE  MarketInv'
  <1>1. NothingListed \in [Ids -> Versions] /\ NothingListed \in [Ids -> Nat]
    BY AddonConstants DEF NothingListed, Versions
  <1>2. StoreShape' /\ JobIsNew'
    BY <1>1 DEF StartsFrom, FreshStore, MarketInv, StoreShape, JobIsNew
  <1>3. RowsInv'
    BY DEF StartsFrom, FreshStore, RebuildAddonsList, RowsInv, ListIsTrue
  <1>4. HostShape' /\ HostMatchesDisk'
    BY <1>1, AddonConstants
    DEF StartsFrom, FreshHost, NothingListed, NoPanel, HostShape, HostMatchesDisk
  <1> QED
    BY <1>2, <1>3, <1>4 DEF MarketInv

(* A crash in an installation leaves no manifest or a whole addon.             *)
LEMMA CrashesKeepMarket ==
    ASSUME MarketInv, Restart \/ \E id \in Ids : CrashInInstall(id) \/ CrashInRemove(id)
    PROVE  MarketInv'
  <1>1. CASE Restart
    BY <1>1, StartsClean DEF Restart, MarketInv
  <1>2. ASSUME NEW id \in Ids, CrashInInstall(id)
        PROVE  MarketInv'
    <2>1. PICK v \in Versions \ {0} :
              \E files \in FilesDuring(v) : disk' = [disk EXCEPT ![id] = files]
      <3>1. CASE store.busy = "install"
        BY <1>2, <3>1 DEF CrashInInstall, MarketInv, JobIsNew
      <3>2. CASE store.busy # "install"
        <4>1. store.busy = "no" /\ rows[id] = "install" /\ id \in Bundled
          BY <1>2, <3>2 DEF CrashInInstall
        <4>2. store.catalog[id] \in Versions \ {0}
          BY <4>1 DEF MarketInv, RowsInv, StoreShape
        <4> QED
          BY <1>2, <3>2, <4>2 DEF CrashInInstall
      <3> QED
        BY <3>1, <3>2
    <2>5. PICK files \in FilesDuring(v) : disk' = [disk EXCEPT ![id] = files]
      BY <2>1
    <2>2. /\ files \in [manifest : Nat, plugin : Nat]
          /\ files.manifest # 0 => files.plugin = files.manifest /\ files.plugin \in Versions
      BY AddonConstants DEF FilesDuring, NoFiles, Versions, Broken
    <2>3. Whole(disk', torn')
      BY <1>2, <2>5, <2>2 DEF MarketInv, Whole, CrashInInstall, Installed
    <2> QED
      BY <1>2, <2>3, StartsClean DEF CrashInInstall
  <1>3. ASSUME NEW id \in Ids, CrashInRemove(id)
        PROVE  MarketInv'
    <2>1. PICK left \in FilesLeft(disk[id]) \cup {NoFiles} : disk' = [disk EXCEPT ![id] = left]
      BY <1>3 DEF CrashInRemove
    <2>2. left \in [manifest : Nat, plugin : Nat]
      BY DEF FilesLeft, NoFiles, MarketInv, Whole
    <2>3. Whole(disk', torn')
      BY <1>3, <2>1, <2>2 DEF MarketInv, Whole, CrashInRemove, Installed
    <2> QED
      BY <1>3, <2>3, StartsClean DEF CrashInRemove
  <1> QED
    BY <1>1, <1>2, <1>3
LEMMA InitMarket == Init => MarketInv
  <1> SUFFICES ASSUME Init PROVE MarketInv
    OBVIOUS
  <1>1. StoreShape /\ JobIsNew
    <2>1. store = [busy |-> "catalog", catalog |-> NothingListed, hasCatalog |-> FALSE,
                   job |-> NoJob]
      BY DEF Init, FreshStore
    <2>3. NothingListed \in [Ids -> Versions]
      BY AddonConstants DEF NothingListed, Versions
    <2>2. enabled \in [Ids -> BOOLEAN] /\ remote \in [Ids -> Versions]
      BY AddonConstants DEF Init, Versions
    <2> QED
      BY <2>1, <2>2, <2>3 DEF StoreShape, JobIsNew
  <1>2. Whole(disk, torn) /\ Installed(disk) = {}
    BY DEF Init, NoFiles, Whole, Installed
  <1>3. RowsInv
    BY <1>2 DEF Init, FreshStore, RebuildAddonsList, RowsInv, ListIsTrue
  <1>4. HostShape /\ HostMatchesDisk
    BY AddonConstants
    DEF Init, AgentInit, NoPanel, FreshHost, NothingListed, HostShape, HostMatchesDisk
  <1> QED
    BY <1>1, <1>2, <1>3, <1>4 DEF MarketInv

(* The agent goes about its work without touching the market.                  *)
LEMMA AgentKeepsMarket ==
    ASSUME MarketInv, UNCHANGED addonVars, agent'.exists = agent.exists
    PROVE  MarketInv'
  BY DEF addonVars, MarketInv, StoreShape, Whole, JobIsNew, RowsInv, ListIsTrue, HostShape,
         HostMatchesDisk, Installed, Loadable

LEMMA InstallsKeepMarket ==
    ASSUME MarketInv, NEW outcome \in InstallFaults \cup {"ok"},
           DownloadReply(outcome) \/ \E id \in Ids : InstallBundled(id, outcome)
    PROVE  MarketInv'
  <1>1. CASE DownloadReply(outcome)
    BY <1>1, InstallKeepsMarket DEF DownloadReply, MarketInv, JobIsNew
  <1>2. ASSUME NEW id \in Ids, InstallBundled(id, outcome)
        PROVE  MarketInv'
    <2>1. id \in Ids \ Installed(disk) /\ store.catalog[id] \in Versions \ {0}
      BY <1>2 DEF InstallBundled, MarketInv, RowsInv, ListIsTrue, StoreShape
    <2> QED
      BY <1>2, <2>1, InstallKeepsMarket DEF InstallBundled
  <1> QED
    BY <1>1, <1>2

LEMMA StepKeepsMarket ==
    ASSUME MarketInv, PanelInv(agent.exists, agent), [Next]_vars
    PROVE  MarketInv'
  <1>1. CASE UserActs
    BY <1>1, CatalogKeepsMarket, InstallsKeepMarket, RemovalKeepsMarket, TogglesKeepMarket
    DEF UserActs
  <1>2. CASE AgentActs
    <2>1. PanelInv(agent.exists, agent')
      BY <1>2, UserKeepsPanel DEF AgentActs
    <2> QED
      BY <1>2, <2>1, AgentKeepsMarket DEF AgentActs, PanelInv, Shape
  <1>3. CASE Fault
    BY <1>3, CatalogKeepsMarket, InstallsKeepMarket, RemovalKeepsMarket, CrashesKeepMarket
    DEF Fault
  <1>4. CASE StoreWorks
    BY <1>4, CatalogKeepsMarket, InstallsKeepMarket DEF StoreWorks
  <1>5. CASE HostStarts
    BY <1>5, TogglesKeepMarket DEF HostStarts
  <1>6. CASE AgentGoesOn
    <2>1. PanelInv(agent.exists, agent')
      BY <1>6, WorkKeepsPanel DEF AgentGoesOn
    <2> QED
      BY <1>6, <2>1, AgentKeepsMarket DEF AgentGoesOn, PanelInv, Shape
  <1>7. CASE UNCHANGED vars
    BY <1>7, AgentKeepsMarket DEF vars
  <1> QED
    BY <1>1, <1>2, <1>3, <1>4, <1>5, <1>6, <1>7 DEF Next

AddonsInv == MarketInv /\ PanelInv(agent.exists, agent)

(* The market and the panel stay in order through any installations, removals, *)
(* faults, crashes and restarts (AddonStore, AddonHost).                       *)
THEOREM MarketIsInvariant == Spec => []AddonsInv
  <1>1. Init => AddonsInv
    BY InitMarket, InitPanel DEF AddonsInv
  <1>2. AddonsInv /\ [Next]_vars => AddonsInv'
    BY StepKeepsMarket, StepKeepsPanel DEF AddonsInv
  <1> QED
    BY <1>1, <1>2, PTL DEF Spec

(* What is installed, enabled and whole is loaded once the host has started,   *)
(* and the panel lives as long as its addon is loaded                          *)
(* (AddonHost::reloadInstalled, syncEnabledAddons).                            *)
THEOREM HostFollowsDisk == Spec => []HostMatchesDisk
  <1>1. AddonsInv => HostMatchesDisk
    BY DEF AddonsInv, MarketInv
  <1> QED
    BY <1>1, MarketIsInvariant, PTL

(* The list tells what is on disk, and what has a manifest is whole            *)
(* (DashboardPage::rebuildAddonsList, AddonStore::finishInstallFromBytes).     *)
THEOREM PageIsTrue == Spec => []StoreIsTrue
  <1>1. AddonsInv => StoreIsTrue
    BY DEF AddonsInv, MarketInv, RowsInv, Whole, StoreIsTrue, InstalledIsWhole
  <1> QED
    BY <1>1, MarketIsInvariant, PTL
=============================================================================
