---------------------------- MODULE OperatorCard ----------------------------
(***************************************************************************)
(* The operator card of agent-orchestrator/discord_listener.py beside the  *)
(* run loop: the buttons computed from state.sqlite, the handlers of       *)
(* commands and button callbacks, the task that polls operator_events, and *)
(* the Deep Diagnose threads.  render_task_card runs in each of them, and  *)
(* awaits Discord between computing the buttons and showing them: renders  *)
(* overlap and may be shown in another order than they were drawn.         *)
(***************************************************************************)
EXTENDS TaskLoop

CONSTANTS
  Poller,        \* on_ready and the poll task it starts; the handlers are Sessions
  MaxRestarts    \* bound on restarts of the listener

\* Who may be inside render_task_card.
Renderers == Sessions \cup {Poller}

ASSUME CardAssumption ==
  /\ MaxRestarts \in Nat
  /\ Poller \notin Sessions
  /\ Renderers \cap {"shown", "overtaken", "failed"} = {}

VARIABLES
  unread,        \* operator_events holds a row the poller has not fetched
  reading,       \* the poll task: "starting", "unstarted", "idle", "busy" or "dead"
  render,        \* render[x]: the render x owes or has drawn, if any
  draft,         \* draft[x]: the buttons x has drawn and not yet shown
  shown,         \* the buttons on the card
  newest,        \* history: who drew last, or what became of that view
  review,        \* review[s]: a Deep Diagnose of worker s
  failureNoted,  \* operator_events holds a validation_failed row
  restarts

renders  == <<render, draft, shown, newest>>
card     == <<unread, reading, renders, review, failureNoted, restarts>>
cardVars == <<vars, card>>

-----------------------------------------------------------------------------
Labels == {"status", "explain", "clarify", "skip", "resume", "pause",
           "diagnose", "decide"}

InFlight == lastEvent \in {"resume_received", "validating", "reviewing"}

\* The active row is failed: no row is in progress and one is failed.
FailedIdle == \E t \in Tasks : ActiveRow(t) /\ status[t] = "failed"

\* A ref with a pending row and no decided one, however old.
PendingRefs == {r \in requested : decided[r] = NoDecision}

\* _button_actions_for_state, without the buttons' arguments.
Buttons ==
  IF InFlight THEN {} ELSE
    {"status", "explain"}
      \cup (IF awaitingClarify # NoTask THEN {"clarify", "skip"}
            ELSE {IF paused THEN "resume" ELSE "pause"}
                   \cup {l \in {"skip"} : awaitingReview # NoTask})
      \cup {l \in {"diagnose"} : FailedIdle}
      \cup {l \in {"decide"} : PendingRefs # {}}

-----------------------------------------------------------------------------
\* The listener starts: on_ready renders the card before it starts the poller.
OnlyPollerOwes == [x \in Renderers |-> IF x = Poller THEN "owed" ELSE "none"]
NoDrafts == [x \in Renderers |-> {}]

CardInit ==
  /\ Init
  /\ unread = FALSE /\ reading = "starting"
  /\ render = OnlyPollerOwes /\ draft = NoDrafts
  /\ shown = {} /\ newest = "shown"
  /\ review = [s \in Sessions |-> "none"]
  /\ failureNoted = FALSE /\ restarts = 0

\* The steps of the loop: some of them record an event.
LoopStarts == (Start \/ Crash) /\ UNCHANGED card

LoopQuiet == QuietStep /\ UNCHANGED card

LoopEvent ==
  /\ EventStep
  /\ unread' = TRUE
  /\ failureNoted' = (failureNoted \/ pc = "note_failed")
  /\ UNCHANGED <<reading, renders, review, restarts>>

\* A handler takes one message or click, and is done when it has rendered.
Free(s) == todo[s] = << >> /\ render[s] = "none" /\ review[s] # "checked"

\* Handler or poller x is about to call render_task_card.
Owe(x) ==
  /\ render' = [render EXCEPT ![x] = "owed"]
  /\ UNCHANGED <<draft, shown, newest>>

\* A message that only renders: !status, !explain, a refused command, an update
\* of the webhook, on_ready after a reconnect.
AskRender(s) ==
  /\ Free(s) /\ Owe(s)
  /\ UNCHANGED <<vars, unread, reading, review, failureNoted, restarts>>

\* !approve and !reject answer at once; the other commands when the last of
\* their writes is done.
CommandDecides(s) ==
  /\ Free(s) /\ Owe(s)
  /\ \E r \in Ref, verdict \in {"approved", "rejected"} : Decide(r, verdict)
  /\ UNCHANGED <<unread, reading, review, failureNoted, restarts>>

CommandBegins(s) ==
  /\ Free(s)
  /\ \/ PauseCommand(s) \/ ResumeCommand(s)
     \/ \E t \in Tasks : ClarifyCommand(s, t) \/ SkipCommand(s, t)
  /\ UNCHANGED card

CommandWrites(s) ==
  /\ Write(s)
  /\ unread' = (unread \/ Head(todo[s]) \in {"note_paused", "note_resumed"})
  /\ IF Tail(todo[s]) = << >> THEN Owe(s) ELSE UNCHANGED renders
  /\ UNCHANGED <<reading, review, failureNoted, restarts>>

-----------------------------------------------------------------------------
(* render_task_card                                                        *)

\* The payload and the view are computed from the database as it is now.
Draw(x) ==
  /\ render[x] = "owed"
  /\ render' = [render EXCEPT ![x] = "drawn"]
  /\ draft' = [draft EXCEPT ![x] = Buttons]
  /\ newest' = x
  /\ UNCHANGED <<vars, unread, reading, shown, review, failureNoted, restarts>>

Rendered(x) ==
  /\ render[x] = "drawn"
  /\ render' = [render EXCEPT ![x] = "none"]
  /\ draft' = [draft EXCEPT ![x] = {}]

\* The edit or the send takes effect, after the awaits of the typing task, of a
\* failed edit and of the fetch.
Show(x) ==
  /\ Rendered(x)
  /\ shown' = draft[x]
  /\ newest' = CASE newest = x       -> "shown"
                 [] newest = "shown" -> "overtaken"
                 [] OTHER            -> newest
  /\ UNCHANGED <<vars, unread, reading, review, failureNoted, restarts>>

\* The edit, the fetch and the send all raise.  Nothing catches the last: a
\* handler ends without its render, on_ready before it starts the poller, and
\* the poll task for good, the rows it fetched undelivered.
RenderFails(x) ==
  /\ Rendered(x)
  /\ newest' = IF newest = x THEN "failed" ELSE newest
  /\ IF x = Poller
     THEN /\ reading' = IF reading = "busy" THEN "dead" ELSE "unstarted"
          /\ unread' = (unread \/ reading = "busy")
     ELSE UNCHANGED <<reading, unread>>
  /\ UNCHANGED <<vars, shown, review, failureNoted, restarts>>

-----------------------------------------------------------------------------
(* poll_operator_events and Deep Diagnose                                  *)

\* on_ready after a reconnect: it renders, and starts a poller only when there
\* never was one (poll_task is None); one that ended is not started again.
Reconnect ==
  /\ reading = "unstarted"
  /\ reading' = "starting" /\ Owe(Poller)
  /\ UNCHANGED <<vars, unread, review, failureNoted, restarts>>

PollBegins ==
  /\ reading = "starting" /\ render[Poller] = "none"
  /\ reading' = "idle"
  /\ UNCHANGED <<vars, unread, renders, review, failureNoted, restarts>>

\* The undelivered rows are fetched and the card is to be rendered.  Rows
\* recorded meanwhile are left for the next round.
PollFetch ==
  /\ reading = "idle" /\ unread
  /\ reading' = "busy" /\ unread' = FALSE
  /\ Owe(Poller)
  /\ UNCHANGED <<vars, review, failureNoted, restarts>>

\* Fault: every row of the table is marked delivered.
PollMarkAll ==
  /\ reading = "busy" /\ render[Poller] = "none"
  /\ reading' = "idle" /\ unread' = FALSE
  /\ UNCHANGED <<vars, renders, review, failureNoted, restarts>>

\* Rendered, the fetched rows are marked delivered.
PollMark ==
  /\ reading = "busy" /\ render[Poller] = "none"
  /\ reading' = "idle"
  /\ UNCHANGED <<vars, unread, renders, review, failureNoted, restarts>>

\* _start_medium_diagnosis checks, and only then records that it runs.
ReviewCheck(s) ==
  /\ Free(s) /\ review[s] = "none"
  /\ ~InFlight /\ FailedIdle
  /\ review' = [review EXCEPT ![s] = "checked"]
  /\ UNCHANGED <<vars, unread, reading, renders, failureNoted, restarts>>

ReviewStart(s) ==
  /\ review[s] = "checked"
  /\ ReviewEvent /\ lastEvent' = "reviewing"
  /\ review' = [review EXCEPT ![s] = "running"]
  /\ unread' = TRUE /\ Owe(s)
  /\ UNCHANGED <<reading, failureNoted, restarts>>

\* Fault: an unavailable model ends the review without its event.
ReviewEndSilent(s) ==
  /\ review[s] = "running"
  /\ review' = [review EXCEPT ![s] = "none"]
  /\ UNCHANGED <<vars, unread, reading, renders, failureNoted, restarts>>

\* _run_medium_diagnosis_once: with no validation_failed row to rebuild the
\* context from, the thread ends without an event.
ReviewEnd(s) ==
  /\ review[s] = "running"
  /\ review' = [review EXCEPT ![s] = "none"]
  /\ \/ /\ failureNoted /\ ReviewEvent /\ lastEvent' = "terminal"
        /\ unread' = TRUE
     \/ /\ ~failureNoted /\ UNCHANGED <<vars, unread>>
  /\ UNCHANGED <<reading, renders, failureNoted, restarts>>

\* The listener is killed and started again: commands, poller and reviews are
\* gone, fetched rows were not marked, a render in flight may have arrived or
\* not, and on_ready owes one.
CardRestart ==
  /\ restarts < MaxRestarts /\ restarts' = restarts + 1
  /\ \/ ListenerRestart
     \/ UNCHANGED vars /\ \A s \in Sessions : todo[s] = << >>
  /\ unread' = (unread \/ reading = "busy") /\ reading' = "starting"
  /\ shown' \in {shown} \cup {draft[x] : x \in {y \in Renderers : render[y] = "drawn"}}
  /\ render' = OnlyPollerOwes /\ draft' = NoDrafts /\ newest' = "failed"
  /\ review' = [s \in Sessions |-> "none"]
  /\ UNCHANGED failureNoted

PollStep == PollBegins \/ PollFetch \/ PollMark

Handler(s) ==
  \/ AskRender(s) \/ CommandDecides(s) \/ CommandBegins(s) \/ CommandWrites(s)
  \/ ReviewCheck(s) \/ ReviewStart(s) \/ ReviewEnd(s)

Rendering(x) == Draw(x) \/ Show(x) \/ RenderFails(x)

CardNext ==
  \/ LoopStarts \/ LoopQuiet \/ LoopEvent
  \/ SleepPaused /\ UNCHANGED card
  \/ Reconnect \/ PollStep \/ (\E s \in Sessions : Handler(s))
  \/ (\E x \in Renderers : Rendering(x))
  \/ CardRestart

CardSpec == CardInit /\ [][CardNext]_cardVars

\* Each coroutine and thread of the listener runs on while it has work: a call
\* of Discord returns or raises.  The loop as in TaskLoop.
CardFairSpec ==
  /\ CardSpec
  /\ WF_cardVars(LoopQuiet \/ LoopEvent)
  /\ SF_cardVars(GateTimeout /\ UNCHANGED card)
  /\ WF_cardVars(PollStep)
  /\ \A x \in Renderers : WF_cardVars(Rendering(x))
  /\ \A s \in Sessions : /\ WF_cardVars(CommandWrites(s))
                         /\ WF_cardVars(ReviewStart(s) \/ ReviewEnd(s))

-----------------------------------------------------------------------------
(* Properties                                                              *)

\* Every variable of the card keeps its type.
CardTypeOK ==
  /\ unread \in BOOLEAN /\ failureNoted \in BOOLEAN
  /\ reading \in {"starting", "unstarted", "idle", "busy", "dead"}
  /\ render \in [Renderers -> {"none", "owed", "drawn"}]
  /\ draft \in [Renderers -> SUBSET Labels] /\ shown \subseteq Labels
  /\ newest \in Renderers \cup {"shown", "overtaken", "failed"}
  /\ review \in [Sessions -> {"none", "checked", "running"}]
  /\ restarts \in Nat

\* Nothing is on its way to the card.
Settled ==
  /\ ~unread /\ reading = "idle"
  /\ \A x \in Renderers : render[x] = "none"
  /\ \A s \in Sessions : todo[s] = << >> /\ review[s] # "checked"

\* The loop waits for the operator, and has not crashed.
Waiting == crashes = 0 /\ pc \in {"check", "down", "poll", "sleep"}

\* When nothing is on its way and the loop waits for the operator, the buttons
\* on the card are those of the state it is waiting in, unless the render that
\* was drawn last is not the one shown last: no change of the state that
\* matters to the buttons goes without an event or an answer, and no event is
\* marked delivered that no later view was drawn for.
CardSettles == Settled /\ Waiting /\ newest = "shown" => shown = Buttons

\* A Deep Diagnose hides the buttons only for a time, when neither the loop
\* nor the listener is interrupted.
ReviewReleasesCard ==
  (lastEvent = "reviewing" /\ restarts = 0 /\ crashes = 0)
    ~> (lastEvent # "reviewing" \/ restarts > 0 \/ crashes > 0)

-----------------------------------------------------------------------------
(* What the documents say of the card, and the code does not do            *)

\* MODE_B checklist, go / no-go: "Buttons only show safe available actions."
\* On a settled card of a waiting loop, as long as no call of Discord failed.
ButtonsAreSafe ==
  Settled /\ Waiting /\ newest # "failed" => shown \subseteq Buttons
=============================================================================
