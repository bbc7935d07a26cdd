------------------------ MODULE OperatorCard_proofs ------------------------
(***************************************************************************)
(* The card runs beside the loop without adding to what can happen to it:  *)
(* OperatorCard implements TaskLoop, so what TaskLoop_proofs shows of the  *)
(* loop holds with the card, its poller and its reviews in place.          *)
(***************************************************************************)
EXTENDS OperatorCard, TaskLoop_proofs

USE DEF Goto, EndPass, Record, Mark, SameDb, SameLocals, SameRest,
        dbVars, loopVars, cmdVars, history, vars

\* Every step beside the card is a step of the loop and the listener, or none.
LEMMA CardStepImplements == [CardNext]_cardVars => [Next]_vars
<1> SUFFICES ASSUME [CardNext]_cardVars PROVE [Next]_vars
  OBVIOUS
<1>1. CASE LoopStarts \/ LoopQuiet \/ LoopEvent
  BY <1>1 DEF LoopStarts, LoopQuiet, LoopEvent, Next, LoopStep
<1>2. ASSUME NEW s \in Sessions, Handler(s) PROVE [Next]_vars
  BY <1>2 DEF Handler, AskRender, CommandDecides, CommandBegins, CommandWrites,
              ReviewCheck, ReviewStart, ReviewEnd, Next, Operator
<1>3. ASSUME NEW x \in Renderers, Rendering(x) PROVE [Next]_vars
  BY <1>3 DEF Rendering, Draw, Show, RenderFails
<1>4. CASE Reconnect \/ PollStep
  BY <1>4 DEF Reconnect, PollStep, PollBegins, PollFetch, PollMark
<1>5. CASE CardRestart
  BY <1>5 DEF CardRestart, Next
<1>6. CASE SleepPaused \/ UNCHANGED cardVars
  BY <1>6 DEF Next, cardVars
<1> QED BY <1>1, <1>2, <1>3, <1>4, <1>5, <1>6 DEF CardNext

\* OperatorCard implements TaskLoop: rendering, polling and reviewing never
\* take the loop, its database or a command where TaskLoop cannot go.
THEOREM CardImplementsLoop == CardSpec => Spec
<1>1. CardInit => Init
  BY DEF CardInit
<1> QED BY <1>1, CardStepImplements, PTL DEF CardSpec, Spec

\* With the card, its poller and its reviews beside it the loop keeps what the
\* operator was promised, too.
THEOREM CardKeepsPromises == CardSpec => KeepsContract
BY CardImplementsLoop, KeepsPromises

\* A task once attempted stays so.
LEMMA AttemptedStays ==
  IInv /\ [Next]_vars =>
    ((\E t \in Tasks : attempt[t] # "none") => \E t \in Tasks : attempt'[t] # "none")
<1> SUFFICES ASSUME IInv, [Next]_vars, NEW t \in Tasks, attempt[t] # "none"
             PROVE  attempt'[t] # "none"
  OBVIOUS
<1> USE DEF IInv, TypeOK
<1>1. CASE MarkStarted
  BY <1>1 DEF MarkStarted
<1>2. CASE RunCodex
  BY <1>2 DEF RunCodex
<1>3. CASE Validate
  BY <1>3 DEF Validate
<1>4. CASE EventStep \/ Start \/ Crash \/ UNCHANGED vars
  BY <1>4 DEF EventStep, StopComplete, NoteResume, AnnounceGate, NoteRiskySkip,
              HandOver, NoteCodex, NoteValidation, NoteFailed, NoteDone,
              ReportStop, Start, Crash
<1>5. CASE \/ CheckPause \/ SelectWork \/ Dispatch \/ AskApproval
           \/ PollDecision \/ PollAgain \/ GateTimeout \/ RecordDecision
           \/ AdvancePhase
  BY <1>5 DEF CheckPause, SelectWork, Dispatch, AskApproval, PollDecision,
              PollAgain, GateTimeout, RecordDecision, AdvancePhase
<1>6. CASE \/ SkipRisky \/ AssemblePrompt \/ LintPrompt \/ MarkFailed
           \/ MarkDone \/ PauseLoop \/ AwaitOperator \/ MarkBlocked
  BY <1>6 DEF SkipRisky, AssemblePrompt, LintPrompt, MarkFailed, MarkDone,
              PauseLoop, AwaitOperator, MarkBlocked
<1>7. CASE ListenerStep
  BY <1>7, ListenerKeepsOut DEF ListenerEffect
<1> QED BY <1>1, <1>2, <1>3, <1>4, <1>5, <1>6, <1>7
        DEF Next, LoopStep, QuietStep, SleepPaused, ListenerStep

\* A Deep Diagnose is under way only when some task was attempted: the guard of
\* ReviewEvent keeps no review of the code from recording its events.
ReviewsHaveCause ==
  (\E s \in Sessions : review[s] # "none") => \E t \in Tasks : attempt[t] # "none"

THEOREM ReviewsAreOfAttempts == CardSpec => []ReviewsHaveCause
<1>1. CardInit => ReviewsHaveCause
  BY DEF CardInit, ReviewsHaveCause
<1>2. IInv /\ ReviewsHaveCause /\ [CardNext]_cardVars => ReviewsHaveCause'
  <2> SUFFICES ASSUME IInv, ReviewsHaveCause, [CardNext]_cardVars,
                      \E s \in Sessions : review'[s] # "none"
               PROVE  \E t \in Tasks : attempt'[t] # "none"
    BY DEF ReviewsHaveCause
  <2>1. SUFFICES \E t \in Tasks : attempt[t] # "none"
    BY AttemptedStays, CardStepImplements
  <2>2. CASE \E s \in Sessions : review[s] # "none"
    BY <2>2 DEF ReviewsHaveCause
  <2>3. CASE ~\E s \in Sessions : review[s] # "none"
    <3>1. PICK s \in Sessions : ReviewCheck(s)
      BY <2>3 DEF CardNext, Handler, Rendering, PollStep, Reconnect, LoopStarts,
                  LoopQuiet, LoopEvent, AskRender, CommandDecides,
                  CommandBegins, CommandWrites, Draw, Show, RenderFails,
                  PollBegins, PollFetch, PollMark, ReviewStart, ReviewEnd,
                  CardRestart, cardVars, card
    <3>2. PICK t \in Tasks : status[t] = "failed"
      BY <3>1 DEF ReviewCheck, FailedIdle
    <3> QED BY <3>2 DEF IInv, Attempts
  <2> QED BY <2>2, <2>3
<1> QED BY <1>1, <1>2, CardImplementsLoop, Invariance, PTL DEF CardSpec

-----------------------------------------------------------------------------
(* The card settles                                                        *)

\* Points of the loop between a write that matters to the buttons and the
\* event that follows it.
DirtyPoints == {"announce", "skip_risky", "note_skip", "hand_over", "lint",
                "note_codex", "note_failed", "note_done", "pause", "await",
                "reblock", "report"}

\* The buttons will be computed again.
DrawDue ==
  \/ unread
  \/ \E x \in Renderers : render[x] = "owed"
  \/ \E s \in Sessions : todo[s] # << >>

\* The view drawn last, wherever it is: on its way, or on the card.
NewestView == IF newest \in Renderers THEN draft[newest] ELSE shown

\* The view drawn last is right, or another is going to be drawn, or the loop
\* is going to record an event, or that view was lost on its way.
CardCurrent ==
  crashes = 0 /\ pc \notin DirtyPoints /\ ~DrawDue
    /\ newest \notin {"overtaken", "failed"} => NewestView = Buttons

\* A decision the loop read is still in the table when it records it.
DecisionKept ==
  pc = "record" /\ outcome # "expired" => decided[GateRef] # NoDecision

\* What the buttons are computed from.
ButtonState == <<lastEvent, awaitingClarify, awaitingReview, paused, status>>

LEMMA ButtonsUnchanged ==
  UNCHANGED ButtonState /\ UNCHANGED PendingRefs => Buttons' = Buttons
BY DEF ButtonState, Buttons, InFlight, FailedIdle, ActiveRow

\* A quiet step changes nothing the buttons show, or leads to a dirty point.
LEMMA QuietKeepsButtons ==
  IInv /\ DecisionKept /\ QuietStep =>
    \/ pc' \in DirtyPoints
    \/ pc \notin DirtyPoints /\ Buttons' = Buttons
<1> SUFFICES ASSUME IInv, DecisionKept, QuietStep, pc' \notin DirtyPoints
             PROVE  pc \notin DirtyPoints /\ Buttons' = Buttons
  OBVIOUS
<1> USE DEF DirtyPoints, ButtonState, PendingRefs
<1>1. CASE CheckPause \/ SelectWork \/ Dispatch \/ PollDecision \/ PollAgain
  BY <1>1, ButtonsUnchanged DEF CheckPause, SelectWork, Dispatch, PollDecision,
                                PollAgain
<1>2. CASE GateTimeout \/ AdvancePhase \/ AssemblePrompt \/ RunCodex \/ Validate
  BY <1>2, ButtonsUnchanged DEF GateTimeout, AdvancePhase, AssemblePrompt,
                                RunCodex, Validate
<1>3. CASE RecordDecision
  <2>1. decided[GateRef] # NoDecision
    BY <1>3 DEF RecordDecision, DecisionKept
  <2>2. \A r \in Ref : (decided'[r] = NoDecision) <=> (decided[r] = NoDecision)
    BY <1>3, <2>1 DEF RecordDecision, Decision, NoDecision, IInv, TypeOK
  <2>3. UNCHANGED PendingRefs
    BY <1>3, <2>2 DEF RecordDecision, IInv, TypeOK
  <2> QED BY <1>3, <2>3, ButtonsUnchanged DEF RecordDecision
<1>4. CASE AskApproval \/ SkipRisky \/ MarkFailed \/ MarkDone
  BY <1>4 DEF AskApproval, SkipRisky, MarkFailed, MarkDone
<1>5. CASE MarkStarted \/ LintPrompt \/ PauseLoop \/ AwaitOperator \/ MarkBlocked
  BY <1>5 DEF MarkStarted, LintPrompt, PauseLoop, AwaitOperator, MarkBlocked
<1> QED BY <1>1, <1>2, <1>3, <1>4, <1>5 DEF QuietStep

\* The decision is kept: the listener adds rows and removes none.
LEMMA DecisionKeptStep ==
  IInv /\ DecisionKept /\ [Next]_vars => DecisionKept'
<1> SUFFICES ASSUME IInv, DecisionKept, [Next]_vars, pc' = "record",
                    outcome' # "expired"
             PROVE  decided'[GateRef'] # NoDecision
  BY DEF DecisionKept
<1> USE DEF GateRef, IInv, TypeOK, DecisionKept
<1>1. CASE PollDecision
  BY <1>1 DEF PollDecision
<1>2. CASE GateTimeout
  BY <1>2 DEF GateTimeout
<1>3. CASE EventStep \/ Start \/ Crash
  BY <1>3 DEF EventStep, StopComplete, NoteResume, AnnounceGate, NoteRiskySkip,
              HandOver, NoteCodex, NoteValidation, NoteFailed, NoteDone,
              ReportStop, Start, Crash
<1>4. CASE \/ CheckPause \/ SelectWork \/ Dispatch \/ AskApproval
           \/ PollAgain \/ RecordDecision \/ AdvancePhase \/ SkipRisky
           \/ AssemblePrompt
  BY <1>4 DEF CheckPause, SelectWork, Dispatch, AskApproval, PollAgain,
              RecordDecision, AdvancePhase, SkipRisky, AssemblePrompt
<1>5. CASE \/ MarkStarted \/ LintPrompt \/ RunCodex \/ Validate \/ MarkFailed
           \/ MarkDone \/ PauseLoop \/ AwaitOperator \/ MarkBlocked
  BY <1>5 DEF MarkStarted, LintPrompt, RunCodex, Validate, MarkFailed,
              MarkDone, PauseLoop, AwaitOperator, MarkBlocked
<1>6. CASE ListenerStep
  <2>1. UNCHANGED <<pc, outcome, task, currentPhase>>
    BY <1>6, ListenerKeepsOut DEF ListenerEffect
  <2>2. \/ decided' = decided
        \/ \E r \in Ref, v \in {"approved", "rejected"} :
             decided' = [decided EXCEPT ![r] = Decision(v, "operator")]
    BY <1>6 DEF ListenerStep, Operator, Decide, PauseCommand, ResumeCommand,
                ClarifyCommand, SkipCommand, Begin, Write, ReviewEvent,
                ListenerRestart
  <2>3. GateRef' = GateRef /\ decided[GateRef] # NoDecision
    BY <2>1
  <2>3a. GateRef \in Ref
    BY <2>1, GateIsKnown DEF GatePoints
  <2>4. CASE decided' = decided
    BY <2>3, <2>4
  <2>5. ASSUME NEW r \in Ref, NEW v \in {"approved", "rejected"},
               decided' = [decided EXCEPT ![r] = Decision(v, "operator")]
        PROVE  decided'[GateRef'] # NoDecision
    <3>1. Decision(v, "operator").verdict = v /\ NoDecision.verdict = "none"
      BY DEF Decision, NoDecision
    <3>2. \A g \in Ref : decided'[g] = IF g = r THEN Decision(v, "operator")
                                              ELSE decided[g]
      BY <2>5
    <3>3. \A g \in Ref : decided[g] # NoDecision => decided'[g] # NoDecision
      BY <3>1, <3>2
    <3> QED BY <2>3, <2>3a, <3>3
  <2> QED BY <2>2, <2>3, <2>4, <2>5
<1>7. CASE UNCHANGED vars
  BY <1>7
<1> QED BY <1>1, <1>2, <1>3, <1>4, <1>5, <1>6, <1>7
        DEF Next, LoopStep, QuietStep, SleepPaused, ListenerStep

\* Owing a render makes one due.
LEMMA OweIsDue ==
  ASSUME CardTypeOK, NEW x \in Renderers, Owe(x) PROVE DrawDue'
BY DEF Owe, DrawDue, CardTypeOK

\* A step that leaves the renders and the state of the buttons alone leaves
\* the newest view right.
LEMMA CardCurrentKept ==
  CardCurrent /\ UNCHANGED <<ButtonState, PendingRefs, renders, crashes, pc>>
    /\ (DrawDue => DrawDue') => CardCurrent'
BY ButtonsUnchanged DEF CardCurrent, NewestView, renders

\* Draw, show or fail: the view drawn last stays the newest view, on its way
\* or on the card, or is known to be lost.
LEMMA RenderingCurrent ==
  ASSUME CardTypeOK, CardCurrent, NEW x \in Renderers, Rendering(x)
  PROVE  CardCurrent'
<1> USE CardAssumption DEF CardTypeOK
<1>0. Buttons' = Buttons /\ UNCHANGED <<crashes, pc, todo>>
  BY ButtonsUnchanged
     DEF Rendering, Draw, Show, RenderFails, ButtonState, PendingRefs
<1>1. CASE Draw(x)
  <2>1. newest' = x /\ draft'[x] = Buttons
    BY <1>1 DEF Draw
  <2> QED BY <1>0, <2>1 DEF CardCurrent, NewestView
<1> SUFFICES ASSUME Show(x) \/ RenderFails(x), crashes' = 0,
                    pc' \notin DirtyPoints, ~DrawDue',
                    newest' \notin {"overtaken", "failed"}
             PROVE  NewestView' = Buttons
  BY <1>0, <1>1 DEF Rendering, CardCurrent
<1>2. Rendered(x) /\ (unread' = unread \/ unread' = TRUE \/ unread' = (unread \/ reading = "busy"))
  BY DEF Show, RenderFails
<1>3. ~DrawDue
  <2>1. \A y \in Renderers : y # x => render'[y] = render[y]
    BY <1>2 DEF Rendered
  <2>2. render[x] # "owed"
    BY <1>2 DEF Rendered
  <2> QED BY <1>0, <1>2, <2>1, <2>2 DEF DrawDue
<1>4. newest \notin {"overtaken", "failed"}
  BY DEF Show, RenderFails
<1>5. NewestView = Buttons
  BY <1>0, <1>3, <1>4 DEF CardCurrent
<1>6. CASE newest = x
  BY <1>5, <1>6 DEF Show, RenderFails, NewestView
<1>7. CASE newest # x
  <2>1. newest' = newest /\ (newest \in Renderers \/ RenderFails(x))
    BY <1>4, <1>7 DEF Show, RenderFails
  <2>2. newest \in Renderers => draft'[newest] = draft[newest]
    BY <1>2, <1>7 DEF Rendered
  <2>3. RenderFails(x) => shown' = shown
    BY DEF RenderFails
  <2> QED BY <1>5, <2>1, <2>2, <2>3 DEF NewestView
<1> QED BY <1>6, <1>7

\* A handler that touches what the buttons show goes on until it owes a render.
LEMMA HandlerCurrent ==
  ASSUME IInv, CardTypeOK, CardCurrent, NEW s \in Sessions, Handler(s)
  PROVE  CardCurrent'
<1> USE DEF CardCurrent
<1>0. s \in Renderers
  BY DEF Renderers
<1>1. CASE AskRender(s) \/ CommandDecides(s) \/ ReviewStart(s)
  BY <1>0, <1>1, OweIsDue DEF AskRender, CommandDecides, ReviewStart
<1>2. CASE CommandBegins(s)
  <2>1. \/ todo' = [todo EXCEPT ![s] = <<"pause", "note_paused">>]
        \/ todo' = [todo EXCEPT ![s] = <<"resume", "note_resumed">>]
        \/ todo' = [todo EXCEPT ![s] = <<"unclarify", "pause", "note_paused">>]
        \/ todo' = [todo EXCEPT ![s] = <<"mark_skipped", "unclarify", "unreview",
                                         "pause", "note_paused">>]
    BY <1>2 DEF CommandBegins, PauseCommand, ResumeCommand, ClarifyCommand,
                SkipCommand, Begin
  <2>2. s \in DOMAIN todo
    BY DEF IInv, TypeOK
  <2>3. \/ todo'[s] = <<"pause", "note_paused">>
        \/ todo'[s] = <<"resume", "note_resumed">>
        \/ todo'[s] = <<"unclarify", "pause", "note_paused">>
        \/ todo'[s] = <<"mark_skipped", "unclarify", "unreview",
                       "pause", "note_paused">>
    BY <2>1, <2>2
  <2>4. /\ <<"pause", "note_paused">> # << >>
        /\ <<"resume", "note_resumed">> # << >>
        /\ <<"unclarify", "pause", "note_paused">> # << >>
        /\ <<"mark_skipped", "unclarify", "unreview", "pause", "note_paused">> # << >>
    OBVIOUS
  <2>5. todo'[s] # << >>
    BY <2>3, <2>4
  <2> QED BY <2>5 DEF DrawDue
<1>3. CASE CommandWrites(s)
  <2>1. todo'[s] = Tail(todo[s])
    BY <1>3 DEF CommandWrites, Write, IInv, TypeOK
  <2> QED BY <1>0, <1>3, <2>1, OweIsDue DEF CommandWrites, DrawDue
<1>4. CASE ReviewCheck(s)
  BY <1>4, CardCurrentKept DEF ReviewCheck, ButtonState, PendingRefs, DrawDue,
     renders
<1>5. CASE ReviewEnd(s)
  <2>1. CASE unread'
    BY <2>1 DEF DrawDue
  <2>2. CASE ~failureNoted /\ UNCHANGED <<vars, unread>>
    BY <1>5, <2>2, CardCurrentKept DEF ReviewEnd, ButtonState, PendingRefs,
       DrawDue, renders
  <2> QED BY <1>5, <2>1, <2>2 DEF ReviewEnd
<1> QED BY <1>1, <1>2, <1>3, <1>4, <1>5 DEF Handler

\* The newest view stays current: what makes it stale also makes a draw due.
LEMMA CardCurrentStep ==
  IInv /\ CardTypeOK /\ DecisionKept /\ CardCurrent /\ [CardNext]_cardVars
    => CardCurrent'
<1> SUFFICES ASSUME IInv, CardTypeOK, DecisionKept, CardCurrent,
                    [CardNext]_cardVars
             PROVE  CardCurrent'
  OBVIOUS
<1>1. CASE LoopStarts
  <2>1. CASE Start
    BY <1>1, <2>1, ButtonsUnchanged
       DEF LoopStarts, Start, DirtyPoints, ButtonState, PendingRefs, DrawDue,
           CardCurrent, NewestView, card, renders
  <2>2. CASE Crash
    BY <2>2 DEF Crash, IInv, TypeOK, CardCurrent
  <2> QED BY <1>1, <2>1, <2>2 DEF LoopStarts
<1>2. CASE LoopQuiet
  <2>1. UNCHANGED <<crashes, todo>>
    BY <1>2 DEF LoopQuiet, QuietStep, CheckPause, SelectWork, Dispatch,
                AskApproval, PollDecision, PollAgain, GateTimeout,
                RecordDecision, AdvancePhase, SkipRisky, AssemblePrompt,
                MarkStarted, LintPrompt, RunCodex, Validate, MarkFailed,
                MarkDone, PauseLoop, AwaitOperator, MarkBlocked
  <2>2. UNCHANGED <<unread, render, draft, shown, newest>>
    BY <1>2 DEF LoopQuiet, card, renders
  <2> QED BY <1>2, <2>1, <2>2, QuietKeepsButtons
          DEF LoopQuiet, CardCurrent, NewestView, DrawDue
<1>3. CASE LoopEvent
  BY <1>3 DEF LoopEvent, CardCurrent, DrawDue
<1>4. CASE Reconnect
  <2>1. Poller \in Renderers /\ Owe(Poller)
    BY <1>4 DEF Reconnect, Renderers
  <2> QED BY <2>1, OweIsDue DEF CardCurrent
<1>5. CASE PollStep
  <2>1. CASE PollFetch
    <3>1. Poller \in Renderers /\ Owe(Poller)
      BY <2>1 DEF PollFetch, Renderers
    <3> QED BY <3>1, OweIsDue DEF CardCurrent
  <2>2. CASE PollBegins \/ PollMark
    BY <2>2, CardCurrentKept
       DEF PollBegins, PollMark, ButtonState, PendingRefs, DrawDue, renders
  <2> QED BY <1>5, <2>1, <2>2 DEF PollStep
<1>6. CASE CardRestart
  BY <1>6 DEF CardRestart, CardCurrent
<1>7. CASE (SleepPaused /\ UNCHANGED card) \/ UNCHANGED cardVars
  BY <1>7, CardCurrentKept
     DEF SleepPaused, cardVars, card, ButtonState, PendingRefs, DrawDue, renders
<1> QED BY <1>1, <1>2, <1>3, <1>4, <1>5, <1>6, <1>7, HandlerCurrent,
           RenderingCurrent DEF CardNext

\* The card's variables keep their types: in particular the card only ever
\* shows buttons that the bot has a command for.
THEOREM CardTypeCorrect == CardSpec => []CardTypeOK
<1>1. Buttons \subseteq Labels /\ Buttons' \subseteq Labels
  BY DEF Buttons, Labels
<1>2. CardInit => CardTypeOK
  <2> SUFFICES ASSUME CardInit PROVE CardTypeOK
    OBVIOUS
  <2>1. /\ unread = FALSE /\ reading = "starting" /\ shown = {}
        /\ newest = "shown" /\ failureNoted = FALSE /\ restarts = 0
    BY DEF CardInit
  <2>2. render \in [Renderers -> {"none", "owed", "drawn"}]
    BY DEF CardInit, OnlyPollerOwes
  <2>3. draft \in [Renderers -> SUBSET Labels]
    BY DEF CardInit, NoDrafts
  <2>4. review \in [Sessions -> {"none", "checked", "running"}]
    BY DEF CardInit
  <2> QED BY <2>1, <2>2, <2>3, <2>4 DEF CardTypeOK
<1>3. CardTypeOK /\ [CardNext]_cardVars => CardTypeOK'
  <2> SUFFICES ASSUME CardTypeOK, [CardNext]_cardVars PROVE CardTypeOK'
    OBVIOUS
  <2> HIDE DEF vars, loopVars, cmdVars, dbVars, history
  <2>1. CASE \/ LoopStarts \/ LoopQuiet
             \/ SleepPaused /\ UNCHANGED card
             \/ UNCHANGED cardVars
    BY <2>1 DEF LoopStarts, LoopQuiet, card, renders, cardVars, CardTypeOK
  <2>2. CASE LoopEvent
    BY <2>2 DEF LoopEvent, renders, CardTypeOK
  <2>3. ASSUME NEW s \in Sessions, Handler(s) PROVE CardTypeOK'
    <3>1. s \in Renderers
      BY DEF Renderers
    <3>2. CASE AskRender(s) \/ CommandDecides(s)
      BY <2>3, <3>1, <3>2 DEF AskRender, CommandDecides, Owe, CardTypeOK
    <3>3. CASE CommandBegins(s)
      BY <3>3 DEF CommandBegins, card, renders, CardTypeOK
    <3>4. CASE CommandWrites(s)
      BY <3>1, <3>4 DEF CommandWrites, Owe, renders, CardTypeOK
    <3>5. CASE ReviewCheck(s) \/ ReviewStart(s) \/ ReviewEnd(s)
      <4>1. \A r \in {"none", "checked", "running"} :
              [review EXCEPT ![s] = r] \in [Sessions -> {"none", "checked", "running"}]
        BY DEF CardTypeOK
      <4> QED BY <3>1, <3>5, <4>1
              DEF ReviewCheck, ReviewStart, ReviewEnd, Owe, renders, vars, CardTypeOK
    <3> QED BY <2>3, <3>2, <3>3, <3>4, <3>5 DEF Handler
  <2>4. ASSUME NEW x \in Renderers, Rendering(x) PROVE CardTypeOK'
    <3>1. CASE Draw(x)
      BY <1>1, <3>1 DEF Draw, CardTypeOK
    <3>2. CASE Show(x)
      BY <3>2 DEF Show, Rendered, CardTypeOK
    <3>3. CASE RenderFails(x)
      BY <3>3 DEF RenderFails, Rendered, CardTypeOK
    <3> QED BY <2>4, <3>1, <3>2, <3>3 DEF Rendering
  <2>5. CASE Reconnect \/ PollStep
    <3>1. Poller \in Renderers
      BY DEF Renderers
    <3> QED BY <2>5, <3>1 DEF Reconnect, PollStep, PollBegins, PollFetch, PollMark,
                              Owe, renders, CardTypeOK
  <2>6. CASE CardRestart
    <3>1. [s \in Sessions |-> "none"] \in [Sessions -> {"none", "checked", "running"}]
      OBVIOUS
    <3>2. \A x \in Renderers : draft[x] \subseteq Labels
      BY DEF CardTypeOK
    <3>3. unread' \in BOOLEAN /\ failureNoted' \in BOOLEAN /\ shown' \subseteq Labels
      BY <2>6, <3>2 DEF CardRestart, CardTypeOK
    <3>4. restarts' \in Nat
      BY <2>6 DEF CardRestart, CardTypeOK
    <3>5. /\ render' \in [Renderers -> {"none", "owed", "drawn"}]
          /\ draft' \in [Renderers -> SUBSET Labels]
          /\ newest' = "failed" /\ reading' = "starting"
      BY <2>6 DEF CardRestart, OnlyPollerOwes, NoDrafts
    <3>6. review' = [s \in Sessions |-> "none"]
      BY <2>6 DEF CardRestart
    <3> QED BY <3>1, <3>3, <3>4, <3>5, <3>6 DEF CardTypeOK
  <2> QED BY <2>1, <2>2, <2>3, <2>4, <2>5, <2>6 DEF CardNext
<1> QED BY <1>2, <1>3, PTL DEF CardSpec

\* Unless the loop crashed, a settled card shows the buttons of the state the
\* loop waits in whenever the view drawn last is the one shown last, for any
\* number of tasks, handlers, overlapping renders, reviews and restarts: an
\* overtaken or failed render is the only way the card can be left wrong.
THEOREM CardIsCurrent == CardSpec => []CardSettles
<1>1. CardInit => CardCurrent /\ DecisionKept
  BY DEF CardInit, CardCurrent, DecisionKept, Init, DrawDue, OnlyPollerOwes,
         Renderers
<1>2. IInv /\ CardTypeOK /\ CardCurrent /\ DecisionKept /\ [CardNext]_cardVars =>
        (CardCurrent /\ DecisionKept)'
  BY CardCurrentStep, DecisionKeptStep, CardStepImplements
<1>3. CardCurrent => CardSettles
  BY CardAssumption DEF CardCurrent, CardSettles, Settled, Waiting, DrawDue,
                        NewestView, DirtyPoints
<1> QED BY <1>1, <1>2, <1>3, CardImplementsLoop, Invariance, CardTypeCorrect,
           PTL DEF CardSpec
=============================================================================
