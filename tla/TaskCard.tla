------------------------------ MODULE TaskCard ------------------------------
(***************************************************************************)
(* The control card of a task, as src/discord/taskRenderer.ts keeps it:    *)
(* one message in the task's thread, edited as the row changes, with its   *)
(* id and its pin stored in task_control_cards.                            *)
(*                                                                         *)
(* Every turn of the task has a renderer of its own, numbered in order,    *)
(* and changes the row and tells that renderer alone, whatever turn the    *)
(* row belongs to by then: a turn that was cancelled still ends, after the *)
(* task was opened again.  Only a cancellation, and the events of a run,   *)
(* go to the renderer in activeRenderers.  A renderer draws one card at a  *)
(* time and remembers only the latest context of those asked for           *)
(* meanwhile.  A context is the version of the row it was read from.       *)
(* Requests to Discord fail, a sent card may appear although its answer is *)
(* lost, and members delete messages: at most MaxFaults of these.  Left    *)
(* out: the end of a shutdown, which disposes the active renderers before  *)
(* the process exits, and the wait for handle between an event and the     *)
(* update it asks for.                                                     *)
(***************************************************************************)
EXTENDS Naturals, Sequences, FiniteSets, FiniteSetsExt

CONSTANTS
    MaxTurns,       \* bound on renderers
    MaxVersions,    \* bound on changes of the row
    MaxFaults,      \* bound on failures of Discord, deletions and crashes
    CanPin          \* controlCardCanPin(thread)

ASSUME CardAssumption ==
    /\ MaxTurns \in Nat \ {0} /\ MaxVersions \in Nat /\ MaxFaults \in Nat
    /\ CanPin \in BOOLEAN

Renderers == 1..MaxTurns
NoCard == 0
NoRenderer == 0

VARIABLES
    version,    \* of the task's row
    open,       \* its status is not terminal
    active,     \* activeRenderers.get(taskId), or NoRenderer
    store,      \* task_control_cards: message and pin
    cards, shown, pinned,   \* the thread (external)
    life,       \* of each renderer
    over,       \* its turn came to finalizeTask or failStartingTask
    latest, scheduled,      \* latestCardContext, cardUpdateScheduled
    drawing,    \* what renderControlCard awaits
    context, persistedPin,  \* its locals
    message, pinAttempted, textOnly,    \* controlCardMessage, ..., controlCardEmbedsDisabled
    told,       \* history: the renderers told of the row as it is now
    failed,     \* history: the renderer's last drawing threw
    drawnBy,    \* history: the renderer that wrote each card last
    strays,     \* history: how many cards were sent and their answer lost
    overlapped, \* history: a renderer was started before the last one was done
    faults

cardVars == <<version, open, active, store, cards, shown, pinned, life, over,
              latest, scheduled, drawing, context, persistedPin, message,
              pinAttempted, textOnly, told, failed, drawnBy, strays, overlapped, faults>>

row    == <<version, open, active, over, told>>
thread == <<cards, shown, pinned, drawnBy, strays, overlapped>>
queue  == <<life, latest, scheduled>>
locals == <<context, persistedPin>>
fields == <<message, pinAttempted, textOnly>>

CardInit ==
    /\ version = 0 /\ open = FALSE /\ active = NoRenderer /\ told = {}
    /\ store = [message |-> NoCard, pin |-> "none"]
    /\ cards = {} /\ shown = << >> /\ pinned = {} /\ drawnBy = << >>
    /\ strays = 0 /\ overlapped = FALSE
    /\ life = [r \in Renderers |-> "none"]
    /\ over = [r \in Renderers |-> FALSE]
    /\ latest = [r \in Renderers |-> 0]
    /\ scheduled = [r \in Renderers |-> FALSE]
    /\ drawing = [r \in Renderers |-> "nothing"]
    /\ context = [r \in Renderers |-> 0]
    /\ persistedPin = [r \in Renderers |-> "none"]
    /\ message = [r \in Renderers |-> NoCard]
    /\ pinAttempted = [r \in Renderers |-> FALSE]
    /\ textOnly = [r \in Renderers |-> FALSE]
    /\ failed = [r \in Renderers |-> FALSE]
    /\ faults = 0

Fault == faults < MaxFaults /\ faults' = faults + 1

-----------------------------------------------------------------------------
(* The coordinator's side.                                                  *)

\* Slip: while a card is drawn the update is forgotten.
UpdateCardWhenIdle(r, v) ==
    IF drawing[r] = "nothing"
    THEN latest' = [latest EXCEPT ![r] = v] /\ scheduled' = [scheduled EXCEPT ![r] = TRUE]
    ELSE UNCHANGED <<latest, scheduled>>

\* updateCard with the row as it is now: one drawing is queued at most.
UpdateCard(r, v) ==
    /\ latest' = [latest EXCEPT ![r] = v]
    /\ scheduled' = [scheduled EXCEPT ![r] = TRUE]

Idle(r) == ~scheduled[r] /\ drawing[r] = "nothing"

\* disposed is not set.
TakesUpdates(r) == life[r] \in {"started", "ended", "finishing"}

\* The turn, whose handlers may go on after its renderer is gone.
Alive(r) == life[r] \notin {"none", "dead"}

\* It draws, or may be told to.
AtWork(r) == TakesUpdates(r) \/ ~Idle(r)

RowChanges == version < MaxVersions /\ version' = version + 1

\* syncRendererCard after a change of the row: a renderer that is disposed
\* takes no update.
Tell(r) ==
    IF TakesUpdates(r) THEN UpdateCard(r, version') /\ told' = {r}
    ELSE told' = {} /\ UNCHANGED <<latest, scheduled>>

\* The renderer's turn is known to have ended; finish follows.
Ends(r) == life' = [life EXCEPT ![r] = IF @ = "started" THEN "ended" ELSE @]

\* startRendererSafely: a turn opens the row, at first or again.
StartRenderer(r) ==
    /\ life[r] = "none"
    /\ \A q \in Renderers : q < r => life[q] # "none"
    /\ ~open
    /\ RowChanges
    /\ open' = TRUE
    /\ active' = r
    /\ life' = [life EXCEPT ![r] = "started"]
    /\ UpdateCard(r, version')
    /\ told' = {r}
    /\ overlapped' = (overlapped \/ \E q \in Renderers : AtWork(q))
    /\ UNCHANGED <<over, store, cards, shown, pinned, drawnBy, strays, drawing, locals,
                   fields, failed, faults>>

\* A turn moves the row on, to running or to and from waiting_for_user.
SyncCard(r) ==
    /\ Alive(r)
    /\ open
    /\ RowChanges
    /\ Tell(r)
    /\ UNCHANGED <<open, active, over, store, thread, life, drawing, locals, fields, failed, faults>>

\* syncRendererCard without a change, for a status event of the active run.
StatusCard(r) ==
    /\ active = r /\ open
    /\ TakesUpdates(r)
    /\ UpdateCard(r, version)
    /\ told' = told \cup {r}
    /\ UNCHANGED <<version, open, active, over, store, thread, life, drawing, locals,
                   fields, failed, faults>>

\* finalizeTask and failStartingTask of a row that is not terminal.  There is
\* nothing to finish in a renderer that is disposed.
TurnEnds(r) ==
    /\ Alive(r) /\ ~over[r]
    /\ over' = [over EXCEPT ![r] = TRUE]
    /\ open
    /\ RowChanges
    /\ open' = FALSE
    /\ Tell(r)
    /\ Ends(r)
    /\ active' = IF TakesUpdates(r) THEN active ELSE NoRenderer
    /\ UNCHANGED <<store, thread, drawing, locals, fields, failed, faults>>

\* The row has its result: finalizeTask drops the entry and returns;
\* failStartingTask goes on to finish.
TurnEnded(r) ==
    /\ Alive(r) /\ ~over[r]
    /\ over' = [over EXCEPT ![r] = TRUE]
    /\ ~open
    /\ \/ active' = NoRenderer /\ UNCHANGED <<life, latest, scheduled, told>>
       \/ /\ life[r] = "started" /\ Ends(r)
          /\ UpdateCard(r, version) /\ told' = told \cup {r}
          /\ UNCHANGED active
    /\ UNCHANGED <<version, open, store, thread, drawing, locals, fields, failed, faults>>

\* cancelByThread.
CancelCard ==
    /\ open
    /\ RowChanges
    /\ open' = FALSE
    /\ IF active = NoRenderer THEN told' = {} /\ UNCHANGED <<life, latest, scheduled>>
       ELSE Tell(active) /\ Ends(active)
    /\ UNCHANGED <<active, over, store, thread, drawing, locals, fields, failed, faults>>

\* finish, when the update before it was drawn: the last context is drawn once
\* more, with the result.
FinishCard(r) ==
    /\ life[r] = "ended" /\ Idle(r)
    /\ life' = [life EXCEPT ![r] = "finishing"]
    /\ UpdateCard(r, latest[r])
    /\ UNCHANGED <<row, store, thread, drawing, locals, fields, failed, faults>>

\* dispose, also after finish failed, waits for the queue; the entry in
\* activeRenderers is deleted, whoever's it is (once, also when a cancellation
\* and the turn's own end both finish the renderer).
DisposeRenderer(r) ==
    /\ life[r] \in {"ended", "finishing"} /\ Idle(r)
    /\ life' = [life EXCEPT ![r] = "disposed"]
    /\ active' = NoRenderer
    /\ UNCHANGED <<version, open, over, told, store, thread, latest, scheduled, drawing,
                   locals, fields, failed, faults>>

\* recoverInterruptedTasks after a restart; notifyRecoveredTasks draws the card
\* with a renderer that nobody else knows, if the thread is found.
RecoverCard ==
    /\ open /\ \A r \in Renderers : ~Alive(r)
    /\ RowChanges
    /\ open' = FALSE
    /\ \/ told' = {} /\ UNCHANGED <<life, latest, scheduled, over>>
       \/ \E r \in Renderers :
             /\ life[r] = "none" /\ \A q \in Renderers : q < r => life[q] # "none"
             /\ life' = [life EXCEPT ![r] = "disposed"]
             /\ over' = [over EXCEPT ![r] = TRUE]
             /\ UpdateCard(r, version')
             /\ told' = {r}
    /\ UNCHANGED <<active, store, thread, drawing, locals, fields, failed, faults>>

-----------------------------------------------------------------------------
(* renderControlCard.                                                       *)

Draw(r, step) == drawing' = [drawing EXCEPT ![r] = step]

Throws(r) == Draw(r, "nothing") /\ failed' = [failed EXCEPT ![r] = TRUE]

\* The latest context is taken when the drawing starts.
DrawStarts(r) ==
    /\ scheduled[r] /\ drawing[r] = "nothing"
    /\ scheduled' = [scheduled EXCEPT ![r] = FALSE]
    /\ context' = [context EXCEPT ![r] = latest[r]]
    /\ persistedPin' = [persistedPin EXCEPT ![r] = store.pin]
    /\ failed' = [failed EXCEPT ![r] = FALSE]
    /\ CASE message[r] # NoCard -> Draw(r, "editing") /\ UNCHANGED message
         [] message[r] = NoCard /\ store.message # NoCard ->
               Draw(r, "fetching") /\ message' = [message EXCEPT ![r] = store.message]
         [] OTHER -> Draw(r, "sending") /\ UNCHANGED message
    /\ UNCHANGED <<row, store, thread, life, latest, pinAttempted, textOnly, faults>>

\* messages.fetch: the card, its absence, or an error that is thrown on.
FetchAnswered(r) ==
    /\ drawing[r] = "fetching"
    /\ \/ /\ message[r] \in cards
          /\ Draw(r, "editing")
          /\ UNCHANGED <<persistedPin, message, pinAttempted, failed, faults>>
       \/ /\ message[r] \notin cards
          /\ message' = [message EXCEPT ![r] = NoCard]
          /\ IF persistedPin[r] = "failed" THEN UNCHANGED <<persistedPin, pinAttempted>>
             ELSE /\ persistedPin' = [persistedPin EXCEPT ![r] = "unknown"]
                  /\ pinAttempted' = [pinAttempted EXCEPT ![r] = FALSE]
          /\ Draw(r, "sending")
          /\ UNCHANGED <<failed, faults>>
       \/ /\ Fault
          /\ message' = [message EXCEPT ![r] = NoCard]
          /\ Throws(r)
          /\ UNCHANGED <<persistedPin, pinAttempted>>
    /\ UNCHANGED <<row, store, thread, queue, context, textOnly>>

\* The card m is drawn and the store says saved; it is pinned once, unless its
\* pin is already decided.
PinOrDone(r, m, pin, saved) ==
    IF ~pinAttempted[r] /\ pin \in {"none", "unknown"}
    THEN /\ pinAttempted' = [pinAttempted EXCEPT ![r] = TRUE]
         /\ IF CanPin
            THEN Draw(r, "pinning") /\ store' = saved
            ELSE Draw(r, "nothing") /\ store' = [message |-> m, pin |-> "not_pinned"]
    ELSE Draw(r, "nothing") /\ store' = saved /\ UNCHANGED pinAttempted

NextCard == Cardinality(DOMAIN shown) + 1

Appears(r) ==
    /\ cards' = cards \cup {NextCard}
    /\ shown' = Append(shown, context[r])
    /\ drawnBy' = Append(drawnBy, r)

\* thread.send: as an embed, then as plain text.
SendAnswered(r) ==
    /\ drawing[r] \in {"sending", "sending text"}
    /\ \/ /\ Appears(r)
          /\ message' = [message EXCEPT ![r] = NextCard]
          /\ LET pin == IF persistedPin[r] = "none" THEN "unknown" ELSE persistedPin[r] IN
             PinOrDone(r, NextCard, pin, [message |-> NextCard, pin |-> pin])
          /\ UNCHANGED <<strays, textOnly, failed, faults>>
       \/ /\ Fault
          /\ \/ UNCHANGED <<cards, shown, drawnBy, strays>>
             \/ Appears(r) /\ strays' = strays + 1
          /\ IF drawing[r] = "sending" /\ ~textOnly[r]
             THEN /\ textOnly' = [textOnly EXCEPT ![r] = TRUE]
                  /\ Draw(r, "sending text")
                  /\ UNCHANGED failed
             ELSE Throws(r) /\ UNCHANGED textOnly
          /\ UNCHANGED <<store, message, pinAttempted>>
    /\ UNCHANGED <<row, pinned, overlapped, queue, locals>>

\* message.edit: as an embed, then as plain text; then the card is forgotten,
\* to be fetched by the next drawing.
EditAnswered(r) ==
    /\ drawing[r] \in {"editing", "editing text"}
    /\ \/ /\ message[r] \in cards
          /\ shown' = [shown EXCEPT ![message[r]] = context[r]]
          /\ drawnBy' = [drawnBy EXCEPT ![message[r]] = r]
          /\ PinOrDone(r, message[r], persistedPin[r], store)
          /\ UNCHANGED <<message, textOnly, failed, faults>>
       \/ /\ IF message[r] \in cards THEN Fault ELSE UNCHANGED faults
          /\ textOnly' = [textOnly EXCEPT ![r] = TRUE]
          /\ IF drawing[r] = "editing"
             THEN Draw(r, "editing text") /\ UNCHANGED <<message, failed>>
             ELSE message' = [message EXCEPT ![r] = NoCard] /\ Throws(r)
          /\ UNCHANGED <<store, shown, drawnBy, pinAttempted>>
    /\ UNCHANGED <<row, cards, pinned, strays, overlapped, queue, locals>>

\* message.pin: its outcome is stored and never tried again.
PinAnswered(r) ==
    /\ drawing[r] = "pinning"
    /\ Draw(r, "nothing")
    /\ \/ /\ message[r] \in cards
          /\ pinned' = pinned \cup {message[r]}
          /\ store' = [message |-> message[r], pin |-> "pinned"]
          /\ UNCHANGED faults
       \/ /\ IF message[r] \in cards THEN Fault ELSE UNCHANGED faults
          /\ store' = [message |-> message[r], pin |-> "failed"]
          /\ UNCHANGED pinned
    /\ UNCHANGED <<row, cards, shown, drawnBy, strays, overlapped, queue, locals, fields, failed>>

-----------------------------------------------------------------------------
DeleteCard ==
    /\ Fault
    /\ \E m \in cards : cards' = cards \ {m} /\ pinned' = pinned \ {m}
    /\ UNCHANGED <<row, store, shown, drawnBy, strays, overlapped, queue, drawing, locals, fields, failed>>

\* The process dies; a card on its way may still arrive.
CardCrash ==
    /\ Fault
    /\ \E r \in Renderers : Alive(r)
    /\ \/ UNCHANGED <<cards, shown, drawnBy, strays>>
       \/ \E r \in Renderers : /\ drawing[r] \in {"sending", "sending text"}
                               /\ Appears(r) /\ strays' = strays + 1
    /\ life' = [r \in Renderers |-> IF Alive(r) THEN "dead" ELSE life[r]]
    /\ active' = NoRenderer
    /\ scheduled' = [r \in Renderers |-> FALSE]
    /\ drawing' = [r \in Renderers |-> "nothing"]
    /\ UNCHANGED <<version, open, over, told, store, pinned, overlapped, latest, locals,
                   fields, failed>>

CardNext ==
    \/ \E r \in Renderers :
          \/ StartRenderer(r) \/ SyncCard(r) \/ StatusCard(r)
          \/ TurnEnds(r) \/ TurnEnded(r)
          \/ FinishCard(r) \/ DisposeRenderer(r)
          \/ DrawStarts(r) \/ FetchAnswered(r) \/ SendAnswered(r) \/ EditAnswered(r)
          \/ PinAnswered(r)
    \/ CancelCard
    \/ RecoverCard
    \/ DeleteCard
    \/ CardCrash

CardSpec == CardInit /\ [][CardNext]_cardVars

-----------------------------------------------------------------------------
Newest(r) == Alive(r) /\ \A q \in Renderers : q > r => life[q] = "none"

\* Nothing is left to draw, the last drawing did not fail, and no older
\* renderer drew over the card.
IsDrawn(r) ==
    /\ Idle(r) /\ ~failed[r]
    /\ message[r] \in cards /\ drawnBy[message[r]] = r

ShowsVersion(r) == shown[message[r]] = version

\* The newest renderer's card shows the row as it is, if that renderer was told
\* of it at all: by its own turn, an event of its run, or a cancellation.
ShowsRow == \A r \in told : Newest(r) /\ IsDrawn(r) => ShowsVersion(r)


\* While no two renderers were at work at a time, no second card exists but
\* those whose answers were lost.
OneCard == ~overlapped => Cardinality(cards) <= 1 + strays

\* A stored pin is the pin of the stored card.
PinIsOfTheCard ==
    store.pin = "pinned" /\ store.message \in cards => store.message \in pinned

\* However updates, drawings, answers, failures, deletions and restarts
\* interleave, and whichever turn changes the row: a card comes to show what
\* its renderer was told last, it stays one message, and what the table says of
\* its pin is so.
CardIsFaithful == ShowsRow /\ OneCard /\ PinIsOfTheCard
=============================================================================
