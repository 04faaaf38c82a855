----------------------------- MODULE TaskStream -----------------------------
(***************************************************************************)
(* The text a provider streams into a task's thread, as                    *)
(* src/discord/taskRenderer.ts shows it: a buffer, the message it is being *)
(* written to, a timer that edits that message, and finish, which writes   *)
(* what is left.                                                           *)
(*                                                                         *)
(* Requests to Discord are awaited, and everything else may happen         *)
(* meanwhile: providers emit their events without waiting for each other.  *)
(* discord.js keeps the edits of a thread in order, and the sends; a       *)
(* request may fail.  Text is a sequence of units, numbered as they are    *)
(* emitted, and a message takes Limit of them.                             *)
(***************************************************************************)
EXTENDS Naturals, Sequences, SequencesExt, FiniteSetsExt

CONSTANTS
    Limit,      \* MESSAGE_LIMIT, in units
    MaxUnits    \* bound on the text of the turn

ASSUME StreamAssumption == Limit \in Nat \ {0} /\ MaxUnits \in Nat

VARIABLES
    given,      \* units handed to handle() and accepted
    buffer, currentMessage, dirty, flushing,
    stage,      \* "streaming", then the steps of finish
    chunks,     \* what finish has still to write
    edits, sends,   \* requests under way, in order
    messages,   \* the messages in the thread (external)
    lostRequest,    \* history: a request failed
    disturbed       \* history: text was written while a full message was being closed

streamVars == <<given, buffer, currentMessage, dirty, flushing, stage, chunks,
                edits, sends, messages, lostRequest, disturbed>>

None == 0   \* no current message; the message to be sent

StreamInit ==
    /\ given = 0
    /\ buffer = << >>
    /\ currentMessage = None
    /\ dirty = FALSE
    /\ flushing = FALSE
    /\ stage = "streaming"
    /\ chunks = << >>
    /\ edits = << >> /\ sends = << >>
    /\ messages = << >>
    /\ lostRequest = FALSE
    /\ disturbed = FALSE

Upto(n, text) == SubSeq(text, 1, Min({n, Len(text)}))
First(text) == Upto(Limit, text)
Rest(text) == SubSeq(text, Limit + 1, Len(text))

\* finalizeCurrentMessage is waiting for its edit.
Closing == \E i \in DOMAIN edits : edits[i].by = "close"

Ask(by, text) ==
    LET r == [by |-> by, message |-> currentMessage, text |-> text] IN
    IF currentMessage = None
    THEN sends' = Append(sends, r) /\ UNCHANGED edits
    ELSE edits' = Append(edits, r) /\ UNCHANGED sends

-----------------------------------------------------------------------------
\* Slip: the whole buffer is moved out with the full message.
TextDeltaDropped(n) ==
    /\ stage = "streaming"
    /\ given + n <= MaxUnits
    /\ given' = given + n
    /\ LET text == buffer \o [i \in 1..n |-> given + i] IN
       IF Len(text) > Limit /\ currentMessage # None
       THEN /\ Ask("close", First(text))
            /\ buffer' = << >>
            /\ dirty' = FALSE
            /\ disturbed' = (disturbed \/ Closing)
       ELSE /\ buffer' = text
            /\ dirty' = TRUE
            /\ UNCHANGED <<edits, sends, disturbed>>
    /\ UNCHANGED <<currentMessage, flushing, stage, chunks, messages, lostRequest>>

\* append, and finalizeCurrentMessage up to its edit when the current message
\* is full.
TextDelta(n) ==
    /\ stage = "streaming"
    /\ given + n <= MaxUnits
    /\ given' = given + n
    /\ LET text == buffer \o [i \in 1..n |-> given + i] IN
       IF Len(text) > Limit /\ currentMessage # None
       THEN /\ Ask("close", First(text))
            /\ buffer' = Rest(text)
            /\ dirty' = TRUE
            /\ disturbed' = (disturbed \/ Closing)
       ELSE /\ buffer' = text
            /\ dirty' = TRUE
            /\ UNCHANGED <<edits, sends, disturbed>>
    /\ UNCHANGED <<currentMessage, flushing, stage, chunks, messages, lostRequest>>

\* flush, from the timer, up to its request.
Flush ==
    /\ stage = "streaming"
    /\ ~flushing /\ dirty /\ buffer # << >>
    /\ flushing' = TRUE
    /\ dirty' = FALSE
    /\ Ask("flush", First(buffer))
    /\ disturbed' = (disturbed \/ Closing)
    /\ UNCHANGED <<given, buffer, currentMessage, stage, chunks, messages, lostRequest>>

\* finish: no event and no timer after it; it waits for a flush.
Finish ==
    /\ stage = "streaming"
    /\ stage' = "draining"
    /\ UNCHANGED <<given, buffer, currentMessage, dirty, flushing, chunks,
                   edits, sends, messages, lostRequest, disturbed>>

Chunks(text) ==
    [i \in 1..((Len(text) + Limit - 1) \div Limit) |->
        SubSeq(text, (i - 1) * Limit + 1, Min({i * Limit, Len(text)}))]

\* flushFinalText: the chunks of the buffer; without any, the cursor is taken
\* off the current message.
DrainStarts ==
    /\ stage = "draining" /\ ~flushing
    /\ stage' = "writing"
    /\ chunks' = IF buffer # << >> THEN Chunks(buffer)
                 ELSE IF currentMessage = None THEN << >>
                      ELSE <<messages[currentMessage].text>>
    /\ disturbed' = (disturbed \/ Closing)
    /\ UNCHANGED <<given, buffer, currentMessage, dirty, flushing, edits, sends,
                   messages, lostRequest>>

WritesChunk ==
    /\ stage = "writing" /\ chunks # << >>
    /\ Ask("final", Head(chunks))
    /\ chunks' = Tail(chunks)
    /\ stage' = "waiting"
    /\ UNCHANGED <<given, buffer, currentMessage, dirty, flushing, messages,
                   lostRequest, disturbed>>

StreamFinished ==
    /\ stage = "writing" /\ chunks = << >>
    /\ stage' = "finished"
    /\ buffer' = << >>
    /\ dirty' = FALSE
    /\ UNCHANGED <<given, currentMessage, flushing, chunks, edits, sends,
                   messages, lostRequest, disturbed>>

-----------------------------------------------------------------------------
\* What follows an awaited request: m is the message it wrote, or None if it
\* failed.
Continue(r, m) ==
    /\ flushing' = (flushing /\ r.by # "flush")
    /\ dirty' = (dirty \/ (r.by = "flush" /\ m = None))
    /\ currentMessage' =
         CASE r.by # "flush" -> None
           [] r.by = "flush" /\ r.message = None /\ m # None -> m
           [] OTHER -> currentMessage
    /\ stage' = IF r.by = "final" THEN "writing" ELSE stage
    /\ lostRequest' = (lostRequest \/ m = None)
    /\ UNCHANGED <<given, buffer, chunks, disturbed>>

Written(r) == [text |-> r.text, cursor |-> r.by = "flush"]

TextEditAnswered ==
    /\ edits # << >>
    /\ edits' = Tail(edits)
    /\ LET r == Head(edits) IN
       \/ messages' = [messages EXCEPT ![r.message] = Written(r)] /\ Continue(r, r.message)
       \/ UNCHANGED messages /\ Continue(r, None)
    /\ UNCHANGED sends

TextSendAnswered ==
    /\ sends # << >>
    /\ sends' = Tail(sends)
    /\ LET r == Head(sends) IN
       \/ messages' = Append(messages, Written(r)) /\ Continue(r, Len(messages) + 1)
       \/ UNCHANGED messages /\ Continue(r, None)
    /\ UNCHANGED edits

StreamNext ==
    \/ \E n \in 1..(Limit + 1) : TextDelta(n)
    \/ Flush
    \/ Finish
    \/ DrainStarts
    \/ WritesChunk
    \/ StreamFinished
    \/ TextEditAnswered
    \/ TextSendAnswered

StreamSpec == StreamInit /\ [][StreamNext]_streamVars

-----------------------------------------------------------------------------
Shown == FlattenSeq([i \in DOMAIN messages |-> messages[i].text])

\* When a turn has finished its thread shows all of its text, once, in order
\* and without a cursor - provided every request succeeded and nothing was
\* written while a full message was being closed.
UndisturbedStreamIsComplete ==
    stage = "finished" /\ ~lostRequest /\ ~disturbed =>
        /\ Shown = [i \in 1..given |-> i]
        /\ \A i \in DOMAIN messages : ~messages[i].cursor

\* The thread is for "streaming output": no text is missing once the turn has
\* finished, if Discord answered every request.  REFUTED, and checked by no
\* run: a full message that is edited again while it is closed loses its text.
StreamedTextIsShown ==
    stage = "finished" /\ ~lostRequest /\ edits = << >> /\ sends = << >> =>
        \A i \in 1..given : Contains(Shown, i)
=============================================================================
