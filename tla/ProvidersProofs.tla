--------------------------- MODULE ProvidersProofs ---------------------------
(***************************************************************************)
(* The three providers implement the contract the coordinator relies on,   *)
(* for any number of runs, requests, retries and sign-ins.                 *)
(***************************************************************************)
EXTENDS MCProviders, TLAPS

-----------------------------------------------------------------------------
(* Codex.  Two runs at work on the thread have met, and one that has not is *)
(* the active one or is ending; the transport does not matter.              *)

IsEnding(r) == \E status \in Statuses : <<r, status>> \in ending

CodexTypeOK ==
    /\ stage \in [CodexRuns -> {"none", "resuming", "announcing", "starting", "returned", "refused"}]
    /\ outcome \in [CodexRuns -> {"pending", "rejected"} \cup Statuses]
    /\ active \in CodexRuns \cup {NoRun}
    /\ ending \subseteq CodexRuns \X Statuses

Begun ==
    /\ active # NoRun => stage[active] # "none"
    /\ \A r \in CodexRuns : IsEnding(r) => stage[r] # "none"

HaveMet == \A q, r \in CodexRuns : q # r /\ AtWork(q) /\ AtWork(r) => q \in met

Driven ==
    \A r \in CodexRuns \ met :
        subscribed /\ AtWork(r) /\ outcome[r] = "pending" => active = r \/ IsEnding(r)

CodexInv == CodexTypeOK /\ Begun /\ HaveMet /\ Driven

LEMMA CodexStart == CodexInit => CodexInv
  BY DEF CodexInit, CodexInv, CodexTypeOK, Begun, HaveMet, Driven, IsEnding, AtWork, NoRun

\* A step that changes no run, whatever it does to the requests.
LEMMA CodexStutter ==
    ASSUME CodexInv, UNCHANGED <<stage, active, ending, outcome, subscribed, met>>
    PROVE  CodexInv'
  BY DEF CodexInv, CodexTypeOK, Begun, HaveMet, Driven, IsEnding, AtWork

\* A step that settles completions.
LEMMA CodexSettled ==
    ASSUME CodexInv, NEW rs, NEW with \in {"rejected"} \cup Statuses, Settles(rs, with),
           ending' \subseteq ending, active' \in {active, NoRun}, UNCHANGED <<stage, met>>
    PROVE  /\ CodexTypeOK' /\ HaveMet'
           /\ \A r \in CodexRuns : outcome'[r] = "pending" => r \notin rs /\ outcome[r] = "pending"
  <1>1. with # "pending" /\ outcome' \in [CodexRuns -> {"pending", "rejected"} \cup Statuses]
        /\ \A r \in CodexRuns : outcome'[r] = IF r \in rs /\ outcome[r] = "pending" THEN with ELSE outcome[r]
    BY DEF Settles, CodexInv, CodexTypeOK, Statuses
  <1> QED
    BY <1>1 DEF CodexInv, CodexTypeOK, HaveMet, AtWork

LEMMA CodexStep == ASSUME CodexInv, CodexNext PROVE CodexInv'
  <1> USE CodexAssumption DEF CodexInv
  <1>1. ASSUME NEW r \in CodexRuns, StartOrContinue(r) \/ ThreadAnswered(r) PROVE CodexInv'
    <2>1. PICK to \in {"resuming", "announcing", "refused"} : Goes(r, to)
      BY <1>1 DEF StartOrContinue, ThreadAnswered
    <2>2. stage[r] \in {"none", "resuming"} /\ UNCHANGED <<active, ending, outcome, subscribed, met>>
      BY <1>1 DEF StartOrContinue, ThreadAnswered
    <2> QED
      BY <2>1, <2>2 DEF Goes, CodexTypeOK, Begun, HaveMet, Driven, IsEnding, AtWork
  <1>2. ASSUME NEW r \in CodexRuns, Announced(r) PROVE CodexInv'
    BY <1>2 DEF Announced, Goes, CodexTypeOK, Begun, HaveMet, Driven, IsEnding, AtWork
  <1>3. ASSUME NEW r \in CodexRuns, TurnAnswered(r) PROVE CodexInv'
    <2>1. PICK to \in {"returned", "refused"} : Goes(r, to) /\ active' = IF to = "returned" THEN active ELSE NoRun
      BY <1>3 DEF TurnAnswered
    <2>2. stage[r] = "starting" /\ UNCHANGED <<ending, outcome, subscribed, met>>
      BY <1>3 DEF TurnAnswered
    <2>3. CodexTypeOK' /\ Begun' /\ HaveMet'
      BY <2>1, <2>2 DEF Goes, CodexTypeOK, Begun, HaveMet, IsEnding, AtWork
    <2>4. Driven'
      <3> SUFFICES ASSUME NEW q \in CodexRuns \ met, subscribed, AtWork(q)', outcome[q] = "pending"
                   PROVE  active' = q \/ IsEnding(q)
        BY <2>2 DEF Driven, IsEnding
      <3>1. AtWork(q) /\ AtWork(r)
        BY <2>1, <2>2 DEF AtWork, Goes, CodexTypeOK
      <3>2. q = r
        BY <3>1 DEF HaveMet
      <3>3. stage'[r] = "returned"
        BY <3>2, <2>1, <2>2 DEF AtWork, Goes, CodexTypeOK
      <3>4. active' = active
        BY <2>1, <3>3 DEF Goes, CodexTypeOK
      <3> QED
        BY <3>1, <3>4 DEF Driven
    <2> QED
      BY <2>3, <2>4
  <1>4. ASSUME NEW r \in CodexRuns, CancelRun(r) \/ ServerBegins(r) \/ ServerEnds(r) PROVE CodexInv'
    BY <1>4, CodexStutter DEF CancelRun, ServerBegins, ServerEnds
  <1>5. ASSUME NEW r \in CodexRuns, NEW status \in Statuses, Notified(r, status) PROVE CodexInv'
    BY <1>5 DEF Notified, CodexTypeOK, Begun, HaveMet, Driven, IsEnding, AtWork
  <1>6. ASSUME Resolves PROVE CodexInv'
    <2>1. PICK a \in CodexRuns, status \in Statuses : ending' = ending \ {<<a, status>>} /\ Settles({a}, status)
      BY <1>6 DEF Resolves
    <2>2. UNCHANGED <<stage, active, subscribed, met>>
      BY <1>6 DEF Resolves
    <2>3. CodexTypeOK' /\ HaveMet' /\ \A r \in CodexRuns : outcome'[r] = "pending" => r # a /\ outcome[r] = "pending"
      BY <2>1, <2>2, CodexSettled
    <2>4. \A r \in CodexRuns : /\ IsEnding(r)' => IsEnding(r)
                              /\ r # a /\ IsEnding(r) => IsEnding(r)'
      BY <2>1 DEF IsEnding
    <2>5. Begun'
      BY <2>1, <2>2 DEF Begun, IsEnding
    <2>6. Driven'
      <3> SUFFICES ASSUME NEW r \in CodexRuns \ met, subscribed, AtWork(r)', outcome'[r] = "pending"
                   PROVE  active = r \/ IsEnding(r)'
        BY <2>2 DEF Driven
      <3>1. r # a /\ outcome[r] = "pending" /\ AtWork(r)
        BY <2>2, <2>3 DEF AtWork
      <3> QED
        BY <2>4, <3>1 DEF Driven
    <2> QED
      BY <2>3, <2>5, <2>6
  <1>7. ASSUME ServerExits \/ CloseProvider PROVE CodexInv'
    <2>1. UNCHANGED <<stage, ending, met>>
      BY <1>7 DEF ServerExits, CloseProvider
    <2>2. CASE Settles({active}, "rejected") /\ active' = NoRun /\ subscribed' \in {subscribed, FALSE}
      <3>1. CodexTypeOK' /\ HaveMet'
            /\ \A r \in CodexRuns : outcome'[r] = "pending" => r # active /\ outcome[r] = "pending"
        BY <2>1, <2>2, CodexSettled
      <3>2. Begun'
        BY <2>1, <2>2 DEF Begun, IsEnding
      <3>3. Driven'
        <4> SUFFICES ASSUME NEW r \in CodexRuns \ met, subscribed', AtWork(r)', outcome'[r] = "pending"
                     PROVE  IsEnding(r)
          BY <2>1 DEF Driven, IsEnding
        <4>1. r # active /\ outcome[r] = "pending" /\ AtWork(r) /\ subscribed
          BY <2>1, <2>2, <3>1 DEF AtWork
        <4> QED
          BY <4>1 DEF Driven
      <3> QED
        BY <3>1, <3>2, <3>3
    <2>3. CASE UNCHANGED <<active, outcome, subscribed>>
      BY <2>1, <2>3, CodexStutter
    <2> QED
      BY <1>7, <2>2, <2>3 DEF ServerExits, CloseProvider
  <1>8. ASSUME UNCHANGED providerVars PROVE CodexInv'
    BY <1>8, CodexStutter DEF providerVars
  <1> QED
    BY <1>1, <1>2, <1>3, <1>4, <1>5, <1>6, <1>7, <1>8 DEF CodexNext, ServerAnswers, CloseTransport

-----------------------------------------------------------------------------
(* OpenCode.  Until two runs were mixed up, one is at work at a time, and   *)
(* it is the active one unless it was cancelled.                            *)

AcpResults == {"completed", "failed", "cancelled", "rejected"}

AcpTypeOK ==
    /\ opening \in [AcpRuns ->
                      {"none", "initialize", "session", "model", "announce", "returned", "refused"}]
    /\ link \in [AcpRuns -> {"none", "open", "closed"}]
    /\ running \in AcpRuns \cup {NoAcpRun}
    /\ report \in [AcpRuns -> {"none"} \cup (AcpResults \ {"rejected"})]
    /\ result \in [AcpRuns -> {"pending"} \cup AcpResults]
    /\ cancelled \subseteq AcpRuns /\ cancelling \subseteq cancelled
    /\ mixed \in BOOLEAN

AcpReports ==
    \A r \in AcpRuns :
        /\ report[r] # "none" => opening[r] = "returned"
        /\ report[r] = "cancelled" => r \in cancelled
        /\ result[r] # "pending" => report[r] # "none"

OneAtWork ==
    ~mixed => \A r \in AcpRuns : AtWorkAcp(r) =>
        /\ \A q \in AcpRuns : AtWorkAcp(q) => q = r
        /\ running \in {r, NoAcpRun}
        /\ running = r \/ r \in cancelled

AcpInv == AcpTypeOK /\ AcpReports /\ NoProcessIsLeft /\ OneAtWork

LEMMA AcpStart == AcpInit => AcpInv
  BY DEF AcpInit, AcpInv, AcpTypeOK, AcpResults, AcpReports, NoProcessIsLeft, AcpOver, OneAtWork,
         AtWorkAcp, NoAcpRun

LEMMA AcpStutter == ASSUME AcpInv, UNCHANGED acpVars PROVE AcpInv'
  BY DEF acpVars, AcpInv, AcpTypeOK, AcpReports, NoProcessIsLeft, AcpOver, OneAtWork, AtWorkAcp

LEMMA AcpStep == ASSUME AcpInv, AcpNext PROVE AcpInv'
  <1> USE AcpAssumption DEF AcpInv, NoAcpRun, AcpResults
  <1>1. ASSUME NEW r \in AcpRuns, OpenTask(r) PROVE AcpInv'
    BY <1>1 DEF OpenTask, AcpGoes, LinkGoes, AcpTypeOK, AcpReports, NoProcessIsLeft, AcpOver,
                OneAtWork, AtWorkAcp
  <1>2. ASSUME NEW r \in AcpRuns, StepAnswered(r) PROVE AcpInv'
    <2>1. PICK to \in {"session", "model", "announce"} :
              /\ AcpGoes(r, to)
              /\ IF to = "announce"
                 THEN running' = r /\ mixed' = (mixed \/ \E q \in AcpRuns \ {r} : AtWorkAcp(q))
                 ELSE UNCHANGED <<running, mixed>>
      BY <1>2 DEF StepAnswered, AfterStep
    <2>2. /\ opening[r] \in {"initialize", "session", "model"}
          /\ UNCHANGED <<link, cancelled, cancelling, report, result, given>>
      BY <1>2 DEF StepAnswered
    <2>3. AcpTypeOK' /\ AcpReports' /\ NoProcessIsLeft'
      BY <2>1, <2>2 DEF AcpGoes, AcpTypeOK, AcpReports, NoProcessIsLeft, AcpOver
    <2>4. \A q \in AcpRuns : AtWorkAcp(q)' => AtWorkAcp(q) \/ q = r
      BY <2>1, <2>2 DEF AcpGoes, AcpTypeOK, AtWorkAcp
    <2>5. CASE to = "announce"
      <3>1. ~mixed' => \A q \in AcpRuns : AtWorkAcp(q)' => q = r
        BY <2>1, <2>4, <2>5
      <3> QED
        BY <2>1, <2>3, <2>5, <3>1 DEF OneAtWork
    <2>6. CASE to # "announce"
      <3>1. AtWorkAcp(r)' => AtWorkAcp(r)
        BY <2>1, <2>2, <2>6 DEF AcpGoes, AcpTypeOK, AtWorkAcp
      <3> QED
        BY <2>1, <2>2, <2>3, <2>4, <2>6, <3>1 DEF OneAtWork
    <2> QED
      BY <2>5, <2>6
  <1>3. ASSUME NEW r \in AcpRuns, AcpAnnounced(r) PROVE AcpInv'
    BY <1>3 DEF AcpAnnounced, AcpGoes, AcpTypeOK, AcpReports, NoProcessIsLeft, AcpOver, OneAtWork, AtWorkAcp
  <1>4. ASSUME NEW r \in AcpRuns, OpenFails(r) PROVE AcpInv'
    BY <1>4 DEF OpenFails, AcpGoes, LinkGoes, AcpTypeOK, AcpReports, NoProcessIsLeft, AcpOver,
                OneAtWork, AtWorkAcp
  <1>5. ASSUME NEW r \in AcpRuns, ProcessEnds(r) PROVE AcpInv'
    BY <1>5 DEF ProcessEnds, LinkGoes, AcpTypeOK, AcpReports, NoProcessIsLeft, AcpOver, OneAtWork, AtWorkAcp
  <1>6. ASSUME NEW r \in AcpRuns, PromptAnswered(r) \/ PromptFails(r) PROVE AcpInv'
    <2>1. PICK to \in {"completed", "failed", "cancelled"} : Reports(r, to) /\ (to = "cancelled" => r \in cancelled)
      BY <1>6 DEF PromptAnswered, PromptFails, Failure
    <2>2. Prompting(r) /\ UNCHANGED <<opening, link, running, cancelled, cancelling, result, given, mixed>>
      BY <1>6 DEF PromptAnswered, PromptFails
    <2>3. AcpTypeOK' /\ AcpReports'
      BY <2>1, <2>2 DEF Reports, Prompting, AcpTypeOK, AcpReports
    <2>4. NoProcessIsLeft' /\ OneAtWork'
      BY <2>2 DEF NoProcessIsLeft, AcpOver, OneAtWork, AtWorkAcp
    <2> QED
      BY <2>3, <2>4
  <1>7. ASSUME NEW r \in AcpRuns, Reported(r) PROVE AcpInv'
    BY <1>7 DEF Reported, LinkGoes, Failure, AcpTypeOK, AcpReports, NoProcessIsLeft, AcpOver,
                OneAtWork, AtWorkAcp
  <1>8. ASSUME NEW r \in AcpRuns, CancelSession(r) PROVE AcpInv'
    <2>1. UNCHANGED <<opening, link, running, report, result, mixed>>
      BY <1>8 DEF CancelSession
    <2>2. CASE running = NoAcpRun
      <3>1. UNCHANGED <<cancelled, cancelling>>
        BY <1>8, <2>2 DEF CancelSession
      <3> QED
        BY <2>1, <3>1 DEF AcpTypeOK, AcpReports, NoProcessIsLeft, AcpOver, OneAtWork, AtWorkAcp
    <2>3. CASE running # NoAcpRun
      <3>1. running \in AcpRuns /\ cancelled' = cancelled \cup {running} /\ cancelling' = cancelling \cup {running}
        BY <1>8, <2>3 DEF CancelSession, AcpTypeOK
      <3>2. AcpTypeOK' /\ AcpReports' /\ NoProcessIsLeft'
        BY <2>1, <3>1 DEF AcpTypeOK, AcpReports, NoProcessIsLeft, AcpOver
      <3>3. \A q \in AcpRuns : AtWorkAcp(q)' => AtWorkAcp(q) \/ q = running
        BY <2>1, <3>1 DEF AtWorkAcp
      <3>4. OneAtWork'
        BY <2>1, <2>3, <3>1, <3>3 DEF OneAtWork, AcpTypeOK
      <3> QED
        BY <3>2, <3>4
    <2> QED
      BY <2>2, <2>3
  <1>9. ASSUME NEW r \in AcpRuns, CancelCloses(r) PROVE AcpInv'
    BY <1>9 DEF CancelCloses, LinkGoes, AcpTypeOK, AcpReports, NoProcessIsLeft, AcpOver, OneAtWork, AtWorkAcp
  <1> QED
    BY <1>1, <1>2, <1>3, <1>4, <1>5, <1>6, <1>7, <1>8, <1>9 DEF AcpNext

-----------------------------------------------------------------------------
(* Claude.  A run begins when all before it have a session, so that the one *)
(* that registers itself last is the newest.                                *)

ClaudeTypeOK ==
    /\ stream \in [ClaudeRuns -> {"none", "streaming", "over"}]
    /\ session \subseteq ClaudeRuns
    /\ promised \in [ClaudeRuns -> {"none", "pending", "fulfilled", "rejected"}]
    /\ finalResult \in [ClaudeRuns -> {"none", "completed", "failed"}]
    /\ controllers \in [task : ClaudeRuns \cup {NoClaudeRun}, session : ClaudeRuns \cup {NoClaudeRun}]
    /\ emitting \in [ClaudeRuns -> {"none", "failed", "cancelled", "interrupted"}]
    /\ ended \in [ClaudeRuns -> {"pending", "completed", "failed", "cancelled", "interrupted", "rejected"}]

ClaudeOrder ==
    /\ \A r \in ClaudeRuns : stream[r] # "none" => \A q \in ClaudeRuns : q < r => q \in session
    /\ \A r \in session : stream[r] # "none"

ClaudeReports ==
    \A r \in ClaudeRuns :
        /\ promised[r] = "none" <=> stream[r] = "none"
        /\ Streaming(r) /\ r \notin session => promised[r] = "pending"
        /\ emitting[r] # "none" \/ ended[r] # "pending" => stream[r] = "over"
        /\ emitting[r] = "cancelled" => r \in aborted

ClaudeInv == ClaudeTypeOK /\ ClaudeOrder /\ ClaudeReports /\ ClaudeRunIsFound

LEMMA ClaudeStart == ClaudeInit => ClaudeInv
  BY DEF ClaudeInit, ClaudeInv, ClaudeTypeOK, ClaudeOrder, ClaudeReports, ClaudeRunIsFound, Streaming

LEMMA ClaudeStutter == ASSUME ClaudeInv, UNCHANGED claudeVars PROVE ClaudeInv'
  BY DEF claudeVars, ClaudeInv, ClaudeTypeOK, ClaudeOrder, ClaudeReports, ClaudeRunIsFound, Streaming

LEMMA ClaudeStep == ASSUME ClaudeInv, ClaudeNext PROVE ClaudeInv'
  <1> USE ClaudeAssumption DEF ClaudeInv, NoClaudeRun
  <1>1. ASSUME NEW r \in ClaudeRuns, Execute(r) PROVE ClaudeInv'
    BY <1>1 DEF Execute, Resumed, ClaudeTypeOK, ClaudeOrder, ClaudeReports, ClaudeRunIsFound, Streaming
  <1>2. ASSUME NEW r \in ClaudeRuns, SessionArrives(r) PROVE ClaudeInv'
    BY <1>2 DEF SessionArrives, ClaudeTypeOK, ClaudeOrder, ClaudeReports, ClaudeRunIsFound, Streaming
  <1>3. ASSUME NEW r \in ClaudeRuns, RunReturned(r) \/ ResultArrives(r) PROVE ClaudeInv'
    <2>1. UNCHANGED <<stream, session, controllers, aborted, emitting, ended>>
      BY <1>3 DEF RunReturned, ResultArrives
    <2>2. ClaudeTypeOK'
      BY <1>3, <2>1 DEF RunReturned, ResultArrives, ClaudeTypeOK
    <2>3. ClaudeReports'
      BY <1>3, <2>1 DEF RunReturned, ResultArrives, ClaudeTypeOK, ClaudeReports, Streaming
    <2>4. ClaudeOrder' /\ ClaudeRunIsFound'
      BY <2>1 DEF ClaudeOrder, ClaudeRunIsFound
    <2> QED
      BY <2>2, <2>3, <2>4
  <1>4. ASSUME NEW r \in ClaudeRuns, StreamEnds(r) \/ StreamThrows(r) PROVE ClaudeInv'
    <2>1. PICK to \in {"failed", "interrupted", "cancelled"} : StreamOver(r, to) /\ (to = "cancelled" => r \in aborted)
      BY <1>4 DEF StreamEnds, StreamThrows
    <2>2. Streaming(r)
      BY <1>4 DEF StreamEnds, StreamThrows
    <2> QED
      BY <2>1, <2>2 DEF StreamOver, ClaudeTypeOK, ClaudeOrder, ClaudeReports, ClaudeRunIsFound, Streaming
  <1>5. ASSUME NEW r \in ClaudeRuns, StreamEndsWithResult(r) \/ SettlesRun(r) PROVE ClaudeInv'
    <2>1. PICK to \in {"completed", "failed", "cancelled", "interrupted", "rejected"} : Ends(r, to)
      BY <1>5 DEF StreamEndsWithResult, SettlesRun, ClaudeTypeOK
    <2>2. /\ Finally(r) /\ UNCHANGED <<session, promised, finalResult, aborted, emitting>>
          /\ stream[r] # "none" /\ stream' = [stream EXCEPT ![r] = "over"]
      BY <1>5 DEF StreamEndsWithResult, SettlesRun, Streaming, ClaudeTypeOK, ClaudeReports
    <2>3. ClaudeTypeOK'
      BY <2>1, <2>2 DEF Ends, Finally, ClaudeTypeOK
    <2>4. ClaudeOrder' /\ ClaudeReports'
      BY <2>1, <2>2 DEF Ends, ClaudeTypeOK, ClaudeOrder, ClaudeReports, Streaming
    <2>5. ClaudeRunIsFound'
      BY <2>1, <2>2 DEF Ends, Finally, ClaudeTypeOK, ClaudeRunIsFound
    <2> QED
      BY <2>3, <2>4, <2>5
  <1>6. ASSUME NEW r \in ClaudeRuns, TurnTimesOut(r) \/ CancelClaude(r) PROVE ClaudeInv'
    <2>1. /\ UNCHANGED <<stream, session, promised, finalResult, controllers, emitting, ended>>
          /\ aborted \subseteq aborted'
      BY <1>6 DEF TurnTimesOut, CancelClaude
    <2> QED
      BY <2>1 DEF ClaudeTypeOK, ClaudeOrder, ClaudeReports, ClaudeRunIsFound, Streaming
  <1> QED
    BY <1>1, <1>2, <1>3, <1>4, <1>5, <1>6 DEF ClaudeNext

-----------------------------------------------------------------------------
(* What a step does to the runs, seen as those of the contract.             *)

Ending(from, to, began, wasTold) ==
    \/ to = from
    \/ /\ from = "pending" /\ began
       /\ to \in {"completed", "failed", "cancelled", "interrupted", "rejected"}
       /\ to = "cancelled" => wasTold

LEMMA CodexImplements ==
    ASSUME CodexInv, CodexNext \/ UNCHANGED providerVars, NEW r \in CodexRuns
    PROVE  /\ Contract!PromiseMoves(CodexPromise(r), CodexPromise(r)')
           /\ Ending(outcome[r], outcome'[r], CodexPromise(r) # "none", FALSE)
           /\ stopped \subseteq stopped'
  <1> USE DEF CodexInv
  <1>1. stage'[r] = stage[r] \/ <<stage[r], stage'[r]>> \in
          {<<"none", "resuming">>, <<"resuming", "announcing">>, <<"resuming", "refused">>,
           <<"announcing", "starting">>, <<"announcing", "refused">>,
           <<"starting", "returned">>, <<"starting", "refused">>}
    BY DEF CodexNext, StartOrContinue, ThreadAnswered, Announced, TurnAnswered, CancelRun, ServerBegins,
           ServerEnds, Notified, ServerAnswers, Resolves, ServerExits, CloseProvider, CloseTransport,
           providerVars, Goes, CodexTypeOK
  <1>2. Contract!PromiseMoves(CodexPromise(r), CodexPromise(r)')
    BY <1>1 DEF Contract!PromiseMoves, CodexPromise, CodexTypeOK
  <1>3. stopped \subseteq stopped'
    BY DEF CodexNext, StartOrContinue, ThreadAnswered, Announced, TurnAnswered, CancelRun, ServerBegins,
           ServerEnds, Notified, ServerAnswers, Resolves, ServerExits, CloseProvider, CloseTransport,
           providerVars
  <1>4. \/ UNCHANGED outcome
        \/ \E a \in CodexRuns, status \in Statuses : <<a, status>> \in ending /\ Settles({a}, status)
        \/ Settles({active}, "rejected")
    BY DEF CodexNext, StartOrContinue, ThreadAnswered, Announced, TurnAnswered, CancelRun, ServerBegins,
           ServerEnds, Notified, ServerAnswers, Resolves, ServerExits, CloseProvider, CloseTransport,
           providerVars
  <1>5. Ending(outcome[r], outcome'[r], stage[r] # "none", FALSE)
    <2>1. CASE UNCHANGED outcome
      BY <2>1 DEF Ending
    <2>2. ASSUME NEW a \in CodexRuns, NEW status \in Statuses, <<a, status>> \in ending, Settles({a}, status)
          PROVE  Ending(outcome[r], outcome'[r], stage[r] # "none", FALSE)
      BY <2>2 DEF Ending, Settles, Statuses, Begun, IsEnding
    <2>3. CASE Settles({active}, "rejected")
      BY <2>3, CodexAssumption DEF Ending, Settles, Begun, NoRun
    <2> QED
      BY <1>4, <2>1, <2>2, <2>3
  <1>6. (CodexPromise(r) = "none") <=> (stage[r] = "none")
    BY DEF CodexPromise, CodexTypeOK
  <1> QED
    BY <1>2, <1>3, <1>5, <1>6 DEF Ending

LEMMA AcpImplements ==
    ASSUME AcpInv, AcpNext \/ UNCHANGED acpVars, NEW r \in AcpRuns
    PROVE  /\ Contract!PromiseMoves(AcpPromise(r), AcpPromise(r)')
           /\ Ending(result[r], result'[r], AcpPromise(r) # "none", r \in cancelled)
           /\ cancelled \subseteq cancelled'
  <1> USE DEF AcpInv
  <1>1. opening'[r] = opening[r] \/ <<opening[r], opening'[r]>> \in
          ({"none"} \X {"initialize"}) \cup ({"announce"} \X {"returned"}) \cup
          ({"initialize", "session", "model", "announce"} \X {"session", "model", "announce", "refused"})
    BY DEF AcpNext, OpenTask, StepAnswered, AfterStep, AcpAnnounced, OpenFails, ProcessEnds, PromptAnswered,
           PromptFails, Reported, CancelSession, CancelCloses, acpVars, AcpGoes, AcpTypeOK
  <1>2. Contract!PromiseMoves(AcpPromise(r), AcpPromise(r)')
    BY <1>1 DEF Contract!PromiseMoves, AcpPromise, AcpTypeOK
  <1>3. cancelled \subseteq cancelled'
    BY DEF AcpNext, OpenTask, StepAnswered, AcpAnnounced, OpenFails, ProcessEnds, PromptAnswered,
           PromptFails, Reported, CancelSession, CancelCloses, acpVars
  <1>4. UNCHANGED result \/ \E q \in AcpRuns : Reported(q)
    BY DEF AcpNext, OpenTask, StepAnswered, AcpAnnounced, OpenFails, ProcessEnds, PromptAnswered,
           PromptFails, CancelSession, CancelCloses, acpVars
  <1>5. Ending(result[r], result'[r], AcpPromise(r) # "none", r \in cancelled)
    <2>1. CASE UNCHANGED result
      BY <2>1 DEF Ending
    <2>2. ASSUME NEW q \in AcpRuns, Reported(q)
          PROVE  Ending(result[r], result'[r], AcpPromise(r) # "none", r \in cancelled)
      <3>1. CASE r # q
        BY <2>2, <3>1 DEF Reported, AcpTypeOK, Ending
      <3>2. CASE r = q
        <4>1. PICK to \in {report[r], Failure(r), "rejected"} : result' = [result EXCEPT ![r] = to]
          BY <2>2, <3>2 DEF Reported
        <4>2. report[r] # "none" /\ result[r] = "pending"
          BY <2>2, <3>2 DEF Reported
        <4>3. AcpPromise(r) # "none"
          BY <4>2 DEF AcpPromise, AcpReports
        <4>4. to \in AcpResults /\ (to = "cancelled" => r \in cancelled)
          BY <4>1, <4>2 DEF Failure, AcpReports, AcpTypeOK, AcpResults
        <4> QED
          BY <4>1, <4>2, <4>3, <4>4 DEF Ending, AcpTypeOK, AcpResults
      <3> QED
        BY <3>1, <3>2
    <2> QED
      BY <1>4, <2>1, <2>2
  <1> QED
    BY <1>2, <1>3, <1>5

LEMMA ClaudeImplements ==
    ASSUME ClaudeInv, ClaudeNext \/ UNCHANGED claudeVars, NEW r \in ClaudeRuns
    PROVE  /\ Contract!PromiseMoves(promised[r], promised'[r])
           /\ Ending(ended[r], ended'[r], promised[r] # "none", r \in aborted)
           /\ aborted \subseteq aborted'
  <1> USE DEF ClaudeInv
  <1>1. Contract!PromiseMoves(promised[r], promised'[r])
    BY DEF Contract!PromiseMoves, ClaudeNext, Execute, SessionArrives, RunReturned, ResultArrives, StreamEnds,
           StreamThrows, StreamOver, StreamEndsWithResult, SettlesRun, TurnTimesOut, CancelClaude, claudeVars,
           ClaudeTypeOK, ClaudeReports
  <1>2. aborted \subseteq aborted'
    BY DEF ClaudeNext, Execute, SessionArrives, RunReturned, ResultArrives, StreamEnds, StreamThrows,
           StreamOver, StreamEndsWithResult, SettlesRun, TurnTimesOut, CancelClaude, claudeVars
  <1>3. UNCHANGED ended \/ \E q \in ClaudeRuns : StreamEndsWithResult(q) \/ SettlesRun(q)
    BY DEF ClaudeNext, Execute, SessionArrives, RunReturned, ResultArrives, StreamEnds, StreamThrows,
           StreamOver, TurnTimesOut, CancelClaude, claudeVars
  <1>4. Ending(ended[r], ended'[r], promised[r] # "none", r \in aborted)
    <2>1. CASE UNCHANGED ended
      BY <2>1 DEF Ending
    <2>2. ASSUME NEW q \in ClaudeRuns, StreamEndsWithResult(q) \/ SettlesRun(q)
          PROVE  Ending(ended[r], ended'[r], promised[r] # "none", r \in aborted)
      <3>1. PICK to \in {"completed", "failed", "cancelled", "interrupted", "rejected"} :
                Ends(q, to) /\ (to = "cancelled" => q \in aborted)
        BY <2>2 DEF StreamEndsWithResult, SettlesRun, ClaudeTypeOK, ClaudeReports
      <3>2. ended[q] = "pending" /\ promised[q] # "none"
        BY <2>2 DEF StreamEndsWithResult, SettlesRun, Streaming, ClaudeTypeOK, ClaudeReports
      <3> QED
        BY <3>1, <3>2 DEF Ends, Ending, ClaudeTypeOK
    <2> QED
      BY <1>3, <2>1, <2>2
  <1> QED
    BY <1>1, <1>2, <1>4

-----------------------------------------------------------------------------
(* All three together.                                                      *)

Inv == CodexInv /\ AcpInv /\ ClaudeInv

\* Every step is a step of each provider, or leaves it as it is.
LEMMA Steps ==
    ASSUME [Next]_vars
    PROVE  /\ CodexNext \/ UNCHANGED providerVars
           /\ AcpNext \/ UNCHANGED acpVars
           /\ ClaudeNext \/ UNCHANGED claudeVars
  BY DEF Next, vars, TransportAlone, codexVars

LEMMA InvInductive == ASSUME Inv, [Next]_vars PROVE Inv'
  <1>1. CodexInv'
    BY Steps, CodexStep, CodexStutter DEF Inv, providerVars
  <1>2. AcpInv'
    BY Steps, AcpStep, AcpStutter DEF Inv
  <1>3. ClaudeInv'
    BY Steps, ClaudeStep, ClaudeStutter DEF Inv
  <1> QED
    BY <1>1, <1>2, <1>3 DEF Inv

LEMMA InvHolds == Spec => []Inv
  <1>1. Init => Inv
    BY CodexStart, AcpStart, ClaudeStart DEF Init, Inv
  <1>2. Inv /\ [Next]_vars => Inv'
    BY InvInductive
  <1> QED
    BY <1>1, <1>2, PTL DEF Spec

LEMMA RunsStart == ASSUME Init PROVE Contract!RunsInit
  BY DEF Init, CodexInit, AcpInit, ClaudeInit, Contract!RunsInit, AllRuns, CodexPromise, AcpPromise

\* A step of the providers is one of the contract.
LEMMA RunsStep == ASSUME Inv, [Next]_vars PROVE Contract!RunsNext
  <1>1. ASSUME NEW r \in CodexRuns
        PROVE  /\ Contract!PromiseMoves(CodexPromise(r), CodexPromise(r)')
               /\ Ending(outcome[r], outcome'[r], CodexPromise(r) # "none", FALSE)
               /\ stopped \subseteq stopped'
    BY Steps, CodexImplements DEF Inv
  <1>2. ASSUME NEW r \in AcpRuns
        PROVE  /\ Contract!PromiseMoves(AcpPromise(r), AcpPromise(r)')
               /\ Ending(result[r], result'[r], AcpPromise(r) # "none", r \in cancelled)
               /\ cancelled \subseteq cancelled'
    BY Steps, AcpImplements DEF Inv
  <1>3. ASSUME NEW r \in ClaudeRuns
        PROVE  /\ Contract!PromiseMoves(promised[r], promised'[r])
               /\ Ending(ended[r], ended'[r], promised[r] # "none", r \in aborted)
               /\ aborted \subseteq aborted'
    BY Steps, ClaudeImplements DEF Inv
  <1> DEFINE Promise == [x \in AllRuns |-> CASE x[1] = "codex" -> CodexPromise(x[2])
                                              [] x[1] = "opencode" -> AcpPromise(x[2])
                                              [] x[1] = "claude" -> promised[x[2]]]
             Completion == [x \in AllRuns |-> CASE x[1] = "codex" -> outcome[x[2]]
                                                 [] x[1] = "opencode" -> result[x[2]]
                                                 [] x[1] = "claude" -> ended[x[2]]]
             Told == {x \in AllRuns : CASE x[1] = "codex" -> x[2] \in stopped
                                         [] x[1] = "opencode" -> x[2] \in cancelled
                                         [] x[1] = "claude" -> x[2] \in aborted}
  <1>4. ASSUME NEW x \in AllRuns
        PROVE  /\ Contract!PromiseMoves(Promise[x], Promise'[x])
               /\ Ending(Completion[x], Completion'[x], Promise[x] # "none", x \in Told)
               /\ x \in Told => x \in Told'
    <2>1. CASE x[1] = "codex" /\ x[2] \in CodexRuns
      BY <2>1, <1>1 DEF Ending
    <2>2. CASE x[1] = "opencode" /\ x[2] \in AcpRuns
      BY <2>2, <1>2 DEF Ending
    <2>3. CASE x[1] = "claude" /\ x[2] \in ClaudeRuns
      BY <2>3, <1>3 DEF Ending
    <2> QED
      BY <2>1, <2>2, <2>3 DEF AllRuns
  <1> QED
    BY <1>4 DEF Contract!RunsNext, Contract!CompletionMoves, Ending

\* Whatever processes, requests and events do, the runs of every provider are
\* what the coordinator relies on: each promise is settled once, each completion
\* once and with an outcome of the run, and "cancelled" is only reported of a
\* run that was told to stop or whose time was over.
THEOREM RunsImplementContract == Spec => RunsAreRuns
  <1>1. Init => Contract!RunsInit
    BY RunsStart
  <1>2. Inv /\ [Next]_vars => [Contract!RunsNext]_(Contract!runVars)
    BY RunsStep
  <1> QED
    BY <1>1, <1>2, InvHolds, PTL DEF Spec, RunsAreRuns, Contract!RunsSpec

\* Nothing is left of a run that is over: no completion that nobody will settle
\* (Codex, unless two runs were at work on the thread at a time), no process
\* that nobody will end (OpenCode, whichever step fails).
THEOREM NothingIsLeftBehind == Spec => []NothingIsLeft
  <1>1. Inv => NothingIsLeft
    BY DEF Inv, CodexInv, Driven, IsEnding, AtWork, AcpInv, NothingIsLeft, NoRunIsForgotten
  <1> QED
    BY <1>1, InvHolds, PTL

\* A cancellation of a session finds its newest run in the maps by which
\* OpenCode and Claude know their runs, also while an earlier one still ends.
THEOREM CancelsFindRuns == Spec => []CancelFindsRun
  <1>1. Inv => CancelFindsRun
    BY DEF Inv, AcpInv, OneAtWork, AtWorkAcp, Prompting, ClaudeInv, CancelFindsRun, AcpRunIsFound
  <1> QED
    BY <1>1, InvHolds, PTL

=============================================================================
