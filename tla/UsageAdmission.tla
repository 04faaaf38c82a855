--------------------------- MODULE UsageAdmission ---------------------------
(***************************************************************************)
(* Admission of provider turns by capacity: src/services/usageAdmission.ts *)
(* over the tables of src/repositories/usageRepository.ts, with the        *)
(* readings that src/services/runtimeUsage.ts and the running turns        *)
(* record.  TaskCoordinator has the life of one reservation; this module   *)
(* has what the reservations promise together.                             *)
(*                                                                         *)
(* Capacity is counted in percentage points of a provider's window.  A     *)
(* turn that holds a reservation occupies a slot, which is free again once *)
(* the reservation is consumed or released.  Snapshots have no lifetime in *)
(* the code: the latest of a window counts until the next one.  Two        *)
(* snapshots of one window in one millisecond are left out.                *)
(***************************************************************************)
EXTENDS Integers, Sequences, SequencesExt, FiniteSetsExt

CONSTANTS
    Providers, Polled,  \* the providers, and those whose limits are polled
    Windows,            \* the windows the provider reports
    Prompts,            \* prompts, each the set of patterns of classify it matches
    Slots,              \* turns holding a reservation at a time
    Reserve,            \* primaryReserve()
    Remembered,         \* observations(...): the latest that count (50)
    Results,            \* the results of a provider's turns, see Cost
    Levels              \* the utilizations a provider's account passes through

ASSUME UsageAssumption ==
    /\ Polled \subseteq Providers
    /\ Reserve \in Nat
    /\ Levels \subseteq 0..100 /\ 0 \in Levels
    /\ Remembered \in Nat
    /\ IsFiniteSet(Windows)

Turn == "turn"          \* the window recordUsage writes
NoValue == -1              \* no snapshot, or no value in it

\* The default estimate <<low, high>> of a class.
Default == [conversation |-> <<1, 2>>, orientation |-> <<2, 4>>, review |-> <<3, 7>>,
            small_fix |-> <<4, 9>>, contained_feature |-> <<6, 14>>,
            cross_cutting_feature |-> <<12, 25>>, refactor |-> <<18, 40>>,
            research |-> <<4, 12>>]

Classes == DOMAIN Default

\* The patterns in the order they are tried, each named by its class.
Tried == <<"refactor", "review", "research", "small_fix",
           "cross_cutting_feature", "contained_feature">>

Classify(prompt) ==
    IF prompt \cap Range(Tried) = {} THEN "conversation"
    ELSE Tried[Min({i \in DOMAIN Tried : Tried[i] \in prompt})]

VARIABLES
    reading,    \* remaining of the latest snapshot, by provider and window
    holds,      \* the active usage_reservations, a function of occupied slots
    observed,   \* usage_observations.actual_cost, by provider and class
    used,       \* the account's utilization at the provider (external)
    admitted    \* history: providers that admitted a turn since their last snapshot

usageVars == <<reading, holds, observed, used, admitted>>

UsageInit ==
    /\ reading = [p \in Providers |-> [w \in Windows \cup {Turn} |-> NoValue]]
    /\ holds = << >>
    /\ observed = [p \in Providers |-> [c \in Classes |-> << >>]]
    /\ used = [p \in Providers |-> 0]
    /\ admitted = {}

-----------------------------------------------------------------------------
(* Capacity.                                                                *)

Active(p) == {s \in DOMAIN holds : holds[s].provider = p}

Without(s) == Restrict(holds, DOMAIN holds \ {s})

Reserved(p) == MapThenSumSet(LAMBDA s : holds[s].high, Active(p))

Stated(p) == {reading[p][w] : w \in Windows \cup {Turn}} \ {NoValue}

\* The effective capacity decides the posture.
Posture(p) ==
    LET effective == Min(Stated(p)) - Reserved(p) IN
    CASE Stated(p) = {} -> "unknown"
      [] Stated(p) # {} /\ effective <= 0 -> "exhausted"
      [] Stated(p) # {} /\ effective \in 1..9 -> "preserve"
      [] Stated(p) # {} /\ effective \in 10..24 -> "restricted"
      [] Stated(p) # {} /\ effective \in 25..49 -> "cautious"
      [] OTHER -> "healthy"

\* percentile(values, q/10), for a sequence that is not empty
Percentile(values, q) ==
    SortSeq(values, LAMBDA a, b : a < b)[1 + ((Len(values) - 1) * q) \div 10]

Low(p, c) ==
    IF Len(observed[p][c]) >= 3 THEN Percentile(observed[p][c], 5) ELSE Default[c][1]

High(p, c) ==
    IF Len(observed[p][c]) >= 5
    THEN Max({Low(p, c), Percentile(observed[p][c], 9)})
    ELSE Default[c][2]

\* Slip: the reservations of other turns are forgotten.
FitsAlone(p, c) == Stated(p) # {} => High(p, c) + Reserve <= Min(Stated(p))

Fits(p, c) ==
    Stated(p) # {} => High(p, c) + Reserve <= Min(Stated(p)) - Reserved(p)

\* The CHECKs of the table: estimated_low >= 0, estimated_high >= estimated_low.
Storable(p, c) == Low(p, c) \in Nat /\ High(p, c) \in Nat /\ Low(p, c) <= High(p, c)

\* A turn that does not fit is refused, and so is one whose estimate the table
\* rejects.  Neither refusal changes a row.
Admits(p, c) == Fits(p, c) /\ Storable(p, c)

\* reserve
Admit(s, p, c) ==
    /\ s \notin DOMAIN holds
    /\ Admits(p, c)
    /\ holds' = [t \in DOMAIN holds \cup {s} |->
                   IF t = s THEN [provider |-> p, class |-> c,
                                  low |-> Low(p, c), high |-> High(p, c)]
                   ELSE holds[t]]
    /\ admitted' = admitted \cup {p}
    /\ UNCHANGED <<reading, observed, used>>

\* release: the turn did not start, was cancelled, or died with its process.
Release(s) ==
    /\ s \in DOMAIN holds
    /\ holds' = Without(s)
    /\ UNCHANGED <<reading, observed, used, admitted>>

-----------------------------------------------------------------------------
(* Results.  A utilization is in hundredths of what the provider reported:  *)
(* 40 is a reported 0.4.  Up to one it is taken for a fraction, above one   *)
(* for a percentage.                                                        *)

NormalizePercent(u) == IF u <= 100 THEN u ELSE u \div 100

Cost(s, r) ==
    CASE r.utilization # NoValue -> NormalizePercent(r.utilization)
      [] r.utilization = NoValue /\ r.tokens > 0 -> r.tokens  \* in units of 100 000
      [] r.utilization = NoValue /\ r.tokens = 0 /\ r.outcome = "failed" -> 0
      [] OTHER -> holds[s].high

\* The latest observations that count.
Remember(seq, cost) ==
    LET all == Append(seq, cost) IN
    IF Len(all) > Remembered THEN Tail(all) ELSE all

\* complete: the reservation is consumed and its cost observed.
CompleteTurn(s, r) ==
    /\ s \in DOMAIN holds
    /\ LET p == holds[s].provider  c == holds[s].class IN
       observed' = [observed EXCEPT ![p][c] = Remember(@, Cost(s, r))]
    /\ holds' = Without(s)
    /\ UNCHANGED <<reading, used, admitted>>

Completes(s) == s \in DOMAIN holds /\ \E r \in Results[holds[s].provider] : CompleteTurn(s, r)

-----------------------------------------------------------------------------
(* Readings.                                                                *)

Snapshot(p, w, remaining) ==
    /\ reading' = [reading EXCEPT ![p][w] = remaining]
    /\ admitted' = admitted \ {p}
    /\ UNCHANGED <<holds, observed, used>>

\* recordUsage, from an event of a running turn.  An event without a
\* utilization still writes a snapshot when it states the reset time; an event
\* of Codex, whose limits are polled, states neither.
RecordUsage(s) ==
    /\ s \in DOMAIN holds
    /\ LET p == holds[s].provider IN
       /\ p \notin Polled
       /\ \E remaining \in {100 - NormalizePercent(used[p]), NoValue} :
              Snapshot(p, Turn, remaining)

\* onRateLimit of the Claude provider: only while a turn runs.
RateLimitEvent(s, w) ==
    /\ s \in DOMAIN holds
    /\ LET p == holds[s].provider IN
       /\ p \notin Polled
       /\ \E remaining \in {100 - NormalizePercent(used[p]), NoValue} :
              Snapshot(p, w, remaining)

\* Slip: an answer only ever lowers what remains.
RefreshDownwards(p) ==
    /\ p \in Polled
    /\ reading' = [reading EXCEPT ![p] =
                     [w \in Windows \cup {Turn} |->
                        IF w = Turn THEN @[w]
                        ELSE IF @[w] = NoValue THEN 100 - used[p]
                             ELSE Min({@[w], 100 - used[p]})]]
    /\ admitted' = admitted \ {p}
    /\ UNCHANGED <<holds, observed, used>>

\* refreshCodexUsage and onRateLimitsUpdated: any time, at most 60 seconds
\* apart; every window of the answer is recorded.
Refresh(p) ==
    /\ p \in Polled
    /\ reading' = [reading EXCEPT ![p] =
                     [w \in Windows \cup {Turn} |-> IF w = Turn THEN @[w] ELSE 100 - used[p]]]
    /\ admitted' = admitted \ {p}
    /\ UNCHANGED <<holds, observed, used>>

\* The account: used by turns (and by whoever shares it), and reset.
Account(p) ==
    /\ \E u \in Levels :
          /\ u > used[p] \/ u = 0
          /\ used' = [used EXCEPT ![p] = u]
    /\ UNCHANGED <<reading, holds, observed, admitted>>

UsageNext ==
    \/ \E s \in Slots :
          \/ \E p \in Providers, prompt \in Prompts : Admit(s, p, Classify(prompt))
          \/ Release(s)
          \/ Completes(s)
          \/ RecordUsage(s)
          \/ \E w \in Windows : RateLimitEvent(s, w)
    \/ \E p \in Providers : Refresh(p) \/ Account(p)

UsageSpec == UsageInit /\ [][UsageNext]_usageVars

\* The poll's timer fires every minute, and answers get through again and again.
UsageFairness == \A p \in Polled : WF_usageVars(Refresh(p))

-----------------------------------------------------------------------------
\* What the reservations are for: however many turns were admitted since a
\* provider's last snapshot, in whatever order with completions and changing
\* estimates, their estimates together leave the reserve free.  With the
\* default reserve none of them is brought by another's admission into the
\* postures in which the coordinator interrupts a running turn.
ReserveStaysFree ==
    \A p \in admitted :
        Stated(p) # {} =>
            /\ Reserved(p) + Reserve <= Min(Stated(p))
            /\ Reserve >= 10 => Posture(p) \notin {"preserve", "exhausted"}

\* An account that nobody has used since its window was reset could pay for a
\* turn of the class, and the table takes its estimate.
Payable(p, c) == Storable(p, c) /\ High(p, c) + Reserve <= 100

\* A polled provider that stays idle, its account's window having been reset,
\* comes to admit turns of every class that an unused account can pay for,
\* whatever its last snapshot said and however often it refused: only the
\* learned estimate can keep a class out, a stale reading cannot.  (It does
\* keep one out for good, when it was seen to cost nearly a whole window, or
\* when its estimate is out of order, see EstimateOrdered.)  Of a provider
\* that is not polled the last snapshot stays.
IdleProviderAdmits ==
    \A p \in Polled, c \in Classes :
        <>[](used[p] = 0 /\ Active(p) = {} /\ Payable(p, c)) => <>[]Admits(p, c)

\* The CHECK of usage_reservations, of the estimate the next reservation
\* would be created with.
EstimateOrdered ==
    \A p \in Providers, c \in Classes : Low(p, c) <= High(p, c)
=============================================================================
