----------------------------- MODULE LimitsProofs -----------------------------
(***************************************************************************)
(* Theorems about what is limited: the requests of an Activity that pass,  *)
(* for any messages and bindings, any skew, any limit and window, and any  *)
(* nonce lifetime longer than twice the skew; and the turns that are       *)
(* admitted, for any providers, windows, estimates and reserve.            *)
(*                                                                         *)
(* AcceptedOnce is not inductive: that a message was accepted must still   *)
(* show when it is delivered again.  NonceOutlives says that it does: its  *)
(* nonce is stored until it is too old to be accepted, since it was signed *)
(* at most MaxSkew after it was accepted and is in time until MaxSkew      *)
(* after it was signed.                                                    *)
(*                                                                         *)
(* WithinRate is not inductive either.  Counted adds that the count is the *)
(* requests since the window began, one of them when it began, and that    *)
(* any stretch that ends before the window and meets it if it is prolonged *)
(* to a window's length misses the first request of the window before.     *)
(***************************************************************************)
EXTENDS ActivityRevalidation, UsageAdmission, FactoryFloorBindingsProofs,
        WellFoundedInduction, FiniteSetTheorems, TLAPS

\* An accepted message is too old, or its nonce is stored for as long as it is not.
NonceOutlives ==
    \A m \in Messages : accepted[m] > 0
        => now > stamp[m] + MaxSkew \/ nonceExpires[m] > stamp[m] + MaxSkew

IInv == TypeOK /\ BindingsInv /\ AcceptedOnce /\ NonceOutlives

\* The initial states satisfy the invariant.
LEMMA InitCorrect == Init => IInv
<1> SUFFICES ASSUME Init PROVE IInv
  OBVIOUS
<1>1. BindingsInv
  BY BindingsInitCorrect DEF Init
<1>2. 0 \in Times /\ 0 \in 0..MaxRequests
  BY LimitAssumption DEF Times
<1>3. TypeOK
  BY <1>1, <1>2 DEF Init, TypeOK, BindingsInv, NoneYet
<1>4. AcceptedOnce /\ NonceOutlives
  BY DEF Init, AcceptedOnce, NonceOutlives
<1>5. QED  BY <1>1, <1>3, <1>4 DEF IInv

\* The step that matters: a message that is in time and was accepted before has
\* its nonce stored, so only a message that was not is accepted.
LEMMA AcceptCorrect ==
  ASSUME IInv, NEW m \in Messages, Accept(m)
  PROVE  IInv'
<1>1. BindingsInv'
  BY BindingsStutter DEF Accept, IInv
<1>2. now \in Nat /\ stamp \in [Messages -> Nat] /\ nonceExpires \in [Messages -> Nat]
      /\ accepted \in [Messages -> Nat] /\ NonceTtl \in Nat /\ MaxSkew \in Nat
  BY LimitAssumption DEF IInv, TypeOK, Times
<1>3. accepted[m] = 0
  BY <1>2 DEF Accept, InTime, NonceLeft, IInv, AcceptedOnce, NonceOutlives
<1>4. /\ nonceExpires' = [n \in Messages |-> IF n = m THEN now + NonceTtl ELSE NonceLeft(n)]
      /\ accepted' = [accepted EXCEPT ![m] = @ + 1]
      /\ UNCHANGED <<now, stamp>>
  BY DEF Accept
<1>5. nonceExpires' \in [Messages -> Nat] /\ accepted' \in [Messages -> Nat]
  BY <1>2, <1>4 DEF NonceLeft
<1>6. /\ windowStart' \in [Keys -> Times]
      /\ count' \in [Keys -> 0..MaxRequests]
      /\ passed' \in [Keys -> [Times -> Nat]]
      /\ pc' \in [Messages -> {"idle", "fetching", "resolving", "allowed"}]
  <2> DEFINE k == KeyOf[m]
  <2>1. k \in Keys
    BY MessageAssumption
  <2>2. CASE Pass(m)
    <3>1. windowStart' \in [Keys -> Times]
      BY <2>1, <2>2 DEF Pass, CountRequest, IInv, TypeOK
    <3>2. count[k] \in 0..MaxRequests
      BY <2>1 DEF IInv, TypeOK
    <3>3. (IF NewWindow(k) THEN 1 ELSE count[k] + 1) \in 0..MaxRequests
      BY <2>2, <3>2, LimitAssumption DEF Pass, UnderLimit
    <3>4. count' \in [Keys -> 0..MaxRequests]
      BY <2>1, <2>2, <3>3 DEF Pass, CountRequest, IInv, TypeOK
    <3>5. passed' \in [Keys -> [Times -> Nat]]
      BY <2>1, <2>2 DEF Pass, CountRequest, IInv, TypeOK
    <3>6. pc' \in [Messages -> {"idle", "fetching", "resolving", "allowed"}]
      BY <2>2 DEF Pass, IInv, TypeOK
    <3>7. QED  BY <3>1, <3>4, <3>5, <3>6
  <2>3. CASE LimitRate(m)
    BY <2>3 DEF LimitRate, windows, IInv, TypeOK
  <2>4. QED  BY <2>2, <2>3 DEF Accept
<1>7. TypeOK'
  BY <1>1, <1>4, <1>5, <1>6 DEF IInv, TypeOK, BindingsInv
<1>8. AcceptedOnce'
  BY <1>2, <1>3, <1>4 DEF IInv, AcceptedOnce
<1>9. NonceOutlives'
  <2>1. now + NonceTtl > stamp[m] + MaxSkew
    BY <1>2, LimitAssumption DEF Accept, InTime
  <2>2. \A n \in Messages : NonceLeft(n) = nonceExpires[n] \/ nonceExpires[n] <= now
    BY DEF NonceLeft
  <2>3. QED  BY <1>2, <1>4, <2>1, <2>2 DEF IInv, NonceOutlives
<1>10. QED  BY <1>1, <1>7, <1>8, <1>9 DEF IInv

\* A replay only forgets nonces that have expired, of messages too old by then.
LEMMA RefuseReplayCorrect ==
  ASSUME IInv, NEW m \in Messages, RefuseReplay(m)
  PROVE  IInv'
<1>1. BindingsInv'
  BY BindingsStutter DEF RefuseReplay, IInv
<1>2. TypeOK'
  BY <1>1 DEF RefuseReplay, NonceLeft, windows, IInv, TypeOK, BindingsInv
<1>3. AcceptedOnce'
  BY DEF RefuseReplay, IInv, AcceptedOnce
<1>4. NonceOutlives'
  <2>1. now \in Nat /\ stamp \in [Messages -> Nat] /\ nonceExpires \in [Messages -> Nat]
        /\ MaxSkew \in Nat
    BY LimitAssumption DEF IInv, TypeOK, Times
  <2>2. QED  BY <2>1 DEF RefuseReplay, NonceLeft, IInv, NonceOutlives
<1>5. QED  BY <1>1, <1>2, <1>3, <1>4 DEF IInv

\* The steps that leave the nonces alone.
LEMMA NoncesUnchanged ==
  ASSUME IInv, UNCHANGED <<now, stamp, nonceExpires, accepted>>
  PROVE  AcceptedOnce' /\ NonceOutlives'
  BY DEF IInv, AcceptedOnce, NonceOutlives

LEMMA DecideCorrect ==
  ASSUME IInv, NEW m \in Messages, CheckBindings(m) \/ Allow(m) \/ Deny(m)
  PROVE  IInv'
<1>1. /\ UNCHANGED <<bindings, now, stamp, nonceExpires, windows, accepted, passed>>
      /\ \E point \in {"idle", "resolving", "allowed"} : pc' = [pc EXCEPT ![m] = point]
  BY DEF CheckBindings, Allow, Deny, Answer
<1>2. BindingsInv'
  BY <1>1, BindingsStutter DEF IInv
<1>3. TypeOK'
  BY <1>1, <1>2 DEF windows, IInv, TypeOK, BindingsInv
<1>4. QED  BY <1>1, <1>2, <1>3, NoncesUnchanged DEF IInv

LEMMA RestartCorrect == IInv /\ Restart => IInv'
<1> SUFFICES ASSUME IInv, Restart PROVE IInv'
  OBVIOUS
<1>1. BindingsInv'
  BY BindingsStutter DEF Restart, IInv
<1>2. 0 \in Times /\ 0 \in 0..MaxRequests
  BY LimitAssumption DEF Times
<1>3. TypeOK'
  BY <1>1, <1>2 DEF Restart, NoneYet, IInv, TypeOK, BindingsInv
<1>4. QED  BY <1>1, <1>3, NoncesUnchanged DEF Restart, IInv

\* Time only makes messages older.
LEMMA TickCorrect == IInv /\ Tick => IInv'
<1> SUFFICES ASSUME IInv, Tick PROVE IInv'
  OBVIOUS
<1>1. BindingsInv'
  BY BindingsStutter DEF Tick, IInv
<1>2. now' \in Times
  BY LimitAssumption DEF Tick, IInv, TypeOK, Times
<1>3. TypeOK'
  BY <1>1, <1>2 DEF Tick, windows, IInv, TypeOK, BindingsInv
<1>4. AcceptedOnce'
  BY DEF Tick, IInv, AcceptedOnce
<1>5. NonceOutlives'
  <2>1. now \in Nat /\ stamp \in [Messages -> Nat] /\ MaxSkew \in Nat
    BY LimitAssumption DEF IInv, TypeOK, Times
  <2>2. QED  BY <2>1 DEF Tick, IInv, NonceOutlives
<1>6. QED  BY <1>1, <1>3, <1>4, <1>5 DEF IInv

LEMMA EnvironmentCorrect == IInv /\ EnvironmentStep => IInv'
<1> SUFFICES ASSUME IInv, EnvironmentStep PROVE IInv'
  OBVIOUS
<1>1. BindingsInv'
  <2>1. ASSUME NEW s \in Surfaces, NEW i \in Instances, AttachInstance(s, i)
        PROVE  BindingsInv'
    BY <2>1, AttachCorrect DEF AttachInstance, CanAttach, IInv
  <2>2. QED  BY <2>1, BindingStepCorrect DEF EnvironmentStep, IInv
<1>2. TypeOK'
  BY <1>1 DEF EnvironmentStep, windows, IInv, TypeOK, BindingsInv
<1>3. QED  BY <1>1, <1>2, NoncesUnchanged DEF EnvironmentStep, IInv

LEMMA StutterCorrect == IInv /\ UNCHANGED vars => IInv'
<1> SUFFICES ASSUME IInv, UNCHANGED vars PROVE IInv'
  OBVIOUS
<1>1. BindingsInv'
  BY BindingsStutter DEF vars, IInv
<1>2. TypeOK'
  BY <1>1 DEF vars, windows, IInv, TypeOK, BindingsInv
<1>3. QED  BY <1>1, <1>2, NoncesUnchanged DEF vars, IInv

-----------------------------------------------------------------------------
(* The theorems.                                                            *)

\* The invariant holds in every reachable state.
THEOREM Invariance == Spec => []IInv
<1>1. ASSUME IInv, [Next]_vars PROVE IInv'
  <2>1. ASSUME NEW m \in Messages, MessageStep(m) PROVE IInv'
    BY <1>1, <2>1, AcceptCorrect, RefuseReplayCorrect, DecideCorrect DEF MessageStep
  <2>2. QED
    BY <1>1, <2>1, RestartCorrect, TickCorrect, EnvironmentCorrect, StutterCorrect DEF Next
<1>2. QED  BY <1>1, InitCorrect, PTL DEF Spec

\* The bindings, nonces, windows and handlers have their types, and no window
\* counts past the limit.
THEOREM TypeCorrect == Spec => []TypeOK
<1>1. IInv => TypeOK
  BY DEF IInv
<1>2. QED  BY <1>1, Invariance, PTL

\* No message is accepted twice, if nonces outlast twice the skew.
THEOREM ReplayCorrect == Spec => []AcceptedOnce
<1>1. IInv => AcceptedOnce
  BY DEF IInv
<1>2. QED  BY <1>1, Invariance, PTL

\* An instance stands for at most one run at a time: it has one surface, and a
\* surface has one active run.
THEOREM RunCorrect == Spec => []OneRunPerInstance
<1>1. IInv => OneRunPerInstance
  <2> SUFFICES ASSUME IInv, NEW i \in Instances, NEW a \in Runs, NEW b \in Runs,
                      NEW s \in Surfaces \cup {None}, NEW t \in Surfaces \cup {None},
                      Bound(i, a, s), Bound(i, b, t)
               PROVE  a = b
    BY DEF OneRunPerInstance
  <2>1. /\ s \in Surfaces /\ activityInstance[s] = i
        /\ runSurface[a] = s /\ runBinding[a] = "active"
    BY DEF Bound, FindRun
  <2>2. /\ t \in Surfaces /\ activityInstance[t] = i
        /\ runSurface[b] = t /\ runBinding[b] = "active"
    BY DEF Bound, FindRun
  <2>3. i # None
    BY NoneAssumption
  <2>4. s = t
    BY <2>1, <2>2, <2>3 DEF IInv, BindingsInv, OneSurfacePerInstance
  <2>5. QED  BY <2>1, <2>2, <2>4 DEF IInv, BindingsInv, OneRunPerSurface
<1>2. QED  BY <1>1, Invariance, PTL

-----------------------------------------------------------------------------
(* Sums, as the folds of the community modules compute them: an element is   *)
(* chosen, and the sum of the others is added to its value.                 *)

Chosen(S) == CHOOSE x \in S : TRUE

\* F holds the sum of g over every subset of S.
Adds(F, g, S) ==
    F = [T \in SUBSET S |-> IF T = {} THEN 0 ELSE g[Chosen(T)] + F[T \ {Chosen(T)}]]

Sum(g, S) == (CHOOSE F : Adds(F, g, S))[S]

\* Induction over the subsets of a finite set.
LEMMA OverSubsets ==
    ASSUME NEW S, IsFiniteSet(S), NEW G,
           \A T \in SUBSET S : (\A U \in SUBSET T : U # T => U \in G) => T \in G
    PROVE  \A T \in SUBSET S : T \in G
  <1> DEFINE Bad == {T \in SUBSET S : T \notin G}
             R == StrictSubsetOrdering(S)
  <1>1. IsWellFoundedOn(R, SUBSET S)
    <2>1. IsWellFoundedOn(R, FiniteSubsetsOf(S))
      BY FS_StrictSubsetOrderingWellFounded
    <2> QED
      BY <2>1, FS_FiniteSubsetsOfFinite
  <1>2. \A T, U : T \in SUBSET S /\ U \in SUBSET T /\ U # T => <<U, T>> \in R
    BY DEF StrictSubsetOrdering
  <1> HIDE DEF R
  <1>3. SUFFICES ASSUME Bad # {} PROVE FALSE
    OBVIOUS
  <1>4. Bad \subseteq SUBSET S
    OBVIOUS
  <1>5. \E T \in Bad : \A U \in Bad : ~(<<U, T>> \in R)
    <2> HIDE DEF Bad
    <2> QED
      BY <1>1, <1>3, <1>4, WFMin
  <1>6. PICK T \in Bad : \A U \in Bad : ~(<<U, T>> \in R)
    BY <1>5
  <1>7. ASSUME NEW U \in SUBSET T, U # T PROVE U \in G
    <2>1. T \in SUBSET S /\ U \in SUBSET S
      OBVIOUS
    <2>2. <<U, T>> \in R
      BY <1>2, <1>7, <2>1
    <2>3. U \notin Bad
      BY <1>6, <2>2
    <2> QED
      BY <2>1, <2>3
  <1>8. T \in SUBSET S /\ T \notin G
    OBVIOUS
  <1> QED
    BY <1>7, <1>8

LEMMA ChosenIn == ASSUME NEW S, S # {} PROVE Chosen(S) \in S
  BY DEF Chosen

\* The sums of functions that agree are the same, over whichever sets they
\* were computed.
LEMMA SumsAgree ==
    ASSUME NEW F, NEW g, NEW A, Adds(F, g, A), NEW H, NEW h, NEW B, Adds(H, h, B),
           NEW T, T \subseteq A, T \subseteq B, IsFiniteSet(T), \A x \in T : g[x] = h[x]
    PROVE  F[T] = H[T]
  <1> DEFINE G == {U \in SUBSET T : F[U] = H[U]}
  <1>1. ASSUME NEW U \in SUBSET T, \A V \in SUBSET U : V # U => V \in G
        PROVE  U \in G
    <2>0. U \in SUBSET A /\ U \in SUBSET B
      OBVIOUS
    <2>1. /\ F[U] = IF U = {} THEN 0 ELSE g[Chosen(U)] + F[U \ {Chosen(U)}]
          /\ H[U] = IF U = {} THEN 0 ELSE h[Chosen(U)] + H[U \ {Chosen(U)}]
      BY <2>0 DEF Adds
    <2>2. CASE U # {}
      <3>1. Chosen(U) \in U
        BY <2>2, ChosenIn
      <3>2. PICK V : V = U \ {Chosen(U)}
        OBVIOUS
      <3>3. V \in SUBSET U /\ V # U
        BY <3>1, <3>2
      <3>4. F[V] = H[V] /\ g[Chosen(U)] = h[Chosen(U)]
        BY <1>1, <3>1, <3>3
      <3> QED
        BY <2>1, <2>2, <3>2, <3>4
    <2> QED
      BY <2>1, <2>2
  <1> HIDE DEF G
  <1>2. \A U \in SUBSET T : U \in G
    BY <1>1, OverSubsets
  <1> QED
    BY <1>2 DEF G

\* There are such sums.
LEMMA SumsExist ==
    ASSUME NEW g, NEW S, IsFiniteSet(S)
    PROVE  \E F : Adds(F, g, S)
  <1> DEFINE G == {T \in SUBSET S : \E F : Adds(F, g, T)}
  <1>1. ASSUME NEW T \in SUBSET S, \A U \in SUBSET T : U # T => U \in G
        PROVE  T \in G
    <2> DEFINE Of(U) == CHOOSE F : Adds(F, g, U)
               F == [U \in SUBSET T |-> IF U = {} THEN 0 ELSE g[Chosen(U)] + Of(U \ {Chosen(U)})[U \ {Chosen(U)}]]
    <2>1. \A U \in SUBSET T : U # T => Adds(Of(U), g, U)
      BY <1>1
    <2> HIDE DEF Of
    <2>2. ASSUME NEW V \in SUBSET T, V # T PROVE F[V] = Of(V)[V]
      <3>1. Adds(Of(V), g, V)
        BY <2>1, <2>2
      <3>2. Of(V)[V] = IF V = {} THEN 0 ELSE g[Chosen(V)] + Of(V)[V \ {Chosen(V)}]
        BY <3>1 DEF Adds
      <3>3. CASE V # {}
        <4>1. PICK W : W = V \ {Chosen(V)}
          OBVIOUS
        <4>2. W \in SUBSET T /\ W # T /\ W \subseteq V
          BY <2>2, <4>1
        <4>3. Adds(Of(W), g, W) /\ IsFiniteSet(W)
          BY <2>1, <4>2, FS_Subset
        <4>4. Of(V)[W] = Of(W)[W]
          <5>1. \A x \in W : g[x] = g[x]
            OBVIOUS
          <5> QED
            BY <3>1, <4>2, <4>3, <5>1, SumsAgree
        <4> QED
          BY <3>2, <3>3, <4>1, <4>4
      <3> QED
        BY <3>2, <3>3
    <2>3. F = [U \in SUBSET T |-> IF U = {} THEN 0 ELSE g[Chosen(U)] + F[U \ {Chosen(U)}]]
      <3>1. ASSUME NEW U \in SUBSET T, U # {}
            PROVE  F[U \ {Chosen(U)}] = Of(U \ {Chosen(U)})[U \ {Chosen(U)}]
        <4>1. PICK V : V = U \ {Chosen(U)}
          OBVIOUS
        <4>2. V \in SUBSET T /\ V # T
          BY <3>1, <4>1, ChosenIn
        <4>3. F[V] = Of(V)[V]
          BY <2>2, <4>2
        <4> QED
          BY <4>1, <4>3
      <3> QED
        BY <3>1
    <2>4. Adds(F, g, T)
      <3> HIDE DEF F
      <3> QED
        BY <2>3 DEF Adds
    <2> QED
      BY <2>4
  <1> HIDE DEF G
  <1>2. \A T \in SUBSET S : T \in G
    BY <1>1, OverSubsets
  <1> QED
    BY <1>2 DEF G

LEMMA SumIs ==
    ASSUME NEW F, NEW g, NEW A, Adds(F, g, A), NEW T, T \subseteq A, IsFiniteSet(T)
    PROVE  Sum(g, T) = F[T]
  <1>1. \E H : Adds(H, g, T)
    BY SumsExist
  <1>2. PICK H : H = CHOOSE J : Adds(J, g, T)
    OBVIOUS
  <1>3. Adds(H, g, T)
    BY <1>1, <1>2
  <1>4. \A x \in T : g[x] = g[x]
    OBVIOUS
  <1>5. H[T] = F[T]
    BY <1>3, <1>4, SumsAgree
  <1> QED
    BY <1>2, <1>5 DEF Sum

LEMMA SumNone == ASSUME NEW g PROVE Sum(g, {}) = 0
  <1>1. PICK F : Adds(F, g, {})
    BY SumsExist, FS_EmptySet
  <1>2. F[{}] = 0
    BY <1>1 DEF Adds
  <1> QED
    BY <1>1, <1>2, SumIs, FS_EmptySet

LEMMA SumSame ==
    ASSUME NEW g, NEW h, NEW S, IsFiniteSet(S), \A x \in S : g[x] = h[x]
    PROVE  Sum(g, S) = Sum(h, S)
  <1>1. PICK F : Adds(F, g, S)
    BY SumsExist
  <1>2. PICK H : Adds(H, h, S)
    BY SumsExist
  <1>3. F[S] = H[S]
    BY <1>1, <1>2, SumsAgree
  <1> QED
    BY <1>1, <1>2, <1>3, SumIs

LEMMA SumChosen ==
    ASSUME NEW g, NEW S, IsFiniteSet(S), S # {}
    PROVE  Sum(g, S) = g[Chosen(S)] + Sum(g, S \ {Chosen(S)})
  <1>1. PICK F : Adds(F, g, S)
    BY SumsExist
  <1>2. PICK T : T = S \ {Chosen(S)}
    OBVIOUS
  <1>3. IsFiniteSet(T) /\ T \subseteq S
    BY <1>2, FS_Subset
  <1>4. F[S] = g[Chosen(S)] + F[T]
    BY <1>1, <1>2 DEF Adds
  <1>5. Sum(g, S) = F[S] /\ Sum(g, T) = F[T]
    BY <1>1, <1>3, SumIs
  <1> QED
    BY <1>2, <1>4, <1>5

\* Sums of natural numbers are natural numbers, and any element may be taken
\* out first.
LEMMA SumOfNats ==
    ASSUME NEW g, NEW S, IsFiniteSet(S), \A x \in S : g[x] \in Nat
    PROVE  Sum(g, S) \in Nat
  <1> DEFINE G == {T \in SUBSET S : Sum(g, T) \in Nat}
  <1>1. ASSUME NEW T \in SUBSET S, \A U \in SUBSET T : U # T => U \in G
        PROVE  T \in G
    <2>1. CASE T = {}
      BY <2>1, SumNone
    <2>2. CASE T # {}
      <3>1. Chosen(T) \in T
        BY <2>2, ChosenIn
      <3>2. PICK U : U = T \ {Chosen(T)}
        OBVIOUS
      <3>3. U \in SUBSET T /\ U # T
        BY <3>1, <3>2
      <3>4. Sum(g, U) \in Nat /\ g[Chosen(T)] \in Nat
        BY <1>1, <3>1, <3>3
      <3>5. IsFiniteSet(T)
        BY FS_Subset
      <3>6. Sum(g, T) = g[Chosen(T)] + Sum(g, U)
        BY <2>2, <3>2, <3>5, SumChosen
      <3>7. Sum(g, T) \in Nat
        BY <3>4, <3>6
      <3> QED
        BY <3>7
    <2> QED
      BY <2>1, <2>2
  <1> HIDE DEF G
  <1>2. \A T \in SUBSET S : T \in G
    BY <1>1, OverSubsets
  <1> QED
    BY <1>2 DEF G

LEMMA SumPicked ==
    ASSUME NEW g, NEW S, IsFiniteSet(S), \A x \in S : g[x] \in Nat, NEW e \in S
    PROVE  Sum(g, S) = g[e] + Sum(g, S \ {e})
  <1> DEFINE G == {T \in SUBSET S : \A x \in T : Sum(g, T) = g[x] + Sum(g, T \ {x})}
  <1>1. ASSUME NEW T \in SUBSET S, \A U \in SUBSET T : U # T => U \in G
        PROVE  T \in G
    <2> SUFFICES ASSUME NEW x \in T PROVE Sum(g, T) = g[x] + Sum(g, T \ {x})
      OBVIOUS
    <2>0. PICK c : c = Chosen(T)
      OBVIOUS
    <2>1. c \in T
      BY <2>0, ChosenIn
    <2>2. IsFiniteSet(T)
      BY FS_Subset
    <2>3. Sum(g, T) = g[c] + Sum(g, T \ {c})
      BY <2>0, <2>1, <2>2, SumChosen
    <2>4. CASE x = c
      BY <2>3, <2>4
    <2>5. CASE x # c
      <3> DEFINE W == (T \ {c}) \ {x}
      <3>1. T \ {c} \in SUBSET T /\ T \ {c} # T /\ x \in T \ {c}
        BY <2>1, <2>5
      <3>2. Sum(g, T \ {c}) = g[x] + Sum(g, W)
        <4>1. T \ {c} \in G
          BY <1>1, <3>1
        <4> QED
          BY <3>1, <4>1
      <3>3. T \ {x} \in SUBSET T /\ T \ {x} # T /\ c \in T \ {x}
        BY <2>1, <2>5
      <3>4. Sum(g, T \ {x}) = g[c] + Sum(g, W)
        <4>1. T \ {x} \in G
          BY <1>1, <3>3
        <4>2. (T \ {x}) \ {c} = W
          OBVIOUS
        <4>3. Sum(g, T \ {x}) = g[c] + Sum(g, (T \ {x}) \ {c})
          BY <3>3, <4>1
        <4> QED
          BY <4>2, <4>3
      <3>5. IsFiniteSet(W) /\ \A y \in W : g[y] \in Nat
        <4>1. W \in SUBSET S
          OBVIOUS
        <4> QED
          BY <4>1, FS_Subset
      <3>6. PICK w \in Nat : w = Sum(g, W)
        BY <3>5, SumOfNats
      <3>7. g[c] \in Nat /\ g[x] \in Nat
        BY <2>1
      <3> HIDE DEF W
      <3> QED
        BY <2>3, <3>2, <3>4, <3>6, <3>7
    <2> QED
      BY <2>4, <2>5
  <1> HIDE DEF G
  <1>2. \A T \in SUBSET S : T \in G
    BY <1>1, OverSubsets
  <1> QED
    BY <1>2 DEF G

\* The sum over two sets that have nothing in common.
LEMMA SumSplit ==
    ASSUME NEW g, NEW S, IsFiniteSet(S), \A x \in S : g[x] \in Nat,
           NEW A, NEW B, A \cup B = S, A \cap B = {}
    PROVE  Sum(g, S) = Sum(g, A) + Sum(g, B)
  <1>0. IsFiniteSet(A) /\ IsFiniteSet(B)
    BY FS_Subset
  <1> DEFINE G == {T \in SUBSET A : Sum(g, T \cup B) = Sum(g, T) + Sum(g, B)}
  <1>1. ASSUME NEW T \in SUBSET A, \A U \in SUBSET T : U # T => U \in G
        PROVE  T \in G
    <2>0. Sum(g, B) \in Nat
      BY <1>0, SumOfNats
    <2>1. CASE T = {}
      <3>1. T \cup B = B
        BY <2>1
      <3>2. Sum(g, T) = 0
        BY <2>1, SumNone
      <3>3. Sum(g, T \cup B) = Sum(g, B)
        BY <3>1
      <3>4. Sum(g, T \cup B) = Sum(g, T) + Sum(g, B)
        BY <2>0, <3>2, <3>3
      <3> QED
        BY <3>4
    <2>2. CASE T # {}
      <3>1. PICK x : x \in T
        BY <2>2
      <3>2. PICK U : U = T \ {x}
        OBVIOUS
      <3>3. U \in SUBSET T /\ U # T
        BY <3>1, <3>2
      <3>4. Sum(g, U \cup B) = Sum(g, U) + Sum(g, B)
        BY <1>1, <3>3
      <3>5. (T \cup B) \ {x} = U \cup B
        BY <3>1, <3>2
      <3>6. IsFiniteSet(T \cup B) /\ IsFiniteSet(T) /\ IsFiniteSet(U)
        BY <3>3, FS_Subset
      <3>7. Sum(g, T \cup B) = g[x] + Sum(g, U \cup B)
        <4>1. \A y \in T \cup B : g[y] \in Nat
          OBVIOUS
        <4>2. x \in T \cup B
          BY <3>1
        <4>3. Sum(g, T \cup B) = g[x] + Sum(g, (T \cup B) \ {x})
          BY <3>6, <4>1, <4>2, SumPicked
        <4> QED
          BY <3>5, <4>3
      <3>8. Sum(g, T) = g[x] + Sum(g, U)
        <4>1. \A y \in T : g[y] \in Nat
          OBVIOUS
        <4>2. Sum(g, T) = g[x] + Sum(g, T \ {x})
          BY <3>1, <3>6, <4>1, SumPicked
        <4> QED
          BY <3>2, <4>2
      <3>9. Sum(g, U) \in Nat /\ g[x] \in Nat
        <4>1. \A y \in U : g[y] \in Nat
          BY <3>3
        <4> QED
          BY <3>1, <3>6, <4>1, SumOfNats
      <3>10. Sum(g, T \cup B) = Sum(g, T) + Sum(g, B)
        BY <2>0, <3>4, <3>7, <3>8, <3>9
      <3> QED
        BY <3>10
    <2> QED
      BY <2>1, <2>2
  <1> HIDE DEF G
  <1>2. \A T \in SUBSET A : T \in G
    BY <1>0, <1>1, OverSubsets
  <1>3. A \in G
    BY <1>2
  <1> QED
    BY <1>3 DEF G

LEMMA SumOfPart ==
    ASSUME NEW g, NEW S, IsFiniteSet(S), \A x \in S : g[x] \in Nat, NEW A \in SUBSET S
    PROVE  Sum(g, A) <= Sum(g, S)
  <1>1. PICK B : B = S \ A
    OBVIOUS
  <1>2. A \cup B = S /\ A \cap B = {} /\ B \subseteq S
    BY <1>1
  <1>3. Sum(g, S) = Sum(g, A) + Sum(g, B)
    BY <1>2, SumSplit
  <1>4. IsFiniteSet(A) /\ IsFiniteSet(B)
    BY <1>2, FS_Subset
  <1>5. Sum(g, A) \in Nat /\ Sum(g, B) \in Nat
    BY <1>2, <1>4, SumOfNats
  <1> QED
    BY <1>3, <1>5

LEMMA SumOfZeros ==
    ASSUME NEW g, NEW S, IsFiniteSet(S), \A x \in S : g[x] = 0
    PROVE  Sum(g, S) = 0
  <1> DEFINE G == {T \in SUBSET S : Sum(g, T) = 0}
  <1>1. ASSUME NEW T \in SUBSET S, \A U \in SUBSET T : U # T => U \in G
        PROVE  T \in G
    <2>1. CASE T = {}
      BY <2>1, SumNone
    <2>2. CASE T # {}
      <3>1. Chosen(T) \in T /\ IsFiniteSet(T)
        BY <2>2, ChosenIn, FS_Subset
      <3>2. PICK U : U = T \ {Chosen(T)}
        OBVIOUS
      <3>3. U \in SUBSET T /\ U # T
        BY <3>1, <3>2
      <3>4. Sum(g, U) = 0 /\ g[Chosen(T)] = 0
        BY <1>1, <3>1, <3>3
      <3>5. Sum(g, T) = g[Chosen(T)] + Sum(g, U)
        BY <2>2, <3>1, <3>2, SumChosen
      <3> QED
        BY <3>4, <3>5
    <2> QED
      BY <2>1, <2>2
  <1> HIDE DEF G
  <1>2. \A T \in SUBSET S : T \in G
    BY <1>1, OverSubsets
  <1> QED
    BY <1>2 DEF G

-----------------------------------------------------------------------------
(* The rate.                                                                *)

LEMMA TimesFinite == IsFiniteSet(Times) /\ Times \subseteq Nat /\ Window \in Nat /\ Window > 0
                     /\ MaxRequests \in Nat /\ MaxRequests > 0
  BY LimitAssumption, FS_Interval DEF Times

\* One more at e.
LEMMA SumBumped ==
    ASSUME NEW g \in [Times -> Nat], NEW e \in Times, NEW S \in SUBSET Times,
           NEW more \in [Times -> Nat], more[e] = g[e] + 1,
           \A x \in Times : x # e => more[x] = g[x]
    PROVE  /\ e \in S => Sum(more, S) = Sum(g, S) + 1
           /\ e \notin S => Sum(more, S) = Sum(g, S)
  <1>2. IsFiniteSet(S)
    BY TimesFinite, FS_Subset
  <1>3. CASE e \notin S
    <2>1. \A x \in S : more[x] = g[x]
      BY <1>3
    <2> QED
      BY <1>2, <1>3, <2>1, SumSame
  <1>4. CASE e \in S
    <2>1. PICK U : U = S \ {e}
      OBVIOUS
    <2>2. IsFiniteSet(U) /\ U \subseteq S /\ e \notin U
      BY <1>2, <2>1, FS_Subset
    <2>3. \A x \in U : more[x] = g[x] /\ g[x] \in Nat
      BY <2>2
    <2>4. Sum(more, U) = Sum(g, U) /\ Sum(g, U) \in Nat
      BY <2>2, <2>3, SumSame, SumOfNats
    <2>5. \A x \in S : more[x] \in Nat /\ g[x] \in Nat
      OBVIOUS
    <2>6. Sum(more, S) = more[e] + Sum(more, U)
      BY <1>2, <1>4, <2>1, <2>5, SumPicked
    <2>7. Sum(g, S) = g[e] + Sum(g, U)
      BY <1>2, <1>4, <2>1, <2>5, SumPicked
    <2>8. g[e] \in Nat
      OBVIOUS
    <2>9. Sum(more, S) = Sum(g, S) + 1
      BY <2>4, <2>6, <2>7, <2>8
    <2> QED
      BY <1>4, <2>9
  <1> QED
    BY <1>3, <1>4

Between(first, last) == {t \in Times : first <= t /\ t <= last}
Since(first) == {t \in Times : first <= t}

\* What a key's window, which began at w and counts c, says of the requests g
\* that passed by the time n.
Limited(g, w, c) ==
    \A t \in Times : Sum(g, Between(t, t + Window - 1)) <= 2 * MaxRequests - 1

Counted(g, w, c, n) ==
    /\ w <= n /\ g[w] >= 1
    /\ Sum(g, Since(w)) = c
    /\ \A t \in Times : t > n \/ t >= w + Window => g[t] = 0
    /\ \A t \in Times : w < t + Window /\ t < w => Sum(g, Between(t, w - 1)) <= MaxRequests - 1

Rate(g, w, c, n) ==
    /\ g \in [Times -> Nat] /\ w \in Times /\ c \in 0..MaxRequests /\ n \in Times
    /\ Limited(g, w, c)
    /\ IF c = 0 THEN \A t \in Times : g[t] = 0 ELSE Counted(g, w, c, n)

LEMMA NoRequests ==
    ASSUME NEW g \in [Times -> Nat], NEW w \in Times, NEW n \in Times, \A t \in Times : g[t] = 0
    PROVE  Rate(g, w, 0, n)
  <1>1. ASSUME NEW t \in Times PROVE Sum(g, Between(t, t + Window - 1)) = 0
    <2>1. Between(t, t + Window - 1) \subseteq Times
      BY DEF Between
    <2>2. IsFiniteSet(Between(t, t + Window - 1))
      BY <2>1, TimesFinite, FS_Subset
    <2> QED
      BY <2>1, <2>2, SumOfZeros
  <1>2. Limited(g, w, 0)
    BY <1>1, TimesFinite DEF Limited
  <1> QED
    BY <1>2, TimesFinite DEF Rate

LEMMA RateGoesOn ==
    ASSUME NEW g, NEW w, NEW c, NEW n, Rate(g, w, c, n), NEW m \in Times, n <= m
    PROVE  Rate(g, w, c, m)
  <1>1. n \in Nat /\ m \in Nat /\ w \in Nat /\ \A t \in Times : t \in Nat
    BY TimesFinite DEF Rate
  <1>2. Counted(g, w, c, n) => Counted(g, w, c, m)
    BY <1>1 DEF Counted
  <1> QED
    BY <1>2 DEF Rate

\* Facts of the arithmetic of stretches.
LEMMA BetweenIs ==
    ASSUME NEW a \in Int, NEW b \in Int
    PROVE  /\ Between(a, b) \in SUBSET Times /\ Since(a) \in SUBSET Times
           /\ IsFiniteSet(Between(a, b)) /\ IsFiniteSet(Since(a))
  <1>1. Between(a, b) \subseteq Times /\ Since(a) \subseteq Times
    BY DEF Between, Since
  <1> QED
    BY <1>1, TimesFinite, FS_Subset

LEMMA StretchNat ==
    ASSUME NEW g \in [Times -> Nat], NEW S \in SUBSET Times
    PROVE  Sum(g, S) \in Nat /\ IsFiniteSet(S) /\ \A x \in S : g[x] \in Nat
  <1>1. IsFiniteSet(S)
    BY TimesFinite, FS_Subset
  <1>2. \A x \in S : g[x] \in Nat
    OBVIOUS
  <1> QED
    BY <1>1, <1>2, SumOfNats

\* A stretch that begins before w meets one window before it, and the one that
\* begins at w.
LEMMA TwoWindows ==
    ASSUME NEW g \in [Times -> Nat], NEW t \in Times, NEW w \in Times, t < w,
           Sum(g, Between(t, w - 1)) <= MaxRequests - 1, Sum(g, Since(w)) <= MaxRequests
    PROVE  Sum(g, Between(t, t + Window - 1)) <= 2 * MaxRequests - 1
  <1> DEFINE A == Between(t, w - 1)
             B == Since(w)
             S == Between(t, t + Window - 1)
  <1>1. t \in Nat /\ w \in Nat /\ \A x \in Times : x \in Nat
    BY TimesFinite
  <1>2. A \in SUBSET Times /\ B \in SUBSET Times /\ A \cup B \in SUBSET Times
    BY <1>1, BetweenIs
  <1>3. A \cap B = {}
    <2> SUFFICES ASSUME NEW x \in A, x \in B PROVE FALSE
      OBVIOUS
    <2>1. x \in Times /\ x <= w - 1 /\ w <= x
      BY DEF Between, Since
    <2> QED
      BY <1>1, <2>1
  <1>4. S \in SUBSET (A \cup B)
    <2> SUFFICES ASSUME NEW x \in S PROVE x \in A \/ x \in B
      OBVIOUS
    <2>1. x \in Times /\ t <= x
      BY DEF Between
    <2>2. x <= w - 1 \/ w <= x
      BY <1>1, <2>1
    <2> QED
      BY <2>1, <2>2 DEF Between, Since
  <1> HIDE DEF A, B, S
  <1>5. IsFiniteSet(A \cup B) /\ \A x \in A \cup B : g[x] \in Nat
    BY <1>2, StretchNat
  <1>6. Sum(g, A \cup B) = Sum(g, A) + Sum(g, B)
    BY <1>3, <1>5, SumSplit
  <1>7. Sum(g, S) <= Sum(g, A \cup B)
    BY <1>4, <1>5, SumOfPart
  <1>8. PICK a \in Nat, b \in Nat, s \in Nat : a = Sum(g, A) /\ b = Sum(g, B) /\ s = Sum(g, S)
    BY <1>2, <1>4, StretchNat
  <1>9. a <= MaxRequests - 1 /\ b <= MaxRequests /\ s <= a + b
    BY <1>6, <1>7, <1>8 DEF A, B
  <1>10. s <= 2 * MaxRequests - 1
    BY <1>9, TimesFinite
  <1> QED
    BY <1>8, <1>10 DEF S

\* The window from w on, with the request at n in it.
LEMMA WindowGrows ==
    ASSUME NEW g \in [Times -> Nat], NEW w \in Times, NEW n \in Times, w <= n, n < w + Window,
           NEW c \in Nat, c < MaxRequests, Limited(g, w, c), Sum(g, Since(w)) = c,
           \A t \in Times : t > n \/ t >= w + Window => g[t] = 0,
           \A t \in Times : w < t + Window /\ t < w => Sum(g, Between(t, w - 1)) <= MaxRequests - 1,
           g[w] >= 1 \/ w = n
    PROVE  Rate([g EXCEPT ![n] = g[n] + 1], w, c + 1, n)
  <1>1. PICK more : more = [g EXCEPT ![n] = g[n] + 1]
    OBVIOUS
  <1>2. /\ more \in [Times -> Nat] /\ more[n] = g[n] + 1
        /\ \A t \in Times : t # n => more[t] = g[t]
        /\ \A S \in SUBSET Times : n \notin S => Sum(more, S) = Sum(g, S)
        /\ \A S \in SUBSET Times : n \in S => Sum(more, S) = Sum(g, S) + 1
    <2>1. more \in [Times -> Nat] /\ more[n] = g[n] + 1 /\ \A t \in Times : t # n => more[t] = g[t]
      BY <1>1
    <2>2. ASSUME NEW S \in SUBSET Times
          PROVE  /\ n \in S => Sum(more, S) = Sum(g, S) + 1
                 /\ n \notin S => Sum(more, S) = Sum(g, S)
      BY <2>1, TimesFinite, SumBumped
    <2> QED
      BY <2>1, <2>2
  <1>3. w \in Nat /\ n \in Nat /\ \A t \in Times : t \in Nat
    BY TimesFinite
  <1>4. Sum(more, Since(w)) = c + 1
    <2>1. n \in Since(w) /\ Since(w) \in SUBSET Times
      BY <1>3 DEF Since
    <2> QED
      BY <1>2, <2>1
  <1>5. ASSUME NEW t \in Times, w < t + Window, t < w
        PROVE  Sum(more, Between(t, w - 1)) <= MaxRequests - 1
    <2>1. n \notin Between(t, w - 1) /\ Between(t, w - 1) \in SUBSET Times
      BY <1>3 DEF Between
    <2>2. Sum(more, Between(t, w - 1)) = Sum(g, Between(t, w - 1))
      BY <1>2, <2>1
    <2> QED
      BY <1>5, <2>2
  <1>6. ASSUME NEW t \in Times
        PROVE  Sum(more, Between(t, t + Window - 1)) <= 2 * MaxRequests - 1
    <2>0. PICK S : S = Between(t, t + Window - 1)
      OBVIOUS
    <2>1. S \in SUBSET Times
      BY <2>0 DEF Between
    <2>2. CASE n \notin S
      <3>1. Sum(more, S) = Sum(g, S)
        BY <1>2, <2>1, <2>2
      <3> QED
        BY <2>0, <3>1 DEF Limited
    <2>3. CASE n \in S /\ w <= t
      <3>1. S \in SUBSET Since(w)
        <4> SUFFICES ASSUME NEW x \in S PROVE x \in Since(w)
          OBVIOUS
        <4>1. x \in Times /\ t <= x
          BY <2>0 DEF Between
        <4>2. w <= x
          BY <1>3, <2>3, <4>1
        <4> QED
          BY <4>1, <4>2 DEF Since
      <3>2. IsFiniteSet(Since(w)) /\ \A x \in Since(w) : more[x] \in Nat
        <4>1. Since(w) \in SUBSET Times
          BY DEF Since
        <4> QED
          BY <1>2, <4>1, StretchNat
      <3>3. Sum(more, S) <= Sum(more, Since(w))
        BY <3>1, <3>2, SumOfPart
      <3>4. PICK s \in Nat : s = Sum(more, S)
        BY <1>2, <2>1, StretchNat
      <3>5. s <= c + 1
        BY <1>4, <3>3, <3>4
      <3>6. s <= 2 * MaxRequests - 1
        BY <3>5, TimesFinite
      <3> QED
        BY <2>0, <3>4, <3>6
    <2>4. CASE n \in S /\ t < w
      <3>1. w < t + Window
        BY <1>3, <2>0, <2>4, TimesFinite DEF Between
      <3>2. Sum(more, Between(t, w - 1)) <= MaxRequests - 1
        BY <1>5, <2>4, <3>1
      <3>3. Sum(more, Since(w)) <= MaxRequests
        BY <1>4, TimesFinite
      <3> QED
        BY <1>2, <2>4, <3>2, <3>3, TwoWindows
    <2> QED
      BY <1>3, <2>2, <2>3, <2>4
  <1>7. Limited(more, w, c + 1)
    BY <1>6 DEF Limited
  <1>8. more[w] >= 1
    BY <1>2, <1>3
  <1>9. \A t \in Times : t > n \/ t >= w + Window => more[t] = 0
    BY <1>2, <1>3, TimesFinite
  <1>10. Counted(more, w, c + 1, n)
    BY <1>4, <1>5, <1>8, <1>9 DEF Counted
  <1>11. c + 1 \in 0..MaxRequests /\ c + 1 # 0
    BY TimesFinite
  <1> QED
    BY <1>1, <1>2, <1>7, <1>10, <1>11 DEF Rate

\* A request passes in the window, or opens one.
LEMMA RequestPasses ==
    ASSUME NEW g, NEW w, NEW c, NEW n, Rate(g, w, c, n), c # 0, n < w + Window, c < MaxRequests
    PROVE  Rate([g EXCEPT ![n] = g[n] + 1], w, c + 1, n)
  <1>1. c \in Nat
    BY DEF Rate
  <1> QED
    BY <1>1, WindowGrows DEF Rate, Counted

LEMMA WindowOpens ==
    ASSUME NEW g, NEW w, NEW c, NEW n, Rate(g, w, c, n), c = 0 \/ n >= w + Window
    PROVE  Rate([g EXCEPT ![n] = g[n] + 1], n, 1, n)
  <1>0. g \in [Times -> Nat] /\ n \in Times /\ w \in Times /\ Limited(g, w, c) /\ c \in 0..MaxRequests
    BY DEF Rate
  <1>1. w \in Nat /\ n \in Nat /\ c \in Nat /\ c <= MaxRequests /\ \A t \in Times : t \in Nat
    BY <1>0, TimesFinite
  <1>2. \A t \in Times : t >= n => g[t] = 0
    <2>1. CASE c = 0
      BY <2>1 DEF Rate
    <2>2. CASE c # 0
      <3>1. Counted(g, w, c, n) /\ n >= w + Window
        BY <2>2 DEF Rate
      <3> QED
        BY <1>1, <3>1, TimesFinite DEF Counted
    <2> QED
      BY <2>1, <2>2
  <1>3. Sum(g, Since(n)) = 0
    <2>1. \A x \in Since(n) : g[x] = 0
      BY <1>1, <1>2 DEF Since
    <2>2. IsFiniteSet(Since(n))
      BY <1>1, BetweenIs
    <2> QED
      BY <2>1, <2>2, SumOfZeros
  <1>4. ASSUME NEW t \in Times, n < t + Window, t < n
        PROVE  Sum(g, Between(t, n - 1)) <= MaxRequests - 1
    <2>0. PICK S : S = Between(t, n - 1)
      OBVIOUS
    <2>1. S \in SUBSET Times
      BY <2>0 DEF Between
    <2>a. PICK s \in Nat : s = Sum(g, S)
      BY <1>0, <2>1, StretchNat
    <2>2. CASE c = 0
      <3>1. \A x \in S : g[x] = 0
        BY <2>1, <2>2 DEF Rate
      <3>2. Sum(g, S) = 0
        BY <1>0, <2>1, <3>1, StretchNat, SumOfZeros
      <3> QED
        BY <2>0, <3>2, TimesFinite
    <2>3. CASE c # 0
      <3>1. Counted(g, w, c, n) /\ n >= w + Window
        BY <2>3 DEF Rate
      <3>2. PICK T : T = Since(w) \ {w}
        OBVIOUS
      <3>3. S \in SUBSET T
        <4> SUFFICES ASSUME NEW x \in S PROVE x \in Since(w) /\ x # w
          BY <3>2
        <4>1. x \in Times /\ t <= x
          BY <2>0 DEF Between
        <4>2. w <= x /\ x # w
          BY <1>1, <1>4, <3>1, <4>1, TimesFinite
        <4> QED
          BY <4>1, <4>2 DEF Since
      <3>4. w \in Since(w) /\ Since(w) \in SUBSET Times
        BY <1>0, <1>1 DEF Since
      <3>5. IsFiniteSet(Since(w)) /\ \A x \in Since(w) : g[x] \in Nat
        BY <1>0, <3>4, StretchNat
      <3>6. Sum(g, Since(w)) = g[w] + Sum(g, T)
        BY <3>2, <3>4, <3>5, SumPicked
      <3>7. T \in SUBSET Times
        BY <3>2, <3>4
      <3>8. IsFiniteSet(T) /\ \A x \in T : g[x] \in Nat
        BY <1>0, <3>7, StretchNat
      <3>9. Sum(g, S) <= Sum(g, T)
        BY <3>3, <3>8, SumOfPart
      <3>10. PICK r \in Nat : r = Sum(g, T)
        BY <1>0, <3>7, StretchNat
      <3>11. PICK first \in Nat : first = g[w]
        BY <1>0
      <3>12. c = first + r /\ first >= 1 /\ s <= r
        BY <2>a, <3>1, <3>6, <3>9, <3>10, <3>11 DEF Counted
      <3>13. s <= MaxRequests - 1
        BY <1>1, <3>12, TimesFinite
      <3> QED
        BY <2>0, <2>a, <3>13
    <2> QED
      BY <2>2, <2>3
  <1>5. \A t \in Times : t > n \/ t >= n + Window => g[t] = 0
    BY <1>1, <1>2, TimesFinite
  <1>6. n <= n /\ n < n + Window /\ 0 < MaxRequests
    BY <1>1, TimesFinite
  <1>7. Limited(g, n, 0)
    BY <1>0 DEF Limited
  <1>8. Rate([g EXCEPT ![n] = g[n] + 1], n, 0 + 1, n)
    <2>1. 0 \in Nat
      OBVIOUS
    <2> QED
      BY <1>0, <1>3, <1>4, <1>5, <1>6, <1>7, <2>1, WindowGrows
  <1> QED
    BY <1>8

-----------------------------------------------------------------------------
RateKept == \A k \in Keys : Rate(passed[k], windowStart[k], count[k], now)

\* The fold that PassedBetween is.
LEMMA FoldIs ==
    ASSUME NEW g, NEW S, IsFiniteSet(S)
    PROVE  FoldFunctionOnSet(LAMBDA a, b : a + b, 0, g, S) = Sum(g, S)
  <1> DEFINE iter == CHOOSE iter : iter = [s \in SUBSET S |-> IF s = {} THEN 0
                       ELSE g[CHOOSE x \in s : TRUE] + iter[s \ {CHOOSE x \in s : TRUE}]]
  <1>1. FoldFunctionOnSet(LAMBDA a, b : a + b, 0, g, S) = iter[S]
    BY DEF FoldFunctionOnSet, MapThenFoldSet
  <1>2. PICK F : Adds(F, g, S)
    BY SumsExist
  <1>3. F = [s \in SUBSET S |-> IF s = {} THEN 0
               ELSE g[CHOOSE x \in s : TRUE] + F[s \ {CHOOSE x \in s : TRUE}]]
    BY <1>2 DEF Adds, Chosen
  <1>4. iter = [s \in SUBSET S |-> IF s = {} THEN 0
                  ELSE g[CHOOSE x \in s : TRUE] + iter[s \ {CHOOSE x \in s : TRUE}]]
    BY <1>3
  <1>5. Adds(iter, g, S)
    <2> HIDE DEF iter
    <2> QED
      BY <1>4 DEF Adds, Chosen
  <1>6. Sum(g, S) = iter[S]
    <2> HIDE DEF iter
    <2> QED
      BY <1>5, SumIs
  <1> QED
    BY <1>1, <1>6

LEMMA KeptIsWithinRate == RateKept => WithinRate
  <1> SUFFICES ASSUME RateKept, NEW k \in Keys, NEW t \in Times
               PROVE  PassedBetween(k, t, t + Window - 1) < 2 * MaxRequests
    BY DEF WithinRate
  <1>1. PICK g : g = passed[k]
    OBVIOUS
  <1>2. g \in [Times -> Nat] /\ Limited(g, windowStart[k], count[k])
    BY <1>1 DEF RateKept, Rate
  <1>3. PICK S : S = Between(t, t + Window - 1)
    OBVIOUS
  <1>4. S \in SUBSET Times
    BY <1>3 DEF Between
  <1>5. IsFiniteSet(S)
    BY <1>4, TimesFinite, FS_Subset
  <1>6. PassedBetween(k, t, t + Window - 1) = Sum(g, S)
    <2>1. PassedBetween(k, t, t + Window - 1) = FoldFunctionOnSet(LAMBDA a, b : a + b, 0, g, S)
      BY <1>1, <1>3 DEF PassedBetween, Between
    <2> QED
      BY <1>5, <2>1, FoldIs
  <1>7. Sum(g, S) <= 2 * MaxRequests - 1
    BY <1>2, <1>3 DEF Limited
  <1>8. PICK s \in Nat : s = Sum(g, S)
    BY <1>2, <1>4, StretchNat
  <1>9. s < 2 * MaxRequests
    BY <1>7, <1>8, TimesFinite
  <1> QED
    BY <1>6, <1>8, <1>9

LEMMA RateStarts == Init => RateKept
  <1> SUFFICES ASSUME Init, NEW k \in Keys PROVE Rate(passed[k], windowStart[k], count[k], now)
    BY DEF RateKept
  <1>1. 0 \in Times
    BY LimitAssumption DEF Times
  <1>2. now = 0 /\ windowStart[k] = 0 /\ count[k] = 0 /\ passed[k] = [t \in Times |-> 0]
    BY DEF Init, NoneYet
  <1>3. passed[k] \in [Times -> Nat] /\ \A t \in Times : passed[k][t] = 0
    BY <1>2
  <1> QED
    BY <1>1, <1>2, <1>3, NoRequests

\* A request that passes the limit.
LEMMA PassKeeps ==
    ASSUME RateKept, TypeOK, NEW m \in Messages, Pass(m), UNCHANGED now
    PROVE  RateKept'
  <1> DEFINE k == KeyOf[m]
  <1>1. k \in Keys
    BY MessageAssumption
  <1> HIDE DEF k
  <1>2. /\ NewWindow(k) \/ count[k] < MaxRequests
        /\ windowStart' = IF NewWindow(k) THEN [windowStart EXCEPT ![k] = now] ELSE windowStart
        /\ count' = [count EXCEPT ![k] = IF NewWindow(k) THEN 1 ELSE count[k] + 1]
        /\ passed' = [passed EXCEPT ![k] = [passed[k] EXCEPT ![now] = passed[k][now] + 1]]
    BY DEF Pass, UnderLimit, CountRequest, k
  <1>3. Rate(passed[k], windowStart[k], count[k], now)
    BY <1>1 DEF RateKept
  <1>4. /\ windowStart \in [Keys -> Times] /\ count \in [Keys -> 0..MaxRequests]
        /\ passed \in [Keys -> [Times -> Nat]] /\ now \in Times
    BY DEF TypeOK
  <1>5. passed'[k] = [passed[k] EXCEPT ![now] = passed[k][now] + 1]
    BY <1>1, <1>2, <1>4
  <1>6. ASSUME NEW q \in Keys, q # k PROVE Rate(passed'[q], windowStart'[q], count'[q], now)
    <2>1. passed'[q] = passed[q] /\ windowStart'[q] = windowStart[q] /\ count'[q] = count[q]
      BY <1>2, <1>4, <1>6
    <2> QED
      BY <2>1 DEF RateKept
  <1>7. now \in Nat /\ windowStart[k] \in Nat
    BY <1>1, <1>4, TimesFinite
  <1>8. Rate(passed'[k], windowStart'[k], count'[k], now)
    <2>1. CASE NewWindow(k)
      <3>1. count[k] = 0 \/ now >= windowStart[k] + Window
        BY <1>7, <2>1, TimesFinite DEF NewWindow
      <3>2. windowStart'[k] = now /\ count'[k] = 1
        BY <1>1, <1>2, <1>4, <2>1
      <3>3. Rate([passed[k] EXCEPT ![now] = passed[k][now] + 1], now, 1, now)
        BY <1>3, <3>1, WindowOpens
      <3> QED
        BY <1>5, <3>2, <3>3
    <2>2. CASE ~NewWindow(k)
      <3>1. count[k] # 0 /\ now < windowStart[k] + Window /\ count[k] < MaxRequests
        BY <1>2, <1>7, <2>2, TimesFinite DEF NewWindow
      <3>2. windowStart'[k] = windowStart[k] /\ count'[k] = count[k] + 1
        BY <1>1, <1>2, <1>4, <2>2
      <3>3. Rate([passed[k] EXCEPT ![now] = passed[k][now] + 1], windowStart[k], count[k] + 1, now)
        BY <1>3, <3>1, RequestPasses
      <3> QED
        BY <1>5, <3>2, <3>3
    <2> QED
      BY <2>1, <2>2
  <1> QED
    BY <1>6, <1>8 DEF RateKept

LEMMA RateStep == IInv /\ RateKept /\ [Next]_vars => RateKept'
  <1> SUFFICES ASSUME IInv, RateKept, [Next]_vars PROVE RateKept'
    OBVIOUS
  <1>0. TypeOK
    BY DEF IInv
  <1>1. CASE UNCHANGED <<now, windows, passed>>
    BY <1>1 DEF windows, RateKept
  <1>2. ASSUME NEW m \in Messages, Accept(m) PROVE RateKept'
    <2>1. UNCHANGED now /\ (Pass(m) \/ UNCHANGED <<windows, passed>>)
      BY <1>2 DEF Accept, LimitRate
    <2> QED
      BY <1>0, <1>1, <2>1, PassKeeps
  <1>3. ASSUME NEW m \in Messages, MessageStep(m), ~Accept(m) PROVE UNCHANGED <<now, windows, passed>>
    BY <1>3 DEF MessageStep, RefuseReplay, CheckBindings, Allow, Deny, Answer
  <1>4. EnvironmentStep => UNCHANGED <<now, windows, passed>>
    BY DEF EnvironmentStep
  <1>5. CASE Restart
    <2>1. ASSUME NEW k \in Keys PROVE Rate(passed'[k], windowStart'[k], count'[k], now')
      <3>1. now' = now /\ windowStart'[k] = 0 /\ count'[k] = 0 /\ passed'[k] = [t \in Times |-> 0]
        BY <1>5 DEF Restart, NoneYet
      <3>2. 0 \in Times /\ now \in Times
        BY <1>0, LimitAssumption DEF Times, TypeOK
      <3>3. passed'[k] \in [Times -> Nat] /\ \A t \in Times : passed'[k][t] = 0
        BY <3>1
      <3> QED
        BY <3>1, <3>2, <3>3, NoRequests
    <2> QED
      BY <2>1 DEF RateKept
  <1>6. CASE Tick
    <2>1. now \in Times /\ now' = now + 1 /\ now < MaxTime /\ UNCHANGED <<windows, passed>>
      BY <1>0, <1>6 DEF Tick, TypeOK
    <2>2. now' \in Times /\ now <= now'
      BY <2>1, LimitAssumption DEF Times
    <2>3. ASSUME NEW k \in Keys PROVE Rate(passed'[k], windowStart'[k], count'[k], now')
      <3>1. Rate(passed[k], windowStart[k], count[k], now)
        BY DEF RateKept
      <3>2. Rate(passed[k], windowStart[k], count[k], now')
        BY <2>2, <3>1, RateGoesOn
      <3> QED
        BY <2>1, <3>2 DEF windows
    <2> QED
      BY <2>3 DEF RateKept
  <1>7. CASE UNCHANGED vars
    <2>1. UNCHANGED <<now, windows, passed>>
      BY <1>7 DEF vars
    <2> QED
      BY <1>1, <2>1
  <1> QED
    BY <1>1, <1>2, <1>3, <1>4, <1>5, <1>6, <1>7 DEF Next

\* activityRevalidationService.ts: for any limit and window, of a principal
\* and action fewer than twice the limit pass in any stretch as long as a
\* window, wherever the stretch begins.
THEOREM RateCorrect == Spec => []WithinRate
  <1>1. Spec => []RateKept
    BY Invariance, RateStarts, RateStep, PTL DEF Spec
  <1> QED
    BY <1>1, KeptIsWithinRate, PTL

-----------------------------------------------------------------------------
(* Reservations.                                                            *)

\* The reservations of a provider are the sum of their estimates.
HeldBy(h, p) == {s \in DOMAIN h : h[s].provider = p}
Estimates(h) == [s \in DOMAIN h |-> h[s].high]
Promised(h, p) == MapThenSumSet(LAMBDA s : h[s].high, HeldBy(h, p))

LEMMA PromisedIs ==
    ASSUME NEW h, NEW p, IsFiniteSet(DOMAIN h)
    PROVE  Promised(h, p) = Sum(Estimates(h), HeldBy(h, p))
  <1> DEFINE S == HeldBy(h, p)
             g == Estimates(h)
             iter == CHOOSE iter : iter = [s \in SUBSET S |-> IF s = {} THEN 0
                       ELSE h[CHOOSE x \in s : TRUE].high + iter[s \ {CHOOSE x \in s : TRUE}]]
  <1>0. S \subseteq DOMAIN h
    BY DEF HeldBy
  <1>1. Promised(h, p) = iter[S]
    BY DEF Promised, MapThenSumSet, MapThenFoldSet
  <1>2. \A T \in SUBSET S : T # {} => Chosen(T) \in S /\ g[Chosen(T)] = h[Chosen(T)].high
    BY <1>0, ChosenIn DEF Estimates
  <1>a. IsFiniteSet(S)
    BY <1>0, FS_Subset
  <1>3. PICK F : Adds(F, g, S)
    BY <1>a, SumsExist
  <1>4. F = [s \in SUBSET S |-> IF s = {} THEN 0
               ELSE h[CHOOSE x \in s : TRUE].high + F[s \ {CHOOSE x \in s : TRUE}]]
    <2> HIDE DEF g, S
    <2> QED
      BY <1>2, <1>3 DEF Adds, Chosen
  <1>5. iter = [s \in SUBSET S |-> IF s = {} THEN 0
                  ELSE h[CHOOSE x \in s : TRUE].high + iter[s \ {CHOOSE x \in s : TRUE}]]
    BY <1>4
  <1>6. Adds(iter, g, S)
    <2> HIDE DEF iter, g, S
    <2> QED
      BY <1>2, <1>5 DEF Adds, Chosen
  <1>7. Sum(g, S) = iter[S]
    <2> HIDE DEF iter, g, S
    <2> QED
      BY <1>6, <1>a, SumIs
  <1> QED
    BY <1>1, <1>7

LEMMA ReservedIs ==
    ASSUME NEW p
    PROVE  Reserved(p) = Promised(holds, p) /\ Reserved(p)' = Promised(holds', p)
  <1>1. Reserved(p) = Promised(holds, p)
    BY DEF Reserved, Promised, Active, HeldBy, MapThenSumSet, MapThenFoldSet
  <1>2. Reserved(p)' = Promised(holds', p)
    BY DEF Reserved, Promised, Active, HeldBy, MapThenSumSet, MapThenFoldSet
  <1> QED
    BY <1>1, <1>2

-----------------------------------------------------------------------------
(* Admission.                                                               *)

Estimated(h) == IsFiniteSet(DOMAIN h) /\ \A s \in DOMAIN h : h[s].high \in Nat

UsageTypes ==
    /\ reading \in [Providers -> [Windows \cup {Turn} -> Int]]
    /\ used \in [Providers -> 0..100]
    /\ admitted \subseteq Providers
    /\ Estimated(holds)
    /\ \A s \in DOMAIN holds : holds[s].provider \in Providers

\* The reserve is free beside the reservations.
LeavesReserve == \A p \in admitted : Stated(p) # {} => Reserved(p) + Reserve <= Min(Stated(p))

UsageKept == UsageTypes /\ LeavesReserve

LEMMA UsageStarts == UsageInit => UsageKept
  <1> SUFFICES ASSUME UsageInit PROVE UsageKept
    OBVIOUS
  <1>1. DOMAIN holds = {} /\ admitted = {}
    BY DEF UsageInit
  <1>2. Estimated(holds)
    BY <1>1, FS_EmptySet DEF Estimated
  <1>3. reading \in [Providers -> [Windows \cup {Turn} -> Int]] /\ used \in [Providers -> 0..100]
    BY DEF UsageInit, NoValue
  <1> QED
    BY <1>1, <1>2, <1>3 DEF UsageKept, UsageTypes, LeavesReserve

\* What reservations add up to: with one more, and with fewer.
LEMMA PromisedNat ==
    ASSUME NEW h, NEW p, Estimated(h)
    PROVE  Promised(h, p) \in Nat
  <1>1. HeldBy(h, p) \subseteq DOMAIN h
    BY DEF HeldBy
  <1>2. IsFiniteSet(HeldBy(h, p))
    BY <1>1, FS_Subset DEF Estimated
  <1>3. \A s \in HeldBy(h, p) : Estimates(h)[s] \in Nat
    BY <1>1 DEF Estimates, Estimated
  <1>4. Sum(Estimates(h), HeldBy(h, p)) \in Nat
    BY <1>2, <1>3, SumOfNats
  <1> QED
    BY <1>4, PromisedIs DEF Estimated

LEMMA PromisedLess ==
    ASSUME NEW h, NEW p, Estimated(h), NEW less, DOMAIN less \subseteq DOMAIN h,
           \A s \in DOMAIN less : less[s] = h[s]
    PROVE  Estimated(less) /\ Promised(less, p) <= Promised(h, p)
  <1>1. Estimated(less)
    BY FS_Subset DEF Estimated
  <1>2. HeldBy(less, p) \in SUBSET HeldBy(h, p) /\ HeldBy(h, p) \subseteq DOMAIN h
    BY DEF HeldBy
  <1>3. IsFiniteSet(HeldBy(h, p)) /\ IsFiniteSet(HeldBy(less, p))
    BY <1>2, FS_Subset DEF Estimated
  <1>4. \A s \in HeldBy(h, p) : Estimates(h)[s] \in Nat
    BY <1>2 DEF Estimates, Estimated
  <1>5. Sum(Estimates(h), HeldBy(less, p)) <= Sum(Estimates(h), HeldBy(h, p))
    BY <1>2, <1>3, <1>4, SumOfPart
  <1>6. \A s \in HeldBy(less, p) : Estimates(less)[s] = Estimates(h)[s]
    BY DEF HeldBy, Estimates
  <1>7. Sum(Estimates(less), HeldBy(less, p)) = Sum(Estimates(h), HeldBy(less, p))
    BY <1>3, <1>6, SumSame
  <1>8. Promised(less, p) = Sum(Estimates(less), HeldBy(less, p))
    BY <1>1, PromisedIs DEF Estimated
  <1>9. Promised(h, p) = Sum(Estimates(h), HeldBy(h, p))
    BY PromisedIs DEF Estimated
  <1> QED
    BY <1>1, <1>5, <1>7, <1>8, <1>9

LEMMA PromisedMore ==
    ASSUME NEW h, NEW p, Estimated(h), NEW s, s \notin DOMAIN h, NEW more,
           DOMAIN more = DOMAIN h \cup {s}, \A t \in DOMAIN h : more[t] = h[t],
           more[s].high \in Nat
    PROVE  /\ Estimated(more)
           /\ more[s].provider = p => Promised(more, p) = Promised(h, p) + more[s].high
           /\ more[s].provider # p => Promised(more, p) = Promised(h, p)
  <1>1. IsFiniteSet(DOMAIN more)
    BY FS_AddElement DEF Estimated
  <1>2. Estimated(more)
    BY <1>1 DEF Estimated
  <1>3. HeldBy(h, p) \subseteq DOMAIN h
    BY DEF HeldBy
  <1>4. IsFiniteSet(HeldBy(h, p))
    BY <1>3, FS_Subset DEF Estimated
  <1>5. \A t \in HeldBy(h, p) : Estimates(more)[t] = Estimates(h)[t] /\ Estimates(h)[t] \in Nat
    BY <1>3 DEF Estimates, Estimated
  <1>6. Sum(Estimates(more), HeldBy(h, p)) = Sum(Estimates(h), HeldBy(h, p))
    BY <1>4, <1>5, SumSame
  <1>7. Promised(more, p) = Sum(Estimates(more), HeldBy(more, p))
    BY <1>1, PromisedIs
  <1>8. Promised(h, p) = Sum(Estimates(h), HeldBy(h, p))
    BY PromisedIs DEF Estimated
  <1>9. CASE more[s].provider # p
    <2>1. HeldBy(more, p) = HeldBy(h, p)
      BY <1>9 DEF HeldBy
    <2>2. Promised(h, p) \in Nat
      BY PromisedNat
    <2> QED
      BY <1>2, <1>6, <1>7, <1>8, <1>9, <2>1, <2>2
  <1>10. CASE more[s].provider = p
    <2> DEFINE S == HeldBy(more, p)
    <2>1. s \in S /\ S \ {s} = HeldBy(h, p)
      BY <1>10 DEF HeldBy
    <2>2. IsFiniteSet(S)
      BY <1>1, FS_Subset DEF HeldBy
    <2>3. Estimates(more)[s] = more[s].high
      BY DEF Estimates
    <2>4. \A t \in S : Estimates(more)[t] \in Nat
      BY <1>5, <2>1, <2>3
    <2> HIDE DEF S
    <2>5. Sum(Estimates(more), S) = Estimates(more)[s] + Sum(Estimates(more), S \ {s})
      BY <2>1, <2>2, <2>4, SumPicked
    <2>6. Promised(h, p) \in Nat
      BY PromisedNat
    <2>7. Promised(more, p) = more[s].high + Promised(h, p)
      BY <1>6, <1>7, <1>8, <2>1, <2>3, <2>5 DEF S
    <2> QED
      BY <1>2, <1>10, <2>6, <2>7
  <1> QED
    BY <1>9, <1>10

\* Of finitely many readings, but those that say nothing, one is the least.
LEMMA LeastOfFinite ==
    ASSUME NEW S, IsFiniteSet(S), NEW f \in [S -> Int], NEW v,
           NEW r \in S, f[r] # v
    PROVE  \E m \in S : f[m] # v /\ \A x \in S : f[x] # v => f[m] <= f[x]
  <1> DEFINE Least(T) == \E m \in T : f[m] # v /\ \A x \in T : f[x] # v => f[m] <= f[x]
             G == {T \in SUBSET S : (\E x \in T : f[x] # v) => Least(T)}
  <1>1. ASSUME NEW T \in SUBSET S, \A U \in SUBSET T : U # T => U \in G
        PROVE  T \in G
    <2> SUFFICES ASSUME NEW x \in T, f[x] # v PROVE Least(T)
      OBVIOUS
    <2>1. PICK U : U = T \ {x}
      OBVIOUS
    <2>2. U \in SUBSET T /\ U # T
      BY <2>1
    <2>3. CASE \A y \in U : f[y] = v
      <3>1. \A y \in T : f[y] # v => y = x
        BY <2>1, <2>3
      <3>2. f[x] <= f[x]
        OBVIOUS
      <3> QED
        BY <3>1, <3>2
    <2>4. CASE \E y \in U : f[y] # v
      <3>1. U \in G
        BY <1>1, <2>2
      <3>2. PICK m \in U : f[m] # v /\ \A y \in U : f[y] # v => f[m] <= f[y]
        BY <2>4, <3>1
      <3>3. f[m] \in Int /\ f[x] \in Int /\ \A y \in T : f[y] \in Int
        BY <2>2
      <3>4. CASE f[m] <= f[x]
        BY <2>1, <3>2, <3>4
      <3>5. CASE f[x] <= f[m]
        <4>1. \A y \in T : f[y] # v => f[x] <= f[y]
          BY <2>1, <3>2, <3>3, <3>5
        <4> QED
          BY <4>1
      <3> QED
        BY <3>3, <3>4, <3>5
    <2> QED
      BY <2>3, <2>4
  <1> HIDE DEF G
  <1>2. \A T \in SUBSET S : T \in G
    BY <1>1, OverSubsets
  <1>3. S \in G
    BY <1>2
  <1> QED
    BY <1>3 DEF G

\* The least of the stated readings is one of them.
LEMMA LeastStated ==
    ASSUME UsageTypes, NEW p \in Providers, Stated(p) # {}
    PROVE  Min(Stated(p)) \in Int
  <1> DEFINE S == Windows \cup {Turn}
  <1>1. IsFiniteSet(S)
    BY UsageAssumption, FS_AddElement
  <1>2. reading[p] \in [S -> Int]
    BY DEF UsageTypes
  <1>3. PICK w \in S : reading[p][w] # NoValue
    BY DEF Stated
  <1> HIDE DEF S
  <1>4. PICK m \in S : reading[p][m] # NoValue /\ \A x \in S : reading[p][x] # NoValue => reading[p][m] <= reading[p][x]
    BY <1>1, <1>2, <1>3, LeastOfFinite
  <1>5. reading[p][m] \in Stated(p) /\ \A y \in Stated(p) : reading[p][m] <= y
    BY <1>4 DEF Stated, S
  <1>6. Min(Stated(p)) \in Stated(p)
    BY <1>5 DEF Min
  <1>7. Stated(p) \subseteq Int
    BY <1>2 DEF Stated, S
  <1> QED
    BY <1>6, <1>7

-----------------------------------------------------------------------------
LEMMA AdmitKeeps ==
    ASSUME UsageKept, NEW s, NEW p \in Providers, NEW c, Admit(s, p, c)
    PROVE  UsageKept'
  <1> USE DEF UsageKept
  <1> DEFINE entry == [provider |-> p, class |-> c, low |-> Low(p, c), high |-> High(p, c)]
  <1>1. /\ s \notin DOMAIN holds /\ Fits(p, c) /\ High(p, c) \in Nat
        /\ holds' = [t \in DOMAIN holds \cup {s} |-> IF t = s THEN entry ELSE holds[t]]
        /\ admitted' = admitted \cup {p}
        /\ UNCHANGED <<reading, observed, used>>
    BY DEF Admit, Admits, Storable
  <1>a. entry.provider = p /\ entry.high = High(p, c)
    OBVIOUS
  <1> HIDE DEF entry
  <1>2. /\ DOMAIN holds' = DOMAIN holds \cup {s}
        /\ \A t \in DOMAIN holds : holds'[t] = holds[t]
        /\ holds'[s] = entry
    BY <1>1
  <1>3. holds'[s].provider = p /\ holds'[s].high = High(p, c)
    BY <1>a, <1>2
  <1>4. Estimated(holds)
    BY DEF UsageTypes
  <1>5. PICK h : h = holds'
    OBVIOUS
  <1>6. /\ DOMAIN h = DOMAIN holds \cup {s} /\ \A t \in DOMAIN holds : h[t] = holds[t]
        /\ h[s].provider = p /\ h[s].high = High(p, c) /\ h[s].high \in Nat
    BY <1>1, <1>2, <1>3, <1>5
  <1>7. Estimated(h)
    BY <1>1, <1>4, <1>6, PromisedMore
  <1>8. UsageTypes'
    BY <1>1, <1>2, <1>3, <1>5, <1>7 DEF UsageTypes
  <1>9. ASSUME NEW q \in admitted', Stated(q)' # {}
        PROVE  Reserved(q)' + Reserve <= Min(Stated(q)')
    <2>1. Stated(q)' = Stated(q)
      BY <1>1 DEF Stated
    <2>2. /\ h[s].provider = q => Promised(h, q) = Promised(holds, q) + h[s].high
          /\ h[s].provider # q => Promised(h, q) = Promised(holds, q)
      <3>1. s \notin DOMAIN holds
        BY <1>1
      <3> QED
        BY <1>4, <1>6, <3>1, PromisedMore
    <2>3. Reserved(q)' = Promised(h, q) /\ Reserved(q) = Promised(holds, q)
      BY <1>5, ReservedIs
    <2>4. Promised(holds, q) \in Nat
      BY <1>4, PromisedNat
    <2>5. CASE q = p
      <3>1. Min(Stated(p)) \in Int
        BY <1>9, <2>1, <2>5, LeastStated
      <3>2. High(p, c) + Reserve <= Min(Stated(p)) - Reserved(p)
        BY <1>1, <1>9, <2>1, <2>5 DEF Fits
      <3>3. Reserved(q)' = Reserved(p) + High(p, c)
        BY <1>6, <2>2, <2>3, <2>5
      <3>4. PICK m \in Int : m = Min(Stated(p))
        BY <3>1
      <3>5. PICK r \in Nat : r = Reserved(p)
        BY <2>3, <2>4, <2>5
      <3>6. PICK e \in Nat : e = High(p, c)
        BY <1>1
      <3>7. e + Reserve <= m - r => (r + e) + Reserve <= m
        BY UsageAssumption
      <3> QED
        BY <2>1, <2>5, <3>2, <3>3, <3>4, <3>5, <3>6, <3>7
    <2>6. CASE q # p
      <3>1. q \in admitted
        BY <1>1, <2>6
      <3>2. Reserved(q)' = Reserved(q)
        BY <1>6, <2>2, <2>3, <2>4, <2>6
      <3> QED
        BY <1>9, <2>1, <3>1, <3>2 DEF LeavesReserve
    <2> QED
      BY <2>5, <2>6
  <1>10. LeavesReserve'
    BY <1>9 DEF LeavesReserve
  <1> QED
    BY <1>8, <1>10

\* A reservation is over.
LEMMA FreedKeeps ==
    ASSUME UsageKept, NEW s, holds' = Without(s), UNCHANGED <<reading, used, admitted>>
    PROVE  UsageKept'
  <1> USE DEF UsageKept
  <1>1. PICK less : less = holds'
    OBVIOUS
  <1>2. DOMAIN less \subseteq DOMAIN holds /\ \A t \in DOMAIN less : less[t] = holds[t]
    BY <1>1 DEF Without, Restrict
  <1>3. Estimated(holds)
    BY DEF UsageTypes
  <1>4. \A p : Estimated(less) /\ Promised(less, p) <= Promised(holds, p)
    BY <1>2, <1>3, PromisedLess
  <1>5. UsageTypes'
    BY <1>1, <1>2, <1>4 DEF UsageTypes
  <1>6. ASSUME NEW p \in admitted, Stated(p)' # {}
        PROVE  Reserved(p)' + Reserve <= Min(Stated(p)')
    <2>1. Stated(p)' = Stated(p)
      BY DEF Stated
    <2>2. Reserved(p)' = Promised(less, p) /\ Reserved(p) = Promised(holds, p)
      BY <1>1, ReservedIs
    <2>3. Reserved(p) + Reserve <= Min(Stated(p))
      BY <1>6, <2>1 DEF LeavesReserve
    <2>4. PICK few \in Nat : few = Promised(less, p)
      BY <1>4, PromisedNat
    <2>5. PICK many \in Nat : many = Promised(holds, p)
      BY <1>3, PromisedNat
    <2>6. few <= many
      BY <1>4, <2>4, <2>5
    <2>7. PICK m \in Int : m = Min(Stated(p))
      BY <1>6, <2>1, LeastStated DEF UsageTypes
    <2>8. many + Reserve <= m => few + Reserve <= m
      BY <2>6, UsageAssumption
    <2> QED
      BY <2>1, <2>2, <2>3, <2>4, <2>5, <2>7, <2>8
  <1>7. LeavesReserve'
    BY <1>6 DEF LeavesReserve
  <1> QED
    BY <1>5, <1>7

\* A reading of one provider changes, which has admitted none since.
LEMMA ReadingKeeps ==
    ASSUME UsageKept, NEW p \in Providers, UNCHANGED <<holds, used>>, admitted' = admitted \ {p},
           reading' \in [Providers -> [Windows \cup {Turn} -> Int]],
           \A q \in Providers : q # p => reading'[q] = reading[q]
    PROVE  UsageKept'
  <1> USE DEF UsageKept
  <1>1. UsageTypes'
    BY DEF UsageTypes
  <1>2. ASSUME NEW q \in admitted', Stated(q)' # {}
        PROVE  Reserved(q)' + Reserve <= Min(Stated(q)')
    <2>1. q \in admitted /\ reading'[q] = reading[q]
      BY DEF UsageTypes
    <2>2. Stated(q)' = Stated(q)
      BY <2>1 DEF Stated
    <2>3. Reserved(q)' = Reserved(q)
      BY ReservedIs
    <2> QED
      BY <1>2, <2>1, <2>2, <2>3 DEF LeavesReserve
  <1>3. LeavesReserve'
    BY <1>2 DEF LeavesReserve
  <1> QED
    BY <1>1, <1>3

\* What remains by the account's utilization.
LEMMA RemainingInt ==
    ASSUME UsageTypes, NEW p \in Providers, NEW remaining \in {100 - NormalizePercent(used[p]), NoValue}
    PROVE  remaining \in Int /\ 100 - used[p] \in Int
  <1>1. used[p] \in 0..100
    BY DEF UsageTypes
  <1>2. NormalizePercent(used[p]) = used[p]
    BY <1>1 DEF NormalizePercent
  <1> QED
    BY <1>1, <1>2 DEF NoValue

LEMMA SnapshotKeeps ==
    ASSUME UsageKept, NEW p \in Providers, NEW w \in Windows \cup {Turn},
           NEW remaining \in {100 - NormalizePercent(used[p]), NoValue}, Snapshot(p, w, remaining)
    PROVE  UsageKept'
  <1>1. remaining \in Int
    BY RemainingInt DEF UsageKept
  <1>2. /\ reading' = [reading EXCEPT ![p][w] = remaining]
        /\ admitted' = admitted \ {p} /\ UNCHANGED <<holds, used>>
    BY DEF Snapshot
  <1>3. reading \in [Providers -> [Windows \cup {Turn} -> Int]]
    BY DEF UsageKept, UsageTypes
  <1>4. reading' \in [Providers -> [Windows \cup {Turn} -> Int]]
    BY <1>1, <1>2, <1>3
  <1>5. \A q \in Providers : q # p => reading'[q] = reading[q]
    BY <1>2, <1>3
  <1> QED
    BY <1>2, <1>4, <1>5, ReadingKeeps

LEMMA RefreshKeeps ==
    ASSUME UsageKept, NEW p \in Providers, Refresh(p)
    PROVE  UsageKept'
  <1>1. /\ reading' = [reading EXCEPT ![p] =
                         [w \in Windows \cup {Turn} |-> IF w = Turn THEN reading[p][w] ELSE 100 - used[p]]]
        /\ admitted' = admitted \ {p} /\ UNCHANGED <<holds, used>>
    BY DEF Refresh
  <1>2. reading \in [Providers -> [Windows \cup {Turn} -> Int]] /\ 100 - used[p] \in Int
    BY RemainingInt DEF UsageKept, UsageTypes
  <1>3. [w \in Windows \cup {Turn} |-> IF w = Turn THEN reading[p][w] ELSE 100 - used[p]]
           \in [Windows \cup {Turn} -> Int]
    BY <1>2
  <1>4. reading' \in [Providers -> [Windows \cup {Turn} -> Int]]
    BY <1>1, <1>2, <1>3
  <1>5. \A q \in Providers : q # p => reading'[q] = reading[q]
    BY <1>1, <1>2
  <1> QED
    BY <1>1, <1>4, <1>5, ReadingKeeps

LEMMA AccountKeeps ==
    ASSUME UsageKept, NEW p \in Providers, Account(p)
    PROVE  UsageKept'
  <1> USE DEF UsageKept
  <1>1. PICK u \in Levels : used' = [used EXCEPT ![p] = u]
    BY DEF Account
  <1>2. UNCHANGED <<reading, holds, observed, admitted>>
    BY DEF Account
  <1>3. UsageTypes'
    BY <1>1, <1>2, UsageAssumption DEF UsageTypes
  <1>4. \A q \in admitted : Reserved(q)' = Reserved(q) /\ Stated(q)' = Stated(q)
    BY <1>2, ReservedIs DEF Stated
  <1>5. LeavesReserve'
    BY <1>2, <1>4 DEF LeavesReserve
  <1> QED
    BY <1>3, <1>5

LEMMA UsageStep == UsageKept /\ [UsageNext]_usageVars => UsageKept'
  <1> SUFFICES ASSUME UsageKept, [UsageNext]_usageVars PROVE UsageKept'
    OBVIOUS
  <1>1. ASSUME NEW s \in Slots, NEW p \in Providers, NEW prompt \in Prompts, Admit(s, p, Classify(prompt))
        PROVE  UsageKept'
    BY <1>1, AdmitKeeps
  <1>2. ASSUME NEW s \in Slots, Release(s) PROVE UsageKept'
    BY <1>2, FreedKeeps DEF Release
  <1>3. ASSUME NEW s \in Slots, Completes(s) PROVE UsageKept'
    BY <1>3, FreedKeeps DEF Completes, CompleteTurn
  <1>4. ASSUME NEW s \in Slots, RecordUsage(s) PROVE UsageKept'
    <2> DEFINE p == holds[s].provider
    <2>1. p \in Providers
      BY <1>4 DEF RecordUsage, UsageKept, UsageTypes
    <2>2. PICK remaining \in {100 - NormalizePercent(used[p]), NoValue} : Snapshot(p, Turn, remaining)
      BY <1>4 DEF RecordUsage
    <2> HIDE DEF p
    <2> QED
      BY <2>1, <2>2, SnapshotKeeps
  <1>5. ASSUME NEW s \in Slots, NEW w \in Windows, RateLimitEvent(s, w) PROVE UsageKept'
    <2> DEFINE p == holds[s].provider
    <2>1. p \in Providers
      BY <1>5 DEF RateLimitEvent, UsageKept, UsageTypes
    <2>2. PICK remaining \in {100 - NormalizePercent(used[p]), NoValue} : Snapshot(p, w, remaining)
      BY <1>5 DEF RateLimitEvent
    <2> HIDE DEF p
    <2> QED
      BY <2>1, <2>2, SnapshotKeeps
  <1>6. ASSUME NEW p \in Providers, Refresh(p) \/ Account(p) PROVE UsageKept'
    BY <1>6, RefreshKeeps, AccountKeeps
  <1>7. CASE UNCHANGED usageVars
    <2>1. UNCHANGED <<reading, holds, used, admitted>>
      BY <1>7 DEF usageVars
    <2>2. \A q \in admitted : Reserved(q)' = Reserved(q) /\ Stated(q)' = Stated(q)
      BY <2>1, ReservedIs DEF Stated
    <2> QED
      BY <2>1, <2>2 DEF UsageKept, UsageTypes, LeavesReserve
  <1> QED
    BY <1>1, <1>2, <1>3, <1>4, <1>5, <1>6, <1>7 DEF UsageNext

\* What leaves the reserve free leaves the posture alone.
LEMMA ReserveKept == UsageKept => ReserveStaysFree
  <1> SUFFICES ASSUME UsageKept, NEW p \in admitted, Stated(p) # {}
               PROVE  /\ Reserved(p) + Reserve <= Min(Stated(p))
                      /\ Reserve >= 10 => Posture(p) \notin {"preserve", "exhausted"}
    BY DEF ReserveStaysFree
  <1>1. Reserved(p) + Reserve <= Min(Stated(p))
    BY DEF UsageKept, LeavesReserve
  <1>2. PICK m \in Int : m = Min(Stated(p))
    BY LeastStated DEF UsageKept, UsageTypes
  <1>3. PICK r \in Nat : r = Reserved(p)
    BY ReservedIs, PromisedNat DEF UsageKept, UsageTypes
  <1>4. ASSUME Reserve >= 10 PROVE Posture(p) \notin {"preserve", "exhausted"}
    <2>1. PICK left \in Int : left = m - r
      OBVIOUS
    <2>2. left >= 10
      BY <1>1, <1>2, <1>3, <1>4, <2>1, UsageAssumption
    <2>3. ~(left <= 0) /\ left \notin 1..9
      BY <2>2
    <2>4. Posture(p) = CASE Stated(p) = {} -> "unknown"
                         [] Stated(p) # {} /\ left <= 0 -> "exhausted"
                         [] Stated(p) # {} /\ left \in 1..9 -> "preserve"
                         [] Stated(p) # {} /\ left \in 10..24 -> "restricted"
                         [] Stated(p) # {} /\ left \in 25..49 -> "cautious"
                         [] OTHER -> "healthy"
      BY <1>2, <1>3, <2>1 DEF Posture
    <2>5. Posture(p) \in {"restricted", "cautious", "healthy"}
      BY <2>3, <2>4
    <2> QED
      BY <2>5
  <1> QED
    BY <1>1, <1>4

\* usageAdmission.ts: for any providers, windows, estimates, limits and any
\* number of turns, those admitted since a provider's last snapshot leave the
\* reserve free between them.
THEOREM ReserveKeptFree == UsageSpec => []ReserveStaysFree
  BY UsageStarts, UsageStep, ReserveKept, PTL DEF UsageSpec
=============================================================================
