----------------------------- MODULE AgentTeam -----------------------------
(***************************************************************************)
(* The agents of a team and their authority: src/agentTeam/composition.ts. *)
(*                                                                         *)
(* A configuration is made of contracts.  Each has a revision and pins the *)
(* revisions of the contracts it refers to; people edit them one at a time *)
(* and composeEffectiveAgents accepts or refuses the whole.                *)
(***************************************************************************)
EXTENDS Naturals, FiniteSets, FiniteSetsExt

CONSTANTS
    Identities, Roles, Profiles, Assignments, Bindings,     \* ids
    Members,        \* of the team's topology
    Capabilities,
    MaxEdits        \* bound on the edits of a configuration

ASSUME TeamAssumption == MaxEdits \in Nat

VARIABLES
    contracts,      \* contract -> [revision, caps, refs]
    runtimeSafety,  \* the capabilities the runtime allows
    saw             \* contract -> what the contracts it pins allowed when it pinned them

teamVars == <<contracts, runtimeSafety, saw>>

\* The contracts a contract of a kind refers to; "member" is a member of the
\* team's topology.
Slots(kind) ==
    CASE kind = "role" -> {"identity"}
      [] kind = "assignment" -> {"role", "operatorProfile"}
      [] kind = "binding" -> {"identity", "assignment"}
      [] kind = "member" -> {"identity", "role", "assignment", "binding"}
      [] OTHER -> {}

Ids(kind) ==
    CASE kind = "identity" -> Identities
      [] kind = "role" -> Roles
      [] kind = "operatorProfile" -> Profiles
      [] kind = "assignment" -> Assignments
      [] kind = "binding" -> Bindings
      [] kind = "member" -> Members

Kinded == {"role", "operatorProfile", "assignment", "binding"}  \* those with capabilities

\* Whatever a contract refers to, there is one to refer to.
ASSUME ReferentsAssumption ==
    \A kind \in Kinded \cup {"member"} :
        Ids(kind) # {} => \A slot \in Slots(kind) : Ids(slot) # {}

TeamContracts == UNION {{kind} \X Ids(kind) : kind \in Kinded \cup {"identity", "member"}}

\* Every choice of what a contract refers to.
Referents(kind) == {of \in [Slots(kind) -> UNION {Ids(k) : k \in Slots(kind)}] :
                       \A slot \in Slots(kind) : of[slot] \in Ids(slot)}

TeamInit ==
    /\ \E able \in SUBSET Kinded :
          contracts = [c \in TeamContracts |->
              [revision |-> 1, caps |-> IF c[1] \in able THEN Capabilities ELSE {},
               refs |-> [slot \in Slots(c[1]) |-> [of |-> CHOOSE id \in Ids(slot) : TRUE, revision |-> 1]]]]
    /\ runtimeSafety = Capabilities
    /\ saw = [c \in TeamContracts |->
                 [slot \in Slots(c[1]) |-> contracts[<<slot, contracts[c].refs[slot].of>>].caps]]

-----------------------------------------------------------------------------
(* composeEffectiveAgents.                                                  *)

Caps(kind, agent) == contracts[<<kind, agent>>].caps
Ref(c, slot) == contracts[c].refs[slot].of

\* Slip: a reference is resolved by its id alone.
ResolvesById(c, slot) == <<slot, Ref(c, slot)>> \in TeamContracts

\* requireReference: the revision that is pinned is the current one.
Resolves(c, slot) == contracts[<<slot, Ref(c, slot)>>].revision = contracts[c].refs[slot].revision

RolesHold == \A n \in Roles : Resolves(<<"role", n>>, "identity")

AssignmentsHold ==
    \A n \in Assignments : LET a == <<"assignment", n>> IN
        /\ \A slot \in Slots("assignment") : Resolves(a, slot)
        /\ Caps("operatorProfile", Ref(a, "operatorProfile")) \subseteq Caps("role", Ref(a, "role"))
        /\ Caps("assignment", n) \subseteq Caps("role", Ref(a, "role"))

RoleOf(assignment) == Ref(<<"assignment", assignment>>, "role")

BindingsHold ==
    \A n \in Bindings : LET b == <<"binding", n>>  role == RoleOf(Ref(b, "assignment")) IN
        /\ \A slot \in Slots("binding") : Resolves(b, slot)
        /\ Ref(<<"role", role>>, "identity") = Ref(b, "identity")
        /\ Caps("binding", n) \subseteq Caps("role", role)

TopologyHolds ==
    /\ \A n, k \in Members : n # k => \A slot \in {"identity", "binding"} :
          Ref(<<"member", n>>, slot) # Ref(<<"member", k>>, slot)
    /\ \A n \in Members :
          LET m == <<"member", n>>  binding == <<"binding", Ref(m, "binding")>> IN
          /\ \A slot \in Slots("member") : Resolves(m, slot)
          /\ Ref(<<"role", Ref(m, "role")>>, "identity") = Ref(m, "identity")
          /\ RoleOf(Ref(m, "assignment")) = Ref(m, "role")
          /\ Ref(binding, "identity") = Ref(m, "identity")
          /\ Ref(binding, "assignment") = Ref(m, "assignment")

Composed == RolesHold /\ AssignmentsHold /\ BindingsHold /\ TopologyHolds

\* effectiveAuthority of a member of a composed team.
Effective(n) ==
    LET m == <<"member", n>>  assignment == Ref(m, "assignment") IN
    Caps("role", Ref(m, "role"))
        \cap Caps("operatorProfile", Ref(<<"assignment", assignment>>, "operatorProfile"))
        \cap Caps("assignment", assignment)
        \cap Caps("binding", Ref(m, "binding"))
        \cap runtimeSafety

-----------------------------------------------------------------------------
(* Edits: a contract that changes gets its next revision.                   *)

EditsMade == MapThenSumSet(LAMBDA c : contracts[c].revision - 1, TeamContracts)

Edit(c, caps, pins) ==
    /\ EditsMade < MaxEdits
    /\ contracts' = [contracts EXCEPT ![c] = [revision |-> @.revision + 1, caps |-> caps, refs |-> pins]]
    /\ UNCHANGED runtimeSafety

\* The editor changes what it allows and leaves what it refers to.
EditCapabilities(c) ==
    /\ c[1] \in Kinded
    /\ \E caps \in SUBSET Capabilities : caps # contracts[c].caps /\ Edit(c, caps, contracts[c].refs)
    /\ UNCHANGED saw

\* The editor reads the contracts it refers to, some of them others than
\* before, and pins them as they are.
Review(c) ==
    \E of \in Referents(c[1]) :
        LET pins == [slot \in Slots(c[1]) |->
                        [of |-> of[slot], revision |-> contracts[<<slot, of[slot]>>].revision]] IN
        /\ pins # contracts[c].refs
        /\ Edit(c, contracts[c].caps, pins)
        /\ saw' = [saw EXCEPT ![c] = [slot \in Slots(c[1]) |-> contracts[<<slot, of[slot]>>].caps]]

EditRuntimeSafety ==
    /\ runtimeSafety' \in SUBSET Capabilities \ {runtimeSafety}
    /\ UNCHANGED <<contracts, saw>>

TeamNext ==
    \/ \E c \in TeamContracts : EditCapabilities(c) \/ Review(c)
    \/ EditRuntimeSafety

TeamSpec == TeamInit /\ [][TeamNext]_teamVars

-----------------------------------------------------------------------------
\* A member of a composed team may do only what the runtime allows and what
\* each contract of its chain allowed when the one that refers to it was last
\* reviewed: no edit of a role, a profile, an assignment or a binding reaches
\* an agent before the contracts above it were looked at again.
AuthorityIsReviewed ==
    Composed => \A n \in Members :
        LET m == <<"member", n>>  a == <<"assignment", Ref(m, "assignment")>> IN
        Effective(n) \subseteq runtimeSafety
                          \cap saw[m]["role"] \cap saw[m]["assignment"] \cap saw[m]["binding"]
                          \cap saw[a]["role"] \cap saw[a]["operatorProfile"]
                          \cap saw[<<"binding", Ref(m, "binding")>>]["assignment"]
=============================================================================
