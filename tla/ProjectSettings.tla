-------------------------- MODULE ProjectSettings --------------------------
(***************************************************************************)
(* The settings of one project: commands/projectSettings.ts,               *)
(* commands/model.ts and commands/provider.ts, over updateProject of       *)
(* services/settingsService.ts.                                            *)
(*                                                                         *)
(* A change reads the project, asks whether a provider is available, and   *)
(* stores when it has answered; meanwhile other changes are made, and the  *)
(* project may be removed and registered again.                            *)
(***************************************************************************)
EXTENDS Naturals

CONSTANTS
    ProjectProviders,
    ProjectModels,
    Edits,          \* changes that may be in flight at once
    MaxEditsBegun   \* bound on the changes that are begun

\* AGENT_PROVIDER_IDS
ASSUME ProjectSettingsAssumption ==
    MaxEditsBegun \in Nat /\ ProjectProviders \subseteq {"claude", "codex", "opencode"}

VARIABLES
    row,            \* the projects row: [defaultProvider, models, reasoning, baseBranch], or Absent
    profile,        \* mcpProfile of project_settings, which the row's archiving leaves
    edit,           \* the changes in flight
    editsBegun,     \* numbers the changes
    asks,           \* history: the models that were asked for, and not refused, see Ask
    misfiled        \* history: the providers an OpenCode model was kept from, or stored for

projectSettingsVars == <<row, profile, edit, editsBegun, asks, misfiled>>

Unset == "unset"
Absent == [defaultProvider |-> Unset]
NoEdit == [at |-> "idle"]
Unchosen == [p \in ProjectProviders |-> Unset]

Registered(provider) == [defaultProvider |-> provider, models |-> Unchosen, reasoning |-> Unset, baseBranch |-> Unset]

ProjectSettingsInit ==
    /\ \E provider \in ProjectProviders : row = Registered(provider)
    /\ profile = Unset
    /\ edit = [e \in Edits |-> NoEdit]
    /\ editsBegun = 0
    /\ asks = {} /\ misfiled = {}

MayEdit == row # Absent /\ editsBegun < MaxEditsBegun

\* The numbers of the changes in flight, and of the next one.
InFlight == {edit[e].n : e \in {f \in Edits : edit[f] # NoEdit}}
NextNumber == editsBegun + 1

BeginEdit(e, record) ==
    /\ MayEdit /\ edit[e] = NoEdit
    /\ edit' = [edit EXCEPT ![e] = record]
    /\ editsBegun' = editsBegun + 1
    /\ UNCHANGED <<row, profile, misfiled>>

EditAtOnce ==
    /\ MayEdit
    /\ editsBegun' = editsBegun + 1
    /\ UNCHANGED edit

EndEdit(e) == edit' = [edit EXCEPT ![e] = NoEdit]

\* What the owner asks for, when he asks, beside the changes then in flight.
Ask(provider, model) ==
    asks' = asks \cup {[n |-> NextNumber, provider |-> provider, model |-> model, beside |-> InFlight]}

\* A change that comes to nothing was not asked for.
Forget(e) == asks' = {a \in asks : a.n # edit[e].n}

-----------------------------------------------------------------------------
(* updateProject: an archived project is refused.                           *)

StoreModel(key, model) ==
    row' = IF row = Absent THEN row ELSE [row EXCEPT !.models[key] = model]

\* Slip: every model is stored as Codex's.
CodexKey(provider) == "codex"

\* The panel knows two models.
PanelKey(provider) == IF provider = "claude" THEN "claude" ELSE "codex"

Filed(provider) == misfiled' = IF row = Absent THEN misfiled ELSE misfiled \ {provider}

\* The panel's stores.
PanelStores(provider, model) ==
    /\ StoreModel(PanelKey(provider), model)
    /\ IF provider = "opencode" /\ row # Absent
       THEN misfiled' = misfiled \cup {"codex", "opencode"}
       ELSE Filed(provider)

-----------------------------------------------------------------------------
(* The panel of /project-settings, and /provider.                           *)

SelectProjectProvider(e, provider) ==
    /\ BeginEdit(e, [at |-> "asking", n |-> NextNumber, what |-> "provider", provider |-> provider])
    /\ UNCHANGED asks

ProjectProviderAsked(e) ==
    /\ edit[e].at = "asking" /\ edit[e].what = "provider"
    /\ row' = IF row = Absent THEN row ELSE [row EXCEPT !.defaultProvider = edit[e].provider]
    /\ EndEdit(e) /\ UNCHANGED <<profile, editsBegun, asks, misfiled>>

\* The menu of models, or the modal of a custom one; Unset clears it.
SelectProjectModel(e, provider, model) ==
    /\ BeginEdit(e, [at |-> "asking", n |-> NextNumber, what |-> "model", provider |-> provider, model |-> model])
    /\ Ask(provider, model)

\* Also when the project is archived meanwhile, and the change is refused.
Unrefused(e) == IF row = Absent THEN Forget(e) ELSE UNCHANGED asks

ProjectModelAsked(e) ==
    /\ edit[e].at = "asking" /\ edit[e].what = "model"
    /\ PanelStores(edit[e].provider, edit[e].model)
    /\ EndEdit(e) /\ Unrefused(e) /\ UNCHANGED <<profile, editsBegun>>

\* The menu offers it for the models that are stored; nobody is asked.
ClearProjectModel(provider) ==
    /\ EditAtOnce /\ row.models[provider] # Unset
    /\ Ask(provider, Unset) /\ PanelStores(provider, Unset)
    /\ UNCHANGED profile

SetReasoning(effort) ==
    /\ EditAtOnce
    /\ row' = [row EXCEPT !.reasoning = effort]
    /\ UNCHANGED <<profile, asks, misfiled>>

SetBaseBranch(branch) ==
    /\ EditAtOnce
    /\ row' = [row EXCEPT !.baseBranch = branch]
    /\ UNCHANGED <<profile, asks, misfiled>>

SetMcpProfile(name) ==
    /\ EditAtOnce
    /\ profile' = name
    /\ UNCHANGED <<row, asks, misfiled>>

-----------------------------------------------------------------------------
(* /model in the project's channel: of the provider that is its default.    *)

ProjectModelCommand(e, model) ==
    LET provider == row.defaultProvider IN
    /\ MayEdit
    /\ BeginEdit(e, [at |-> "asking", n |-> NextNumber, what |-> "command", provider |-> provider, model |-> model])
    /\ Ask(provider, model)

ProjectModelCommandAsked(e) ==
    /\ edit[e].at = "asking" /\ edit[e].what = "command"
    /\ StoreModel(edit[e].provider, edit[e].model) /\ Filed(edit[e].provider)
    /\ EndEdit(e) /\ Unrefused(e) /\ UNCHANGED <<profile, editsBegun>>

\* Without a model and for Claude, a menu waits a minute for the choice.
PickClaudeModel(e) ==
    /\ MayEdit /\ row.defaultProvider = "claude"
    /\ BeginEdit(e, [at |-> "picking", n |-> NextNumber])
    /\ UNCHANGED asks

\* The choice is another thing that is asked for, and stored at once.
ClaudeModelPicked(e, model) ==
    /\ edit[e].at = "picking"
    /\ StoreModel("claude", model) /\ Filed("claude")
    /\ IF row = Absent THEN UNCHANGED asks ELSE Ask("claude", model)
    /\ editsBegun' = editsBegun + 1
    /\ EndEdit(e) /\ UNCHANGED profile

\* The provider is unavailable, or no choice is made.
EditRefused(e) ==
    /\ edit[e] # NoEdit
    /\ EndEdit(e) /\ Forget(e) /\ UNCHANGED <<row, profile, editsBegun, misfiled>>

-----------------------------------------------------------------------------
(* The project is archived and registered again: the row is used again with *)
(* new settings.                                                            *)

ArchiveProject ==
    /\ row # Absent
    /\ row' = Absent
    /\ UNCHANGED <<profile, edit, editsBegun, asks, misfiled>>

\* What is in flight will be stored for the new project.
RegisterProject(provider) ==
    /\ row = Absent
    /\ row' = Registered(provider)
    /\ asks' = {a \in asks : a.n \in InFlight}
    /\ misfiled' = {}
    /\ UNCHANGED <<profile, edit, editsBegun>>

ProjectSettingsNext ==
    \/ \E e \in Edits :
          \/ \E provider \in ProjectProviders :
                \/ SelectProjectProvider(e, provider)
                \/ \E model \in ProjectModels \cup {Unset} : SelectProjectModel(e, provider, model)
          \/ \E model \in ProjectModels \cup {Unset} : ProjectModelCommand(e, model) \/ ClaudeModelPicked(e, model)
          \/ ProjectProviderAsked(e) \/ ProjectModelAsked(e) \/ ProjectModelCommandAsked(e)
          \/ PickClaudeModel(e) \/ EditRefused(e)
    \/ \E provider \in ProjectProviders : ClearProjectModel(provider) \/ RegisterProject(provider)
    \/ \E effort \in {"high", Unset} : SetReasoning(effort)
    \/ SetBaseBranch("main")
    \/ \E name \in {"github", Unset} : SetMcpProfile(name)
    \/ ArchiveProject

ProjectSettingsSpec == ProjectSettingsInit /\ [][ProjectSettingsNext]_projectSettingsVars

-----------------------------------------------------------------------------
\* What was asked for a provider and has been stored, or cleared.
Done(provider) == {a \in asks : a.provider = provider /\ a.n \notin InFlight}

\* The model is what was asked for last, but that of two changes that were in
\* flight together either may be the one that is stored.
AskedLast(provider, model) ==
    \/ Done(provider) = {} /\ model = Unset
    \/ \E a \in Done(provider) :
          /\ a.model = model
          /\ \A b \in Done(provider) : b.n > a.n => a.n \in b.beside

\* The model that is stored for each provider is the one the owner asked for
\* last, whichever of the panel, the modal, the picker and the command he asked
\* it with, whatever was asked for the other providers meanwhile, and whatever
\* happened to the project while a provider was asked.  It is so until the
\* panel stores a model of OpenCode's as Codex's, and again for each of the two
\* when it is next stored as its own.
ModelsAreTheChosen ==
    row # Absent =>
        \A p \in ProjectProviders : p \in misfiled \/ AskedLast(p, row.models[p])

\* The same without the exception: "keeps project model selections
\* provider-scoped" (projectSettings.test.ts).  REFUTED, and checked by no run:
\* the panel files OpenCode's models as Codex's.
ModelsAreProviderScoped ==
    row # Absent => \A p \in ProjectProviders : AskedLast(p, row.models[p])
=============================================================================
