------------------------------ MODULE Settings ------------------------------
(***************************************************************************)
(* The global settings and the PM chat that runs with them.                *)
(*                                                                         *)
(* services/settingsService.ts keeps the settings; commands/settings.ts    *)
(* and services/providerOnboarding.ts change them, in steps between which  *)
(* a provider is asked whether it is available and other changes go on;    *)
(* services/runtimePrimaryAgent.ts activates the PM chat.                  *)
(***************************************************************************)
EXTENDS Naturals, FiniteSets

CONSTANTS
    Providers,      \* those the program knows
    Models,
    Changes,        \* changes of the settings that may be in flight at once
    MaxChanges      \* bound on the changes that are begun

ASSUME SettingsAssumption == MaxChanges \in Nat /\ "none" \notin Providers

VARIABLES
    global,         \* runtime_settings: defaultProvider, primaryAgentModel, models
    listed,         \* the providers that registered when the runtime started
    pm,             \* the service the conversation is delegated to: [provider, model], or Inactive
    pmBehind,       \* a model of the PM was stored that the PM was not told of
    created,        \* the primary agent service exists ...
    registered,     \* ... and is the one messages are given to
    boot,           \* bootstrapPrimaryAgent: "asking" | "asked" | "selecting" | "up"
    prompt,         \* the setup message: "none" | "choose" | "chosen"
    change,         \* the changes in flight
    begun,
    crossed,        \* a failed activation put back what another change had replaced
    overtaken       \* /model activated a provider that was no longer the default

pmVars == <<pm, pmBehind, created, registered>>
settingsVars == <<global, listed, pmVars, boot, prompt, change, begun, crossed, overtaken>>

None == "none"
Inactive == [provider |-> None, model |-> None]
NoChange == [at |-> "idle"]

-----------------------------------------------------------------------------
(* The PM chat.                                                             *)

\* resolvePrimaryAgentModel
PmModel(provider, settings) ==
    IF settings.primaryAgentModel # None THEN settings.primaryAgentModel ELSE settings.models[provider]

\* activatePrimaryProvider: the new service replaces the former at once; the
\* agent that reads the channel is created and registered the first time.
Activate(provider, settings) ==
    /\ pm' = [provider |-> provider, model |-> PmModel(provider, settings)]
    /\ pmBehind' = FALSE
    /\ created' = TRUE
    /\ registered' = (registered \/ ~created)

\* updateGlobal with nothing to activate.
Persist(settings) ==
    /\ global' = settings
    /\ pmBehind' = (pmBehind \/ (pm # Inactive /\ PmModel(pm.provider, settings) # PmModel(pm.provider, global)))
    /\ UNCHANGED <<pm, created, registered>>

\* updateGlobalWithActivation, from where the provider has answered: the
\* settings are stored and the PM is activated ...
Activated(settings, provider) ==
    /\ global' = settings
    /\ Activate(provider, settings)
    /\ UNCHANGED crossed

\* ... and when that fails every setting is put back as it was before the
\* change asked whether its provider is available, and so is the agent.
ActivationFailed(before, wasRegistered) ==
    /\ global' = before
    /\ registered' = wasRegistered
    /\ crossed' = (crossed \/ before # global \/ wasRegistered # registered)
    /\ UNCHANGED <<pm, pmBehind, created>>

-----------------------------------------------------------------------------
(* bootstrapPrimaryAgent: interactions are accepted only when it is done.   *)

SettingsInit ==
    /\ global \in [defaultProvider : Providers \cup {None}, primaryAgentModel : {None},
                   models : {[p \in Providers |-> None]}]
    /\ listed \in SUBSET Providers
    /\ pm = Inactive /\ pmBehind = FALSE /\ created = FALSE /\ registered = FALSE
    /\ boot = "asking" /\ prompt \in {"none", "choose", "chosen"}
    /\ change = [c \in Changes |-> NoChange]
    /\ begun = 0 /\ crossed = FALSE /\ overtaken = FALSE

\* reconcilePrompt when a provider is selected: without a setup message none is sent.
Settled == IF prompt = "none" THEN "none" ELSE "chosen"

\* The persisted provider is available and activated.
BootActivates ==
    /\ boot = "asking" /\ global.defaultProvider \in listed
    /\ Activate(global.defaultProvider, global)
    /\ boot' = "asked"
    /\ UNCHANGED <<global, listed, prompt, change, begun, crossed, overtaken>>

\* None is persisted, or it cannot be used: the owner is asked to choose, or
\* the only provider is chosen for the owner.
BootSelects ==
    /\ boot = "asking"
    /\ boot' = IF Cardinality(listed) = 1 THEN "selecting" ELSE "up"
    /\ prompt' = IF Cardinality(listed) = 1 THEN prompt ELSE "choose"
    /\ UNCHANGED <<global, listed, pmVars, change, begun, crossed, overtaken>>

\* It is activated, cannot be, or is not available after all.
BootAutoSelects ==
    /\ boot = "selecting"
    /\ \E provider \in listed :
          LET settings == [global EXCEPT !.defaultProvider = provider] IN
          \/ Activated(settings, provider) /\ prompt' = "chosen"
          \/ ActivationFailed(global, registered) /\ prompt' = "choose"
          \/ UNCHANGED <<global, pmVars, crossed>> /\ prompt' = "choose"
    /\ boot' = "up"
    /\ UNCHANGED <<listed, change, begun, overtaken>>

BootPrompts ==
    /\ boot = "asked"
    /\ prompt' = Settled
    /\ boot' = "up"
    /\ UNCHANGED <<global, listed, pmVars, change, begun, crossed, overtaken>>

-----------------------------------------------------------------------------
(* Changes: each asks a provider and goes on when it has answered.          *)

MayBegin == boot = "up" /\ begun < MaxChanges

Begin(c, record) ==
    /\ MayBegin /\ change[c] = NoChange
    /\ begun' = begun + 1
    /\ change' = [change EXCEPT ![c] = record]
    /\ UNCHANGED <<global, listed, pmVars, boot, prompt, crossed, overtaken>>

Ends(c) ==
    /\ change' = [change EXCEPT ![c] = NoChange]
    /\ UNCHANGED <<listed, boot, begun>>

\* A change that is made at once.
AtOnce ==
    /\ MayBegin /\ begun' = begun + 1
    /\ UNCHANGED <<listed, boot, prompt, change, overtaken>>

\* The settings panel, the buttons of the setup message, /provider, or the
\* terminal's /provider.
SelectProvider(c, provider, from) ==
    /\ provider \in listed
    /\ from = "setup" => prompt = "choose"
    /\ Begin(c, [at |-> "asking", key |-> "defaultProvider", provider |-> provider, from |-> from])

\* Available: the agent's state and the settings are captured, and the
\* service asks again before it stores anything.
ProviderAsked(c) ==
    /\ change[c].at = "asking" /\ change[c].key = "defaultProvider" /\ change[c].from # "terminal"
    /\ change' = [change EXCEPT ![c] = [at |-> "checking", provider |-> change[c].provider, from |-> change[c].from,
                                        before |-> global, wasRegistered |-> registered]]
    /\ UNCHANGED <<global, listed, pmVars, boot, prompt, begun, crossed, overtaken>>

ProviderChecked(c) ==
    /\ change[c].at = "checking"
    /\ LET settings == [global EXCEPT !.defaultProvider = change[c].provider] IN
       \/ /\ Activated(settings, change[c].provider)
          /\ prompt' = IF change[c].from = "panel" THEN prompt ELSE Settled
       \/ /\ ActivationFailed(change[c].before, change[c].wasRegistered)
          /\ UNCHANGED prompt
    /\ Ends(c) /\ UNCHANGED overtaken

\* The terminal activates first and stores the provider when that worked.
TerminalAsked(c) ==
    /\ change[c].at = "asking" /\ change[c].key = "defaultProvider" /\ change[c].from = "terminal"
    /\ Activated([global EXCEPT !.defaultProvider = change[c].provider], change[c].provider)
    /\ Ends(c) /\ UNCHANGED <<prompt, overtaken>>

\* The modal of the PM's model; None clears it.
SubmitPmModel(c, model) ==
    /\ global.defaultProvider # None
    /\ Begin(c, [at |-> "asking", key |-> "primaryAgentModel", provider |-> global.defaultProvider, model |-> model])

\* No provider is selected: the model is stored for later.
SubmitPmModelUnselected(model) ==
    /\ global.defaultProvider = None
    /\ Persist([global EXCEPT !.primaryAgentModel = model])
    /\ AtOnce /\ UNCHANGED crossed

\* Cleared while its provider is unavailable.
PmModelCleared(c) ==
    /\ change[c].at = "asking" /\ change[c].key = "primaryAgentModel" /\ change[c].model = None
    /\ Persist([global EXCEPT !.primaryAgentModel = None])
    /\ Ends(c) /\ UNCHANGED <<prompt, crossed, overtaken>>

\* Slip: the provider that was asked is taken for the default.
AskedIsDefault(provider) == TRUE

\* persistGlobalModel asks again which is the default.
StillDefault(provider) == global.defaultProvider \in {None, provider}

PmModelAsked(c) ==
    /\ change[c].at = "asking" /\ change[c].key = "primaryAgentModel"
    /\ change[c].provider \in listed
    /\ LET settings == [global EXCEPT !.primaryAgentModel = change[c].model] IN
       IF StillDefault(change[c].provider)
       THEN Activated(settings, change[c].provider) \/ ActivationFailed(global, registered)
       ELSE Persist(settings) /\ UNCHANGED crossed
    /\ Ends(c) /\ UNCHANGED <<prompt, overtaken>>

\* A provider's model on the panel: for tasks, the PM is not reconfigured.
SubmitModel(c, provider, model) ==
    Begin(c, [at |-> "asking", key |-> "models", provider |-> provider, model |-> model])

\* A cleared model is stored whatever the provider answers.
ModelAsked(c) ==
    /\ change[c].at = "asking" /\ change[c].key = "models"
    /\ change[c].model = None \/ change[c].provider \in listed
    /\ Persist([global EXCEPT !.models[change[c].provider] = change[c].model])
    /\ Ends(c) /\ UNCHANGED <<prompt, crossed, overtaken>>

\* /model in the PM's channel: the provider that was the default is asked, and
\* activated when it has answered.
ModelCommand(c, model) ==
    /\ global.defaultProvider # None
    /\ Begin(c, [at |-> "asking", key |-> "command", provider |-> global.defaultProvider, model |-> model])

ModelCommandAsked(c) ==
    /\ change[c].at = "asking" /\ change[c].key = "command"
    /\ change[c].provider \in listed
    /\ LET settings == [global EXCEPT !.models[change[c].provider] = change[c].model] IN
       \/ /\ Activated(settings, change[c].provider)
          /\ overtaken' = (change[c].provider # global.defaultProvider)
       \/ ActivationFailed(global, registered) /\ UNCHANGED overtaken
    /\ Ends(c) /\ UNCHANGED prompt

\* The terminal's /model: what is stored stays stored when it cannot be activated.
TerminalModel(model) ==
    /\ global.defaultProvider # None
    /\ LET settings == [global EXCEPT !.primaryAgentModel = model] IN
       Activated(settings, global.defaultProvider) \/ (Persist(settings) /\ UNCHANGED crossed)
    /\ AtOnce

\* The provider is unavailable, at any of its checks.
Refused(c) ==
    /\ change[c] # NoChange
    /\ Ends(c) /\ UNCHANGED <<global, pmVars, prompt, crossed, overtaken>>

Sources == {"panel", "setup", "command", "terminal"}

SettingsNext ==
    \/ BootActivates \/ BootSelects \/ BootAutoSelects \/ BootPrompts
    \/ \E c \in Changes :
          \/ \E provider \in Providers :
                \/ \E from \in Sources : SelectProvider(c, provider, from)
                \/ \E model \in Models \cup {None} : SubmitModel(c, provider, model)
          \/ ProviderAsked(c) \/ ProviderChecked(c) \/ TerminalAsked(c)
          \/ \E model \in Models \cup {None} : SubmitPmModel(c, model) \/ ModelCommand(c, model)
          \/ PmModelCleared(c) \/ PmModelAsked(c) \/ ModelAsked(c) \/ ModelCommandAsked(c)
          \/ Refused(c)
    \/ \E model \in Models \cup {None} : SubmitPmModelUnselected(model)
    \/ \E model \in Models : TerminalModel(model)

SettingsSpec == SettingsInit /\ [][SettingsNext]_settingsVars

-----------------------------------------------------------------------------
\* Whatever changes of provider and model overlap, fail and are put back, the
\* PM that is active is the selected one, has the model that is stored unless
\* the owner was told it was not reconfigured, and receives the channel's
\* messages.  Left out: an activation that fails after another change was
\* made since it began, and a /model that a change of provider overtook.
SettingsAndPmAgree ==
    (pm # Inactive /\ ~crossed /\ ~overtaken) =>
        /\ pm.provider = global.defaultProvider
        /\ pm.model = PmModel(pm.provider, global) \/ pmBehind
        /\ registered

\* Once a provider has been set, the PM chat uses it, as the answer of
\* /provider says.  REFUTED, and checked by no run: /model activates
\* the provider that was the default when it began.
PmUsesTheDefault ==
    (pm # Inactive /\ ~crossed) => pm.provider = global.defaultProvider
=============================================================================
