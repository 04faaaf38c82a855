---------------------------- MODULE MCPortfolio ----------------------------
(* A behaviour is one of the parts that share nothing but the projects and   *)
(* the settings they name; the state of the others stays at rest.            *)
EXTENDS MissionLifecycle, AgentTeam, Settings, ProjectSettings, PrimaryChat

VARIABLE part

Parts == {"missions", "team", "settings", "project", "chat"}

vars == <<part, missionVars, teamVars, settingsVars, projectSettingsVars, chatVars>>

AtRest ==
    /\ part # "team" => \A c \in TeamContracts : contracts[c].caps = {}
    /\ part # "settings" => global.defaultProvider = None /\ listed = {} /\ prompt = "none"
    /\ part # "project" => row.defaultProvider = "claude"
    /\ part # "chat" => chatProject = "claude"

Init ==
    /\ part \in Parts
    /\ MissionInit /\ TeamInit /\ SettingsInit /\ ProjectSettingsInit /\ ChatInit
    /\ AtRest

Next ==
    /\ UNCHANGED part
    /\ part # "missions" => UNCHANGED missionVars
    /\ part # "team" => UNCHANGED teamVars
    /\ part # "settings" => UNCHANGED settingsVars
    /\ part # "project" => UNCHANGED projectSettingsVars
    /\ part # "chat" => UNCHANGED chatVars
    /\ \/ part = "missions" /\ MissionNext
       \/ part = "team" /\ TeamNext
       \/ part = "settings" /\ SettingsNext
       \/ part = "project" /\ ProjectSettingsNext
       \/ part = "chat" /\ ChatNext

Spec == Init /\ [][Next]_vars
=============================================================================
