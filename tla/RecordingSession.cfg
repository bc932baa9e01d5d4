CONSTANTS
    console = console
    player = player
    viewer = viewer
    boss = boss
    None = None
    Console = console
    Users = {console, player}
    Managers = {console}
    Remotes = {viewer, boss}
    RemoteManagers = {boss}
    Sustain = 1
    Cooldown = 2
    MaxSessions = 2
    MaxCommands = 3
SPECIFICATION Spec
INVARIANTS SummaryTruth NoneForgotten SessionsProtected SettingsKept
PROPERTIES IncidentSustained BackgroundResumes
