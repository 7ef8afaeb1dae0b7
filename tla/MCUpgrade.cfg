SPECIFICATION FairSpec
CONSTANTS
    Upgrades = {1, 2, 3}
    Handlers <- Cumulative
    Versions <- FourVersions
    Migrations <- FourMigrations
    Installed = {1, 3}
    Skips = {7}
    AllowDownloadBinaries = TRUE
    RestartAfterUpgrade = TRUE
    Notice = 2
    MaxHeight = 8
    MaxCrashes = 2
INVARIANTS
    NoBlockPastPlan
PROPERTIES
    UpgradedExactly
    NeverBehind
    UpgradeCompletes
