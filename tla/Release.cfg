CONSTANTS
    Proj <- MCProj
    Order <- MCOrder
    BuildOptions <- MCBuildOptions
    Contents <- MCContents
    MetaEdits <- MCMetaEdits
    NewVersions <- MCNewVersions
    WorkspaceMetamodels <- MCWorkspaceMetamodels
    LocalUsage <- MCLocalUsage
    Purl <- MCPurl
    StdLibs <- MCStdLibs
    Metamodels <- MCMetamodels
    SemVer <- MCSemVer
    BuildMetadata <- MCBuildMetadata
    Identifiers <- MCIdentifiers
    FileName <- MCFileName
    Language <- MCLanguage
    LicenseStems <- MCLicenseStems
    Infos <- MCInfos
    Metas <- MCMetas
    Sources <- MCSources
    Texts <- MCTexts
    Archives <- MCArchives
    Urls <- MCUrls
    Environments <- MCEnvironments
    Credentials <- MCCredentials
    Bearer <- MCBearer
    MaxEdits = 1
    MaxBuilds = 1
    MaxPublishes = 1
    MaxKills = 1
SPECIFICATION Spec
INVARIANT TornOnlyIfLeft
INVARIANT AcceptedUploadsAreSound
PROPERTY BuiltArchivesConsistent
PROPERTY BuiltArchivesPass
CHECK_DEADLOCK FALSE
