SPECIFICATION Spec
CONSTANTS
    contentTypeMap <- ContentTypes
    UnknownType = "application/octet-stream"
    htmlEntities <- Entities
    htmlLookaheads <- Lookaheads
    MaxQuotedLine = 10
    INI_MAX_LINE = 10
    MAX_SECTION = 4
    MAX_NAME = 3
    MaxKey = 3
    MinSalt = 8
    Salts = {1, 2}
    CodecInputs <- Inputs
    Times <- SomeTimes
    Offsets <- Zones
    Mails <- SomeMails
    Rules <- SomeRules
    Forms <- SomeForms
    Queries <- SomeQueries
    IniLines <- SomeLines
    Arguments <- SomeArguments
    MaxLines = 3
    MaxArguments = 2
    Requests <- SomeRequests
    BodyTypes <- SomeTypes
    FileNames <- SomeFiles
    Engines <- SomeEngines
    Passwords <- SomePasswords
INVARIANTS
    DecodesBack
    MailReadsBack
    FormReadsBack
    SettingsPrecedence
    
    PagesMatch
    PasswordsVerify
