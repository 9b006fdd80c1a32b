SPECIFICATION AllSpec
CONSTANTS
    chrysler = chrysler
    broken = broken
    scriptless = scriptless
    hyundai = hyundai
    tesla = tesla
    handmade = handmade
    ram = ram
    corner_radar = corner_radar
    front_radar = front_radar
    bosch = bosch
    continental = continental
    common = common
    ram_dt_common = ram_dt_common
    ram_hd_common = ram_hd_common
    ram_dt = ram_dt
    ram_hd = ram_hd
    pacifica = pacifica
    corner = corner
    front = front
    radar_bosch = radar_bosch
    radar_continental = radar_continental
    None = None
    Revisions = {chrysler, broken, scriptless, hyundai, tesla, handmade}
    ScriptNames = {ram, corner_radar, front_radar, bosch, continental}
    Files <- AllFiles
    Handwritten <- HandwrittenOf
    Scripts <- ScriptsOf
    Failing <- FailingOf
    Outputs <- OutputsOf
    Imports <- ImportsOf
    Private <- PrivateFiles
    MaxKills = 1
    MaxEdits = 2
    TextOf <- Texts_
    MakeOf <- Makes_
    HandMade <- Files_
    Overlapping <- OverlappingMessages
    Texts <- AllTexts
    Names <- AllNames
    Garbage <- SomeGarbage
    Requests <- SomeRequests
INVARIANTS
    ReaderTypeOK
    ReadsAsWritten
    RefusesExactlyIllFormed
    LookupsAgree
    DictsShared
    DefinitionsAsWritten
    GeneratorTypeOK
    CompleteIsCurrent
    NothingStale
    GeneratedAccepted
    SignalsDisjoint
PROPERTIES
    RerunRepairs
