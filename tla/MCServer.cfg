SPECIFICATION Spec
CONSTANTS
    Configurations <- MCConfigurations
    Records <- MCRecords
    LogSlots = 2
    FileBatch = 2
    PipeBatch = 2
    PipeRoom = 2
    Slots = {1}
    MaxGeneration = 2
INVARIANTS BorrowedOutlives WholeRecords RecordsOnce InspectionReply
PROPERTY ServeReturns
