CONSTANTS
    NONE = NONE
    Layouts <- MCOtherLayouts
    TriedSettings <- MCTried
    MaxOffset = 3
    CellValues <- MCCellValues
    Writes <- MCWrites
SPECIFICATION ModbusSpec
PROPERTY ReadsMatchWrites
