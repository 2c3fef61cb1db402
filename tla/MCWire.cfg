SPECIFICATION Spec
CONSTANTS
    Word = 16
    None = None
    NotAFrame = NotAFrame
    Transports = {"usb", "ble", "live"}
    UdamRecords <- MCUdamRecords
    Numbers <- MCNumbers
    ReadRows <- MCReadRows
    LabAddresses <- MCLabAddresses
    ConfigId <- MCConfigId
    Statuses = {0, 6}
    MaxMessages = 3
INVARIANTS TypeOK RequestArrives SaveChangesOneField ReadAsMeant EntryShowsPoint ModesLineUp BikeIsAnswered LiveIsLastTold
CHECK_DEADLOCK FALSE
