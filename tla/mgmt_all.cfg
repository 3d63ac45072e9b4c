SPECIFICATION FairSpec
CONSTANTS
    ping = ping
    reboot = reboot
    halt = halt
    Clients <- AllClients
    Script <- ScriptAll
    MaxDup = 1
INVARIANTS
    TypeOK
    AckedUnlessDuplicated
    AtMostOnce
    RebootConfirmed
PROPERTIES
    CommandReturns
