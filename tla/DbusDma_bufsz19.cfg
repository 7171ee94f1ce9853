\* dbus_config.bufsz = 19, the handler ends before the next frame
SPECIFICATION Spec
CONSTANTS
    N = 19
    F = 18
    Frames = 2
    MaxShort = 1
    Prompt = TRUE
    OpenMidFrame = TRUE
INVARIANTS TypeOK
PROPERTIES WholeFrame HealsAfterFirst Delivered
