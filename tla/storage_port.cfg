\* A receiver started with --port, then a selection.
SPECIFICATION Spec
CONSTANTS
    inbox = inbox
    games = games
    usbInbox = usbInbox
    usbRoot = usbRoot
    dev = dev
    Absent = Absent
    Paths = {inbox, games, usbInbox, usbRoot, dev}
    Inbox = inbox
    UsbInbox = usbInbox
    UsbRoot = usbRoot
    UnsafePaths = {dev}
    BarPaths = {}
    DataPaths = {inbox, games}
    UsbPaths = {usbInbox}
    MountPaths = {usbInbox, usbRoot}
    TargetIds = {"internal", "usb"}
    MaxTargets = 2
    Rests = {"default", "custom"}
    DefaultRest = "default"
    HandFiles <- MCHandFiles
    Overrides = {Absent, 80}
    u1 = u1
    u2 = u2
    NoUpload = NoUpload
    Ids = {u1, u2}
    Faults = {"disk", "kill"}
SYMMETRY Symmetry
PROPERTIES
    UpdatesOnlyDestination
