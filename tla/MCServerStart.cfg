SPECIFICATION MCSpec
CONSTANTS
    File = {"main", "more", "gone"}
    MainFile = "main"
    Option = {"server-port", "server-url", "server-name", "video-fps", "control-enabled",
              "control-port", "control-proto", "control-send-mouse-motion",
              "display", "find-window-name", "video-encoder", "video-decoder", "audio-encoder",
              "audio-decoder", "video-specific"}
    Value <- MCValue
    MaxOpen = 3
    Texts <- MCTexts
    Urls <- MCUrls
    NoUrl = NoUrl
    NoPort = NoPort
    strtol <- MCstrtol
    TrueWords = {"yes"}
    FalseWords = {"no", "0"}
    NoRect = NoRect
    NoKey = NoKey
    Anywhere = Anywhere
    Machines <- MCMachines
    Desktops <- MCDesktops
    Required = {"video-fps"}
    Invalid = "bad"
    codecs <- MCcodecs
    Encoders = {"x264", "aac"}
    Decoders = {"h264"}
    Hosts = {"b"}
    Buffer = {b1, b2, b3}
    Producer = {p1, p2}
    Consumer = {c1, c2}
    Frame = {f1, f2}
    NoFrame = NoFrame
    NULL = NULL
SYMMETRY Symmetry
CHECK_DEADLOCK FALSE
INVARIANTS
    OnePlace
    ConfigMeansText
    FrameShowsWindow
    PointerHitsPixel
    PlanesFit
    StartsWell
PROPERTY
    ImplementsLossyQueue
