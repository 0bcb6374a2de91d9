SPECIFICATION Spec
CONSTANTS
    Screens = {"page", "animated", "signin", "vault", "listing", "newtab"}
    AppOf <- App
    ImageOf <- Image
    TextOf <- Text
    Blocked = {"vault"}
    SkipFrame = {"newtab"}
    UrlOnly = {"listing", "signin"}
    SafeText = {"a", "d"}
    Threshold = 3
    Window = 1
    MaySwitch = FALSE
PROPERTY NoStoredBurst
