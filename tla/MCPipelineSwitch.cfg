SPECIFICATION Spec
CONSTANTS
    Screens = {"page", "vault"}
    AppOf <- App
    ImageOf <- Image
    TextOf <- Text
    Blocked = {"vault"}
    SkipFrame = {}
    UrlOnly = {"listing"}
    SafeText = {"a", "c", "d"}
    Threshold = 3
    Window = 2
    MaySwitch = TRUE
INVARIANT BlockedNeverStored
