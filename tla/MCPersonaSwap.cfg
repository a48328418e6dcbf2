CONSTANTS
    Personas = {"aris", "twin", "ian", "guest", "mute"}
    Boot = "aris"
    Ckpts = {"w1", "w2", "w3"}
    CkptOf <- MCCkptOf
    Langs = {"ja", "ko", "en"}
    LangOf <- MCLangOf
    Blank = "blank"
    ConfigLang = "ko"
    ToneNames = {"base", "calm"}
    TonesOf <- MCTonesOf
    Requests = {"r1", "r2", "r3"}
SPECIFICATION SwapSpec
INVARIANTS
    SwapTypeOK
    OneIdentity
PROPERTIES
    TurnUndisturbed
    WaitersServed
