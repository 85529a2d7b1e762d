SPECIFICATION MCSpec
CONSTANTS
    Wallets = {a, b}
    ChainOps = {"Swap"}
    Reveals = {"RevealSeed"}
    Settings = {"s"}
    MaxAuth = 2
    MaxOps = 2
    Phrases <- TwoPhrases
    RecordTexts <- OneRecord
    Texts <- UserTexts
    MaxRetries = 1
    MaxCopies = 2
    MaxClipFaults = 2
SYMMETRY WalletSymmetry
INVARIANTS OnlyWhatWasConfirmed SessionIsConsistent 
 
