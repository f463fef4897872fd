SPECIFICATION FairSpec
CONSTANTS
    None = None
    r1 = r1
    r2 = r2
    Items <- TwoItems
    Readers = {r1, r2}
    Settings <- SoundSettings
    MaxVersion = 3
INVARIANT TypeOK
INVARIANT DeliveredWhenAnswered
PROPERTY NoSpuriousEventsInOrder
PROPERTY EventuallyTold
