SPECIFICATION FairSpec
CONSTANTS
    Width = 4
    Height = 2
    TabWidth = 2
    Texts <- MCTexts
    MaxLength = 5
INVARIANTS
    TypeOK
    ScreenShowsText
PROPERTY
    HaltsWhenItFits
CHECK_DEADLOCK FALSE
