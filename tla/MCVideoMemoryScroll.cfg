SPECIFICATION FairSpec
CONSTANTS
    Width = 4
    Height = 2
    TabWidth = 2
    Texts <- KernelTexts
    MaxLength = 0
PROPERTY
    Halts
CHECK_DEADLOCK FALSE
