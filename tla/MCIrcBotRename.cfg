CONSTANTS
    Chans = {"#a", "#b"}
    Names = {"bot", "al", "bo"}
    Me = "bot"
    MaxTime = 2
    Scenarios <- MCOneChan
    NoSet = NoSet
SPECIFICATION Spec
PROPERTY
    RenameKeepsHistory
