SPECIFICATION Spec
CONSTANTS
    red = red
    black = black
    twin = twin
    NumDevices = 2
    Identity <- Twins
    Sizes = {1, 2}
    DefaultSize = 1
    Colors = {red}
    Black = black
    MaxResizes = 1
    MaxRestarts = 1
PROPERTIES
    SettingsKept
