SPECIFICATION Spec
CONSTANTS
    Size = 3
    MaxKeys = 7
PROPERTIES
    KeysAreMeant
    IsKeyStream
    KeysArrive
