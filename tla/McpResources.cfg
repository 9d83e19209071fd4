SPECIFICATION Spec
CONSTANTS
    Chars <- MCChars
    NameChars <- MCNameChars
    Batches <- MCBatches
    Resources <- MCResources
    Uris <- MCUris
    Values <- MCValues
    MaxTemplates = 2
INVARIANTS CompileExact CaptureSound BuiltIsFound
