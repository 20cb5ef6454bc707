SPECIFICATION Spec
CONSTANTS
    Small <- EndsOfInt8
    Whole <- EndsOfInts
    FloatText <- SomeFloatText
    Content <- SomeContents
    FracBits = 5
    SecBits = 4
    Mantissa = 7
    PerSecond = 10
    MaxExponent = 20
INVARIANT
    LengthOfText
