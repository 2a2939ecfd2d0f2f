\* A key taken off on one line with an op given.
CONSTANTS
    alice = alice  bob = bob  cs = cs  sal = sal  mask = mask  five = five  word = word
    User = {alice, bob, cs, sal}
    InChannel = {alice, bob}
    Oper = {sal}
    Service = {cs}
    Mask = {mask}
    Number = {five}
    Word = {word}
    None = None
    Zero = Zero
    Plays <- KeyPlay
    InitRank <- OwnerAndVoice
    MaxParams = 2
    MaxWire = 1
SPECIFICATION Spec
CHECK_DEADLOCK FALSE
INVARIANTS InSync
