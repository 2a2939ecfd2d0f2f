\* Ranks, settings and long lines, by members, an IRC operator and a service.
CONSTANTS
    alice = alice  bob = bob  cs = cs  sal = sal  mask = mask  five = five  word = word
    User = {alice, bob, cs, sal}
    InChannel = {alice, bob}
    Oper = {sal}
    Service = {cs}
    Mask = {mask}
    Number = {five}
    Word = {word}
    None = None
    Zero = Zero
    Plays <- AllPlays
    InitRank <- OwnerAndVoice
    MaxParams = 2
    MaxWire = 1
SPECIFICATION Spec
CHECK_DEADLOCK FALSE
INVARIANTS EndsAgree
PROPERTIES SetterBound
