\* One worker uses the store; it may crash and fail at any step.
SPECIFICATION Spec
CONSTANTS
    w1 = w1  w2 = w2  r1 = r1  o1 = o1  t0 = t0  t1 = t1
    Workers = {w1}
    Remote = {r1}
    Own = {o1}
    Texts <- MCTexts
    Original <- MCOriginalBare
    HasMedia = {r1, o1}
    NoText = NoText  NullText = NullText  NoRow = NoRow  NoMessage = NoMessage  Nobody = Nobody
    MaxEvents <- MCEvents
INVARIANTS
    IngestedOnce
    ReadersAgree
PROPERTIES
    FollowsLifecycle
