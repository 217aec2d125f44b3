\* Two workers use the store at the same time.
SPECIFICATION Spec
CONSTANTS
    w1 = w1  w2 = w2  r1 = r1  o1 = o1  t0 = t0  t1 = t1
    Workers = {w1, w2}
    Remote = {r1}
    Own = {o1}
    Texts <- MCTexts
    Original <- MCOriginal
    HasMedia = {r1}
    NoText = NoText  NullText = NullText  NoRow = NoRow  NoMessage = NoMessage  Nobody = Nobody
    MaxEvents <- MCEventsShared
SYMMETRY MCSymmetry
INVARIANTS
    ReferentialIntegrity
    TombstoneHasNoText
    GramsOfIndexedText
    JournalExplainsRow
