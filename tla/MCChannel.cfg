SPECIFICATION ChannelSpec
CONSTANTS
    r1 = r1  r2 = r2  r3 = r3  ana = ana  bia = bia
    w1 = w1  w2 = w2
    k1 = k1  k2 = k2  d1 = d1  d2 = d2
    ChannelParts = {"state", "receipts", "turn"}
    Requests = {r1, r2, r3}
    Actors = {ana, bia}
    By <- MCBy
    Nobody = Nobody
    MaxMessages = 2
    Texts = {w1, w2}
    Said = {k1, k2}
    Posts = {d1, d2}
    MaxDialogue = 6
SYMMETRY Alike
INVARIANTS
    ChannelTypeOK
    NothingIsForgotten
    WaitingHasTicket
    PostsCountOnce
PROPERTIES
    NeverDowngrades
    WritesAreDeliberate
CHECK_DEADLOCK FALSE
