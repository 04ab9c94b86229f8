SPECIFICATION FairSpec
CONSTANTS
    r1 = r1  r2 = r2  r3 = r3  k1 = k1  k2 = k2
    plain = plain  reordered = reordered  other = other  bad = bad  garbled = garbled
    h1 = h1  h2 = h2  h3 = h3
    NoKey = NoKey  NoHash = NoHash  NoOrder = NoOrder
    Hashes = {h1, h2, h3}
    Hash <- MCHashOf
    Requests = {r1, r2}
    Keys = {k1}
    Bodies = {plain, bad}
    Malformed = {}
    Refused = {bad}
    Instances = {i1, i2}
    Faults = {"disconnect", "db", "crash", "panic", "handdelete"}
INVARIANTS AtMostOneOrder CompletedIffOrder RepliesAgree
PROPERTIES CompletedIsFinal EveryRequestEnds
