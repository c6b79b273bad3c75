\* Two calling threads, a list that grows to three entries, four hashes.
CONSTANTS
    c1 = c1 c2 = c2 s1 = s1 s2 = s2 s3 = s3
    None = None
    Callers = {c1, c2}
    Services = {s1, s2}
    Placements <- Hashes
    MaxEntries = 3
    Copies = 4
    Base = 2
    Size = 16
SPECIFICATION Spec
INVARIANTS TypeOK ClockwiseNext Consistent LabelsStay
PROPERTIES OwnService FailsOnlyCrossed
