SPECIFICATION LiveSpec
CONSTANTS
    s1 = s1
    s2 = s2
    s3 = s3
    Sessions = {s1, s2}
    MaxAttachment = 4
    Nothing = Nothing
INVARIANTS ProjectionFollowsAttachment RegistrationsAreExact
PROPERTIES ClientSettles
CHECK_DEADLOCK FALSE
