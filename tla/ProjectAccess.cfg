CONSTANTS
    Tasks = {t1, t2}
    Paths = {"f"}
    Credentials = {"c1", "c2"}
    Archives <- MCArchives
    Objects <- MCObjects
    MaxChanges = 1
    MaxFaults = 1
SPECIFICATION Spec
INVARIANTS ExposedIsVerified AnswersAgree OneTransfer ResponseAsDocumented
PROPERTIES RetrySucceeds
