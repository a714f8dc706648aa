SPECIFICATION FairSpec
CONSTANTS
    Ingresses = {i1}
    Tasks = {t1}
    MaxDrops = 0
    Nobody = Nobody
    Job = job
    AsrSessions = {a}
    TtsSessions = {v}
    Callers = {job, a, v}
    Evictor = evictor
    SpeechKey = speech
    SeedKey = seed
    FileAsrKey = fileasr
    LiveAsrKey = liveasr
    Keys = {speech, seed, fileasr, liveasr}
    Bundles = {b1, b2}
    Ousted = Ousted
    None = None
INVARIANTS
    TypeOK
    MarkIsAccountedFor
PROPERTIES
    TtlSparesTheLoneUser
    OneBundleAtATime
    EveryTaskTakenEnds
CHECK_DEADLOCK FALSE
