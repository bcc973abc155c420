SPECIFICATION LiveSpec
CONSTANTS
    device = device
    service = service
    root_usn = root_usn
    uuid_usn = uuid_usn
    service_usn = service_usn
    loc1 = loc1
    loc2 = loc2
    USNs <- MCUSNs
    Keys <- MCKeys
    KeyOf <- MCKeyOf
    Locations = {loc1, loc2}
    Provides <- MCProvides
    NoDoc = NoDoc
    GUPNP_MAX_DESCRIPTION_DOWNLOAD_RETRIES = 3
    GUPNP_INITIAL_DESCRIPTION_RETRY_TIMEOUT = 5
    MaxGets = 2
    Outcomes = {"ok", "failure", "timed-out", "error", "unparsable"}
INVARIANTS OneOfEach
PROPERTIES AnnouncedIsReported ReleasedIsDisposed FinalForFirstTries
CHECK_DEADLOCK FALSE
