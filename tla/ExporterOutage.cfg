\* A scrape fails.
SPECIFICATION Spec
CONSTANTS
    attempts = attempts
    le1 = le1
    leInf = leInf
    Series <- OneSeries
    Observations <- OneObservation
    Feeds <- OneFeeds
    Families <- OneFamily
    MaxCount = 3
    MaxDeploys = 1
PROPERTY
    LastGoodPayloadServed
