\* A histogram of two buckets over a deploy.
SPECIFICATION Spec
CONSTANTS
    attempts = attempts
    le1 = le1
    leInf = leInf
    Series <- MCSeries
    Observations <- MCObservations
    Feeds <- MCFeeds
    Families <- MCFamilies
    MaxCount = 5
    MaxDeploys = 1
INVARIANT
    BucketsStayCumulative
