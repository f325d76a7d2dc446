\* The client adds a member and reads its own Commit back.
CONSTANTS
    MaxSends = 5
    MaxIncarnations = 2
SPECIFICATION Spec
INVARIANT ClientFollowsCommits
