\* An empty disk, or one of an earlier release; the server and two commands.
SPECIFICATION LiveSpec
CONSTANTS
    Server = server
    Commands = {c1, c2}
    Statements <- MCStatements
    MaxDeaths = 2
    Names = {ana, bob}
    Requests = {q1, q2}
    Nobody = Nobody
INVARIANT SchemaSound
PROPERTIES SetupIsFirst InstallationEnds
