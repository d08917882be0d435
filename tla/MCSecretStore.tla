--------------------------- MODULE MCSecretStore ---------------------------
\* Instances of SecretStore for TLC.
EXTENDS SecretStore

\* Names 1 and 2 differ in the user only.
MCPlace == <<1, 1, 2>>

AtMost(conns, edits, faults, crashes) ==
    [conns |-> conns, edits |-> edits, faults |-> faults, crashes |-> crashes]
MCLimits == {AtMost({1}, 2, 1, 0), AtMost({1}, 1, 1, 1),
             AtMost({1, 2}, 1, 1, 0), AtMost({1, 2}, 0, 2, 1)}
=============================================================================
