------------------------- MODULE MCProgrammingSession -------------------------
\* Small instances of ProgrammingSession for TLC.
EXTENDS ProgrammingSession

CONSTANTS r1, r2, w1  \* two reads and a write

JustReads == {r1, r2}
OneOfEach == {r1, w1}
All == {r1, r2, w1}
OneRead == {r1}
OneDump == {r2}
TwoTokens == {NoToken, "alice"}
NullToken == {NoToken}
=============================================================================
