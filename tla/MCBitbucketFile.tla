--------------------------- MODULE MCBitbucketFile ---------------------------
EXTENDS BitbucketFile, TLC

CONSTANTS text, bytes

\* One good text and the mistakes; other contents come from people and GetFile.
MCFresh == {[text |-> text, base64 |-> NoField], [text |-> NoField, base64 |-> NoField],
            [text |-> text, base64 |-> bytes], [text |-> NoField, base64 |-> Garbage]}

Symmetry == Permutations(Calls) \cup Permutations(Branches)
=============================================================================
