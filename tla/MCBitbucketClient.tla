------------------------- MODULE MCBitbucketClient -------------------------
\* Two calls share a client and three attempts are what do makes.
EXTENDS BitbucketClient
=============================================================================
