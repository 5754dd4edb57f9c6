---------------------------- MODULE MCSecureSession ----------------------------
EXTENDS SecureSession

CONSTANTS Key1, Key2

MCSessionKeys == {Key1, Key2}

\* Where the run stops: everything it checks but the types is about a client to
\* which no Disconnect has come yet.
StillInSession == ~dismissed
===============================================================================
