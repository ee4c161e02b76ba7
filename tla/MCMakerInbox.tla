---------------------------- MODULE MCMakerInbox ----------------------------
EXTENDS MakerInbox

CONSTANTS o1, o2
=============================================================================
