------------------------ MODULE MC_ConfirmCoordinator ------------------------
\* Three surfaces race with an expiring deadline, an exhausted channel set and a
\* cancelled caller.  One choice is plain, one is remembered.
EXTENDS ConfirmCoordinator
=============================================================================
