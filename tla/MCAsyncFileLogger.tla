-------------------------- MODULE MCAsyncFileLogger --------------------------
(* Small instances of AsyncFileLogger for TLC.                             *)
EXTENDS AsyncFileLogger

MCAnyStopFlag == BOOLEAN
MCNoStopFlag == {FALSE}

=============================================================================
