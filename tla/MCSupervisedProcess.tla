------------------------ MODULE MCSupervisedProcess ------------------------
(* A small instance of SupervisedProcess: a grace of four units, of which    *)
(* deadlineWithReserve keeps one.                                            *)
EXTENDS SupervisedProcess
=============================================================================
