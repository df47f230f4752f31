------------------------- MODULE MCMessageDispatch -------------------------
(* Instances of MessageDispatch for TLC.                                    *)
EXTENDS MessageDispatch, TLC

\* Workers are interchangeable, and so are messages: no action names one.
WorkerSymmetry == Permutations(Workers)

=============================================================================
