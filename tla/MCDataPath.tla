----------------------------- MODULE MCDataPath -------------------------------
(* Instances of DataPath: a buffer of two bytes, a bounce of one or two and  *)
(* requests of up to two, so that a call takes several rounds, fills the     *)
(* buffer and finds it fuller or emptier than it was.                       *)
EXTENDS DataPath

MCNoLimit == {0}
MCNoneOrTwo == {0, 2}
MCLimit == {2}
MCBatches == {0, 2}
MCNone == {}
==============================================================================
