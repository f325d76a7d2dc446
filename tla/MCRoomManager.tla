--------------------------- MODULE MCRoomManager ---------------------------
(* Model-checking instance of RoomManager: the frame sets clients put on   *)
(* streams, as definitions the .cfg files select.                          *)
EXTENDS RoomManager

\* Well-formed frames: only a Commit carries a change; Commit and Proposal
\* signatures are MLS-internal, so only an AppMessage may carry a bad one.
AnyFrames ==
    { f \in Frame : /\ (f.op = "Commit") = (f.change # NoChange)
                    /\ f.op # "AppMessage" => f.sig }

\* Frames of honest clients without commits: valid AppMessages and Proposals.
HonestAppFrames == { f \in AnyFrames : f.op # "Commit" /\ f.sig }

\* Commits only.
CommitFrames == { f \in AnyFrames : f.op = "Commit" }

\* Members and stream tasks are interchangeable: no definition names one.
Symmetric == Permutations(Members) \cup Permutations(Tasks)
=============================================================================
