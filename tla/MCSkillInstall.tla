---------------------------- MODULE MCSkillInstall ----------------------------
EXTENDS SkillInstall, TLC

(* No directory, files of the user's own, and with the marker of the first *)
(* release, that release as it was, and the second one.                    *)
MCUserDirs ==
    {[files |-> Mine, marker |-> NoMarker], [files |-> Mine, marker |-> 1],
     [files |-> 1, marker |-> 1], [files |-> 2, marker |-> 2]}
=============================================================================
